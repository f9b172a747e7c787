---------------------------- MODULE MCConnection ----------------------------
(* Instances of Connection for model checking. *)
EXTENDS Connection, TLC

Shape(hdr, body, kind, keep) == [hdr |-> hdr, body |-> body, kind |-> kind, keep |-> keep]

\* Plain, split header, body, Connection: close, refused, malformed, upgrade.
AllShapes ==
    {Shape(1, 0, "http", TRUE), Shape(2, 0, "http", TRUE), Shape(1, 2, "http", TRUE),
     Shape(1, 1, "http", TRUE), Shape(1, 3, "http", TRUE),
     Shape(1, 0, "http", FALSE), Shape(1, 0, "te", TRUE), Shape(1, 0, "bad", TRUE),
     Shape(1, 0, "ws", TRUE)}

\* For two connections that share the pool.
PlainShapes == {Shape(1, 0, "http", FALSE), Shape(2, 1, "http", TRUE)}

Symmetry == Permutations(Conns)
=============================================================================
