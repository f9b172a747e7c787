----------------------------- MODULE MCRateLimit -----------------------------
(* RateLimit with three storage keys in two namespaces. *)
EXTENDS RateLimit

MCNamespace == [k \in {"k1", "k2", "k3"} |-> IF k = "k3" THEN "n2" ELSE "n1"]
=============================================================================
