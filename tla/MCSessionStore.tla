---------------------------- MODULE MCSessionStore ----------------------------
(* SessionStore for TLC: clients, request slots and fields are interchangeable. *)
EXTENDS SessionStore, TLC

Symmetry == Permutations(Clients) \cup Permutations(Requests) \cup Permutations(Fields)
=============================================================================
