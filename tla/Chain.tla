--------------------------------- MODULE Chain ---------------------------------
(***************************************************************************)
(* What a route's middlewares promise to its handler: each lets the request   *)
(* on in turn, the handler runs only when all of them have, and the request   *)
(* is answered in the end.  The promise ends where a middleware of the        *)
(* application lets go of the request: returns without answering it and       *)
(* without waiting for the middlewares behind it.                             *)
(***************************************************************************)
EXTENDS Naturals

VARIABLES
    length,      \* middlewares of the route
    admitted,    \* how many of them let the request on
    loose,       \* did one let go of it?
    outcome      \* "none" (no request), "pending", "handling", "answered"

chain == <<length, admitted, loose, outcome>>

Init ==
    /\ length \in Nat /\ admitted = 0 /\ loose = FALSE
    /\ outcome \in {"none", "pending"}

Admit ==
    /\ outcome = "pending" \/ (loose /\ outcome # "none")
    /\ admitted < length
    /\ admitted' = admitted + 1
    /\ loose' \in {loose, TRUE}
    /\ UNCHANGED <<length, outcome>>

LetGo == outcome = "pending" /\ loose' = TRUE /\ UNCHANGED <<length, admitted, outcome>>

Handle ==
    /\ outcome = "pending" /\ (admitted = length \/ loose)
    /\ outcome' = "handling" /\ UNCHANGED <<length, admitted, loose>>

Answer ==
    /\ outcome \in {"pending", "handling"}
    /\ outcome' = "answered" /\ UNCHANGED <<length, admitted, loose>>

Next == Admit \/ LetGo \/ Handle \/ Answer

Spec == Init /\ [][Next]_chain /\ WF_chain(Answer)
=============================================================================
