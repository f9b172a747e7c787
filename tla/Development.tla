----------------------------- MODULE Development -----------------------------
(***************************************************************************)
(* How a developer runs an application: under the development server          *)
(* (DevServer), or as a process of its own that writes route comments or      *)
(* restarts itself when its sources change (HotRestart).  Both use the same   *)
(* watcher on the same files.                                                 *)
(***************************************************************************)
EXTENDS DevServer, HotRestart

VARIABLE mode    \* "dev" or "app"

vars == <<mode, treeVars, watch, devVars, hotVars>>

Dev(A) == mode = "dev" /\ A /\ UNCHANGED <<mode, hotVars>>

App(A) == mode = "app" /\ A /\ UNCHANGED <<mode, devVars>>

Init ==
    \/ mode = "dev" /\ DevInit /\ HotIdle
    \/ mode = "app" /\ HotInit /\ DevIdle

Next == Dev(DevNext) \/ App(HotNext)

\* Timers fire, imports settle, starting a server and spawning a process return.
Fairness ==
    /\ WF_vars(Dev(WatchStep)) /\ WF_vars(Dev(Changed))
    /\ \A l \in 1..MaxLoads : WF_vars(Dev(l \in DOMAIN loads /\ LoadStep(l)))
    /\ WF_vars(App(HotWatchStep)) /\ WF_vars(App(HotChange))
    /\ WF_vars(App(Spawn \/ Boot \/ Compile \/ Start))

Spec == Init /\ [][Next]_vars /\ Fairness

\* One type invariant for both ways of running.
TypeOK == DevTypeOK /\ HotTypeOK

\* Whatever loads overlap, fail or are refused, a server that is open has the code and the
\* manifest of one snapshot (dev/index.js:263-274, index.js:1865-1879).
ServedSound == TypeOK /\ SnapshotInForce

\* A development server and a process that were closed stay closed (dev/index.js:388-401,
\* dev/hot-reload.js:79-85).
ClosedStays ==
    [][DevNothingAfterClose' /\ (proc.pc = "stopped" => proc'.pc # "restarting")]_vars

\* An edit that nobody has seen is taken up, by a load or by a new process
\* (dev/hot-reload.js:47-71).
EditsTakenUp == EditServed /\ HotEditRuns
=============================================================================
