--------------------------- MODULE WatchController ---------------------------
(***************************************************************************)
(* The polling file watcher (src/src/dev/hot-reload.js,                       *)
(* createDevWatchController) of the development server and of the runtime     *)
(* hot reload.                                                                *)
(*                                                                         *)
(* A snapshot holds path, mtime, size and hash of every watched file, so that *)
(* no two states of the tree share one: a snapshot is the number of writes so *)
(* far.  Every set of roots watched here contains the application's sources.  *)
(***************************************************************************)
EXTENDS Naturals

VARIABLES
    tree,        \* what is on disk
    rev,         \* number of writes so far
    watch        \* the watch controller

treeVars == <<tree, rev>>

NoWatch == [live |-> FALSE, roots |-> 0, previousSnapshot |-> 0, ready |-> FALSE,
            restartTimer |-> FALSE]

\* createDevWatchController: the snapshot is taken now, and polls are ignored
\* until the startup delay has passed.
Created(roots) == [NoWatch EXCEPT !.live = TRUE, !.roots = roots, !.previousSnapshot = rev]

\* dispose(): no further poll, and the debounce timer is cleared.
Disposed(w) == [w EXCEPT !.live = FALSE, !.restartTimer = FALSE]

\* startupIgnoreMs have passed.
StartupOver ==
    /\ watch.live /\ ~watch.ready
    /\ watch' = [watch EXCEPT !.ready = TRUE]
    /\ UNCHANGED treeVars

\* snapshotWatchedFiles and diffSnapshots: some watched file appeared, went away
\* or has another size, time or hash.
Differs(w) == rev # w.previousSnapshot

\* Mutant: a poll records the change and does not arm the timer.
PollSwallows ==
    /\ watch.live /\ watch.ready /\ Differs(watch)
    /\ watch' = [watch EXCEPT !.previousSnapshot = rev]
    /\ UNCHANGED treeVars

\* The interval callback: a difference (re)starts the debounce timer.
Poll ==
    /\ watch.live /\ watch.ready /\ Differs(watch)
    /\ watch' = [watch EXCEPT !.previousSnapshot = rev, !.restartTimer = TRUE]
    /\ UNCHANGED treeVars

\* The debounce timer has fired; its callback is onChange of the owner.
TimerFired(w) == [w EXCEPT !.restartTimer = FALSE]
=============================================================================
