------------------------------ MODULE DevServer ------------------------------
(***************************************************************************)
(* createDevServer (src/src/dev/index.js): every change of the watched files, *)
(* and every reload(), runs loadEntry, which copies the workspace, imports    *)
(* the entry and hands its app to the running server (start on the first      *)
(* load, replace and native reload afterwards).  Loads are not serialised:    *)
(* a slow import overlaps the next one, reload() and close().                 *)
(*                                                                         *)
(* Compiled snapshots of the application are numbered as they are compiled;   *)
(* the dispatcher of a server holds one, the native side the manifest of one. *)
(* An entry exports its app, or starts itself and awaits app.listen().        *)
(***************************************************************************)
EXTENDS WatchController, Sequences, SequencesExt, FiniteSets

CONSTANTS
    Contents,     \* what a write may leave in the entry
    MaxWrites,    \* bound: writes in a behaviour
    MaxLoads,     \* bound: loads in a behaviour
    MaxRunning    \* bound: loads that run at the same time

\* "exports": the entry exports an app; "selfStarts": it calls app.listen();
\* "throws": its evaluation fails; "refused": it exports an app whose manifest
\* the native side refuses.
Kinds == {"exports", "selfStarts", "throws", "refused"}

ASSUME DevServerAssumption ==
    /\ MaxWrites \in Nat /\ MaxLoads \in Nat \ {0} /\ MaxRunning \in Nat \ {0}
    /\ Contents \subseteq [kind : Kinds, roots : Nat]

VARIABLES
    loads,               \* the calls of loadEntry, by number
    context,             \* globalThis.__HTTP_NATIVE_DEV_CONTEXT__: a load, or 0
    observedSelfStart,
    snaps,               \* the revision each compiled snapshot was built from
    disposed,            \* the snapshots disposeCompiledSnapshot was called on
    servers,             \* [open, code, manifest]: the native servers started
    currentServer,       \* number of the server held, or 0
    state,               \* currentStatus.state
    closing,             \* where close() is: "no", "awaiting" or "ended"
    overlapped,          \* history: two loads ran at once
    closedLoading        \* history: close() was called while a load ran

loadVars == <<loads, context, observedSelfStart>>
snapVars == <<snaps, disposed, servers, currentServer>>
histVars == <<overlapped, closedLoading>>
devVars == <<loadVars, snapVars, histVars, state, closing>>

closed == closing # "no"

Running == {l \in DOMAIN loads : loads[l].pc \notin {"done", "failed"}}

Entry(l) == loads[l].entry

-----------------------------------------------------------------------------
(* The end of a load *)

\* Mutant: the finally block leaves the context of the load in place.
RestoredNot(l) == context

\* The finally block: the context that was there when this load began.
Restored(l) == loads[l].previousContext

Goto(l, pc) == loads' = [loads EXCEPT ![l].pc = pc]

\* The catch block.  When the first load fails, createDevServer itself throws.
Failed(l) ==
    /\ Goto(l, "failed")
    /\ context' = Restored(l)
    /\ state' = "error"

\* The same roots, element by element, and the same delay.
SameConfig(w, roots) == w.live /\ w.roots = roots

\* ensureWatchController: a controller with another configuration is replaced.
Ensured(w, roots) == IF SameConfig(w, roots) THEN w ELSE Created(roots)

Succeeded(l) ==
    /\ watch' = Ensured(watch, loads[l].roots)
    /\ Goto(l, "done")
    /\ context' = Restored(l)
    /\ state' = "ready"

-----------------------------------------------------------------------------
(* loadEntry *)

\* buildImportUrl: the workspace is copied, so that an import sees one revision.
buildImportUrl == [rev |-> rev, entry |-> tree]

\* resolveApplication: the module exports an app, or a factory of one.
resolveApplication(l) == Entry(l).kind # "selfStarts"

\* The roots that the reload options of the app ask to be watched.
normalizeReloadOptions(l) == Entry(l).roots

\* updateStatus at the start of a load.
LoadingState(type) == IF type = "initial" THEN "starting" ELSE "reloading"

\* Up to the await of import(): what is imported is what is on disk now; the
\* context of this load replaces the one it found.
loadEntry(type) ==
    /\ Len(loads) < MaxLoads /\ Cardinality(Running) < MaxRunning
    /\ observedSelfStart' = FALSE
    /\ loads' = Append(loads, [pc |-> "import", type |-> type,
                               rev |-> buildImportUrl.rev, entry |-> buildImportUrl.entry,
                               previousContext |-> context, roots |-> 0, snap |-> 0])
    /\ context' = Len(loads) + 1
    /\ state' = LoadingState(type)
    /\ overlapped' = (overlapped \/ Running # {})
    /\ UNCHANGED <<snapVars, closing, closedLoading>>

\* _reloadCompiledSnapshot: the dispatcher is given the next snapshot, the
\* native side its manifest, and the previous snapshot is disposed of.
Reload(s, next) ==
    /\ servers' = [servers EXCEPT ![s].code = next, ![s].manifest = next]
    /\ disposed' = disposed \cup {servers[s].code}

\* Mutant: a refused reload leaves the new snapshot with the dispatcher.
ReloadRefusedUnrestored(s, next) ==
    /\ servers' = [servers EXCEPT ![s].code = next]
    /\ disposed' = disposed \cup {next}

\* The native side throws: the dispatcher gets its snapshot back.
ReloadRefused(s, next) ==
    /\ UNCHANGED servers
    /\ disposed' = disposed \cup {next}

\* applyApplication with a server at hand: compile and swap, synchronously; the
\* app is the loadedApp of the load called owner.
applyToServer(l, owner, pc) ==
    LET next == Len(snaps) + 1 IN
    /\ currentServer # 0
    /\ snaps' = Append(snaps, loads[l].rev)
    /\ \/ /\ Entry(l).kind # "refused"
          /\ Reload(currentServer, next)
          /\ loads' = [loads EXCEPT ![l].pc = pc, ![owner].roots = normalizeReloadOptions(l)]
          /\ UNCHANGED <<context, state>>
       \/ Entry(l).kind = "refused" /\ ReloadRefused(currentServer, next) /\ Failed(l)
    /\ UNCHANGED currentServer

\* applyApplication without one: the compiled app waits for the port test and
\* the native start.
applyStarts(l, owner, pc) ==
    /\ currentServer = 0
    /\ snaps' = Append(snaps, loads[l].rev)
    /\ loads' = [loads EXCEPT ![l].pc = pc, ![l].snap = Len(snaps) + 1,
                              ![owner].roots = normalizeReloadOptions(l)]
    /\ UNCHANGED <<servers, disposed, currentServer, context, state>>

applyApplication(l, owner, now, later) ==
    applyToServer(l, owner, now) \/ applyStarts(l, owner, later)

\* The module throws while it is evaluated.
ImportThrows(l) ==
    /\ loads[l].pc = "import" /\ Entry(l).kind = "throws"
    /\ Failed(l)
    /\ UNCHANGED <<treeVars, watch, observedSelfStart, snapVars, closing, histVars>>

\* The module calls app.listen(), which finds a dev context and registers with
\* it, whichever load that context belongs to.
ModuleListens(l) ==
    /\ loads[l].pc = "import" /\ Entry(l).kind = "selfStarts" /\ context # 0
    /\ observedSelfStart' = TRUE
    /\ applyApplication(l, context, "evaluated", "listening")
    /\ UNCHANGED <<treeVars, watch, closing, histVars>>

\* Without a context listen() starts a server the dev server does not hold.
ModuleListensAlone(l) ==
    /\ loads[l].pc = "import" /\ Entry(l).kind = "selfStarts" /\ context = 0
    /\ snaps' = Append(snaps, loads[l].rev)
    /\ servers' = Append(servers, [open |-> TRUE, code |-> Len(snaps) + 1,
                                   manifest |-> Len(snaps) + 1])
    /\ Goto(l, "evaluated")
    /\ UNCHANGED <<treeVars, watch, context, observedSelfStart, disposed, currentServer, state,
                   closing, histVars>>

\* The import has settled.  Unless some app registered itself since a load last
\* began, the exported app is applied; a self-starting module exports none.
ImportEnds(l) ==
    /\ \/ loads[l].pc = "evaluated"
       \/ loads[l].pc = "import" /\ Entry(l).kind \in {"exports", "refused"}
    /\ \/ observedSelfStart /\ Succeeded(l) /\ UNCHANGED snapVars
       \/ /\ ~observedSelfStart /\ ~resolveApplication(l)
          /\ Failed(l) /\ UNCHANGED <<snapVars, watch>>
       \/ /\ ~observedSelfStart /\ resolveApplication(l)
          /\ applyApplication(l, l, "finish", "starting") /\ UNCHANGED watch
    /\ UNCHANGED <<treeVars, observedSelfStart, closing, histVars>>

\* startCompiledServer returned: its handle becomes the server held.
Started(l) ==
    /\ loads[l].pc \in {"starting", "listening"} /\ Entry(l).kind # "refused"
    /\ servers' = Append(servers, [open |-> TRUE, code |-> loads[l].snap,
                                   manifest |-> loads[l].snap])
    /\ currentServer' = Len(servers) + 1
    /\ Goto(l, IF loads[l].pc = "starting" THEN "finish" ELSE "evaluated")
    /\ UNCHANGED <<treeVars, watch, context, observedSelfStart, snaps, disposed, state, closing,
                   histVars>>

\* The port is taken or the native start throws.
StartFails(l) ==
    /\ loads[l].pc \in {"starting", "listening"}
    /\ Failed(l)
    /\ UNCHANGED <<treeVars, watch, observedSelfStart, snapVars, closing, histVars>>

\* loadEntry goes on after the await of applyApplication.
Finish(l) ==
    /\ loads[l].pc = "finish"
    /\ Succeeded(l)
    /\ UNCHANGED <<treeVars, observedSelfStart, snapVars, closing, histVars>>

-----------------------------------------------------------------------------
(* Who calls loadEntry, and close *)

\* onChange of the watch controller.
Changed ==
    /\ watch.restartTimer
    /\ watch' = TimerFired(watch)
    /\ \/ closed /\ UNCHANGED devVars
       \/ ~closed /\ loadEntry("reload")
    /\ UNCHANGED treeVars

\* createDevServer returns the controller once the first load has ended well.
HasController == loads[1].pc = "done"

ManualReload ==
    /\ HasController /\ ~closed
    /\ loadEntry("reload")
    /\ UNCHANGED <<treeVars, watch>>

\* Mutant: close() lets the watch controller go without disposing of it.
CloseKeepsWatch ==
    /\ HasController /\ ~closed
    /\ closing' = "awaiting"
    /\ state' = "closing"
    /\ disposed' = disposed \cup {servers[currentServer].code}
    /\ servers' = [servers EXCEPT ![currentServer].open = FALSE]
    /\ closedLoading' = (Running # {})
    /\ UNCHANGED <<treeVars, watch, loadVars, snaps, currentServer, overlapped>>

\* close() up to its await; the server's close disposes of the dispatcher and
\* returns when the native side has stopped.
Close ==
    /\ HasController /\ ~closed
    /\ closing' = "awaiting"
    /\ state' = "closing"
    /\ watch' = Disposed(watch)
    /\ disposed' = disposed \cup {servers[currentServer].code}
    /\ servers' = [servers EXCEPT ![currentServer].open = FALSE]
    /\ closedLoading' = (Running # {})
    /\ UNCHANGED <<treeVars, loadVars, snaps, currentServer, overlapped>>

CloseEnds ==
    /\ closing = "awaiting"
    /\ closing' = "ended"
    /\ currentServer' = 0
    /\ state' = "closed"
    /\ UNCHANGED <<treeVars, watch, loadVars, snaps, disposed, servers, histVars>>

\* Somebody edits the sources.
Write(c) ==
    /\ rev < MaxWrites
    /\ tree' = c /\ rev' = rev + 1
    /\ UNCHANGED <<watch, devVars>>

-----------------------------------------------------------------------------
DevInit ==
    /\ tree \in Contents /\ rev = 0
    /\ watch = NoWatch
    /\ loads = <<[pc |-> "import", type |-> "initial", rev |-> 0, entry |-> tree,
                 previousContext |-> 0, roots |-> 0, snap |-> 0]>>
    /\ context = 1
    /\ observedSelfStart = FALSE
    /\ snaps = <<>> /\ disposed = {} /\ servers = <<>> /\ currentServer = 0
    /\ state = "starting"
    /\ closing = "no"
    /\ overlapped = FALSE /\ closedLoading = FALSE

\* A process without a dev server is as one whose dev server was closed.
DevIdle ==
    /\ loads = <<>> /\ context = 0 /\ observedSelfStart = FALSE
    /\ snaps = <<>> /\ disposed = {} /\ servers = <<>> /\ currentServer = 0
    /\ state = "closed" /\ closing = "ended" /\ overlapped = FALSE /\ closedLoading = TRUE

LoadStep(l) ==
    \/ ImportThrows(l) \/ ModuleListens(l) \/ ModuleListensAlone(l) \/ ImportEnds(l)
    \/ Started(l) \/ StartFails(l) \/ Finish(l)

WatchStep == (StartupOver \/ Poll) /\ UNCHANGED devVars

DevNext ==
    \/ \E c \in Contents : Write(c)
    \/ WatchStep \/ Changed \/ ManualReload \/ Close \/ CloseEnds
    \/ \E l \in DOMAIN loads : LoadStep(l)

-----------------------------------------------------------------------------
(* Properties *)

DevTypeOK ==
    /\ context \in 0..Len(loads) /\ currentServer \in 0..Len(servers)
    /\ disposed \subseteq DOMAIN snaps
    /\ watch.previousSnapshot <= rev
    /\ state \in {"starting", "reloading", "ready", "error", "closing", "closed"}
    /\ \A l \in DOMAIN loads :
          /\ loads[l].pc \in {"import", "evaluated", "listening", "starting", "finish", "done",
                             "failed"}
          /\ loads[l].previousContext < l /\ loads[l].snap <= Len(snaps)

\* Whatever loads overlap and fail, a server that is open has the code and the
\* manifest of one and the same snapshot, and that snapshot was not disposed of
\* (_reloadCompiledSnapshot takes the code back when the native side refuses).
SnapshotInForce ==
    \A s \in DOMAIN servers :
        servers[s].open => /\ servers[s].code = servers[s].manifest
                           /\ servers[s].code \notin disposed

\* As long as no two loads overlapped: when none is running, status() tells how
\* the last one ended, the server held serves what the last good one read from
\* disk, and no dev context is left behind for a listen() of somebody else.
StatusHonest ==
    LET good == {l \in DOMAIN loads : loads[l].pc = "done"} IN
    ~overlapped /\ Running = {} /\ ~closed =>
        /\ state = IF Last(loads).pc = "done" THEN "ready" ELSE "error"
        /\ context = 0
        /\ good # {} =>
              /\ servers[currentServer].open
              /\ snaps[servers[currentServer].code]
                   = loads[CHOOSE l \in good : \A m \in good : m <= l].rev

\* A close() that found no load under way leaves neither a server nor a watcher
\* that would keep the process alive.
DevNothingAfterClose ==
    closing = "ended" /\ ~closedLoading /\ ~overlapped =>
        ~watch.live /\ \A s \in DOMAIN servers : ~servers[s].open

\* close() leaves nothing running, whatever it interrupts (refuted: a load that
\* is under way starts a server, and a watcher, after the close).
CloseFinal ==
    closing = "ended" => ~watch.live /\ \A s \in DOMAIN servers : ~servers[s].open

Serves(r) == currentServer # 0 /\ snaps[servers[currentServer].code] >= r

Reported(r) == \E l \in DOMAIN loads : loads[l].rev >= r /\ loads[l].pc = "failed"

DevGaveUp == closed \/ overlapped \/ Len(loads) = MaxLoads

\* An edit the watcher has not seen yet, made while no load runs, ends up served
\* or reported as an error, unless the server is closed.
EditServed ==
    \A r \in 1..MaxWrites :
        (rev = r /\ watch.live /\ watch.previousSnapshot < r /\ Running = {})
            ~> (Serves(r) \/ Reported(r) \/ DevGaveUp)

\* The same for an edit made while a load runs (refuted: a load that changes the
\* roots replaces the watcher, whose first snapshot already holds the edit).
EditAlwaysServed ==
    \A r \in 1..MaxWrites :
        (rev = r /\ watch.live /\ watch.previousSnapshot < r)
            ~> (Serves(r) \/ Reported(r) \/ DevGaveUp)

\* The code served is never replaced by older code (refuted: a slow import that
\* began first ends last).
ServedForward ==
    [][currentServer # 0 /\ currentServer' # 0 =>
         snaps'[servers'[currentServer'].code] >= snaps[servers[currentServer].code]]_<<servers, currentServer>>
=============================================================================
