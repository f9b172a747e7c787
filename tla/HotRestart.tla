------------------------------ MODULE HotRestart ------------------------------
(***************************************************************************)
(* The life of a process that calls app.listen() outside the development      *)
(* server (src/src/index.js, buildCompiledApplication, startCompiledServer):  *)
(* it compiles its routes and writes route comments into its own sources, or, *)
(* with opt.hotReload, watches the sources and replaces itself by a new       *)
(* process when they change (src/src/dev/hot-reload.js,                       *)
(* createRuntimeHotReloadController).  What is on disk is the user's source   *)
(* file, as lines.                                                            *)
(***************************************************************************)
EXTENDS WatchController, RouteComments

CONSTANTS
    Texts,        \* the source files a user may start from
    Tracked,      \* the routes whose responses may be promoted
    MaxEdits,     \* bound: edits by the user
    MaxProcs      \* bound: processes in a behaviour

ASSUME HotRestartAssumption ==
    /\ MaxEdits \in Nat /\ MaxProcs \in Nat \ {0}
    /\ Texts \subseteq Seq(Lines)
    /\ \A t \in Texts : RouteLines(t) # {} /\ \A i, j \in RouteLines(t) : t[i].route = t[j].route => i = j
    /\ \A t \in Texts : \A i \in RouteLines(t) : t[i].form = "code" /\ ~t[i].ours
    \* What an older writer left are // comments, outside of doc comments.
    /\ \A t \in Texts : \A i \in OurLines(t) :
          /\ t[i].form = "single"
          /\ \A s \in 1..i : t[s].form = "open" => \E e \in s..i : t[e].form = "close"

VARIABLES
    hotReload,    \* opt.hotReload
    proc,         \* the process: [pc, rev and routes it loaded, marks to come]
    open,         \* its native server is open
    writer,       \* its devRouteCommentWriter
    spawned,      \* number of restarts by the hot reload
    procs,        \* number of processes so far
    edits,        \* number of edits by the user
    userText,     \* history: the lines the user wrote
    editedUnder,  \* history: an edit was made under a writer that had read the file
    lateMark      \* history: a route was promoted after the writer's cleanup

hotVars == <<hotReload, proc, open, writer, spawned, procs, edits, userText, editedUnder, lateMark>>

-----------------------------------------------------------------------------
(* Writing the file *)

\* The process stores the text its writer w holds.
Stores(w) ==
    /\ writer' = w
    /\ tree' = w.fs.lines
    /\ rev' = rev + 1

\* markRoute: a mark of a writer that is off, or one that was applied before,
\* changes nothing.
Marks(line, status) ==
    IF ~Fresh(writer, line, status) THEN UNCHANGED <<writer, treeVars>>
    ELSE \E gone \in {Generated(tree)} : \E fs \in {FileState(writer, tree, gone)} :
         \E at \in {Place(fs, line)} : \E w \in {Marked(writer, fs, at, line, status)} : Stores(w)

\* dispose and the exit listeners run the writer's cleanup(), which leaves the
\* file alone when there is nothing to take back.
CleansUp ==
    LET clean == ~writer.read \/ writer.fs.lines = writer.fs.baseLines IN
    IF clean THEN UNCHANGED <<writer, treeVars>> ELSE Stores(CleanedUp(writer))

\* The marks of compilation, in order: for every route its base status, then
\* tracking when its responses may be promoted.
marksFrom(routes) ==
    LET all == [k \in 1..(2 * Len(routes)) |->
                   <<routes[(k + 1) \div 2],
                     IF k % 2 = 1 THEN "bridge-dispatch" ELSE "runtime-cache-tracking">>]
    IN  Stripped(all, {k \in DOMAIN all : k % 2 = 0 /\ all[k][1] \notin Tracked})

-----------------------------------------------------------------------------
(* A process *)

\* The modules are loaded: from now on a route has the line it had in this text.
\* listen() compiles them and makes the writer.
Boot ==
    LET registered == Stripped([i \in DOMAIN tree |-> tree[i].route], DOMAIN tree \ RouteLines(tree)) IN
    /\ proc.pc = "exec"
    /\ proc' = [pc |-> "compiling", rev |-> rev, marks |-> marksFrom(registered),
                routes |-> [r \in ToSet(registered) |->
                               CHOOSE i \in RouteLines(tree) : tree[i].route = r]]
    /\ writer' = Writer(TRUE, hotReload)
    /\ UNCHANGED <<treeVars, watch, hotReload, open, spawned, procs, edits, userText,
                   editedUnder, lateMark>>

\* buildCompiledApplication marks the routes.
Compile ==
    /\ proc.pc = "compiling" /\ proc.marks # <<>>
    /\ LET r == Head(proc.marks)[1] IN
       Marks(proc.routes[r], Head(proc.marks)[2])
    /\ proc' = [proc EXCEPT !.marks = Tail(@)]
    /\ UNCHANGED <<watch, hotReload, open, spawned, procs, edits, userText, editedUnder,
                   lateMark>>

\* startCompiledServer, with the hot reload controller when it is enabled.
Start ==
    /\ proc.pc = "compiling" /\ proc.marks = <<>>
    /\ proc' = [proc EXCEPT !.pc = "up"]
    /\ open' = TRUE
    /\ watch' = IF hotReload THEN Created(0) ELSE NoWatch
    /\ UNCHANGED <<treeVars, hotReload, writer, spawned, procs, edits, userText, editedUnder, lateMark>>

\* A response of a tracked route stayed the same for long enough.  A dispatch
\* that was under way when the server closed may still get here.
Promote(r) ==
    /\ proc.pc \in {"up", "draining", "stopped"}
    /\ Fresh(writer, proc.routes[r], "runtime-cache-promoted")
    /\ Marks(proc.routes[r], "runtime-cache-promoted")
    /\ lateMark' = (lateMark \/ proc.pc = "stopped")
    /\ UNCHANGED <<watch, hotReload, proc, open, spawned, procs, edits, userText, editedUnder>>

\* close() of the server handle.
CloseServer ==
    /\ proc.pc \in {"up", "draining"}
    /\ proc' = [proc EXCEPT !.pc = "stopped"]
    /\ open' = FALSE
    /\ watch' = Disposed(watch)
    /\ CleansUp
    /\ UNCHANGED <<hotReload, spawned, procs, edits, userText, editedUnder, lateMark>>

\* shutdown(): the native side drains and closes before the first await; the
\* hot reload controller is disposed of only after onDrained.
Shutdown ==
    /\ proc.pc = "up"
    /\ proc' = [proc EXCEPT !.pc = "draining"]
    /\ open' = FALSE
    /\ UNCHANGED <<treeVars, watch, hotReload, writer, spawned, procs, edits, userText, editedUnder,
                   lateMark>>

\* The process ends, with its exit listeners (also when listen() rejects).  The
\* listeners are detached once the server was closed.
Exit ==
    /\ proc.pc \in {"compiling", "up", "stopped"} /\ proc.marks = <<>>
    /\ proc' = [proc EXCEPT !.pc = "exited"]
    /\ open' = FALSE
    /\ watch' = NoWatch
    /\ IF proc.pc = "stopped" THEN UNCHANGED <<writer, treeVars>> ELSE CleansUp
    /\ UNCHANGED <<hotReload, spawned, procs, edits, userText, editedUnder, lateMark>>

\* A signal ends the process; no exit listener runs.
Killed ==
    /\ proc.pc \notin {"exec", "exited", "killed"}
    /\ proc' = [proc EXCEPT !.pc = "killed"]
    /\ open' = FALSE
    /\ watch' = NoWatch
    /\ UNCHANGED <<treeVars, hotReload, writer, spawned, procs, edits, userText, editedUnder, lateMark>>

\* The user starts the program again.
RunAgain ==
    /\ proc.pc \in {"exited", "killed"} /\ procs < MaxProcs
    /\ proc' = [proc EXCEPT !.pc = "exec"]
    /\ writer' = NoWriter
    /\ procs' = procs + 1
    /\ UNCHANGED <<treeVars, watch, hotReload, open, spawned, edits, userText, editedUnder,
                   lateMark>>

\* The user adds a line at the top of the file.
Edit ==
    /\ edits < MaxEdits
    /\ tree' = <<Line("code")>> \o tree /\ rev' = rev + 1
    /\ userText' = <<Line("code")>> \o userText
    /\ edits' = edits + 1
    /\ editedUnder' = (editedUnder \/ (~hotReload /\ proc.pc \notin {"exec", "exited", "killed"}))
    /\ UNCHANGED <<watch, hotReload, proc, open, writer, spawned, procs, lateMark>>

-----------------------------------------------------------------------------
(* createRuntimeHotReloadController *)

\* onChange: the watcher is disposed of and beforeRestart closes the server,
\* which returns when the native side has stopped.
HotChange ==
    /\ watch.restartTimer /\ proc.pc \in {"up", "draining", "stopped"}
    /\ watch' = Disposed(watch)
    /\ proc' = [proc EXCEPT !.pc = "restarting"]
    /\ open' = FALSE
    /\ CleansUp
    /\ UNCHANGED <<hotReload, spawned, procs, edits, userText, editedUnder, lateMark>>

\* spawn() and process.exit(0).
Spawn ==
    /\ proc.pc = "restarting" /\ procs < MaxProcs
    /\ proc' = [proc EXCEPT !.pc = "exec"]
    /\ writer' = NoWriter
    /\ spawned' = spawned + 1 /\ procs' = procs + 1
    /\ UNCHANGED <<treeVars, watch, hotReload, open, edits, userText, editedUnder, lateMark>>

\* spawn() throws, or the child reports an error nobody is left to hear.
SpawnFails ==
    /\ proc.pc = "restarting"
    /\ proc' = [proc EXCEPT !.pc = "exited"]
    /\ UNCHANGED <<treeVars, watch, hotReload, open, writer, spawned, procs, edits, userText,
                   editedUnder, lateMark>>

-----------------------------------------------------------------------------
HotInit ==
    /\ tree \in Texts /\ rev = 0
    /\ watch = NoWatch
    /\ hotReload \in BOOLEAN
    /\ proc = [pc |-> "exec", rev |-> 0, marks |-> <<>>, routes |-> <<>>]
    /\ open = FALSE /\ writer = NoWriter
    /\ spawned = 0 /\ procs = 1 /\ edits = 0
    /\ userText = Stripped(tree, OurLines(tree))
    /\ editedUnder = FALSE /\ lateMark = FALSE

\* Nothing runs by itself: the application is under the dev server.
HotIdle ==
    /\ hotReload = FALSE
    /\ proc = [pc |-> "exited", rev |-> 0, marks |-> <<>>, routes |-> <<>>]
    /\ open = FALSE /\ writer = NoWriter
    /\ spawned = 0 /\ procs = 1 /\ edits = 0
    /\ userText = <<>> /\ editedUnder = TRUE /\ lateMark = FALSE

HotWatchStep == (StartupOver \/ Poll) /\ UNCHANGED hotVars

HotNext ==
    \/ Boot \/ Compile \/ Start \/ \E r \in DOMAIN proc.routes \cap Tracked : Promote(r)
    \/ CloseServer \/ Shutdown \/ Exit \/ Killed \/ RunAgain \/ Edit
    \/ HotWatchStep \/ HotChange \/ Spawn \/ SpawnFails

-----------------------------------------------------------------------------
(* Properties *)

HotTypeOK ==
    /\ proc.pc \in {"exec", "compiling", "up", "draining", "stopped", "restarting",
                    "exited", "killed"}
    /\ open => proc.pc = "up"
    /\ watch.previousSnapshot <= rev /\ spawned < procs

\* Lines s to e are a doc comment.
Comment(lines, s, e) ==
    /\ s < e /\ lines[s].form = "open" /\ lines[e].form = "close"
    /\ \A k \in (s + 1)..(e - 1) : lines[k].form = "text"

\* The user's comments are doc comments of several lines, and none is like a generated one.
WholeComments(lines) ==
    \A i \in DOMAIN lines :
        /\ lines[i].form \notin {"oneline", "mark", "single"}
        /\ lines[i].form \in {"open", "text", "close"}
              => \E s \in 1..i, e \in i..Len(lines) : Comment(lines, s, e)

\* The writer knows the sources: no edit under it, no mark after its cleanup.
Undisturbed == ~editedUnder /\ ~lateMark /\ WholeComments(userText)

\* The writer never loses, adds or moves a line of the user's: without the
\* generated lines the file is what the user wrote, through restarts, kills that
\* leave comments behind, and edits between runs (dev/comments.js:78-131, 277-319).
UserLinesKept == Undisturbed => Stripped(tree, OurLines(tree)) = userText

\* The same in every file and until the process ends (refuted: after a kill, what stands between
\* a one-line doc comment and a generated block is removed with it; a block comment that is no
\* doc comment is taken for the end of the generated block above, and all between them is replaced;
\* a mark after the cleanup counts blocks that are gone, and may split a comment of the user's).
UserLinesAlwaysKept == ~editedUnder => Stripped(tree, OurLines(tree)) = userText

\* While the process runs, directly above every route stands one block with
\* exactly the statuses the route was marked with, and no other generated line
\* is in the file.
OneBlockEach ==
    LET routeAt == RouteLines(tree)
        ours(i) == tree[i].ours
    IN     writer.on /\ proc.pc \in {"compiling", "up", "draining"} /\ proc.marks = <<>> /\ Undisturbed
        => /\ \A i \in routeAt :
                 /\ i > 4 /\ \A j \in (i - 4)..(i - 1) : ours(j)
                 /\ ToSet(tree[i - 3].statuses)
                      = {a[2] : a \in {b \in writer.applied : b[1] = proc.routes[tree[i].route]}}
           /\ Cardinality({i \in DOMAIN tree : ours(i)}) = 4 * Cardinality(routeAt)

\* After a close or an orderly end no generated line is left in the file.
CommentsTakenBack ==
    ~hotReload /\ proc.pc \in {"stopped", "exited"} /\ Undisturbed
        => \A i \in DOMAIN tree : ~tree[i].ours

\* What a process writes into its own sources stands above the lines the writer says, once for
\* each route, and is taken back in the end (dev/comments.js:61-131).
BlocksInPlace ==
    /\ OneBlockEach /\ CommentsTakenBack
    /\ Undisturbed => writer.fs.inserted \subseteq DOMAIN writer.fs.baseLines

\* The same when a response is promoted after the close (refuted: the cleanup and
\* its exit listener are gone by then, and the comments stay).
CommentsAlwaysTakenBack ==
    ~hotReload /\ proc.pc \in {"stopped", "exited"} /\ ~editedUnder /\ WholeComments(userText)
        => \A i \in DOMAIN tree : ~tree[i].ours

\* Restarts are the user's doing: a process never restarts because of what it
\* wrote into its own sources (index.js:1787, dev/hot-reload.js:47-71).
NoRestartLoop == spawned <= edits

\* A process whose shutdown() drains does not come back by itself (refuted: the watcher runs on
\* until onDrained has returned).
ShutdownStops == [][proc.pc = "draining" => proc'.pc # "restarting"]_proc

\* A change the watcher of a running server has not seen yet ends up loaded,
\* unless the process is stopped or ends for another reason.
HotEditRuns ==
    \A r \in 1..MaxEdits :
        (hotReload /\ proc.pc = "up" /\ rev = r /\ watch.previousSnapshot < r)
            ~> (proc.rev >= r \/ proc.pc \in {"stopped", "exited", "killed"} \/ procs = MaxProcs)
=============================================================================
