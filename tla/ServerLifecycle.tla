--------------------------- MODULE ServerLifecycle ---------------------------
(***************************************************************************)
(* Starting, draining and stopping one native server (src/rsrc/src/lib.rs):  *)
(* start_server spawns the workers and waits for each to report, run_server   *)
(* is a worker's accept loop, shutdown() drains and close() stops.  The       *)
(* NAPI calls are synchronous, so the JS thread runs nothing else meanwhile.  *)
(*                                                                         *)
(* Every worker binds its own listener to the same address with SO_REUSEPORT, *)
(* so the kernel hands a connection to any one of the open listeners: that    *)
(* goes for clients and for the wake-up connections of close() alike.         *)
(*                                                                         *)
(* A connection is followed from the backlog to its end; its requests are     *)
(* answered natively or by a JS handler.  A websocket holds its upgrade       *)
(* request's InflightGuard for as long as it is open.  Cache namespaces and   *)
(* the outbound queues of websockets are left to other modules.               *)
(***************************************************************************)
EXTENDS Naturals, Sequences, FiniteSets

CONSTANTS
    Workers,                     \* worker threads; worker_count_for
    Conns,                       \* client connections; each is opened once
    MAX_CONNECTIONS_PER_WORKER,
    Expires                      \* whether shutdown's deadline may ever pass

ASSUME LifecycleAssumption ==
    /\ IsFiniteSet(Workers) /\ Workers # {}
    /\ IsFiniteSet(Conns)
    /\ MAX_CONNECTIONS_PER_WORKER \in Nat \ {0}
    /\ Expires \in BOOLEAN

Wake == "wake"                   \* the connection close() makes to wake a worker

VARIABLES
    js,          \* where the JS thread is in start_server / shutdown / close
    startup,     \* the channel of startup reports: a sequence of "ok" and "err"
    ready,       \* reports received: the length of wake_addrs
    toWake,      \* wake-up connections close() has still to make
    shutdown_flag,
    draining_flag,
    worker,      \* worker -> "none", "boot", "check", "accept" or "exited"
    backlog,     \* worker -> connections its listener holds, not yet accepted
    conn,        \* connection -> its state
    owner,       \* connection -> the worker serving it
    active_connections,
    remaining,   \* what shutdown() will return
    killed,      \* connections cut in the middle of a request (history)
    woken        \* worker -> wake-up connections its listener was given (history)

jsVars == <<js, startup, ready, toWake, shutdown_flag, draining_flag, remaining>>
connVars == <<conn, owner, active_connections, killed>>
vars == <<jsVars, worker, backlog, connVars, woken>>

Busy == {"native", "js", "answered", "wsopen", "ws", "wsbye"}
Served == Busy \cup {"accepted", "idle"}

INFLIGHT_REQUESTS == Cardinality({c \in Conns : conn[c] \in Busy})
Listening == {w \in Workers : worker[w] \in {"check", "accept"}}
ServedBy(w) == {c \in Conns : owner[c] = w /\ conn[c] \in Served}

Init ==
    /\ js = "none" /\ startup = <<>> /\ ready = 0 /\ toWake = 0 /\ remaining = 0
    /\ shutdown_flag = FALSE /\ draining_flag = FALSE
    /\ worker = [w \in Workers |-> "none"]
    /\ backlog = [w \in Workers |-> <<>>]
    /\ conn = [c \in Conns |-> "none"]
    /\ owner = [c \in Conns |-> CHOOSE w \in Workers : TRUE]
    /\ active_connections = [w \in Workers |-> 0]
    /\ killed = {}
    /\ woken = [w \in Workers |-> 0]

-----------------------------------------------------------------------------
(* start_server *)

Start ==
    /\ js = "none"
    /\ js' = "starting"
    /\ worker' = [w \in Workers |-> "boot"]
    /\ UNCHANGED <<startup, ready, toWake, shutdown_flag, draining_flag, remaining,
                   backlog, connVars>>

WorkerBinds(w) ==
    /\ worker[w] = "boot"
    /\ worker' = [worker EXCEPT ![w] = "check"]
    /\ startup' = Append(startup, "ok")
    /\ UNCHANGED <<js, ready, toWake, shutdown_flag, draining_flag, remaining, backlog, connVars>>

\* The runtime or the listener cannot be created.
WorkerFails(w) ==
    /\ worker[w] = "boot"
    /\ worker' = [worker EXCEPT ![w] = "exited"]
    /\ startup' = Append(startup, "err")
    /\ UNCHANGED <<js, ready, toWake, shutdown_flag, draining_flag, remaining, backlog, connVars>>

\* Mutant: the first worker that is ready completes the start.
RecvReadyFirst ==
    /\ js = "starting" /\ startup # <<>> /\ Head(startup) = "ok"
    /\ startup' = Tail(startup)
    /\ ready' = ready + 1
    /\ js' = "serving"
    /\ UNCHANGED <<toWake, shutdown_flag, draining_flag, remaining, worker, backlog, connVars>>

RecvReady ==
    /\ js = "starting" /\ startup # <<>> /\ Head(startup) = "ok"
    /\ startup' = Tail(startup)
    /\ ready' = ready + 1
    /\ js' = IF ready' = Cardinality(Workers) THEN "serving" ELSE js
    /\ UNCHANGED <<toWake, shutdown_flag, draining_flag, remaining, worker, backlog, connVars>>

\* Only the workers that reported before the failure are woken.  The arm for
\* a closed channel cannot be taken: start_server holds a sender itself.
RecvFailure ==
    /\ js = "starting" /\ startup # <<>> /\ Head(startup) = "err"
    /\ startup' = Tail(startup)
    /\ shutdown_flag' = TRUE
    /\ toWake' = ready
    /\ js' = "failing"
    /\ UNCHANGED <<ready, draining_flag, remaining, worker, backlog, connVars>>

-----------------------------------------------------------------------------
(* run_server on worker w.  Leaving the loop ends block_on, which drops the   *)
(* listener with its backlog and every task with its connection.              *)

Exit(w) ==
    LET gone == {c \in Conns : owner[c] = w /\ conn[c] \in Served \cup {"queued"}}
    IN  /\ worker' = [worker EXCEPT ![w] = "exited"]
        /\ backlog' = [backlog EXCEPT ![w] = <<>>]
        /\ conn' = [c \in Conns |-> IF c \in gone THEN "closed" ELSE conn[c]]
        /\ killed' = killed \cup {c \in gone : conn[c] \in Busy}
        /\ active_connections' = [active_connections EXCEPT ![w] = 0]
        /\ UNCHANGED owner

\* The test at the top of the loop.
CheckFlag(w) ==
    /\ worker[w] = "check"
    /\ IF shutdown_flag
       THEN Exit(w)
       ELSE /\ worker' = [worker EXCEPT ![w] = "accept"]
            /\ UNCHANGED <<backlog, connVars>>
    /\ UNCHANGED jsVars

MayServe(w) ==
    /\ ~draining_flag
    /\ active_connections[w] < MAX_CONNECTIONS_PER_WORKER

\* Before shutdown no Wake is in a backlog, so what is served is a client.
Accept(w) ==
    LET c == Head(backlog[w])
    IN  /\ worker[w] = "accept" /\ backlog[w] # <<>>
        /\ IF shutdown_flag
           THEN Exit(w)
           ELSE /\ worker' = [worker EXCEPT ![w] = "check"]
                /\ backlog' = [backlog EXCEPT ![w] = Tail(@)]
                /\ conn' = [conn EXCEPT ![c] = IF MayServe(w) THEN "accepted" ELSE "closed"]
                /\ active_connections' = [active_connections EXCEPT
                        ![w] = IF MayServe(w) THEN @ + 1 ELSE @]
                /\ UNCHANGED <<owner, killed>>
        /\ UNCHANGED jsVars

-----------------------------------------------------------------------------
(* Connections and their requests *)

\* A client connects; the kernel picks one of the listeners.
Connect(c, w) ==
    /\ conn[c] = "none" /\ w \in Listening
    /\ conn' = [conn EXCEPT ![c] = "queued"]
    /\ owner' = [owner EXCEPT ![c] = w]
    /\ backlog' = [backlog EXCEPT ![w] = Append(@, c)]
    /\ UNCHANGED <<jsVars, worker, active_connections, killed>>

ConnStep(c, from, to) ==
    /\ conn[c] = from
    /\ conn' = [conn EXCEPT ![c] = to]
    /\ UNCHANGED <<jsVars, worker, backlog, owner, active_connections, killed>>

\* Request headers are parsed: the InflightGuard is taken.
RequestArrives(c) == \E kind \in {"native", "js", "wsopen"} : ConnStep(c, "idle", kind)

\* Work that only the JS thread can do: it is free only in "serving" (and
\* before or after the server's life).
JsFree == js \in {"none", "serving", "closed", "failed"}
JsHandles(c) ==
    /\ JsFree
    /\ \/ ConnStep(c, "js", "answered")
       \/ ConnStep(c, "wsopen", "ws")

\* The response is written and the guard dropped.
Respond(c) == ConnStep(c, "native", "idle") \/ ConnStep(c, "answered", "idle")

\* The websocket loop ends: client close, idle timeout, or End seen after a
\* read.  The "close" event is then dispatched to JS and awaited.
WsEnds(c) == ConnStep(c, "ws", "wsbye")

\* handle_connection returns (EOF, timeout, no keep-alive), or the "close"
\* event of a websocket was delivered; the counter is decremented.
ConnCloses(c) ==
    /\ \/ conn[c] = "idle"
       \/ conn[c] = "wsbye" /\ JsFree
    /\ conn' = [conn EXCEPT ![c] = "closed"]
    /\ active_connections' = [active_connections EXCEPT ![owner[c]] = IF @ > 0 THEN @ - 1 ELSE 0]
    /\ UNCHANGED <<jsVars, worker, backlog, owner, killed>>

\* The spawned task runs.
TaskStarts(c) == ConnStep(c, "accepted", "idle")

\* Converting the accepted socket for TLS fails: the task returns early and
\* the counter is not decremented.
PollIoFails(c) == ConnStep(c, "accepted", "closed")

-----------------------------------------------------------------------------
(* shutdown and close, on the JS thread *)

\* Mutant: the flag is set but nobody is woken.
BeginCloseNoWake ==
    /\ shutdown_flag' = TRUE
    /\ toWake' = 0
    /\ js' = "closing"
    /\ UNCHANGED <<startup, ready, worker, backlog, connVars>>

BeginClose ==
    /\ shutdown_flag' = TRUE
    /\ toWake' = ready
    /\ js' = "closing"
    /\ UNCHANGED <<startup, ready, worker, backlog, connVars>>

Close ==
    /\ js = "serving"
    /\ BeginClose
    /\ UNCHANGED <<draining_flag, remaining>>

Shutdown ==
    /\ js = "serving"
    /\ draining_flag' = TRUE
    /\ js' = "draining"
    /\ UNCHANGED <<startup, ready, toWake, shutdown_flag, remaining, worker, backlog, connVars>>

\* The poll loop ends: nothing is in flight, or the deadline has passed.
DrainEnds ==
    /\ js = "draining"
    /\ INFLIGHT_REQUESTS = 0 \/ Expires
    /\ remaining' = INFLIGHT_REQUESTS
    /\ BeginClose
    /\ UNCHANGED draining_flag

\* One wake-up connection; a refused one is ignored.
WakeOne ==
    /\ js \in {"closing", "failing"} /\ toWake > 0
    /\ toWake' = toWake - 1
    /\ \/ Listening = {} /\ UNCHANGED <<backlog, woken>>
       \/ \E w \in Listening :
            /\ backlog' = [backlog EXCEPT ![w] = Append(@, Wake)]
            /\ woken' = [woken EXCEPT ![w] = @ + 1]
    /\ UNCHANGED <<js, startup, ready, shutdown_flag, draining_flag, remaining, worker, connVars>>

\* receiver.recv() for every worker.
Join ==
    /\ js \in {"closing", "failing"} /\ toWake = 0
    /\ \A w \in Workers : worker[w] = "exited"
    /\ js' = IF js = "closing" THEN "closed" ELSE "failed"
    /\ UNCHANGED <<startup, ready, toWake, shutdown_flag, draining_flag, remaining,
                   worker, backlog, connVars>>

-----------------------------------------------------------------------------
\* Only WakeOne changes the history woken.
JsThread ==
    \/ WakeOne
    \/ (Start \/ RecvReady \/ RecvFailure \/ DrainEnds \/ Join) /\ UNCHANGED woken
Worker(w) ==
    (WorkerBinds(w) \/ WorkerFails(w) \/ CheckFlag(w) \/ Accept(w)) /\ UNCHANGED woken
Connection(c) ==
    /\ \/ RequestArrives(c) \/ JsHandles(c) \/ Respond(c)
       \/ WsEnds(c) \/ ConnCloses(c) \/ TaskStarts(c) \/ PollIoFails(c)
    /\ UNCHANGED woken

Next ==
    \/ JsThread
    \/ (Close \/ Shutdown) /\ UNCHANGED woken
    \/ \E w \in Workers : Worker(w)
    \/ \E c \in Conns : Connection(c)
    \/ \E c \in Conns, w \in Workers : Connect(c, w) /\ UNCHANGED woken

Spec == Init /\ [][Next]_vars

\* The threads run; handlers and responses finish when they can.  Clients
\* need not connect, send or hang up.
FairSpec ==
    /\ Spec
    /\ WF_vars(JsThread)
    /\ \A w \in Workers : WF_vars(Worker(w))
    /\ \A c \in Conns : WF_vars(JsHandles(c) /\ UNCHANGED woken)
                      /\ WF_vars(Respond(c) /\ UNCHANGED woken)

-----------------------------------------------------------------------------
\* Types, and remaining never exceeds what can be in flight.
TypeOK ==
    /\ js \in {"none", "starting", "failing", "serving", "draining", "closing", "closed", "failed"}
    /\ startup \in Seq({"ok", "err"})
    /\ ready \in 0..Cardinality(Workers) /\ toWake \in 0..ready
    /\ shutdown_flag \in BOOLEAN /\ draining_flag \in BOOLEAN
    /\ worker \in [Workers -> {"none", "boot", "check", "accept", "exited"}]
    /\ \A w \in Workers : backlog[w] \in Seq(Conns \cup {Wake})
    /\ conn \in [Conns -> Served \cup {"none", "queued", "closed"}]
    /\ owner \in [Conns -> Workers]
    /\ active_connections \in [Workers -> Nat]
    /\ remaining \in 0..Cardinality(Conns)
    /\ woken \in [Workers -> 0..Cardinality(Workers)]

(* When start_server returns a handle every worker is in its accept loop,    *)
(* and none leaves it before close() or the end of a drain (lib.rs:903-936,  *)
(* 1023-1032).                                                               *)
ServingMeansListening ==
    js \in {"serving", "draining"} => \A w \in Workers : worker[w] \in {"check", "accept"}

(* Once close() or a failed start_server has returned, no worker of the      *)
(* server is alive and no connection is open or waiting: nothing dispatches  *)
(* into JS any more (lib.rs:412-416, 918-920).                               *)
NothingAfterClose ==
    js \in {"closed", "failed"} =>
        /\ \A w \in Workers : worker[w] = "exited"
        /\ \A c \in Conns : conn[c] \in {"none", "closed"}

(* A worker never serves more connections than the limit, though the counter *)
(* is kept apart from the tasks and may drift above them (lib.rs:1043-1046,   *)
(* 1057, 1126; the early return at 1070-1073 skips the decrement).           *)
ConnectionLimit ==
    \A w \in Workers :
        /\ Cardinality(ServedBy(w)) <= active_connections[w]
        /\ active_connections[w] <= MAX_CONNECTIONS_PER_WORKER

(* A server that reported success listens, one that was closed is gone, and  *)
(* in between no worker takes more than its limit (lib.rs:795-1130).         *)
LifecycleSafe == TypeOK /\ ServingMeansListening /\ NothingAfterClose /\ ConnectionLimit

(* start_server returns, whatever the workers report and in whatever order,  *)
(* unless it gave up on one failure while another report was still unread    *)
(* (lib.rs:903-936): that worker is joined but not among those it wakes.     *)
StartReturns ==
    js = "starting" ~> \/ js \in {"serving", "failed"}
                       \/ js = "failing" /\ startup # <<>>

\* The statement without the exception, which two workers refute.
StartAlwaysReturns == js = "starting" ~> js \in {"serving", "failed"}

(* close(), and shutdown() past its drain, returns, unless the kernel gave    *)
(* one listener two of the wake-up connections (lib.rs:405-416).              *)
CloseReturns ==
    js = "closing" ~> js = "closed" \/ \E w \in Workers : woken[w] > 1

(* The calls that block the JS thread on worker threads return, each with the *)
(* one exception its own statement names (lib.rs:405-416, 903-936).          *)
CallsReturn == StartReturns /\ CloseReturns

(* The statement without the exception: index.js:1899 "Hard kill after this  *)
(* many ms"; lib.rs:380 "force-stop workers regardless of drain state".      *)
CloseAlwaysReturns == js = "closing" ~> js = "closed"

(* Draining ends when the requests in flight can be answered, however long   *)
(* the timeout (lib.rs:353-354: "drain in-flight requests").                 *)
DrainCompletes == js = "draining" ~> js # "draining"

(* A shutdown that reports 0 has cut no request: lib.rs:356 "(0 = fully      *)
(* drained)", lib.rs:361-362 "finish processing in-flight requests normally".*)
DrainedKillsNothing ==
    (js = "closed" /\ draining_flag /\ remaining = 0) => killed = {}
=============================================================================
