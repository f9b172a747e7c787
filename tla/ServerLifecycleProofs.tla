------------------------- MODULE ServerLifecycleProofs -------------------------
(***************************************************************************)
(* For every number of workers and connections and every limit: a server that *)
(* reported success listens on every worker, one that was closed is gone, and *)
(* no worker serves more connections than its limit.                          *)
(***************************************************************************)
EXTENDS ServerLifecycle, FiniteSetTheorems, SequenceTheorems, TLAPS

Reported == {w \in Workers : worker[w] \notin {"none", "boot"}}
Items == Conns \cup {Wake}

-----------------------------------------------------------------------------
(* The inductive invariant: the threads, then the connections.                 *)

ThreadTypes ==
    /\ js \in {"none", "starting", "failing", "serving", "draining", "closing", "closed", "failed"}
    /\ startup \in Seq({"ok", "err"})
    /\ ready \in Nat /\ ready <= Cardinality(Workers) /\ toWake \in Nat
    /\ shutdown_flag \in BOOLEAN /\ draining_flag \in BOOLEAN
    /\ worker \in [Workers -> {"none", "boot", "check", "accept", "exited"}]
    /\ remaining \in 0..Cardinality(Conns)
    /\ woken \in [Workers -> Nat]

\* Wake-up connections are made once per reported worker, after the flag is set.
WakeInv ==
    /\ shutdown_flag <=> js \in {"failing", "closing", "closed", "failed"}
    /\ \A w \in Workers : woken[w] + toWake <= ready
    /\ toWake <= ready
    /\ ~shutdown_flag => toWake = 0 /\ \A w \in Workers : woken[w] = 0

\* While it starts, the server has a report of every worker that has booted, read
\* or in the channel, and an unread failure of every worker that is gone.
StartInv ==
    /\ js = "none" => \A w \in Workers : worker[w] = "none"
    /\ js \in {"none", "starting"} => Len(startup) + ready = Cardinality(Reported)
    /\ js = "starting" =>
         \A w \in Workers : worker[w] = "exited" => \E i \in 1..Len(startup) : startup[i] = "err"
    /\ js \in {"serving", "draining"} => \A w \in Workers : worker[w] \in {"check", "accept"}
    /\ js \in {"closed", "failed"} => \A w \in Workers : worker[w] = "exited"

ThreadInv == ThreadTypes /\ WakeInv /\ StartInv

ConnTypes ==
    /\ backlog \in [Workers -> Seq(Items)]
    /\ conn \in [Conns -> Served \cup {"none", "queued", "closed"}]
    /\ owner \in [Conns -> Workers]
    /\ active_connections \in [Workers -> Nat]

\* A connection that is open or waiting belongs to a worker that is running.
OwnerInv == \A c \in Conns : conn[c] \in Served \cup {"queued"} => owner[c] \in Listening

\* Until the flag is set, a backlog holds connections that wait for this worker,
\* each of them once.
BacklogInv ==
    ~shutdown_flag => \A w \in Workers :
        /\ \A i \in 1..Len(backlog[w]) :
              /\ backlog[w][i] \in Conns
              /\ conn[backlog[w][i]] = "queued" /\ owner[backlog[w][i]] = w
        /\ \A i, j \in 1..Len(backlog[w]) : backlog[w][i] = backlog[w][j] => i = j

ConnInv == ConnTypes /\ OwnerInv /\ BacklogInv /\ ConnectionLimit

IInv == ThreadInv /\ ConnInv

-----------------------------------------------------------------------------
(* Counting workers and connections, and the ends of a sequence.               *)

LEMMA Counting ==
  /\ Cardinality(Workers) \in Nat /\ Cardinality(Conns) \in Nat
  /\ \A T \in SUBSET Workers :
        /\ Cardinality(T) \in Nat /\ Cardinality(T) <= Cardinality(Workers)
        /\ Cardinality(T) = Cardinality(Workers) => T = Workers
  /\ \A T \in SUBSET Workers, w \in Workers :
        w \notin T => Cardinality(T \cup {w}) = Cardinality(T) + 1
  /\ \A T \in SUBSET Conns : Cardinality(T) \in Nat /\ Cardinality(T) <= Cardinality(Conns)
<1>1. IsFiniteSet(Workers) /\ IsFiniteSet(Conns)
  BY LifecycleAssumption
<1>2. ASSUME NEW T \in SUBSET Workers
      PROVE  /\ IsFiniteSet(T) /\ Cardinality(T) \in Nat /\ Cardinality(T) <= Cardinality(Workers)
             /\ Cardinality(T) = Cardinality(Workers) => T = Workers
  BY <1>1, FS_Subset, FS_CardinalityType
<1>3. ASSUME NEW T \in SUBSET Workers, NEW w \in Workers, w \notin T
      PROVE  Cardinality(T \cup {w}) = Cardinality(T) + 1
  BY <1>2, <1>3, FS_AddElement
<1>4. ASSUME NEW T \in SUBSET Conns
      PROVE  Cardinality(T) \in Nat /\ Cardinality(T) <= Cardinality(Conns)
  BY <1>1, FS_Subset, FS_CardinalityType
<1> QED
  BY <1>1, <1>2, <1>3, <1>4, FS_CardinalityType

\* The connections of one worker: one more, one less, some less.
LEMMA CountingServed ==
  ASSUME NEW T \in SUBSET Conns, NEW c \in Conns
  PROVE  /\ Cardinality(T) \in Nat
         /\ c \notin T => Cardinality(T \cup {c}) = Cardinality(T) + 1
         /\ c \in T => Cardinality(T) > 0 /\ Cardinality(T \ {c}) = Cardinality(T) - 1
         /\ \A U \in SUBSET T : Cardinality(U) \in Nat /\ Cardinality(U) <= Cardinality(T)
<1>1. IsFiniteSet(T)
  BY LifecycleAssumption, FS_Subset
<1>2. Cardinality(T) \in Nat
  BY <1>1, FS_CardinalityType
<1>3. c \notin T => Cardinality(T \cup {c}) = Cardinality(T) + 1
  BY <1>1, FS_AddElement
<1>4. c \in T => Cardinality(T \ {c}) = Cardinality(T) - 1
  BY <1>1, FS_RemoveElement
<1>5. c \in T => Cardinality(T) > 0
  <2>1. c \in T => T # {}
    OBVIOUS
  <2>2. Cardinality(T) = 0 <=> T = {}
    BY <1>1, FS_EmptySet
  <2> QED
    BY <1>2, <2>1, <2>2
<1>6. \A U \in SUBSET T : Cardinality(U) \in Nat /\ Cardinality(U) <= Cardinality(T)
  BY <1>1, FS_Subset, FS_CardinalityType
<1> QED
  BY <1>2, <1>3, <1>4, <1>5, <1>6

LEMMA TailOf ==
  ASSUME NEW S, NEW s \in Seq(S), s # <<>>
  PROVE  /\ Tail(s) \in Seq(S) /\ Len(s) \in Nat \ {0} /\ Len(Tail(s)) = Len(s) - 1
         /\ Head(s) = s[1] /\ s[1] \in S
         /\ \A i \in 1..Len(s) - 1 : i + 1 \in 1..Len(s) /\ Tail(s)[i] = s[i + 1]
<1>1. Len(s) \in Nat \ {0}
  BY EmptySeq
<1> QED
  BY <1>1, HeadTailProperties

LEMMA AppendOf ==
  ASSUME NEW S, NEW s \in Seq(S), NEW x \in S
  PROVE  /\ Append(s, x) \in Seq(S) /\ Len(s) \in Nat /\ Len(Append(s, x)) = Len(s) + 1
         /\ \A i \in 1..Len(s) : Append(s, x)[i] = s[i]
         /\ Append(s, x)[Len(s) + 1] = x
  BY AppendProperties

-----------------------------------------------------------------------------
(* The threads.                                                               *)

LEMMA ThreadsUnchanged ==
  ASSUME ThreadInv, UNCHANGED <<jsVars, worker, woken>>
  PROVE  ThreadInv'
<1>1. ThreadTypes'
  BY DEF jsVars, ThreadInv, ThreadTypes
<1>2. WakeInv'
  BY DEF jsVars, ThreadInv, WakeInv
<1>3. StartInv' 
  BY DEF jsVars, ThreadInv, StartInv, Reported
<1> QED
  BY <1>1, <1>2, <1>3 DEF ThreadInv

\* A report: the worker listens, or it is gone.
LEMMA ReportStep ==
  ASSUME ThreadInv, NEW w \in Workers, worker[w] = "boot",
         NEW to \in {"check", "exited"}, NEW report \in {"ok", "err"},
         to = "exited" => report = "err",
         worker' = [worker EXCEPT ![w] = to], startup' = Append(startup, report),
         UNCHANGED <<js, ready, toWake, shutdown_flag, draining_flag, remaining, woken>>
  PROVE  ThreadInv'
<1>1. /\ startup' \in Seq({"ok", "err"}) /\ Len(startup) \in Nat /\ Len(startup') = Len(startup) + 1
      /\ \A i \in 1..Len(startup) : startup'[i] = startup[i]
      /\ startup'[Len(startup) + 1] = report
  BY AppendOf DEF ThreadInv, ThreadTypes
<1>2. ThreadTypes'
  BY <1>1 DEF ThreadInv, ThreadTypes
<1>3. WakeInv'
  BY DEF ThreadInv, WakeInv
<1>4. /\ Reported \in SUBSET Workers /\ w \notin Reported /\ Reported' = Reported \cup {w}
  BY DEF Reported, ThreadInv, ThreadTypes
<1>5. Cardinality(Reported') = Cardinality(Reported) + 1 /\ Cardinality(Reported) \in Nat
  BY <1>4, Counting
<1>6. js' \in {"none", "starting"} => Len(startup') + ready' = Cardinality(Reported')
  BY <1>1, <1>5 DEF ThreadInv, ThreadTypes, StartInv
<1>7. js' = "starting" =>
        \A v \in Workers : worker'[v] = "exited" => \E i \in 1..Len(startup') : startup'[i] = "err"
  <2> SUFFICES ASSUME js = "starting", NEW v \in Workers, worker'[v] = "exited"
               PROVE  \E i \in 1..Len(startup') : startup'[i] = "err"
    OBVIOUS
  <2>1. CASE v = w
    <3>1. report = "err"
      BY <2>1 DEF ThreadInv, ThreadTypes
    <3> QED
      BY <1>1, <3>1
  <2>2. CASE v # w
    <3>1. PICK i \in 1..Len(startup) : startup[i] = "err"
      BY <2>2 DEF ThreadInv, ThreadTypes, StartInv
    <3> QED
      BY <1>1, <3>1
  <2> QED
    BY <2>1, <2>2
<1>8. StartInv'
  BY <1>6, <1>7 DEF ThreadInv, StartInv
<1> QED
  BY <1>2, <1>3, <1>8 DEF ThreadInv

\* A worker that has booted goes round its loop, or leaves it after shutdown.
LEMMA LoopStep ==
  ASSUME ThreadInv, NEW w \in Workers, worker[w] \in {"check", "accept"},
         NEW to \in {"check", "accept", "exited"}, to = "exited" => shutdown_flag,
         worker' = [worker EXCEPT ![w] = to], UNCHANGED <<jsVars, woken>>
  PROVE  ThreadInv'
<1>0. /\ js' = js /\ startup' = startup /\ ready' = ready /\ toWake' = toWake
      /\ shutdown_flag' = shutdown_flag /\ draining_flag' = draining_flag
      /\ remaining' = remaining /\ woken' = woken
  BY DEF jsVars
<1>1. ThreadTypes'
  BY <1>0 DEF ThreadInv, ThreadTypes
<1>2. WakeInv'
  BY <1>0 DEF ThreadInv, WakeInv
<1>3. Reported' = Reported
  BY DEF Reported, ThreadInv, ThreadTypes
<1>4. to = "exited" => js \notin {"none", "starting", "serving", "draining"}
  BY DEF ThreadInv, WakeInv
<1>5. \A v \in Workers : worker'[v] = IF v = w THEN to ELSE worker[v]
  BY DEF ThreadInv, ThreadTypes
<1>6. StartInv'
  BY <1>0, <1>3, <1>4, <1>5 DEF ThreadInv, StartInv
<1> QED
  BY <1>1, <1>2, <1>6 DEF ThreadInv

LEMMA StartThreads == ASSUME ThreadInv, Start, UNCHANGED woken PROVE ThreadInv'
<1>0. /\ js = "none" /\ js' = "starting" /\ worker' = [w \in Workers |-> "boot"]
      /\ UNCHANGED <<startup, ready, toWake, shutdown_flag, draining_flag, remaining>>
  BY DEF Start
<1>1. ThreadTypes'
  BY <1>0 DEF ThreadInv, ThreadTypes
<1>2. WakeInv'
  BY <1>0 DEF ThreadInv, WakeInv
<1>3. Reported' = Reported
  BY <1>0 DEF Reported, ThreadInv, StartInv
<1>4. StartInv'
  BY <1>0, <1>3 DEF ThreadInv, StartInv
<1> QED
  BY <1>1, <1>2, <1>4 DEF ThreadInv

(* The last report read is the last one there can be: every worker reported,    *)
(* and none of them a failure.                                                *)
LEMMA ReadyThreads == ASSUME ThreadInv, RecvReady, UNCHANGED woken PROVE ThreadInv'
<1>0. /\ js = "starting" /\ startup # <<>> /\ Head(startup) = "ok" /\ startup' = Tail(startup)
      /\ ready' = ready + 1 /\ js' = IF ready + 1 = Cardinality(Workers) THEN "serving" ELSE js
      /\ UNCHANGED <<toWake, shutdown_flag, draining_flag, remaining, worker, woken>>
  BY DEF RecvReady
<1>1. /\ startup' \in Seq({"ok", "err"}) /\ Len(startup) \in Nat \ {0} /\ Len(startup') = Len(startup) - 1
      /\ startup[1] = "ok"
      /\ \A i \in 1..Len(startup) - 1 : i + 1 \in 1..Len(startup) /\ startup'[i] = startup[i + 1]
  BY <1>0, TailOf DEF ThreadInv, ThreadTypes
<1>2. Reported \in SUBSET Workers /\ Reported' = Reported
  BY <1>0 DEF Reported
<1>3. /\ Cardinality(Reported) \in Nat /\ Cardinality(Reported) <= Cardinality(Workers)
      /\ Cardinality(Reported) = Cardinality(Workers) => Reported = Workers
      /\ Cardinality(Workers) \in Nat
  BY <1>2, Counting
<1>4. ready \in Nat /\ Len(startup) + ready = Cardinality(Reported)
  BY <1>0 DEF ThreadInv, ThreadTypes, StartInv
<1>5. Len(startup') + ready' = Cardinality(Reported') /\ ready' \in Nat /\ ready' <= Cardinality(Workers)
  BY <1>0, <1>1, <1>2, <1>3, <1>4
<1>6. ThreadTypes'
  BY <1>0, <1>1, <1>5 DEF ThreadInv, ThreadTypes
<1>7. ~shutdown_flag /\ toWake = 0 /\ \A w \in Workers : woken[w] = 0
  BY <1>0 DEF ThreadInv, WakeInv
<1>8. WakeInv'
  BY <1>0, <1>5, <1>7 DEF WakeInv
<1>9. \A v \in Workers : worker[v] = "exited" => \E i \in 1..Len(startup') : startup'[i] = "err"
  <2> SUFFICES ASSUME NEW v \in Workers, worker[v] = "exited"
               PROVE  \E i \in 1..Len(startup') : startup'[i] = "err"
    OBVIOUS
  <2>1. PICK i \in 1..Len(startup) : startup[i] = "err"
    BY <1>0 DEF ThreadInv, StartInv
  <2>2. i - 1 \in 1..Len(startup) - 1 /\ (i - 1) + 1 = i
    BY <1>1, <2>1
  <2> QED
    BY <1>1, <2>1, <2>2
<1>10. js' = "serving" => \A w \in Workers : worker[w] \in {"check", "accept"}
  <2> SUFFICES ASSUME js' = "serving", NEW w \in Workers PROVE worker[w] \in {"check", "accept"}
    OBVIOUS
  <2>1. ready + 1 = Cardinality(Workers)
    BY <1>0
  <2>2. Len(startup') = 0 /\ Cardinality(Reported) = Cardinality(Workers)
    BY <1>1, <1>3, <1>4, <2>1
  <2>3. worker[w] # "exited"
    BY <1>9, <2>2
  <2> QED
    BY <1>3, <2>2, <2>3 DEF Reported, ThreadInv, ThreadTypes
<1>11. StartInv'
  BY <1>0, <1>5, <1>9, <1>10 DEF StartInv
<1> QED
  BY <1>6, <1>8, <1>11 DEF ThreadInv

\* The flag is set: start_server gives up, or the server is closed.
LEMMA FlagThreads ==
  ASSUME ThreadInv, js \in {"starting", "serving", "draining"}, js' \in {"failing", "closing"},
         startup' \in Seq({"ok", "err"}), shutdown_flag' = TRUE, toWake' = ready,
         remaining' \in 0..Cardinality(Conns), UNCHANGED <<ready, draining_flag, worker, woken>>
  PROVE  ThreadInv'
<1>1. ThreadTypes'
  BY DEF ThreadInv, ThreadTypes
<1>2. ~shutdown_flag /\ \A w \in Workers : woken[w] = 0
  BY DEF ThreadInv, WakeInv
<1>3. WakeInv'
  BY <1>2 DEF ThreadInv, ThreadTypes, WakeInv
<1>4. StartInv'
  BY DEF StartInv
<1> QED
  BY <1>1, <1>3, <1>4 DEF ThreadInv

LEMMA FailureThreads == ASSUME ThreadInv, RecvFailure, UNCHANGED woken PROVE ThreadInv'
<1>1. startup' \in Seq({"ok", "err"})
  BY TailOf DEF RecvFailure, ThreadInv, ThreadTypes
<1>2. remaining' \in 0..Cardinality(Conns)
  BY DEF RecvFailure, ThreadInv, ThreadTypes
<1> QED
  BY <1>1, <1>2, FlagThreads DEF RecvFailure

LEMMA CloseThreads == ASSUME ThreadInv, Close \/ DrainEnds, UNCHANGED woken PROVE ThreadInv'
<1>1. startup' \in Seq({"ok", "err"})
  BY DEF Close, DrainEnds, BeginClose, ThreadInv, ThreadTypes
<1>2. {c \in Conns : conn[c] \in Busy} \in SUBSET Conns
  OBVIOUS
<1>3. INFLIGHT_REQUESTS \in 0..Cardinality(Conns)
  BY <1>2, Counting DEF INFLIGHT_REQUESTS
<1>4. remaining' \in 0..Cardinality(Conns)
  BY <1>3 DEF Close, DrainEnds, ThreadInv, ThreadTypes
<1> QED
  BY <1>1, <1>4, FlagThreads DEF Close, DrainEnds, BeginClose

LEMMA ShutdownThreads == ASSUME ThreadInv, Shutdown, UNCHANGED woken PROVE ThreadInv'
<1>0. /\ js = "serving" /\ js' = "draining" /\ draining_flag' = TRUE
      /\ UNCHANGED <<startup, ready, toWake, shutdown_flag, remaining, worker, woken>>
  BY DEF Shutdown
<1>1. ThreadTypes'
  BY <1>0 DEF ThreadInv, ThreadTypes
<1>2. WakeInv'
  BY <1>0 DEF ThreadInv, WakeInv
<1>3. StartInv'
  BY <1>0 DEF ThreadInv, StartInv
<1> QED
  BY <1>1, <1>2, <1>3 DEF ThreadInv

LEMMA WakeThreads == ASSUME ThreadInv, WakeOne PROVE ThreadInv'
<1>0. /\ js \in {"closing", "failing"} /\ toWake > 0 /\ toWake' = toWake - 1
      /\ UNCHANGED <<js, startup, ready, shutdown_flag, draining_flag, remaining, worker>>
      /\ \/ woken' = woken
         \/ \E w \in Workers : woken' = [woken EXCEPT ![w] = woken[w] + 1]
  BY DEF WakeOne, Listening
<1>1. toWake \in Nat /\ toWake' \in Nat /\ ready \in Nat /\ woken \in [Workers -> Nat]
  BY <1>0 DEF ThreadInv, ThreadTypes
<1>2. woken' \in [Workers -> Nat] /\ \A w \in Workers : woken'[w] <= woken[w] + 1
  BY <1>0, <1>1
<1>3. ThreadTypes'
  BY <1>0, <1>1, <1>2 DEF ThreadInv, ThreadTypes
<1>4. WakeInv'
  BY <1>0, <1>1, <1>2 DEF ThreadInv, WakeInv
<1>5. StartInv'
  BY <1>0 DEF StartInv
<1> QED
  BY <1>3, <1>4, <1>5 DEF ThreadInv

LEMMA JoinThreads == ASSUME ThreadInv, Join, UNCHANGED woken PROVE ThreadInv'
<1>0. /\ js \in {"closing", "failing"} /\ js' \in {"closed", "failed"}
      /\ \A w \in Workers : worker[w] = "exited"
      /\ UNCHANGED <<startup, ready, toWake, shutdown_flag, draining_flag, remaining, worker, woken>>
  BY DEF Join
<1>1. ThreadTypes'
  BY <1>0 DEF ThreadInv, ThreadTypes
<1>2. WakeInv'
  BY <1>0 DEF ThreadInv, WakeInv
<1>3. StartInv'
  BY <1>0 DEF StartInv
<1> QED
  BY <1>1, <1>2, <1>3 DEF ThreadInv

-----------------------------------------------------------------------------
(* The connections.                                                           *)

\* What ConnectionLimit says of one worker.
Within(w) ==
    /\ Cardinality(ServedBy(w)) <= active_connections[w]
    /\ active_connections[w] <= MAX_CONNECTIONS_PER_WORKER

LEMMA LimitParts == ConnectionLimit <=> \A w \in Workers : Within(w)
  BY DEF ConnectionLimit, Within

\* A step of a thread that opens, accepts and ends nothing.
LEMMA ConnsUnchanged ==
  ASSUME ConnInv, UNCHANGED <<backlog, conn, owner, active_connections>>,
         Listening \subseteq Listening', shutdown_flag => shutdown_flag'
  PROVE  ConnInv'
<1>1. ConnTypes'
  BY DEF ConnInv, ConnTypes
<1>2. OwnerInv'
  BY DEF ConnInv, OwnerInv
<1>3. BacklogInv'
  BY DEF ConnInv, BacklogInv
<1>4. ConnectionLimit'
  BY DEF ConnInv, ConnectionLimit, ServedBy
<1> QED
  BY <1>1, <1>2, <1>3, <1>4 DEF ConnInv

\* After shutdown only wake-up connections are added to a backlog.
LEMMA WakeConns == ASSUME ConnInv, ThreadInv, WakeOne PROVE ConnInv'
<1>0. /\ UNCHANGED <<conn, owner, active_connections, worker, shutdown_flag>> /\ shutdown_flag
      /\ \/ backlog' = backlog
         \/ \E w \in Workers : backlog' = [backlog EXCEPT ![w] = Append(backlog[w], Wake)]
  BY DEF WakeOne, connVars, Listening, ThreadInv, WakeInv
<1>1. backlog' \in [Workers -> Seq(Items)]
  <2>1. \A w \in Workers : Append(backlog[w], Wake) \in Seq(Items)
    BY AppendOf DEF Items, ConnInv, ConnTypes
  <2> QED
    BY <1>0, <2>1 DEF ConnInv, ConnTypes
<1>2. ConnTypes'
  BY <1>0, <1>1 DEF ConnInv, ConnTypes
<1>3. OwnerInv'
  BY <1>0 DEF ConnInv, OwnerInv, Listening
<1>4. BacklogInv'
  BY <1>0 DEF BacklogInv
<1>5. ConnectionLimit'
  BY <1>0 DEF ConnInv, ConnectionLimit, ServedBy
<1> QED
  BY <1>2, <1>3, <1>4, <1>5 DEF ConnInv

\* The worker drops its listener and its tasks.
LEMMA ExitConns ==
  ASSUME ConnInv, ThreadInv, NEW w \in Workers, Exit(w), shutdown_flag, UNCHANGED shutdown_flag
  PROVE  ConnInv'
<1> DEFINE gone == {c \in Conns : owner[c] = w /\ conn[c] \in Served \cup {"queued"}}
<1>0. /\ worker' = [worker EXCEPT ![w] = "exited"] /\ backlog' = [backlog EXCEPT ![w] = <<>>]
      /\ conn' = [c \in Conns |-> IF c \in gone THEN "closed" ELSE conn[c]]
      /\ active_connections' = [active_connections EXCEPT ![w] = 0] /\ owner' = owner
  BY DEF Exit
<1>1. <<>> \in Seq(Items)
  OBVIOUS
<1>2. ConnTypes'
  BY <1>0, <1>1 DEF ConnInv, ConnTypes
<1>3. \A c \in Conns : conn'[c] \in Served \cup {"queued"} => owner[c] # w /\ conn'[c] = conn[c]
  BY <1>0 DEF Served, Busy
<1>4. \A v \in Workers : v # w /\ v \in Listening => v \in Listening'
  BY <1>0 DEF Listening, ThreadInv, ThreadTypes
<1>5. OwnerInv'
  BY <1>0, <1>2, <1>3, <1>4 DEF ConnInv, ConnTypes, OwnerInv
<1>6. BacklogInv'
  BY DEF BacklogInv
<1>7. \A v \in Workers : Within(v)'
  <2> SUFFICES ASSUME NEW v \in Workers PROVE Within(v)'
    OBVIOUS
  <2>1. CASE v = w
    <3>1. ServedBy(w)' = {}
      BY <1>0, <1>3 DEF ServedBy
    <3>2. active_connections'[w] = 0
      BY <1>0 DEF ConnInv, ConnTypes
    <3> QED
      BY <2>1, <3>1, <3>2, FS_EmptySet, LifecycleAssumption DEF Within
  <2>2. CASE v # w
    <3>1. ServedBy(v)' = ServedBy(v)
      BY <1>0, <2>2 DEF ServedBy
    <3>2. active_connections'[v] = active_connections[v]
      BY <1>0, <2>2 DEF ConnInv, ConnTypes
    <3> QED
      BY <3>1, <3>2, LimitParts DEF ConnInv, Within
  <2> QED
    BY <2>1, <2>2
<1>8. ConnectionLimit'
  BY <1>7 DEF ConnectionLimit, Within
<1> QED
  BY <1>2, <1>5, <1>6, <1>8 DEF ConnInv

(* The connection at the head of the backlog is the one served, and it was not *)
(* served before.                                                             *)
LEMMA AcceptConns ==
  ASSUME ConnInv, ThreadInv, NEW w \in Workers, Accept(w), ~shutdown_flag
  PROVE  ConnInv' /\ worker' = [worker EXCEPT ![w] = "check"]
<1> DEFINE c == Head(backlog[w])  n == active_connections[w]
<1>0. /\ worker[w] = "accept" /\ backlog[w] # <<>> /\ worker' = [worker EXCEPT ![w] = "check"]
      /\ backlog' = [backlog EXCEPT ![w] = Tail(backlog[w])]
      /\ conn' = [conn EXCEPT ![c] = IF MayServe(w) THEN "accepted" ELSE "closed"]
      /\ active_connections' = [active_connections EXCEPT ![w] = IF MayServe(w) THEN n + 1 ELSE n]
      /\ owner' = owner /\ shutdown_flag' = shutdown_flag
  BY DEF Accept, jsVars
<1>1. /\ Tail(backlog[w]) \in Seq(Items) /\ Len(backlog[w]) \in Nat \ {0}
      /\ Len(Tail(backlog[w])) = Len(backlog[w]) - 1 /\ c = backlog[w][1]
      /\ \A i \in 1..Len(backlog[w]) - 1 :
            i + 1 \in 1..Len(backlog[w]) /\ Tail(backlog[w])[i] = backlog[w][i + 1]
  BY <1>0, TailOf DEF ConnInv, ConnTypes
<1>2. c \in Conns /\ conn[c] = "queued" /\ owner[c] = w
  BY <1>1 DEF ConnInv, BacklogInv
<1>3. n \in Nat /\ MAX_CONNECTIONS_PER_WORKER \in Nat /\ (MayServe(w) => n + 1 <= MAX_CONNECTIONS_PER_WORKER)
  BY LifecycleAssumption DEF ConnInv, ConnTypes, MayServe
<1> HIDE DEF c, n
<1>4. /\ conn' \in [Conns -> Served \cup {"none", "queued", "closed"}]
      /\ conn'[c] = IF MayServe(w) THEN "accepted" ELSE "closed"
      /\ \A d \in Conns : d # c => conn'[d] = conn[d]
  BY <1>0, <1>2 DEF ConnInv, ConnTypes, Served
<1>5. /\ active_connections' \in [Workers -> Nat]
      /\ active_connections'[w] = IF MayServe(w) THEN n + 1 ELSE n
      /\ \A v \in Workers : v # w => active_connections'[v] = active_connections[v]
  BY <1>0, <1>3 DEF ConnInv, ConnTypes
<1>6. /\ backlog' \in [Workers -> Seq(Items)] /\ backlog'[w] = Tail(backlog[w])
      /\ \A v \in Workers : v # w => backlog'[v] = backlog[v]
  BY <1>0, <1>1 DEF ConnInv, ConnTypes
<1>7. ConnTypes'
  BY <1>0, <1>4, <1>5, <1>6 DEF ConnInv, ConnTypes
<1>8. Listening' = Listening
  BY <1>0 DEF Listening, ThreadInv, ThreadTypes
<1>9. OwnerInv'
  BY <1>0, <1>2, <1>4, <1>8 DEF ConnInv, OwnerInv
<1>10. BacklogInv'
  <2> SUFFICES ASSUME NEW v \in Workers
               PROVE  /\ \A i \in 1..Len(backlog'[v]) :
                            /\ backlog'[v][i] \in Conns
                            /\ conn'[backlog'[v][i]] = "queued" /\ owner'[backlog'[v][i]] = v
                      /\ \A i, j \in 1..Len(backlog'[v]) : backlog'[v][i] = backlog'[v][j] => i = j
    BY DEF BacklogInv
  <2>1. /\ \A i \in 1..Len(backlog[v]) :
              /\ backlog[v][i] \in Conns
              /\ conn[backlog[v][i]] = "queued" /\ owner[backlog[v][i]] = v
        /\ \A i, j \in 1..Len(backlog[v]) : backlog[v][i] = backlog[v][j] => i = j
    BY DEF ConnInv, BacklogInv
  <2>2. CASE v = w
    <3>1. \A i \in 1..Len(backlog'[w]) : i + 1 \in 1..Len(backlog[w]) /\ backlog'[w][i] = backlog[w][i + 1]
                                         /\ i + 1 # 1
      BY <1>1, <1>6
    <3>2. 1 \in 1..Len(backlog[w])
      BY <1>1
    <3>3. \A i \in 1..Len(backlog'[w]) : backlog'[w][i] # c
      BY <1>1, <2>1, <2>2, <3>1, <3>2
    <3>4. \A i, j \in 1..Len(backlog'[w]) : backlog'[w][i] = backlog'[w][j] => i = j
      BY <2>1, <2>2, <3>1
    <3> QED
      BY <1>0, <1>4, <2>1, <2>2, <3>1, <3>3, <3>4, SMTT(30)
  <2>3. CASE v # w
    <3>1. backlog'[v] = backlog[v] /\ \A i \in 1..Len(backlog[v]) : backlog[v][i] # c
      BY <1>2, <1>6, <2>1, <2>3
    <3> QED
      BY <1>0, <1>4, <2>1, <3>1
  <2> QED
    BY <2>2, <2>3
<1>11. \A v \in Workers : Within(v)'
  <2> SUFFICES ASSUME NEW v \in Workers PROVE Within(v)'
    OBVIOUS
  <2>0. Within(v) /\ ServedBy(v) \in SUBSET Conns /\ c \notin ServedBy(v)
    BY <1>2, LimitParts DEF ConnInv, ServedBy, Served, Busy
  <2>1. CASE v = w /\ MayServe(w)
    <3>1. ServedBy(w)' = ServedBy(w) \cup {c}
      BY <1>0, <1>2, <1>4, <2>1 DEF ServedBy, Served
    <3>2. Cardinality(ServedBy(w)') = Cardinality(ServedBy(w)) + 1 /\ Cardinality(ServedBy(w)) \in Nat
      BY <1>2, <2>0, <2>1, <3>1, CountingServed
    <3> QED
      BY <1>3, <1>5, <2>0, <2>1, <3>2 DEF Within, n
  <2>2. CASE ~(v = w /\ MayServe(w))
    <3>1. ServedBy(v)' = ServedBy(v)
      BY <1>0, <1>2, <1>4, <2>2 DEF ServedBy, Served, Busy
    <3>2. active_connections'[v] = active_connections[v]
      BY <1>5, <2>2 DEF n
    <3> QED
      BY <2>0, <3>1, <3>2 DEF Within
  <2> QED
    BY <2>1, <2>2
<1>12. ConnectionLimit'
  BY <1>11 DEF ConnectionLimit, Within
<1> QED
  BY <1>0, <1>7, <1>9, <1>10, <1>12 DEF ConnInv

LEMMA ConnectConns ==
  ASSUME ConnInv, NEW c \in Conns, NEW w \in Workers, Connect(c, w)
  PROVE  ConnInv'
<1>0. /\ conn[c] = "none" /\ w \in Listening /\ conn' = [conn EXCEPT ![c] = "queued"]
      /\ owner' = [owner EXCEPT ![c] = w]
      /\ backlog' = [backlog EXCEPT ![w] = Append(backlog[w], c)]
      /\ UNCHANGED <<worker, active_connections, shutdown_flag>>
  BY DEF Connect, jsVars
<1>1. /\ Append(backlog[w], c) \in Seq(Items) /\ Len(backlog[w]) \in Nat
      /\ Len(Append(backlog[w], c)) = Len(backlog[w]) + 1
      /\ \A i \in 1..Len(backlog[w]) : Append(backlog[w], c)[i] = backlog[w][i]
      /\ Append(backlog[w], c)[Len(backlog[w]) + 1] = c
  BY AppendOf DEF ConnInv, ConnTypes, Items
<1>2. ConnTypes'
  BY <1>0, <1>1 DEF ConnInv, ConnTypes
<1>3. /\ conn'[c] = "queued" /\ owner'[c] = w /\ backlog'[w] = Append(backlog[w], c)
      /\ \A d \in Conns : d # c => conn'[d] = conn[d] /\ owner'[d] = owner[d]
      /\ \A v \in Workers : v # w => backlog'[v] = backlog[v]
  BY <1>0 DEF ConnInv, ConnTypes
<1>4. Listening' = Listening
  BY <1>0 DEF Listening
<1>5. OwnerInv'
  BY <1>0, <1>3, <1>4 DEF ConnInv, OwnerInv
<1>6. BacklogInv'
  <2> SUFFICES ASSUME ~shutdown_flag, NEW v \in Workers
               PROVE  /\ \A i \in 1..Len(backlog'[v]) :
                            /\ backlog'[v][i] \in Conns
                            /\ conn'[backlog'[v][i]] = "queued" /\ owner'[backlog'[v][i]] = v
                      /\ \A i, j \in 1..Len(backlog'[v]) : backlog'[v][i] = backlog'[v][j] => i = j
    BY <1>0 DEF BacklogInv
  <2>1. /\ \A i \in 1..Len(backlog[v]) :
              /\ backlog[v][i] \in Conns /\ backlog[v][i] # c
              /\ conn[backlog[v][i]] = "queued" /\ owner[backlog[v][i]] = v
        /\ \A i, j \in 1..Len(backlog[v]) : backlog[v][i] = backlog[v][j] => i = j
    BY <1>0 DEF ConnInv, BacklogInv
  <2>2. CASE v = w
    <3>1. \A i \in 1..Len(backlog'[w]) :
            \/ i \in 1..Len(backlog[w]) /\ backlog'[w][i] = backlog[w][i]
            \/ i = Len(backlog[w]) + 1 /\ backlog'[w][i] = c
      BY <1>1, <1>3
    <3>2. \A i \in 1..Len(backlog'[w]) :
            /\ backlog'[w][i] \in Conns
            /\ conn'[backlog'[w][i]] = "queued" /\ owner'[backlog'[w][i]] = w
      BY <1>3, <2>1, <2>2, <3>1
    <3>3. \A i, j \in 1..Len(backlog'[w]) : backlog'[w][i] = backlog'[w][j] => i = j
      BY <2>1, <2>2, <3>1
    <3> QED
      BY <2>2, <3>2, <3>3
  <2>3. CASE v # w
    BY <1>3, <2>1, <2>3
  <2> QED
    BY <2>2, <2>3
<1>7. \A v \in Workers : ServedBy(v)' = ServedBy(v)
  BY <1>0, <1>3 DEF ServedBy, Served, Busy
<1>8. ConnectionLimit'
  BY <1>0, <1>7 DEF ConnInv, ConnectionLimit
<1> QED
  BY <1>2, <1>5, <1>6, <1>8 DEF ConnInv

(* A served connection goes on to another state, or ends; the counter of its    *)
(* worker goes down by at most one, and only with the connection.             *)
LEMMA ServedStep ==
  ASSUME ConnInv, NEW c \in Conns, conn[c] \in Served, NEW to \in Served \cup {"closed"},
         conn' = [conn EXCEPT ![c] = to],
         \/ active_connections' = active_connections
         \/ /\ to = "closed"
            /\ active_connections' = [active_connections EXCEPT ![owner[c]] =
                  IF active_connections[owner[c]] > 0 THEN active_connections[owner[c]] - 1 ELSE 0],
         UNCHANGED <<worker, backlog, owner, shutdown_flag>>
  PROVE  ConnInv'
<1>1. /\ conn' \in [Conns -> Served \cup {"none", "queued", "closed"}] /\ conn'[c] = to
      /\ \A d \in Conns : d # c => conn'[d] = conn[d]
  BY DEF ConnInv, ConnTypes
<1>2. active_connections \in [Workers -> Nat] /\ owner[c] \in Workers
  BY DEF ConnInv, ConnTypes
<1>3. active_connections' \in [Workers -> Nat]
      /\ \A v \in Workers : v # owner[c] => active_connections'[v] = active_connections[v]
  BY <1>2
<1>4. ConnTypes'
  BY <1>1, <1>3 DEF ConnInv, ConnTypes
<1>5. OwnerInv'
  BY <1>1 DEF ConnInv, OwnerInv, Listening
<1>6. BacklogInv'
  <2>1. conn[c] # "queued"
    BY DEF Served, Busy
  <2> QED
    BY <1>1, <2>1 DEF ConnInv, BacklogInv
<1>7. \A v \in Workers : Within(v)'
  <2> SUFFICES ASSUME NEW v \in Workers PROVE Within(v)'
    OBVIOUS
  <2>0. Within(v) /\ ServedBy(v) \in SUBSET Conns /\ Cardinality(ServedBy(v)) \in Nat
    BY LimitParts, CountingServed DEF ConnInv, ServedBy
  <2>1. CASE v # owner[c]
    <3>1. ServedBy(v)' = ServedBy(v)
      BY <1>1, <2>1 DEF ServedBy
    <3> QED
      BY <1>3, <2>0, <2>1, <3>1 DEF Within
  <2>2. CASE v = owner[c] /\ active_connections' = active_connections
    <3>1. ServedBy(v)' \in SUBSET ServedBy(v)
      BY <1>1 DEF ServedBy
    <3>2. Cardinality(ServedBy(v)') \in Nat /\ Cardinality(ServedBy(v)') <= Cardinality(ServedBy(v))
      BY <2>0, <3>1, CountingServed
    <3> QED
      BY <1>2, <2>0, <2>2, <3>2 DEF Within
  <2>3. CASE v = owner[c] /\ active_connections' # active_connections
    <3>1. to = "closed" /\ c \in ServedBy(v)
      BY <2>3 DEF ServedBy
    <3>2. ServedBy(v)' = ServedBy(v) \ {c}
      BY <1>1, <3>1 DEF ServedBy, Served, Busy
    <3>3. /\ Cardinality(ServedBy(v)) > 0
          /\ Cardinality(ServedBy(v)') = Cardinality(ServedBy(v)) - 1
      BY <2>0, <3>1, <3>2, CountingServed
    <3>4. active_connections[v] \in Nat /\ active_connections[v] > 0
      BY <1>2, <2>0, <2>3, <3>3 DEF Within
    <3>5. active_connections'[v] = active_connections[v] - 1
      BY <1>2, <2>3, <3>4
    <3> QED
      BY <2>0, <3>3, <3>4, <3>5, LifecycleAssumption DEF Within
  <2> QED
    BY <2>1, <2>2, <2>3
<1>8. ConnectionLimit'
  BY <1>7 DEF ConnectionLimit, Within
<1> QED
  BY <1>4, <1>5, <1>6, <1>8 DEF ConnInv

-----------------------------------------------------------------------------
(* One step per action.                                                       *)

LEMMA InitInv == Init => IInv
<1> SUFFICES ASSUME Init PROVE IInv
  OBVIOUS
<1>0. <<>> \in Seq({"ok", "err"}) /\ 0 \in 0..Cardinality(Conns) /\ 0 <= Cardinality(Workers)
  BY Counting
<1>1. ThreadTypes
  BY <1>0 DEF Init, ThreadTypes
<1>2. WakeInv
  BY DEF Init, WakeInv
<1>3. Reported = {} /\ Len(startup) = 0 /\ ready = 0
  BY DEF Init, Reported
<1>4. StartInv
  BY <1>3, FS_EmptySet DEF Init, StartInv
<1>5. (CHOOSE w \in Workers : TRUE) \in Workers
  BY LifecycleAssumption
<1>6. <<>> \in Seq(Items)
  OBVIOUS
<1>7. ConnTypes
  BY <1>5, <1>6 DEF Init, ConnTypes
<1>8. \A c \in Conns : conn[c] \notin Served \cup {"queued"}
  BY DEF Init, Served, Busy
<1>9. \A w \in Workers : ServedBy(w) = {} /\ active_connections[w] = 0 /\ Len(backlog[w]) = 0
  BY <1>8 DEF Init, ServedBy
<1>10. OwnerInv
  BY <1>8 DEF OwnerInv
<1>11. BacklogInv
  BY <1>9 DEF BacklogInv
<1>12. ConnectionLimit
  <2>1. Cardinality({}) = 0 /\ 0 <= MAX_CONNECTIONS_PER_WORKER
    BY FS_EmptySet, LifecycleAssumption
  <2> QED
    BY <1>9, <2>1 DEF ConnectionLimit
<1> QED
  BY <1>1, <1>2, <1>4, <1>7, <1>10, <1>11, <1>12 DEF IInv, ThreadInv, ConnInv

LEMMA JsThreadKeeps == ASSUME IInv, JsThread PROVE IInv'
<1>1. CASE WakeOne
  BY <1>1, WakeThreads, WakeConns DEF IInv
<1>2. CASE (Start \/ RecvReady \/ RecvFailure \/ DrainEnds \/ Join) /\ UNCHANGED woken
  <2>1. ThreadInv'
    BY <1>2, StartThreads, ReadyThreads, FailureThreads, CloseThreads, JoinThreads DEF IInv
  <2>2. UNCHANGED <<backlog, conn, owner, active_connections>> /\ (shutdown_flag => shutdown_flag')
    BY <1>2 DEF Start, RecvReady, RecvFailure, DrainEnds, BeginClose, Join, connVars
  <2>3. Listening \subseteq Listening'
    <3>1. CASE Start
      BY <3>1 DEF Start, Listening, IInv, ThreadInv, StartInv
    <3>2. CASE ~Start
      BY <1>2, <3>2 DEF RecvReady, RecvFailure, DrainEnds, BeginClose, Join, Listening
    <3> QED
      BY <3>1, <3>2
  <2> QED
    BY <2>1, <2>2, <2>3, ConnsUnchanged DEF IInv
<1> QED
  BY <1>1, <1>2 DEF JsThread

LEMMA CloseKeeps == ASSUME IInv, Close \/ Shutdown, UNCHANGED woken PROVE IInv'
<1>1. ThreadInv'
  BY CloseThreads, ShutdownThreads DEF IInv
<1>2. /\ UNCHANGED <<backlog, conn, owner, active_connections, worker>>
      /\ shutdown_flag => shutdown_flag'
  BY DEF Close, Shutdown, BeginClose, connVars
<1>3. Listening \subseteq Listening'
  BY <1>2 DEF Listening
<1> QED
  BY <1>1, <1>2, <1>3, ConnsUnchanged DEF IInv

LEMMA WorkerKeeps == ASSUME IInv, NEW w \in Workers, Worker(w) PROVE IInv'
<1>1. CASE WorkerBinds(w) \/ WorkerFails(w)
  <2>0. /\ worker[w] = "boot" /\ UNCHANGED woken
        /\ UNCHANGED <<backlog, conn, owner, active_connections>>
        /\ UNCHANGED <<js, ready, toWake, shutdown_flag, draining_flag, remaining>>
    BY <1>1 DEF Worker, WorkerBinds, WorkerFails, connVars, Exit, CheckFlag, Accept
  <2>1. PICK to \in {"check", "exited"}, report \in {"ok", "err"} :
          /\ to = "exited" => report = "err"
          /\ worker' = [worker EXCEPT ![w] = to] /\ startup' = Append(startup, report)
    BY <1>1 DEF WorkerBinds, WorkerFails
  <2>2. ThreadInv'
    BY <2>0, <2>1, ReportStep DEF IInv
  <2>3. Listening \subseteq Listening'
    BY <2>0, <2>1 DEF Listening, IInv, ThreadInv, ThreadTypes
  <2> QED
    BY <2>0, <2>2, <2>3, ConnsUnchanged DEF IInv
<1>2. CASE CheckFlag(w)
  <2>0. worker[w] = "check" /\ UNCHANGED <<jsVars, woken>>
    BY <1>2 DEF CheckFlag, Worker
  <2>1. CASE shutdown_flag
    <3>1. Exit(w) /\ worker' = [worker EXCEPT ![w] = "exited"] /\ UNCHANGED shutdown_flag
      BY <1>2, <2>1 DEF CheckFlag, Exit, jsVars
    <3> QED
      BY <2>0, <2>1, <3>1, LoopStep, ExitConns DEF IInv
  <2>2. CASE ~shutdown_flag
    <3>1. /\ worker' = [worker EXCEPT ![w] = "accept"] /\ UNCHANGED shutdown_flag
          /\ UNCHANGED <<backlog, conn, owner, active_connections>>
      BY <1>2, <2>2 DEF CheckFlag, connVars, jsVars
    <3>2. Listening \subseteq Listening'
      BY <3>1 DEF Listening, IInv, ThreadInv, ThreadTypes
    <3> QED
      BY <2>0, <3>1, <3>2, LoopStep, ConnsUnchanged DEF IInv
  <2> QED
    BY <2>1, <2>2
<1>3. CASE Accept(w)
  <2>0. worker[w] = "accept" /\ UNCHANGED <<jsVars, woken>>
    BY <1>3 DEF Accept, Worker
  <2>1. CASE shutdown_flag
    <3>1. Exit(w) /\ worker' = [worker EXCEPT ![w] = "exited"] /\ UNCHANGED shutdown_flag
      BY <1>3, <2>1 DEF Accept, Exit, jsVars
    <3> QED
      BY <2>0, <2>1, <3>1, LoopStep, ExitConns DEF IInv
  <2>2. CASE ~shutdown_flag
    <3>1. ConnInv' /\ worker' = [worker EXCEPT ![w] = "check"]
      BY <1>3, <2>2, AcceptConns DEF IInv
    <3> QED
      BY <2>0, <3>1, LoopStep DEF IInv
  <2> QED
    BY <2>1, <2>2
<1> QED
  BY <1>1, <1>2, <1>3 DEF Worker

LEMMA ConnectionKeeps == ASSUME IInv, NEW c \in Conns, Connection(c) PROVE IInv'
<1>1. UNCHANGED <<jsVars, worker, woken>> /\ UNCHANGED <<backlog, owner, shutdown_flag>>
  BY DEF Connection, RequestArrives, JsHandles, Respond, WsEnds, ConnCloses, TaskStarts,
         PollIoFails, ConnStep, jsVars
<1>2. ThreadInv'
  BY <1>1, ThreadsUnchanged DEF IInv
<1>3. CASE ConnCloses(c)
  <2>1. /\ conn[c] \in Served /\ conn' = [conn EXCEPT ![c] = "closed"]
        /\ active_connections' = [active_connections EXCEPT ![owner[c]] =
              IF active_connections[owner[c]] > 0 THEN active_connections[owner[c]] - 1 ELSE 0]
    BY <1>3 DEF ConnCloses, Served, Busy
  <2> QED
    BY <1>1, <1>2, <2>1, ServedStep DEF IInv
<1>4. CASE ~ConnCloses(c)
  <2>1. PICK from \in Served, to \in Served \cup {"closed"} : ConnStep(c, from, to)
    <3>1. \E from \in Busy \cup {"accepted", "idle"}, to \in Busy \cup {"accepted", "idle", "closed"} :
             ConnStep(c, from, to)
      BY <1>4 DEF Connection, RequestArrives, JsHandles, Respond, WsEnds, TaskStarts, PollIoFails, Busy
    <3> QED
      BY <3>1 DEF Served
  <2>2. conn[c] \in Served /\ conn' = [conn EXCEPT ![c] = to] /\ active_connections' = active_connections
    BY <2>1 DEF ConnStep
  <2> QED
    BY <1>1, <1>2, <2>2, ServedStep DEF IInv
<1> QED
  BY <1>3, <1>4

LEMMA StepInv == IInv /\ [Next]_vars => IInv'
<1> SUFFICES ASSUME IInv, [Next]_vars PROVE IInv'
  OBVIOUS
<1>1. ASSUME NEW c \in Conns, NEW w \in Workers, Connect(c, w), UNCHANGED woken PROVE IInv'
  <2>1. UNCHANGED <<jsVars, worker, woken>>
    BY <1>1 DEF Connect
  <2> QED
    BY <1>1, <2>1, ThreadsUnchanged, ConnectConns DEF IInv
<1>2. CASE UNCHANGED vars
  <2>1. UNCHANGED <<jsVars, worker, woken>> /\ UNCHANGED <<backlog, conn, owner, active_connections>>
        /\ UNCHANGED shutdown_flag
    BY <1>2 DEF vars, connVars, jsVars
  <2>2. Listening \subseteq Listening'
    BY <2>1 DEF Listening
  <2> QED
    BY <2>1, <2>2, ThreadsUnchanged, ConnsUnchanged DEF IInv
<1> QED
  BY <1>1, <1>2, JsThreadKeeps, CloseKeeps, WorkerKeeps, ConnectionKeeps DEF Next

(* Once start_server has returned a handle every worker is in its accept loop,  *)
(* and stays there until close() or the end of a drain; once close() or a       *)
(* failed start has returned no worker is alive and no connection is open; and  *)
(* no worker serves more connections than MAX_CONNECTIONS_PER_WORKER, though    *)
(* its counter is kept apart from the tasks (lib.rs:405-416, 795-1130).         *)
THEOREM ServerIsSafe == Spec => []LifecycleSafe
<1>1. IInv => LifecycleSafe
  <2> SUFFICES ASSUME IInv PROVE LifecycleSafe
    OBVIOUS
  <2>1. \A w \in Workers : woken[w] <= Cardinality(Workers)
    BY Counting DEF IInv, ThreadInv, ThreadTypes, WakeInv
  <2>2. woken \in [Workers -> 0..Cardinality(Workers)]
    BY <2>1, Counting DEF IInv, ThreadInv, ThreadTypes
  <2>3. ready \in 0..Cardinality(Workers) /\ toWake \in 0..ready
    BY Counting DEF IInv, ThreadInv, ThreadTypes, WakeInv
  <2>4. TypeOK
    BY <2>2, <2>3 DEF IInv, ThreadInv, ThreadTypes, ConnInv, ConnTypes, Items, TypeOK
  <2>5. ServingMeansListening
    BY DEF IInv, ThreadInv, StartInv, ServingMeansListening
  <2>6. NothingAfterClose
    <3>1. ASSUME js \in {"closed", "failed"}, NEW c \in Conns PROVE conn[c] \in {"none", "closed"}
      <4>1. Listening = {}
        BY <3>1 DEF IInv, ThreadInv, StartInv, Listening
      <4> QED
        BY <4>1 DEF IInv, ConnInv, ConnTypes, OwnerInv
    <3> QED
      BY <3>1 DEF IInv, ThreadInv, StartInv, NothingAfterClose
  <2> QED
    BY <2>4, <2>5, <2>6 DEF IInv, ConnInv, LifecycleSafe
<1> QED
  BY InitInv, StepInv, <1>1, PTL DEF Spec
=============================================================================
