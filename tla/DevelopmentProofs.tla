--------------------------- MODULE DevelopmentProofs ---------------------------
(***************************************************************************)
(* Proofs about running an application in development (Development): what a   *)
(* development server serves and reports, what is left after a close, and that *)
(* a process that replaces itself does so for edits only.                      *)
(*                                                                         *)
(* The snapshots are the heart of the first: each belongs to one server or to  *)
(* one load that waits for its server, so that a swap, a refused swap and a    *)
(* start can only dispose of a snapshot that nobody else has.                  *)
(*                                                                         *)
(* The route comments are about texts: what is left of a file without the     *)
(* writer's lines, where a block goes, and that a block put in or said anew    *)
(* moves none of the user's lines.  A process only does that, and the          *)
(* invariant of its file (TextInv) says which text its writer knows.           *)
(***************************************************************************)
EXTENDS Development, SequenceTheorems, FiniteSetTheorems, WellFoundedInduction, TLAPS

\* What a load, a native server and a watch controller are.
Load ==
    [pc : {"import", "evaluated", "listening", "starting", "finish", "done", "failed"},
     type : {"initial", "reload"}, rev : Nat, entry : Contents, previousContext : Nat,
     roots : Nat, snap : Nat]
Server == [open : BOOLEAN, code : Nat, manifest : Nat]
Watch == [live : BOOLEAN, roots : Nat, previousSnapshot : Nat, ready : BOOLEAN, restartTimer : BOOLEAN]

-----------------------------------------------------------------------------
(* The inductive invariant of the development server.                         *)

Files ==
    /\ mode \in {"dev", "app"} /\ rev \in Nat
    /\ watch \in Watch /\ watch.previousSnapshot <= rev /\ (watch.restartTimer => watch.live)
    /\ mode = "dev" => tree \in Contents

Types ==
    /\ loads \in Seq(Load) /\ context \in 0..Len(loads) /\ observedSelfStart \in BOOLEAN
    /\ snaps \in Seq(Nat) /\ disposed \in SUBSET (1..Len(snaps))
    /\ servers \in Seq(Server) /\ currentServer \in 0..Len(servers)
    /\ state \in {"starting", "reloading", "ready", "error", "closing", "closed"}
    /\ closing \in {"no", "awaiting", "ended"}
    /\ overlapped \in BOOLEAN /\ closedLoading \in BOOLEAN
    /\ \A l \in 1..Len(loads) : loads[l].previousContext < l /\ loads[l].snap <= Len(snaps)

\* A load that waits for its server has a snapshot for it.
Waits(l) == loads[l].pc \in {"starting", "listening"}

\* Snapshots are of one server or one waiting load, and in use until disposed of.
Snapshots ==
    /\ \A s \in 1..Len(servers) :
          /\ servers[s].code = servers[s].manifest /\ servers[s].code \in 1..Len(snaps)
          /\ servers[s].open => servers[s].code \notin disposed
    /\ \A s, t \in 1..Len(servers) : servers[s].code = servers[t].code => s = t
    /\ \A l \in 1..Len(loads) : Waits(l) =>
          /\ loads[l].snap \in 1..Len(snaps) /\ loads[l].snap \notin disposed
          /\ \A s \in 1..Len(servers) : servers[s].code # loads[l].snap
          /\ \A m \in 1..Len(loads) : Waits(m) /\ loads[m].snap = loads[l].snap => m = l

\* The first load runs alone, and leaves a server when it ends well.
First ==
    /\ Len(loads) >= 1
    /\ loads[1].pc # "done" => Len(loads) = 1 /\ ~watch.live /\ closing = "no"
    /\ loads[1].pc \in {"listening", "evaluated"} => observedSelfStart
    /\ loads[1].pc = "import" => ~observedSelfStart /\ context = 1
    /\ loads[1].pc \in {"evaluated", "finish", "done"} /\ closing # "ended" => currentServer # 0

\* The code that the server held would run.
Code == snaps[servers[currentServer].code]

\* Load g is the last one that ended well.
LastGood(g) ==
    /\ g \in 1..Len(loads) /\ loads[g].pc = "done"
    /\ \A l \in 1..Len(loads) : loads[l].pc = "done" => l <= g

\* As long as no two loads overlapped, the last one is the only one that runs,
\* the server is the only one, and it has the code of the last load that
\* reached it.
Serial ==
    LET last == Len(loads) IN
    /\ \A l \in 1..Len(loads) : loads[l].pc \notin {"done", "failed"} => l = last
    /\ Len(servers) = currentServer /\ currentServer <= 1
    /\ \A s \in 1..Len(servers) : servers[s].open
    /\ loads[last].pc \in {"done", "failed"}
         => context = 0 /\ state = IF loads[last].pc = "done" THEN "ready" ELSE "error"
    /\ loads[last].pc \notin {"done", "failed"} => context = last /\ loads[last].previousContext = 0
    /\ loads[last].pc = "import" => ~observedSelfStart
    /\ loads[last].pc \in {"listening", "evaluated"} => observedSelfStart
    /\ Waits(last) => currentServer = 0 /\ snaps[loads[last].snap] = loads[last].rev
    /\ loads[last].pc \in {"evaluated", "finish"} => currentServer # 0 /\ Code = loads[last].rev
    /\ \/ \A l \in 1..Len(loads) : loads[l].pc # "done"
       \/ /\ currentServer # 0
          /\ \E g \in 1..Len(loads) :
                LastGood(g) /\ (loads[last].pc \notin {"evaluated", "finish"} => Code = loads[g].rev)

\* What a close() that found no load under way leaves.
Shut ==
    /\ \A l \in 1..Len(loads) : loads[l].pc \in {"done", "failed"}
    /\ ~watch.live /\ \A s \in 1..Len(servers) : ~servers[s].open

DevInv ==
    /\ Types /\ Snapshots
    /\ mode = "app" => DevIdle
    /\ mode = "dev" =>
          /\ First
          /\ ~overlapped /\ ~closed => Serial
          /\ ~overlapped /\ closed /\ ~closedLoading => Shut

-----------------------------------------------------------------------------
(* The inductive invariant of a process of its own.                           *)

HotTypes ==
    /\ DOMAIN proc = {"pc", "rev", "marks", "routes"}
    /\ proc.pc \in {"exec", "compiling", "up", "draining", "stopped", "restarting", "exited", "killed"}
    /\ hotReload \in BOOLEAN /\ open \in BOOLEAN
    /\ spawned \in Nat /\ procs \in Nat /\ edits \in Nat
    /\ (open => proc.pc = "up") /\ spawned < procs

\* A process is watched only when it replaces itself, and then it has no comment
\* writer, so that every change of the sources is an edit; a restart stands for
\* one that its watcher saw.
Restarts ==
    /\ watch.live => hotReload /\ proc.pc \in {"up", "draining"}
    /\ ~hotReload => spawned = 0 /\ proc.pc # "restarting"
    /\ hotReload => writer = NoWriter /\ rev = edits /\ spawned <= rev
    /\ watch.live => spawned <= watch.previousSnapshot
    /\ watch.restartTimer => spawned < watch.previousSnapshot
    /\ proc.pc = "restarting" => spawned < rev

HotInv ==
    /\ HotTypes
    /\ mode = "dev" => proc.pc = "exited" /\ spawned = 0
    /\ mode = "app" => Restarts

IInv == Files /\ DevInv /\ HotInv

-----------------------------------------------------------------------------
(* How the loads change.                                                      *)

Pcs == {"import", "evaluated", "listening", "starting", "finish", "done", "failed"}

\* Load l has gone on to pc and has snapshot k; nothing else that matters changed.
Moved(l, pc, k) ==
    /\ loads' \in Seq(Load) /\ Len(loads') = Len(loads)
    /\ \A m \in 1..Len(loads) :
          /\ loads'[m].pc = (IF m = l THEN pc ELSE loads[m].pc)
          /\ loads'[m].snap = (IF m = l THEN k ELSE loads[m].snap)
          /\ loads'[m].rev = loads[m].rev /\ loads'[m].previousContext = loads[m].previousContext

\* What the fields of a load are after one of them changed.
LEMMA PcField ==
  ASSUME NEW x \in Load, NEW pc \in Pcs
  PROVE  LET y == [x EXCEPT !.pc = pc]
         IN  /\ y \in Load /\ y.pc = pc /\ y.snap = x.snap /\ y.rev = x.rev
             /\ y.previousContext = x.previousContext
  BY DEF Load, Pcs

\* The same for its snapshot.
LEMMA SnapField ==
  ASSUME NEW x \in Load, NEW k \in Nat
  PROVE  LET y == [x EXCEPT !.snap = k]
         IN  /\ y \in Load /\ y.pc = x.pc /\ y.snap = k /\ y.rev = x.rev
             /\ y.previousContext = x.previousContext
  BY DEF Load

\* The same for the roots it wants watched.
LEMMA RootsField ==
  ASSUME NEW x \in Load, NEW r \in Nat
  PROVE  LET y == [x EXCEPT !.roots = r]
         IN  /\ y \in Load /\ y.pc = x.pc /\ y.snap = x.snap /\ y.rev = x.rev
             /\ y.previousContext = x.previousContext
  BY DEF Load

\* One load of a list gets another record.
LEMMA OneLoad ==
  ASSUME NEW q \in Seq(Load), NEW l \in 1..Len(q), NEW x \in Load
  PROVE  /\ [q EXCEPT ![l] = x] \in Seq(Load) /\ Len([q EXCEPT ![l] = x]) = Len(q)
         /\ \A m \in 1..Len(q) : [q EXCEPT ![l] = x][m] = (IF m = l THEN x ELSE q[m])
  BY ExceptSeq

\* A load that goes on to pc keeps its snapshot.
LEMMA GotoMoves ==
  ASSUME loads \in Seq(Load), NEW l \in 1..Len(loads), NEW pc \in Pcs, Goto(l, pc)
  PROVE  Moved(l, pc, loads[l].snap)
<1> DEFINE x == [loads[l] EXCEPT !.pc = pc]
<1>1. loads[l] \in Load
  BY ElementOfSeq
<1>2. x \in Load /\ x.pc = pc /\ x.snap = loads[l].snap /\ x.rev = loads[l].rev
      /\ x.previousContext = loads[l].previousContext
  BY <1>1, PcField
<1>3. loads' = [loads EXCEPT ![l] = x]
  BY DEF Goto
<1> HIDE DEF x
<1> QED
  BY <1>2, <1>3, OneLoad DEF Moved

\* What applyToServer makes of the loads.
LEMMA ApplyMoves ==
  ASSUME loads \in Seq(Load), NEW l \in 1..Len(loads), NEW o \in 1..Len(loads), NEW pc \in Pcs, NEW r \in Nat,
         loads' = [loads EXCEPT ![l].pc = pc, ![o].roots = r]
  PROVE  Moved(l, pc, loads[l].snap)
<1> DEFINE x == [loads[l] EXCEPT !.pc = pc]
           q == [loads EXCEPT ![l] = x]
           y == [q[o] EXCEPT !.roots = r]
<1>1. loads[l] \in Load
  BY ElementOfSeq
<1>2. x \in Load /\ x.pc = pc /\ x.snap = loads[l].snap /\ x.rev = loads[l].rev
      /\ x.previousContext = loads[l].previousContext
  BY <1>1, PcField
<1>3. loads' = [q EXCEPT ![o] = y]
  OBVIOUS
<1> HIDE DEF x
<1>4. q \in Seq(Load) /\ Len(q) = Len(loads) /\ \A m \in 1..Len(loads) : q[m] = (IF m = l THEN x ELSE loads[m])
  BY <1>2, OneLoad
<1> HIDE DEF q
<1>5. q[o] \in Load
  BY <1>4, ElementOfSeq
<1>6. y \in Load /\ y.pc = q[o].pc /\ y.snap = q[o].snap /\ y.rev = q[o].rev /\ y.previousContext = q[o].previousContext
  BY <1>5, RootsField
<1> HIDE DEF y
<1>7. /\ [q EXCEPT ![o] = y] \in Seq(Load) /\ Len([q EXCEPT ![o] = y]) = Len(q)
      /\ \A m \in 1..Len(q) : [q EXCEPT ![o] = y][m] = (IF m = o THEN y ELSE q[m])
  BY <1>4, <1>6, OneLoad
<1> QED
  BY <1>2, <1>3, <1>4, <1>6, <1>7 DEF Moved

\* What applyStarts makes of them.
LEMMA WaitMoves ==
  ASSUME loads \in Seq(Load), NEW l \in 1..Len(loads), NEW o \in 1..Len(loads), NEW pc \in Pcs, NEW r \in Nat,
         NEW k \in Nat, loads' = [loads EXCEPT ![l].pc = pc, ![l].snap = k, ![o].roots = r]
  PROVE  Moved(l, pc, k)
<1> DEFINE w == [loads[l] EXCEPT !.pc = pc]
           x == [w EXCEPT !.snap = k]
           q == [loads EXCEPT ![l] = x]
           y == [q[o] EXCEPT !.roots = r]
<1>1. loads[l] \in Load
  BY ElementOfSeq
<1>2. w \in Load /\ w.pc = pc /\ w.rev = loads[l].rev /\ w.previousContext = loads[l].previousContext
  BY <1>1, PcField
<1>3. loads' = [q EXCEPT ![o] = y]
  OBVIOUS
<1> HIDE DEF w
<1>4. x \in Load /\ x.pc = pc /\ x.snap = k /\ x.rev = loads[l].rev
      /\ x.previousContext = loads[l].previousContext
  BY <1>2, SnapField
<1> HIDE DEF x
<1>5. q \in Seq(Load) /\ Len(q) = Len(loads) /\ \A m \in 1..Len(loads) : q[m] = (IF m = l THEN x ELSE loads[m])
  BY <1>4, OneLoad
<1> HIDE DEF q
<1>6. q[o] \in Load
  BY <1>5, ElementOfSeq
<1>7. y \in Load /\ y.pc = q[o].pc /\ y.snap = q[o].snap /\ y.rev = q[o].rev /\ y.previousContext = q[o].previousContext
  BY <1>6, RootsField
<1> HIDE DEF y
<1>8. /\ [q EXCEPT ![o] = y] \in Seq(Load) /\ Len([q EXCEPT ![o] = y]) = Len(q)
      /\ \A m \in 1..Len(q) : [q EXCEPT ![o] = y][m] = (IF m = o THEN y ELSE q[m])
  BY <1>5, <1>7, OneLoad
<1> QED
  BY <1>3, <1>4, <1>5, <1>7, <1>8 DEF Moved

-----------------------------------------------------------------------------
(* Steps of the development server.                                           *)

\* The snapshots compiled so far stay what they are.
Grown(next) ==
    /\ snaps' \in Seq(Nat) /\ Len(snaps') \in Nat /\ Len(snaps') >= Len(snaps)
    /\ \A i \in 1..Len(snaps) : snaps'[i] = snaps[i]
    /\ next => Len(snaps') = Len(snaps) + 1

\* A step compiles one snapshot or none.
LEMMA SnapsGrow ==
  ASSUME snaps \in Seq(Nat), NEW r \in Nat
  PROVE  /\ UNCHANGED snaps => Grown(FALSE) /\ snaps' = snaps
         /\ snaps' = Append(snaps, r) => Grown(TRUE) /\ snaps'[Len(snaps) + 1] = r
<1>1. Len(snaps) \in Nat
  OBVIOUS
<1>2. ASSUME snaps' = Append(snaps, r) PROVE Grown(TRUE) /\ snaps'[Len(snaps) + 1] = r
  BY <1>1, <1>2, AppendProperties DEF Grown
<1> QED
  BY <1>1, <1>2 DEF Grown

\* The list of loads, and one of its members.
LEMMA LoadTypes ==
  ASSUME Types, NEW l \in 1..Len(loads)
  PROVE  /\ Len(loads) \in Nat /\ Len(snaps) \in Nat /\ Len(servers) \in Nat
         /\ loads[l] \in Load /\ loads[l].rev \in Nat /\ loads[l].snap \in Nat /\ loads[l].previousContext \in Nat
         /\ loads[l].pc \in Pcs /\ loads[l].entry \in Contents
<1>1. loads \in Seq(Load) /\ Len(loads) \in Nat /\ Len(snaps) \in Nat /\ Len(servers) \in Nat
  BY DEF Types
<1>2. loads[l] \in Load
  BY <1>1, ElementOfSeq
<1> QED
  BY <1>1, <1>2 DEF Load, Pcs

\* A load that fails gives its context back; a snapshot it compiled is disposed of.
LEMMA FailStep ==
  ASSUME DevInv, mode = "dev", mode' = mode, NEW l \in 1..Len(loads),
         \/ loads[l].pc \in {"import", "listening", "starting"}
         \/ loads[l].pc = "evaluated" /\ ~observedSelfStart,
         Failed(l), UNCHANGED <<servers, currentServer, closing, overlapped, closedLoading>>,
         UNCHANGED <<watch, observedSelfStart>> \/ (UNCHANGED watch /\ observedSelfStart' = TRUE),
         \/ UNCHANGED <<snaps, disposed>>
         \/ snaps' = Append(snaps, loads[l].rev) /\ disposed' = disposed \cup {Len(snaps) + 1}
  PROVE  DevInv'
<1>1. /\ Moved(l, "failed", loads[l].snap) /\ context' = loads[l].previousContext /\ state' = "error"
      /\ Types /\ Snapshots
  BY GotoMoves DEF Failed, Restored, DevInv, Types, Pcs
<1>2. /\ Len(loads) \in Nat /\ Len(snaps) \in Nat /\ Len(servers) \in Nat /\ loads[l].rev \in Nat
      /\ loads[l].previousContext \in Nat
  BY <1>1, LoadTypes
<1>3. /\ snaps' \in Seq(Nat) /\ Len(snaps') \in Nat /\ Len(snaps') >= Len(snaps)
      /\ \A i \in 1..Len(snaps) : snaps'[i] = snaps[i]
      /\ disposed' \in SUBSET (1..Len(snaps')) /\ \A i \in 1..Len(snaps) : i \in disposed' => i \in disposed
  <2>0. snaps \in Seq(Nat) /\ disposed \in SUBSET (1..Len(snaps))
    BY <1>1 DEF Types
  <2>1. CASE UNCHANGED <<snaps, disposed>>
    BY <1>2, <2>0, <2>1
  <2>2. CASE snaps' = Append(snaps, loads[l].rev) /\ disposed' = disposed \cup {Len(snaps) + 1}
    <3>1. Grown(TRUE)
      BY <1>2, <2>0, <2>2, SnapsGrow
    <3>2. \A i \in disposed' : i \in disposed \/ i = Len(snaps) + 1
      BY <2>2
    <3>3. ASSUME NEW i \in disposed' PROVE i \in 1..Len(snaps')
      <4>1. Len(snaps') = Len(snaps) + 1
        BY <3>1 DEF Grown
      <4>2. i \in 1..Len(snaps) \/ i = Len(snaps) + 1
        BY <2>0, <3>2
      <4> QED
        BY <1>2, <4>1, <4>2
    <3>4. \A i \in 1..Len(snaps) : i \in disposed' => i \in disposed
      BY <1>2, <3>2
    <3> QED
      BY <3>1, <3>3, <3>4 DEF Grown
  <2> QED
    BY <2>1, <2>2
<1>4. loads[l].previousContext < l /\ \A m \in 1..Len(loads) : loads[m].previousContext < m /\ loads[m].snap <= Len(snaps)
      /\ loads[m].snap \in Nat
  BY <1>1, LoadTypes DEF Types
<1>5. Types'
  <2>1. \A m \in 1..Len(loads') : loads'[m].previousContext < m /\ loads'[m].snap <= Len(snaps')
    BY <1>1, <1>2, <1>3, <1>4 DEF Moved
  <2>2. context' \in 0..Len(loads')
    BY <1>1, <1>2, <1>4 DEF Moved
  <2> QED
    BY <1>1, <1>3, <2>1, <2>2 DEF Types, Moved
<1>6. Snapshots'
  <2>1. \A m \in 1..Len(loads') : Waits(m)' => Waits(m) /\ m # l /\ loads'[m].snap = loads[m].snap
    BY <1>1 DEF Moved, Waits
  <2>2. \A s \in 1..Len(servers) : servers[s].code \in 1..Len(snaps)
    BY <1>1 DEF Snapshots
  <2>3. \A s \in 1..Len(servers) :
          /\ servers'[s].code = servers'[s].manifest /\ servers'[s].code \in 1..Len(snaps')
          /\ servers'[s].open => servers'[s].code \notin disposed'
    BY <1>1, <1>2, <1>3, <2>2 DEF Snapshots
  <2>4. \A s, t \in 1..Len(servers) : servers'[s].code = servers'[t].code => s = t
    BY <1>1 DEF Snapshots
  <2>5. ASSUME NEW m \in 1..Len(loads), Waits(m)'
        PROVE  /\ loads'[m].snap \in 1..Len(snaps') /\ loads'[m].snap \notin disposed'
               /\ \A s \in 1..Len(servers) : servers'[s].code # loads'[m].snap
               /\ \A o \in 1..Len(loads) : Waits(o)' /\ loads'[o].snap = loads'[m].snap => o = m
    <3>1. Waits(m) /\ loads'[m].snap = loads[m].snap
      BY <1>1, <2>1, <2>5 DEF Moved
    <3>2. loads[m].snap \in 1..Len(snaps) /\ loads[m].snap \notin disposed
          /\ (\A s \in 1..Len(servers) : servers[s].code # loads[m].snap)
          /\ \A o \in 1..Len(loads) : Waits(o) /\ loads[o].snap = loads[m].snap => o = m
      BY <1>1, <3>1 DEF Snapshots
    <3> QED
      BY <1>1, <1>2, <1>3, <2>1, <3>1, <3>2 DEF Moved
  <2>6. Len(loads') = Len(loads) /\ servers' = servers
    BY <1>1 DEF Moved
  <2> QED
    BY <2>3, <2>4, <2>5, <2>6 DEF Snapshots
<1>7. First'
  BY <1>1, <1>2 DEF DevInv, First, Moved
<1>8. ASSUME ~overlapped, ~closed PROVE Serial'
  <2>1. Serial /\ closing = "no"
    BY <1>8, <1>1 DEF DevInv, closed, Types
  <2>2. l = Len(loads) /\ loads[l].previousContext = 0 /\ loads[l].pc \notin {"evaluated", "finish"}
    BY <2>1, <1>2 DEF Serial
  <2>3. loads'[l].pc = "failed" /\ Len(loads') = Len(loads) /\ context' = 0
    BY <1>1, <2>2 DEF Moved
  <2>4. \A m \in 1..Len(loads) : m # l => loads'[m].pc = loads[m].pc
    BY <1>1 DEF Moved
  <2>5. \A m \in 1..Len(loads) : loads'[m].pc = "done" <=> loads[m].pc = "done"
    BY <1>1, <2>2, <2>3, <2>4
  <2>6. \A m \in 1..Len(loads) : loads'[m].rev = loads[m].rev
    BY <1>1 DEF Moved
  <2>7. currentServer # 0 => Code' = Code
    <3>1. currentServer # 0 => currentServer \in 1..Len(servers) /\ servers[currentServer].code \in 1..Len(snaps)
      BY <1>1, <1>2 DEF Types, Snapshots
    <3> QED
      BY <1>3, <3>1 DEF Code
  <2>8. \A g \in 1..Len(loads) : LastGood(g) => LastGood(g)'
    BY <2>3, <2>5 DEF LastGood
  <2>9. \/ \A m \in 1..Len(loads') : loads'[m].pc # "done"
        \/ /\ currentServer' # 0
           /\ \E g \in 1..Len(loads') : LastGood(g)' /\ Code' = loads'[g].rev
    BY <2>1, <2>2, <2>3, <2>5, <2>6, <2>7, <2>8 DEF Serial
  <2> QED
    BY <1>1, <2>1, <2>2, <2>3, <2>4, <2>9 DEF Serial, Waits
<1>9. ASSUME ~overlapped, closed, ~closedLoading PROVE Shut'
  <2>1. Shut
    BY <1>9 DEF DevInv
  <2> QED
    BY <2>1 DEF Shut
<1> QED
  BY <1>5, <1>6, <1>7, <1>8, <1>9 DEF DevInv, closed

\* A load ends well: what it applied is what the server has.
LEMMA SucceedStep ==
  ASSUME DevInv, mode = "dev", mode' = mode, NEW l \in 1..Len(loads),
         loads[l].pc = "finish" \/ (observedSelfStart /\ loads[l].pc \in {"evaluated", "import"}),
         Succeeded(l),
         UNCHANGED <<snaps, disposed, servers, currentServer, observedSelfStart, closing, overlapped, closedLoading>>
  PROVE  DevInv'
<1>1. /\ Moved(l, "done", loads[l].snap) /\ context' = loads[l].previousContext /\ state' = "ready"
      /\ Types /\ Snapshots
  BY GotoMoves DEF Succeeded, Restored, DevInv, Types, Pcs
<1>2. /\ Len(loads) \in Nat /\ Len(snaps) \in Nat /\ Len(servers) \in Nat /\ loads[l].rev \in Nat
      /\ loads[l].previousContext \in Nat
  BY <1>1, LoadTypes
<1>3. \A m \in 1..Len(loads) : loads[m].previousContext < m /\ loads[m].snap <= Len(snaps)
  BY <1>1 DEF Types
<1>4. Types'
  <2>1. \A m \in 1..Len(loads') : loads'[m].previousContext < m /\ loads'[m].snap <= Len(snaps')
    BY <1>1, <1>3 DEF Moved
  <2>2. context' \in 0..Len(loads')
    BY <1>1, <1>2, <1>3 DEF Moved
  <2> QED
    BY <1>1, <2>1, <2>2 DEF Types, Moved
<1>5. Snapshots'
  <2>1. \A m \in 1..Len(loads') : m \in 1..Len(loads) /\ (Waits(m)' => Waits(m) /\ loads'[m].snap = loads[m].snap)
    BY <1>1 DEF Moved, Waits
  <2> QED
    BY <1>1, <2>1 DEF Snapshots
<1>6. First'
  BY <1>1, <1>2 DEF DevInv, First, Moved
<1>7. ASSUME ~overlapped, ~closed PROVE Serial'
  <2>1. Serial
    BY <1>7 DEF DevInv
  <2>2. /\ l = Len(loads) /\ loads[l].previousContext = 0 /\ loads[l].pc \in {"evaluated", "finish"}
        /\ currentServer # 0 /\ Code = loads[l].rev
    BY <2>1, <1>2 DEF Serial
  <2>3. loads'[l].pc = "done" /\ Len(loads') = Len(loads) /\ context' = 0 /\ loads'[l].rev = loads[l].rev
    BY <1>1, <2>2 DEF Moved
  <2>4. \A m \in 1..Len(loads) : m # l => loads'[m].pc = loads[m].pc
    BY <1>1 DEF Moved
  <2>5. LastGood(l)' /\ Code' = loads'[l].rev
    BY <1>2, <2>2, <2>3 DEF LastGood, Code
  <2> QED
    BY <1>1, <2>1, <2>2, <2>3, <2>4, <2>5 DEF Serial, Waits
<1>8. ASSUME ~overlapped, closed, ~closedLoading PROVE Shut'
  <2>1. Shut
    BY <1>8 DEF DevInv
  <2> QED
    BY <2>1 DEF Shut
<1> QED
  BY <1>4, <1>5, <1>6, <1>7, <1>8 DEF DevInv, closed

\* A load hands what it read to the server that is held.
LEMMA SwapStep ==
  ASSUME DevInv, mode = "dev", mode' = mode, NEW l \in 1..Len(loads), NEW pc \in {"evaluated", "finish"},
         loads[l].pc \in {"import", "evaluated"},
         pc = "evaluated" => observedSelfStart' = TRUE, observedSelfStart' \in BOOLEAN,
         loads[l].pc = "evaluated" => l # 1 \/ observedSelfStart,
         Moved(l, pc, loads[l].snap), currentServer # 0, snaps' = Append(snaps, loads[l].rev),
         Reload(currentServer, Len(snaps) + 1),
         UNCHANGED <<currentServer, context, state, closing, overlapped, closedLoading, watch>>
  PROVE  DevInv'
<1> DEFINE c == currentServer
           k == Len(snaps) + 1
<1>1. Types /\ Snapshots
  BY DEF DevInv
<1>2. /\ Len(loads) \in Nat /\ Len(snaps) \in Nat /\ Len(servers) \in Nat /\ loads[l].rev \in Nat
      /\ c \in 1..Len(servers) /\ servers \in Seq(Server) /\ snaps \in Seq(Nat)
  BY <1>1, LoadTypes DEF Types
<1>3. Grown(TRUE) /\ snaps'[k] = loads[l].rev
  BY <1>2, SnapsGrow
<1>4. k \in Nat /\ Len(snaps') = k /\ \A i \in 1..Len(snaps) : i # k /\ i \in 1..k /\ snaps'[i] = snaps[i]
  BY <1>2, <1>3 DEF Grown
<1>5. /\ servers' \in Seq(Server) /\ Len(servers') = Len(servers)
      /\ \A s \in 1..Len(servers) : servers'[s].open = servers[s].open
      /\ servers'[c].code = k /\ servers'[c].manifest = k
      /\ \A s \in 1..Len(servers) : s # c => servers'[s] = servers[s]
  <2> DEFINE x == [servers[c] EXCEPT !.code = k, !.manifest = k]
  <2>1. servers[c] \in Server
    BY <1>2, ElementOfSeq
  <2>2. x \in Server /\ x.code = k /\ x.manifest = k /\ x.open = servers[c].open
    BY <1>4, <2>1 DEF Server
  <2>3. servers' = [servers EXCEPT ![c] = x]
    BY DEF Reload
  <2> HIDE DEF x
  <2>4. /\ [servers EXCEPT ![c] = x] \in Seq(Server) /\ Len([servers EXCEPT ![c] = x]) = Len(servers)
        /\ \A s \in 1..Len(servers) : [servers EXCEPT ![c] = x][s] = IF s = c THEN x ELSE servers[s]
    BY <1>2, <2>2, ExceptSeq
  <2> QED
    BY <1>2, <2>2, <2>3, <2>4
<1>6. /\ \A s \in 1..Len(servers) : servers[s].code \in 1..Len(snaps) /\ servers[s].code # k
      /\ \A m \in 1..Len(loads) : Waits(m) => loads[m].snap \in 1..Len(snaps) /\ loads[m].snap # k
  BY <1>1, <1>2 DEF Snapshots
<1>7. disposed \in SUBSET (1..Len(snaps)) /\ disposed' = disposed \cup {servers[c].code}
  BY <1>1 DEF Types, Reload
<1>8. disposed' \in SUBSET (1..k) /\ k \notin disposed'
  <2>1. \A i \in disposed' : i \in 1..Len(snaps)
    BY <1>2, <1>6, <1>7
  <2> QED
    BY <1>4, <2>1
<1> HIDE DEF c, k
<1>9. Types'
  <2>1. \A m \in 1..Len(loads') : loads'[m].previousContext < m /\ loads'[m].snap <= Len(snaps')
    <3>1. \A m \in 1..Len(loads) : loads[m].previousContext < m /\ loads[m].snap <= Len(snaps) /\ loads[m].snap \in Nat
      BY <1>1, LoadTypes DEF Types
    <3>2. \A m \in 1..Len(loads) : loads'[m].previousContext = loads[m].previousContext /\ loads'[m].snap = loads[m].snap
      BY DEF Moved
    <3>3. Len(loads') = Len(loads) /\ Len(snaps') = Len(snaps) + 1
      BY <1>3 DEF Moved, Grown
    <3> SUFFICES ASSUME NEW m \in 1..Len(loads)
                 PROVE  loads'[m].previousContext < m /\ loads'[m].snap <= Len(snaps')
      BY <3>3
    <3>4. loads[m].previousContext < m /\ loads[m].snap <= Len(snaps) /\ loads[m].snap \in Nat
      BY <3>1
    <3>5. loads'[m].previousContext = loads[m].previousContext /\ loads'[m].snap = loads[m].snap
      BY <3>2
    <3> QED
      BY <1>2, <3>3, <3>4, <3>5
  <2>2. snaps' \in Seq(Nat)
    BY <1>3 DEF Grown
  <2> QED
    BY <1>1, <1>4, <1>5, <1>8, <2>1, <2>2 DEF Types, Moved
<1>10. \A m \in 1..Len(loads) : Waits(m)' => Waits(m) /\ m # l /\ loads'[m].snap = loads[m].snap
  BY DEF Moved, Waits
<1>11. Snapshots'
  <2>1. ASSUME NEW s \in 1..Len(servers)
        PROVE  /\ servers'[s].code = servers'[s].manifest /\ servers'[s].code \in 1..Len(snaps')
               /\ servers'[s].open => servers'[s].code \notin disposed'
    <3>1. CASE s = c
      BY <1>4, <1>5, <1>8, <3>1
    <3>2. CASE s # c
      <4>1. servers'[s] = servers[s] /\ servers[s].code # servers[c].code
        BY <1>1, <1>2, <1>5, <3>2 DEF Snapshots
      <4>2. servers[s].code = servers[s].manifest /\ (servers[s].open => servers[s].code \notin disposed)
        BY <1>1 DEF Snapshots
      <4> QED
        BY <1>4, <1>6, <1>7, <4>1, <4>2
    <3> QED
      BY <3>1, <3>2
  <2>2. \A s, t \in 1..Len(servers) : servers'[s].code = servers'[t].code => s = t
    BY <1>1, <1>5, <1>6 DEF Snapshots
  <2>3. ASSUME NEW m \in 1..Len(loads), Waits(m)'
        PROVE  /\ loads'[m].snap \in 1..Len(snaps') /\ loads'[m].snap \notin disposed'
               /\ \A s \in 1..Len(servers) : servers'[s].code # loads'[m].snap
               /\ \A o \in 1..Len(loads) : Waits(o)' /\ loads'[o].snap = loads'[m].snap => o = m
    <3>1. Waits(m) /\ loads'[m].snap = loads[m].snap
      BY <1>10, <2>3
    <3>2. /\ loads[m].snap \in 1..Len(snaps) /\ loads[m].snap \notin disposed
          /\ \A s \in 1..Len(servers) : servers[s].code # loads[m].snap
          /\ \A o \in 1..Len(loads) : Waits(o) /\ loads[o].snap = loads[m].snap => o = m
      BY <1>1, <3>1 DEF Snapshots
    <3>3. loads[m].snap \in 1..k /\ loads[m].snap # k /\ loads[m].snap \notin disposed'
      BY <1>2, <1>4, <1>7, <3>2
    <3>4. \A s \in 1..Len(servers) : servers'[s].code # loads[m].snap
      BY <1>2, <1>5, <3>2, <3>3
    <3> QED
      BY <1>4, <1>10, <3>1, <3>2, <3>3, <3>4
  <2>4. Len(loads') = Len(loads)
    BY DEF Moved
  <2> QED
    BY <1>5, <2>1, <2>2, <2>3, <2>4 DEF Snapshots
<1>12. First'
  <2>1. First
    BY DEF DevInv
  <2>2. Len(loads') = Len(loads) /\ loads'[1].pc = (IF l = 1 THEN pc ELSE loads[1].pc)
    BY <1>2, <2>1 DEF First, Moved
  <2>3. CASE l = 1
    BY <1>2, <2>1, <2>2, <2>3 DEF First
  <2>4. CASE l # 1
    <3>1. loads[1].pc = "done"
      BY <1>2, <2>1, <2>4 DEF First
    <3> QED
      BY <1>2, <2>1, <2>2, <2>4, <3>1 DEF First
  <2> QED
    BY <2>3, <2>4
<1>13. ASSUME ~overlapped, ~closed PROVE Serial'
  <2>1. Serial
    BY <1>13 DEF DevInv
  <2>2. l = Len(loads) /\ loads[l].pc \notin {"done", "failed"}
    BY <2>1 DEF Serial
  <2>3. /\ loads'[l].pc = pc /\ Len(loads') = Len(loads) /\ loads'[l].rev = loads[l].rev
        /\ loads'[l].previousContext = loads[l].previousContext
    BY DEF Moved
  <2>4. \A m \in 1..Len(loads) : m # l => loads'[m].pc = loads[m].pc
    BY DEF Moved
  <2>5. Code' = loads'[l].rev
    BY <1>3, <1>5, <2>3 DEF Code, c
  <2>6. \A g \in 1..Len(loads) : LastGood(g) => LastGood(g)'
    BY <2>2, <2>3, <2>4 DEF LastGood
  <2>7. \/ \A m \in 1..Len(loads') : loads'[m].pc # "done"
        \/ \E g \in 1..Len(loads') : LastGood(g)'
    BY <2>1, <2>2, <2>3, <2>4, <2>6 DEF Serial
  <2> QED
    BY <1>5, <2>1, <2>2, <2>3, <2>4, <2>5, <2>7 DEF Serial, Waits
<1>14. ASSUME ~overlapped, closed, ~closedLoading PROVE Shut'
  <2>1. Shut
    BY <1>14 DEF DevInv
  <2> QED
    BY <2>1 DEF Shut
<1> QED
  BY <1>9, <1>11, <1>12, <1>13, <1>14 DEF DevInv, closed

\* Without a server a load waits for one.
LEMMA WaitStep ==
  ASSUME DevInv, mode = "dev", mode' = mode, NEW l \in 1..Len(loads), NEW pc \in {"listening", "starting"},
         loads[l].pc \in {"import", "evaluated"},
         pc = "listening" => observedSelfStart' = TRUE, observedSelfStart' \in BOOLEAN,
         Moved(l, pc, Len(snaps) + 1), currentServer = 0, snaps' = Append(snaps, loads[l].rev),
         UNCHANGED <<servers, disposed, currentServer, context, state, closing, overlapped, closedLoading, watch>>
  PROVE  DevInv'
<1> DEFINE k == Len(snaps) + 1
<1>1. Types /\ Snapshots
  BY DEF DevInv
<1>2. /\ Len(loads) \in Nat /\ Len(snaps) \in Nat /\ Len(servers) \in Nat /\ loads[l].rev \in Nat
      /\ snaps \in Seq(Nat)
  BY <1>1, LoadTypes DEF Types
<1>3. Grown(TRUE) /\ snaps'[k] = loads[l].rev
  BY <1>2, SnapsGrow
<1>4. k \in Nat /\ Len(snaps') = k /\ snaps' \in Seq(Nat)
      /\ \A i \in 1..Len(snaps) : i # k /\ i \in 1..k /\ snaps'[i] = snaps[i]
  BY <1>2, <1>3 DEF Grown
<1>5. /\ Len(loads') = Len(loads) /\ loads' \in Seq(Load)
      /\ \A m \in 1..Len(loads) :
            /\ loads'[m].pc = (IF m = l THEN pc ELSE loads[m].pc)
            /\ loads'[m].snap = (IF m = l THEN k ELSE loads[m].snap)
            /\ loads'[m].rev = loads[m].rev /\ loads'[m].previousContext = loads[m].previousContext
  BY DEF Moved
<1>6. k \notin disposed /\ (\A i \in disposed : i \in 1..k)
      /\ \A s \in 1..Len(servers) : servers[s].code \in 1..k /\ servers[s].code # k
  BY <1>1, <1>4 DEF Types, Snapshots
<1> HIDE DEF k
<1>7. Types'
  <2>1. ASSUME NEW m \in 1..Len(loads)
        PROVE  loads'[m].previousContext < m /\ loads'[m].snap <= Len(snaps')
    <3>1. loads[m].previousContext < m /\ loads[m].snap <= Len(snaps) /\ loads[m].snap \in Nat
      BY <1>1, LoadTypes DEF Types
    <3>2. loads'[m].previousContext = loads[m].previousContext /\ (loads'[m].snap = k \/ loads'[m].snap = loads[m].snap)
      BY <1>5
    <3> QED
      BY <1>2, <1>4, <3>1, <3>2 DEF k
  <2>2. disposed' \in SUBSET (1..Len(snaps'))
    BY <1>4, <1>6
  <2> QED
    BY <1>1, <1>4, <1>5, <2>1, <2>2 DEF Types
<1>8. Snapshots'
  <2>1. \A s \in 1..Len(servers) :
          /\ servers'[s].code = servers'[s].manifest /\ servers'[s].code \in 1..Len(snaps')
          /\ servers'[s].open => servers'[s].code \notin disposed'
    BY <1>1, <1>4, <1>6 DEF Snapshots
  <2>2. \A m \in 1..Len(loads) : m # l /\ Waits(m)' =>
          /\ loads'[m].snap = loads[m].snap /\ loads[m].snap # k /\ loads[m].snap \in 1..k /\ loads[m].snap \notin disposed
          /\ \A s \in 1..Len(servers) : servers[s].code # loads[m].snap
          /\ \A o \in 1..Len(loads) : Waits(o) /\ loads[o].snap = loads[m].snap => o = m
    <3> SUFFICES ASSUME NEW m \in 1..Len(loads), m # l, Waits(m)'
                 PROVE  /\ loads'[m].snap = loads[m].snap /\ loads[m].snap # k /\ loads[m].snap \in 1..k
                        /\ loads[m].snap \notin disposed
                        /\ \A s \in 1..Len(servers) : servers[s].code # loads[m].snap
                        /\ \A o \in 1..Len(loads) : Waits(o) /\ loads[o].snap = loads[m].snap => o = m
      OBVIOUS
    <3>1. Waits(m) /\ loads'[m].snap = loads[m].snap
      BY <1>5 DEF Waits
    <3>2. loads[m].snap \in 1..Len(snaps)
      BY <1>1, <3>1 DEF Snapshots
    <3> QED
      BY <1>1, <1>4, <3>1, <3>2 DEF Snapshots
  <2>3. ASSUME NEW m \in 1..Len(loads), Waits(m)'
        PROVE  /\ loads'[m].snap \in 1..Len(snaps') /\ loads'[m].snap \notin disposed'
               /\ \A s \in 1..Len(servers) : servers'[s].code # loads'[m].snap
               /\ \A o \in 1..Len(loads) : Waits(o)' /\ loads'[o].snap = loads'[m].snap => o = m
    <3>1. CASE m = l
      <4>1. loads'[m].snap = k /\ k \in 1..k
        BY <1>2, <1>4, <1>5, <3>1 DEF k
      <4>2. \A o \in 1..Len(loads) : Waits(o)' /\ o # l => loads'[o].snap # k
        BY <2>2
      <4> QED
        BY <1>4, <1>6, <3>1, <4>1, <4>2
    <3>2. CASE m # l
      <4>1. loads'[m].snap = loads[m].snap /\ loads[m].snap # k /\ loads[m].snap \in 1..k /\ loads[m].snap \notin disposed
        BY <2>2, <2>3, <3>2
      <4>2. \A s \in 1..Len(servers) : servers[s].code # loads[m].snap
        BY <2>2, <2>3, <3>2
      <4>3. ASSUME NEW o \in 1..Len(loads), Waits(o)', loads'[o].snap = loads'[m].snap PROVE o = m
        <5>1. o # l
          BY <1>5, <4>1, <4>3
        <5>2. Waits(o) /\ loads'[o].snap = loads[o].snap
          BY <1>5, <4>3, <5>1 DEF Waits
        <5> QED
          BY <2>2, <2>3, <3>2, <4>1, <4>3, <5>2
      <4> QED
        BY <1>4, <4>1, <4>2, <4>3
    <3> QED
      BY <3>1, <3>2
  <2> QED
    BY <1>1, <1>5, <2>1, <2>3 DEF Snapshots
<1>9. First'
  <2>1. First
    BY DEF DevInv
  <2>2. CASE l = 1
    BY <1>2, <1>5, <2>1, <2>2 DEF First
  <2>3. CASE l # 1
    <3>a. Len(loads) >= 1 /\ (loads[1].pc # "done" => Len(loads) = 1)
      BY <2>1 DEF First
    <3>b. loads[1].pc = "done"
      BY <1>2, <2>3, <3>a
    <3>1. loads[1].pc = "done" /\ loads'[1].pc = "done"
      BY <1>2, <1>5, <2>3, <3>a, <3>b
    <3> QED
      BY <1>2, <1>5, <2>1, <2>3, <3>1 DEF First
  <2> QED
    BY <2>2, <2>3
<1>10. ASSUME ~overlapped, ~closed PROVE Serial'
  <2>1. Serial
    BY <1>10 DEF DevInv
  <2>2. l = Len(loads)
    BY <2>1 DEF Serial
  <2>3. /\ loads'[l].pc = pc /\ loads'[l].snap = k /\ loads'[l].rev = loads[l].rev
        /\ loads'[l].previousContext = loads[l].previousContext
    BY <1>5
  <2>4. \A m \in 1..Len(loads) : loads'[m].pc # "done"
    BY <1>5, <2>1 DEF Serial
  <2> QED
    BY <1>3, <1>5, <2>1, <2>2, <2>3, <2>4 DEF Serial, Waits
<1>11. ASSUME ~overlapped, closed, ~closedLoading PROVE Shut'
  <2>1. Shut
    BY <1>11 DEF DevInv
  <2> QED
    BY <2>1 DEF Shut
<1> QED
  BY <1>7, <1>8, <1>9, <1>10, <1>11 DEF DevInv, closed

\* One more server.
LEMMA ServersGrow ==
  ASSUME servers \in Seq(Server), NEW k \in Nat,
         servers' = Append(servers, [open |-> TRUE, code |-> k, manifest |-> k])
  PROVE  /\ servers' \in Seq(Server) /\ Len(servers') = Len(servers) + 1 /\ Len(servers) \in Nat
         /\ \A s \in 1..Len(servers) : servers'[s] = servers[s]
         /\ servers'[Len(servers) + 1].open = TRUE /\ servers'[Len(servers) + 1].code = k
         /\ servers'[Len(servers) + 1].manifest = k
<1> DEFINE x == [open |-> TRUE, code |-> k, manifest |-> k]
<1>1. x \in Server
  BY DEF Server
<1>2. x.open = TRUE /\ x.code = k /\ x.manifest = k /\ servers' = Append(servers, x)
  OBVIOUS
<1> HIDE DEF x
<1> QED
  BY <1>1, <1>2, AppendProperties

\* A native server has started: its handle becomes the server held.
LEMMA StartedStep ==
  ASSUME DevInv, mode = "dev", mode' = mode, NEW l \in 1..Len(loads), Started(l)
  PROVE  DevInv'
<1> DEFINE k == loads[l].snap
           n == Len(servers) + 1
           pc == IF loads[l].pc = "starting" THEN "finish" ELSE "evaluated"
<1>1. Types /\ Snapshots
  BY DEF DevInv
<1>2. /\ Len(loads) \in Nat /\ Len(snaps) \in Nat /\ Len(servers) \in Nat /\ loads[l].rev \in Nat /\ k \in Nat
      /\ servers \in Seq(Server)
  BY <1>1, LoadTypes DEF Types
<1>3. /\ Len(loads') = Len(loads) /\ loads' \in Seq(Load)
      /\ \A m \in 1..Len(loads) :
            /\ loads'[m].pc = (IF m = l THEN pc ELSE loads[m].pc)
            /\ loads'[m].snap = loads[m].snap
            /\ loads'[m].rev = loads[m].rev /\ loads'[m].previousContext = loads[m].previousContext
  <2>1. Goto(l, pc) /\ pc \in Pcs
    BY DEF Started, Pcs
  <2> HIDE DEF pc
  <2>2. Moved(l, pc, loads[l].snap)
    BY <1>1, <2>1, GotoMoves DEF Types
  <2> QED
    BY <2>2 DEF Moved
<1>4. servers' = Append(servers, [open |-> TRUE, code |-> k, manifest |-> k]) /\ currentServer' = n
  BY DEF Started
<1>5. /\ UNCHANGED <<watch, context, observedSelfStart, snaps, disposed, state, closing, overlapped, closedLoading>>
      /\ Waits(l) /\ pc \in {"finish", "evaluated"} /\ (pc = "evaluated" => loads[l].pc = "listening")
  BY DEF Started, histVars, Waits
<1> HIDE DEF k, pc
<1>6. /\ servers' \in Seq(Server) /\ Len(servers') = n /\ \A s \in 1..Len(servers) : servers'[s] = servers[s]
      /\ servers'[n].open = TRUE /\ servers'[n].code = k /\ servers'[n].manifest = k
  BY <1>2, <1>4, ServersGrow
<1>7. /\ k \in 1..Len(snaps) /\ k \notin disposed /\ \A s \in 1..Len(servers) : servers[s].code # k
      /\ \A m \in 1..Len(loads) : Waits(m) /\ loads[m].snap = k => m = l
  BY <1>1, <1>5 DEF Snapshots, k
<1>8. Types'
  <2>1. \A m \in 1..Len(loads') : loads'[m].previousContext < m /\ loads'[m].snap <= Len(snaps')
    BY <1>1, <1>3, <1>5 DEF Types
  <2>2. currentServer' \in 0..Len(servers')
    BY <1>2, <1>4, <1>6
  <2> QED
    BY <1>1, <1>3, <1>5, <1>6, <2>1, <2>2 DEF Types
<1>9. Snapshots'
  <2>0. \A s \in 1..Len(servers') : s \in 1..Len(servers) \/ s = n
    BY <1>2, <1>6
  <2>1. \A s \in 1..Len(servers') :
          /\ servers'[s].code = servers'[s].manifest /\ servers'[s].code \in 1..Len(snaps')
          /\ servers'[s].open => servers'[s].code \notin disposed'
    BY <1>1, <1>5, <1>6, <1>7, <2>0 DEF Snapshots
  <2>2. \A s, t \in 1..Len(servers') : servers'[s].code = servers'[t].code => s = t
    BY <1>1, <1>6, <1>7, <2>0 DEF Snapshots
  <2>3. ASSUME NEW m \in 1..Len(loads), Waits(m)'
        PROVE  /\ loads'[m].snap \in 1..Len(snaps') /\ loads'[m].snap \notin disposed'
               /\ \A s \in 1..Len(servers') : servers'[s].code # loads'[m].snap
               /\ \A o \in 1..Len(loads) : Waits(o)' /\ loads'[o].snap = loads'[m].snap => o = m
    <3>1. m # l /\ Waits(m) /\ \A o \in 1..Len(loads) : Waits(o)' => Waits(o)
      BY <1>3, <1>5, <2>3 DEF Waits
    <3>2. /\ loads[m].snap \in 1..Len(snaps) /\ loads[m].snap \notin disposed /\ loads[m].snap # k
          /\ \A s \in 1..Len(servers) : servers[s].code # loads[m].snap
          /\ \A o \in 1..Len(loads) : Waits(o) /\ loads[o].snap = loads[m].snap => o = m
      BY <1>1, <1>7, <3>1 DEF Snapshots
    <3> QED
      BY <1>3, <1>5, <1>6, <2>0, <3>1, <3>2
  <2> QED
    BY <1>3, <2>1, <2>2, <2>3 DEF Snapshots
<1>10. First'
  <2>1. First /\ currentServer' # 0
    BY <1>2, <1>4 DEF DevInv
  <2>2. CASE l = 1
    BY <1>2, <1>3, <1>5, <2>1, <2>2 DEF First, Waits
  <2>3. CASE l # 1
    <3>1. loads[1].pc = "done" /\ loads'[1].pc = "done"
      BY <1>2, <1>3, <2>1, <2>3 DEF First
    <3> QED
      BY <1>2, <1>3, <1>5, <2>1, <3>1 DEF First
  <2> QED
    BY <2>2, <2>3
<1>11. ASSUME ~overlapped, ~closed PROVE Serial'
  <2>1. Serial
    BY <1>11 DEF DevInv
  <2>2. l = Len(loads) /\ currentServer = 0 /\ Len(servers) = 0 /\ n = 1 /\ snaps[k] = loads[l].rev
    BY <1>5, <2>1 DEF Serial, Waits, k
  <2>3. loads'[l].pc = pc /\ loads'[l].rev = loads[l].rev /\ loads'[l].previousContext = loads[l].previousContext
    BY <1>3
  <2>4. Code' = loads'[l].rev
    BY <1>4, <1>5, <1>6, <2>2, <2>3 DEF Code
  <2>5. \A m \in 1..Len(loads) : loads'[m].pc # "done"
    BY <1>3, <1>5, <2>1, <2>2 DEF Serial
  <2> QED
    BY <1>3, <1>4, <1>5, <1>6, <2>1, <2>2, <2>3, <2>4, <2>5 DEF Serial, Waits
<1>12. ASSUME ~overlapped, closed, ~closedLoading PROVE Shut'
  <2>1. Shut
    BY <1>12 DEF DevInv
  <2> QED
    BY <1>5, <2>1 DEF Shut, Waits
<1>13. /\ mode' = "dev"
       /\ (~overlapped' <=> ~overlapped) /\ (closed' <=> closed) /\ (~closedLoading' <=> ~closedLoading)
  BY <1>5 DEF closed
<1> QED
  BY <1>8, <1>9, <1>10, <1>11, <1>12, <1>13 DEF DevInv

\* A load begins.
LEMMA BeginStep ==
  ASSUME DevInv, mode = "dev", mode' = mode, tree \in Contents, rev \in Nat, HasController, ~closed,
         loadEntry("reload")
  PROVE  DevInv'
<1> DEFINE n == Len(loads) + 1
           x == [pc |-> "import", type |-> "reload", rev |-> rev, entry |-> tree,
                 previousContext |-> context, roots |-> 0, snap |-> 0]
<1>1. Types /\ Snapshots /\ First /\ loads \in Seq(Load) /\ context \in Nat
  BY DEF DevInv, Types
<1>2. Len(loads) \in Nat /\ Len(snaps) \in Nat /\ Len(servers) \in Nat /\ context <= Len(loads)
  BY <1>1 DEF Types
<1>3. x \in Load /\ x.pc = "import" /\ x.rev = rev /\ x.previousContext = context /\ x.snap = 0
  BY <1>1 DEF Load
<1>4. loads' = Append(loads, x)
  BY DEF loadEntry, buildImportUrl
<1>5. /\ observedSelfStart' = FALSE /\ context' = n /\ state' = "reloading"
      /\ overlapped' = (overlapped \/ Running # {})
      /\ UNCHANGED <<snaps, disposed, servers, currentServer, closing, closedLoading>>
  BY DEF loadEntry, LoadingState, snapVars
<1> HIDE DEF x
<1>6. /\ loads' \in Seq(Load) /\ Len(loads') = n /\ \A m \in 1..Len(loads) : loads'[m] = loads[m]
      /\ loads'[n].pc = "import" /\ loads'[n].rev = rev /\ loads'[n].previousContext = context /\ loads'[n].snap = 0
  BY <1>1, <1>2, <1>3, <1>4, AppendProperties
<1>7. \A m \in 1..Len(loads') : m \in 1..Len(loads) \/ m = n
  BY <1>2, <1>6
<1>8. n \in 1..Len(loads') /\ n \in Nat
  BY <1>2, <1>6
<1>9. Types'
  <2>1. ASSUME NEW m \in 1..Len(loads')
        PROVE  loads'[m].previousContext < m /\ loads'[m].snap <= Len(snaps')
    <3>1. CASE m \in 1..Len(loads)
      BY <1>1, <1>5, <1>6, <3>1 DEF Types
    <3>2. CASE m = n
      BY <1>1, <1>2, <1>5, <1>6, <3>2
    <3> QED
      BY <1>7, <3>1, <3>2
  <2>2. context' \in 0..Len(loads') /\ overlapped' \in BOOLEAN
    BY <1>1, <1>2, <1>5, <1>6 DEF Types
  <2> QED
    BY <1>1, <1>5, <1>6, <2>1, <2>2 DEF Types
<1>10. Snapshots'
  <2>1. \A m \in 1..Len(loads') : Waits(m)' => m \in 1..Len(loads) /\ Waits(m) /\ loads'[m].snap = loads[m].snap
    BY <1>6, <1>7 DEF Waits
  <2> QED
    BY <1>1, <1>5, <2>1 DEF Snapshots
<1>11. First'
  <2>1. loads[1].pc = "done" /\ loads'[1].pc = "done" /\ Len(loads') >= 1
    BY <1>1, <1>2, <1>6 DEF First, HasController
  <2> QED
    BY <1>1, <1>5, <2>1 DEF First
<1>12. ASSUME ~overlapped' PROVE Serial'
  <2>1. Serial /\ Running = {}
    BY <1>5, <1>12 DEF DevInv
  <2>2. \A m \in 1..Len(loads) : loads[m].pc \in {"done", "failed"}
    BY <1>1, <2>1 DEF Running
  <2>3. Len(loads) \in 1..Len(loads) /\ context = 0 /\ loads[1].pc = "done"
    BY <1>1, <1>2, <2>1, <2>2 DEF Serial, First, HasController
  <2>4. PICK g \in 1..Len(loads) : LastGood(g) /\ Code = loads[g].rev /\ currentServer # 0
    BY <2>1, <2>2, <2>3 DEF Serial
  <2>5. LastGood(g)' /\ Code' = loads'[g].rev
    BY <1>2, <1>5, <1>6, <1>7, <2>4 DEF LastGood, Code
  <2>6. g \in 1..Len(loads')
    BY <1>2, <1>6
  <2> QED
    BY <1>2, <1>5, <1>6, <1>7, <2>1, <2>2, <2>3, <2>4, <2>5, <2>6 DEF Serial, Waits
<1> QED
  BY <1>5, <1>9, <1>10, <1>11, <1>12 DEF DevInv, closed

\* close() lets the watcher go and closes the server that is held.
LEMMA CloseStep ==
  ASSUME DevInv, mode = "dev", mode' = mode, Close, ~watch'.live
  PROVE  DevInv'
<1> DEFINE c == currentServer
           x == [servers[c] EXCEPT !.open = FALSE]
<1>1. Types /\ Snapshots /\ First /\ closing = "no" /\ loads[1].pc = "done"
  BY DEF DevInv, Types, Close, HasController, closed
<1>2. Len(loads) \in Nat /\ Len(snaps) \in Nat /\ Len(servers) \in Nat /\ servers \in Seq(Server)
  BY <1>1 DEF Types
<1>3. c # 0 /\ c \in 1..Len(servers)
  BY <1>1, <1>2 DEF First, Types
<1>4. /\ closing' = "awaiting" /\ state' = "closing" /\ disposed' = disposed \cup {servers[c].code}
      /\ servers' = [servers EXCEPT ![c] = x] /\ closedLoading' = (Running # {})
      /\ UNCHANGED <<loads, context, observedSelfStart, snaps, currentServer, overlapped>>
  BY DEF Close, loadVars
<1>5. x \in Server /\ x.open = FALSE /\ x.code = servers[c].code /\ x.manifest = servers[c].manifest
  <2>1. servers[c] \in Server
    BY <1>2, <1>3, ElementOfSeq
  <2> QED
    BY <2>1 DEF Server
<1> HIDE DEF x
<1>6. /\ servers' \in Seq(Server) /\ Len(servers') = Len(servers)
      /\ \A s \in 1..Len(servers) : servers'[s] = IF s = c THEN x ELSE servers[s]
  <2>1. /\ [servers EXCEPT ![c] = x] \in Seq(Server) /\ Len([servers EXCEPT ![c] = x]) = Len(servers)
        /\ \A s \in 1..Len(servers) : [servers EXCEPT ![c] = x][s] = IF s = c THEN x ELSE servers[s]
    BY <1>2, <1>3, <1>5, ExceptSeq
  <2> QED
    BY <1>4, <2>1
<1> HIDE DEF c
<1>7. /\ \A s \in 1..Len(servers) : servers'[s].code = servers[s].code /\ servers'[s].manifest = servers[s].manifest
      /\ \A s \in 1..Len(servers) : servers'[s].open => s # c /\ servers[s].open
  BY <1>5, <1>6
<1>8. Types'
  <2>1. disposed' \in SUBSET (1..Len(snaps'))
    BY <1>1, <1>3, <1>4 DEF Types, Snapshots
  <2> QED
    BY <1>1, <1>4, <1>6, <2>1 DEF Types
<1>9. Snapshots'
  <2>1. ASSUME NEW s \in 1..Len(servers), servers'[s].open PROVE servers'[s].code \notin disposed'
    BY <1>1, <1>3, <1>4, <1>7, <2>1 DEF Snapshots
  <2>2. ASSUME NEW m \in 1..Len(loads), Waits(m) PROVE loads[m].snap \notin disposed'
    BY <1>1, <1>3, <1>4, <2>2 DEF Snapshots
  <2>3. \A m \in 1..Len(loads) : Waits(m)' <=> Waits(m)
    BY <1>4 DEF Waits
  <2> QED
    BY <1>1, <1>4, <1>6, <1>7, <2>1, <2>2, <2>3 DEF Snapshots
<1>10. First'
  BY <1>1, <1>4 DEF First
<1>11. ASSUME ~overlapped', ~closedLoading' PROVE Shut'
  <2>1. Serial /\ Running = {}
    BY <1>1, <1>4, <1>11 DEF DevInv, closed
  <2>2. \A l \in 1..Len(loads) : loads[l].pc \in {"done", "failed"}
    BY <1>1, <2>1 DEF Running, Types
  <2>3. \A s \in 1..Len(servers) : s = c
    BY <1>2, <1>3, <2>1 DEF Serial, c
  <2> QED
    BY <1>4, <1>6, <1>7, <2>2, <2>3 DEF Shut
<1> QED
  BY <1>4, <1>8, <1>9, <1>10, <1>11 DEF DevInv, closed

\* The native server has stopped.
LEMMA CloseEndsStep ==
  ASSUME DevInv, mode = "dev", mode' = mode, CloseEnds
  PROVE  DevInv'
<1>1. /\ Types /\ Snapshots /\ First /\ closing = "awaiting" /\ closing' = "ended" /\ currentServer' = 0
      /\ state' = "closed"
      /\ UNCHANGED <<watch, loads, context, observedSelfStart, snaps, disposed, servers, overlapped, closedLoading>>
  BY DEF DevInv, CloseEnds, loadVars, histVars
<1>2. Types'
  BY <1>1 DEF Types
<1>3. Snapshots'
  BY <1>1 DEF Snapshots, Waits
<1>4. First'
  BY <1>1 DEF First
<1>5. ASSUME ~overlapped, ~closedLoading PROVE Shut'
  BY <1>1, <1>5 DEF DevInv, closed, Shut
<1> QED
  BY <1>1, <1>2, <1>3, <1>4, <1>5 DEF DevInv, closed

\* The server and its loads stay as they are when no watcher comes to life.
LEMMA DevStays ==
  ASSUME DevInv, mode' = mode, UNCHANGED devVars, mode = "dev" => (watch'.live => watch.live)
  PROVE  DevInv'
<1>1. /\ UNCHANGED <<loads, context, observedSelfStart, snaps, disposed, servers, currentServer, overlapped>>
      /\ UNCHANGED <<closedLoading, state, closing>>
  BY DEF devVars, loadVars, snapVars, histVars
<1>2. Types' /\ Snapshots'
  BY <1>1 DEF DevInv, Types, Snapshots, Waits
<1>3. DevIdle => DevIdle'
  BY <1>1 DEF DevIdle
<1>4. mode = "dev" => First'
  BY <1>1 DEF DevInv, First
<1>5. Serial => Serial'
  BY <1>1 DEF Serial, Code, LastGood, Waits
<1>6. mode = "dev" /\ Shut => Shut'
  BY <1>1 DEF Shut
<1> QED
  BY <1>1, <1>2, <1>3, <1>4, <1>5, <1>6 DEF DevInv, closed

\* A module listens when no load is on record: a server that nobody holds.
LEMMA AloneStep ==
  ASSUME DevInv, mode = "dev", mode' = mode, NEW l \in 1..Len(loads), ModuleListensAlone(l)
  PROVE  DevInv'
<1> DEFINE k == Len(snaps) + 1
           n == Len(servers) + 1
<1>1. Types /\ Snapshots /\ First /\ loads[l].pc = "import" /\ context = 0
  BY DEF DevInv, ModuleListensAlone
<1>2. /\ Len(loads) \in Nat /\ Len(snaps) \in Nat /\ Len(servers) \in Nat /\ loads[l].rev \in Nat
      /\ servers \in Seq(Server) /\ snaps \in Seq(Nat) /\ k \in Nat
  BY <1>1, LoadTypes DEF Types
<1>3. Moved(l, "evaluated", loads[l].snap) /\ "evaluated" \in Pcs
  BY <1>1, GotoMoves DEF ModuleListensAlone, Types, Pcs
<1>4. /\ Len(loads') = Len(loads) /\ loads' \in Seq(Load)
      /\ \A m \in 1..Len(loads) :
            /\ loads'[m].pc = (IF m = l THEN "evaluated" ELSE loads[m].pc)
            /\ loads'[m].snap = loads[m].snap
            /\ loads'[m].rev = loads[m].rev /\ loads'[m].previousContext = loads[m].previousContext
  BY <1>3 DEF Moved
<1>5. /\ UNCHANGED <<watch, context, observedSelfStart, disposed, currentServer, state, closing, overlapped, closedLoading>>
      /\ snaps' = Append(snaps, loads[l].rev)
      /\ servers' = Append(servers, [open |-> TRUE, code |-> k, manifest |-> k])
  BY DEF ModuleListensAlone, histVars
<1>6. Grown(TRUE) /\ Len(snaps') = k /\ snaps' \in Seq(Nat) /\ \A i \in 1..Len(snaps) : snaps'[i] = snaps[i]
  BY <1>2, <1>5, SnapsGrow DEF Grown
<1>7. /\ servers' \in Seq(Server) /\ Len(servers') = n /\ \A s \in 1..Len(servers) : servers'[s] = servers[s]
      /\ servers'[n].open = TRUE /\ servers'[n].code = k /\ servers'[n].manifest = k
  BY <1>2, <1>5, ServersGrow
<1>8. /\ \A i \in 1..Len(snaps) : i \in 1..k /\ i # k
      /\ k \in 1..k /\ k \notin disposed /\ \A i \in disposed : i \in 1..k
  BY <1>1, <1>2 DEF Types
<1>9. \A s \in 1..Len(servers') : s \in 1..Len(servers) \/ s = n
  BY <1>2, <1>7
<1>10. l # 1 /\ loads[1].pc = "done"
  BY <1>1, <1>2 DEF First
<1>11. Types'
  <2>1. ASSUME NEW m \in 1..Len(loads') PROVE loads'[m].previousContext < m /\ loads'[m].snap <= Len(snaps')
    <3>1. loads[m].previousContext < m /\ loads[m].snap <= Len(snaps) /\ loads[m].snap \in Nat
      BY <1>1, <1>4, LoadTypes DEF Types
    <3>2. loads'[m].previousContext = loads[m].previousContext /\ loads'[m].snap = loads[m].snap
      BY <1>4
    <3> QED
      BY <1>2, <1>6, <3>1, <3>2
  <2>2. currentServer' \in 0..Len(servers')
    BY <1>1, <1>2, <1>5, <1>7 DEF Types
  <2>3. disposed' \in SUBSET (1..Len(snaps'))
    BY <1>5, <1>6, <1>8
  <2> QED
    BY <1>1, <1>4, <1>5, <1>6, <1>7, <2>1, <2>2, <2>3 DEF Types
<1> HIDE DEF k, n
<1>12. Snapshots'
  <2>1. \A s \in 1..Len(servers) : servers[s].code \in 1..k /\ servers[s].code # k
    BY <1>1, <1>8 DEF Snapshots
  <2>2. ASSUME NEW s \in 1..Len(servers')
        PROVE  /\ servers'[s].code = servers'[s].manifest /\ servers'[s].code \in 1..Len(snaps')
               /\ servers'[s].open => servers'[s].code \notin disposed'
    <3>1. CASE s = n
      BY <1>6, <1>7, <1>8, <1>5, <3>1
    <3>2. CASE s \in 1..Len(servers)
      BY <1>1, <1>5, <1>6, <1>7, <2>1, <3>2 DEF Snapshots
    <3> QED
      BY <1>9, <3>1, <3>2
  <2>3. \A s, t \in 1..Len(servers') : servers'[s].code = servers'[t].code => s = t
    BY <1>1, <1>7, <1>9, <2>1 DEF Snapshots
  <2>4. ASSUME NEW m \in 1..Len(loads), Waits(m)'
        PROVE  /\ loads'[m].snap \in 1..Len(snaps') /\ loads'[m].snap \notin disposed'
               /\ \A s \in 1..Len(servers') : servers'[s].code # loads'[m].snap
               /\ \A o \in 1..Len(loads) : Waits(o)' /\ loads'[o].snap = loads'[m].snap => o = m
    <3>1. Waits(m) /\ \A o \in 1..Len(loads) : Waits(o)' => Waits(o)
      BY <1>4, <2>4 DEF Waits
    <3>2. /\ loads[m].snap \in 1..Len(snaps) /\ loads[m].snap \notin disposed
          /\ \A s \in 1..Len(servers) : servers[s].code # loads[m].snap
          /\ \A o \in 1..Len(loads) : Waits(o) /\ loads[o].snap = loads[m].snap => o = m
      BY <1>1, <3>1 DEF Snapshots
    <3> QED
      BY <1>4, <1>5, <1>6, <1>7, <1>8, <1>9, <3>1, <3>2
  <2> QED
    BY <1>4, <2>2, <2>3, <2>4 DEF Snapshots
<1>13. First'
  <2>0. Len(loads) >= 1 /\ 1 \in 1..Len(loads)
    BY <1>1, <1>2 DEF First
  <2>1. loads'[1].pc = "done" /\ Len(loads') >= 1
    BY <1>4, <1>10, <2>0
  <2> QED
    BY <1>1, <1>5, <1>10, <2>1 DEF First
<1>14. ~(~overlapped /\ ~closed)
  <2>1. SUFFICES ASSUME Serial PROVE FALSE
    BY DEF DevInv
  <2> QED
    BY <1>1, <1>2, <2>1 DEF Serial
<1>15. ASSUME ~overlapped, closed, ~closedLoading PROVE FALSE
  <2>1. Shut
    BY <1>15 DEF DevInv
  <2> QED
    BY <1>1, <2>1 DEF Shut
<1> QED
  BY <1>5, <1>11, <1>12, <1>13, <1>14, <1>15 DEF DevInv, closed

\* Every step of a load.
LEMMA LoadSteps ==
  ASSUME DevInv, mode = "dev", mode' = mode, NEW l \in 1..Len(loads), LoadStep(l)
  PROVE  DevInv'
<1>1. Types /\ First /\ loads \in Seq(Load) /\ Len(loads) \in Nat
  BY DEF DevInv, Types
<1>2. loads[l].entry \in Contents /\ Entry(l).roots \in Nat /\ loads[l].rev \in Nat
  <2>1. loads[l].entry \in Contents /\ loads[l].rev \in Nat
    BY <1>1, LoadTypes
  <2> QED
    BY <2>1, DevServerAssumption DEF Entry
<1>3. CASE ImportThrows(l)
  BY <1>3, FailStep DEF ImportThrows, snapVars, histVars
<1>4. CASE ModuleListens(l)
  <2> DEFINE o == context
  <2>1. /\ loads[l].pc = "import" /\ o \in 1..Len(loads) /\ observedSelfStart' = TRUE
        /\ UNCHANGED <<watch, closing, overlapped, closedLoading>>
        /\ applyApplication(l, context, "evaluated", "listening")
    BY <1>1, <1>4 DEF ModuleListens, Types, histVars
  <2>2. CASE applyToServer(l, o, "evaluated") /\ Reload(currentServer, Len(snaps) + 1)
             /\ loads' = [loads EXCEPT ![l].pc = "evaluated", ![o].roots = Entry(l).roots]
             /\ UNCHANGED <<context, state>>
    <3>1. Moved(l, "evaluated", loads[l].snap)
      BY <1>1, <1>2, <2>1, <2>2, ApplyMoves DEF Pcs
    <3> QED
      BY <2>1, <2>2, <3>1, SwapStep DEF applyToServer
  <2>3. CASE applyToServer(l, o, "evaluated") /\ ReloadRefused(currentServer, Len(snaps) + 1) /\ Failed(l)
    BY <2>1, <2>3, FailStep DEF applyToServer, ReloadRefused
  <2>4. CASE applyStarts(l, o, "listening")
    <3>1. Len(snaps) + 1 \in Nat
      BY <1>1, LoadTypes
    <3>2. loads' = [loads EXCEPT ![l].pc = "listening", ![l].snap = Len(snaps) + 1, ![o].roots = Entry(l).roots]
      BY <2>4 DEF applyStarts, normalizeReloadOptions
    <3>3. Moved(l, "listening", Len(snaps) + 1)
      BY <1>1, <1>2, <2>1, <3>1, <3>2, WaitMoves DEF Pcs
    <3> QED
      BY <2>1, <2>4, <3>3, WaitStep DEF applyStarts
  <2> QED
    BY <2>1, <2>2, <2>3, <2>4 DEF applyApplication, applyToServer, normalizeReloadOptions
<1>5. CASE ModuleListensAlone(l)
  BY <1>5, AloneStep
<1>6. CASE ImportEnds(l)
  <2>1. /\ loads[l].pc \in {"import", "evaluated"}
        /\ UNCHANGED <<observedSelfStart, closing, overlapped, closedLoading>> /\ observedSelfStart \in BOOLEAN
    BY <1>1, <1>6 DEF ImportEnds, histVars, Types
  <2>2. CASE observedSelfStart /\ Succeeded(l) /\ UNCHANGED snapVars
    BY <2>1, <2>2, SucceedStep DEF snapVars
  <2>3. CASE ~observedSelfStart /\ Failed(l) /\ UNCHANGED <<snapVars, watch>>
    BY <2>1, <2>3, FailStep DEF snapVars
  <2>4. CASE ~observedSelfStart /\ applyApplication(l, l, "finish", "starting") /\ UNCHANGED watch
    <3>1. loads[l].pc = "evaluated" => l # 1
      BY <1>1, <2>4 DEF First
    <3>2. CASE applyToServer(l, l, "finish") /\ Reload(currentServer, Len(snaps) + 1)
               /\ loads' = [loads EXCEPT ![l].pc = "finish", ![l].roots = Entry(l).roots]
               /\ UNCHANGED <<context, state>>
      <4>1. Moved(l, "finish", loads[l].snap)
        BY <1>1, <1>2, <3>2, ApplyMoves DEF Pcs
      <4> QED
        BY <2>1, <2>4, <3>1, <3>2, <4>1, SwapStep DEF applyToServer
    <3>3. CASE applyToServer(l, l, "finish") /\ ReloadRefused(currentServer, Len(snaps) + 1) /\ Failed(l)
      BY <2>1, <2>4, <3>3, FailStep DEF applyToServer, ReloadRefused
    <3>4. CASE applyStarts(l, l, "starting")
      <4>1. Len(snaps) + 1 \in Nat
        BY <1>1, LoadTypes
      <4>2. loads' = [loads EXCEPT ![l].pc = "starting", ![l].snap = Len(snaps) + 1, ![l].roots = Entry(l).roots]
        BY <3>4 DEF applyStarts, normalizeReloadOptions
      <4>3. Moved(l, "starting", Len(snaps) + 1)
        BY <1>1, <1>2, <4>1, <4>2, WaitMoves DEF Pcs
      <4> QED
        BY <2>1, <2>4, <3>4, <4>3, WaitStep DEF applyStarts
    <3> QED
      BY <2>4, <3>2, <3>3, <3>4 DEF applyApplication, applyToServer, normalizeReloadOptions
  <2> QED
    BY <1>6, <2>2, <2>3, <2>4 DEF ImportEnds
<1>7. CASE Started(l)
  BY <1>7, StartedStep
<1>8. CASE StartFails(l)
  BY <1>8, FailStep DEF StartFails, snapVars, histVars
<1>9. CASE Finish(l)
  BY <1>9, SucceedStep DEF Finish, snapVars, histVars
<1> QED
  BY <1>3, <1>4, <1>5, <1>6, <1>7, <1>8, <1>9 DEF LoadStep

-----------------------------------------------------------------------------
(* The watcher.                                                               *)

\* A watcher has seen no write that is still to come, and its timer is cleared
\* with it.
Sound(w) == w \in Watch /\ w.previousSnapshot <= rev /\ (w.restartTimer => w.live)

\* The watchers that the code makes out of others.
LEMMA Watchers ==
  ASSUME rev \in Nat
  PROVE  /\ Sound(NoWatch) /\ ~NoWatch.live /\ ~NoWatch.restartTimer
         /\ \A r \in Nat : /\ Sound(Created(r)) /\ Created(r).previousSnapshot = rev
                           /\ ~Created(r).restartTimer
         /\ \A w \in Watch : Sound(w) =>
               /\ Sound(Disposed(w)) /\ ~Disposed(w).live /\ ~Disposed(w).restartTimer
               /\ Sound(TimerFired(w)) /\ TimerFired(w).live = w.live
<1>1. NoWatch \in Watch /\ Sound(NoWatch) /\ ~NoWatch.live /\ ~NoWatch.restartTimer
  BY DEF Sound, NoWatch, Watch
<1>2. ASSUME NEW r \in Nat
      PROVE  Sound(Created(r)) /\ Created(r).previousSnapshot = rev /\ ~Created(r).restartTimer
  <2>1. \A w \in Watch : LET x == [w EXCEPT !.live = TRUE, !.roots = r, !.previousSnapshot = rev]
                         IN  x \in Watch /\ x.live /\ x.previousSnapshot = rev /\ x.restartTimer = w.restartTimer
    BY DEF Watch
  <2>2. /\ Created(r) \in Watch /\ Created(r).live /\ Created(r).previousSnapshot = rev
        /\ Created(r).restartTimer = NoWatch.restartTimer
    BY <1>1, <2>1, Zenon DEF Created
  <2> QED
    BY <1>1, <2>2 DEF Sound
<1>3. ASSUME NEW w \in Watch, Sound(w)
      PROVE  /\ Sound(Disposed(w)) /\ ~Disposed(w).live /\ ~Disposed(w).restartTimer
             /\ Sound(TimerFired(w)) /\ TimerFired(w).live = w.live
  BY <1>3 DEF Disposed, TimerFired, Sound, Watch
<1> QED
  BY <1>1, <1>2, <1>3

\* What a watcher does by itself: a poll that arms the timer has seen a write.
LEMMA WatcherSteps ==
  ASSUME rev \in Nat, watch \in Watch, Sound(watch), StartupOver \/ Poll
  PROVE  /\ UNCHANGED treeVars /\ watch.live /\ Sound(watch)' /\ watch'.live
         /\ \/ watch'.previousSnapshot = watch.previousSnapshot /\ watch'.restartTimer = watch.restartTimer
            \/ watch.previousSnapshot < rev /\ watch'.previousSnapshot = rev
<1>1. CASE StartupOver
  BY <1>1 DEF StartupOver, Sound, Watch, treeVars
<1>2. CASE Poll
  <2>1. /\ watch.live /\ watch.previousSnapshot # rev /\ UNCHANGED <<tree, rev>>
        /\ watch' = [watch EXCEPT !.previousSnapshot = rev, !.restartTimer = TRUE]
    BY <1>2 DEF Poll, Differs, treeVars
  <2>2. watch.previousSnapshot \in Nat /\ watch.previousSnapshot < rev
    BY <2>1 DEF Sound, Watch
  <2>3. watch' \in Watch /\ watch'.live /\ watch'.previousSnapshot = rev
    BY <2>1 DEF Watch
  <2>4. Sound(watch)'
    BY <2>1, <2>3 DEF Sound
  <2> QED
    BY <2>1, <2>2, <2>3, <2>4 DEF treeVars
<1> QED
  BY <1>1, <1>2

-----------------------------------------------------------------------------
(* Induction over the steps of the development server.                        *)

\* Every step of the development server, of its loads and of its watcher.
LEMMA DevSteps ==
  ASSUME IInv, Dev(DevNext)
  PROVE  IInv'
<1>1. /\ mode = "dev" /\ mode' = "dev" /\ UNCHANGED hotVars /\ DevInv /\ First /\ Types
      /\ rev \in Nat /\ watch \in Watch /\ Sound(watch) /\ tree \in Contents
  BY DEF IInv, Files, HotInv, DevInv, Dev, Sound
<1>2. HotInv'
  BY <1>1 DEF IInv, HotInv, HotTypes, hotVars
<1> SUFFICES Files' /\ DevInv'
  BY <1>2 DEF IInv
<1>3. \A l \in 1..Len(loads) : loads[l].roots \in Nat
  BY <1>1, LoadTypes DEF Load
<1>4. ASSUME NEW c \in Contents, Write(c) PROVE Files' /\ DevInv'
  <2>1. Files'
    BY <1>1, <1>4 DEF Write, Files, Sound, Watch
  <2> QED
    BY <1>1, <1>4, <2>1, DevStays DEF Write
<1>5. CASE WatchStep
  <2>1. Sound(watch)' /\ UNCHANGED <<tree, rev>> /\ watch.live /\ UNCHANGED devVars
    BY <1>1, <1>5, WatcherSteps DEF WatchStep, treeVars
  <2> QED
    BY <1>1, <2>1, DevStays DEF Files, Sound
<1>6. CASE Changed
  <2>1. /\ watch' = TimerFired(watch) /\ Sound(watch') /\ UNCHANGED <<tree, rev>>
        /\ watch.live /\ watch'.live
    BY <1>1, <1>6, Watchers DEF Changed, treeVars, Sound
  <2>2. Files'
    BY <1>1, <2>1 DEF Files, Sound
  <2>3. CASE UNCHANGED devVars
    BY <1>1, <2>1, <2>2, <2>3, DevStays
  <2>4. CASE ~closed /\ loadEntry("reload")
    <3>1. HasController
      BY <1>1, <2>1 DEF First, HasController
    <3> QED
      BY <1>1, <2>2, <2>4, <3>1, BeginStep
  <2> QED
    BY <1>6, <2>3, <2>4 DEF Changed, Files
<1>7. CASE ManualReload
  <2>1. Files'
    BY <1>1, <1>7 DEF ManualReload, treeVars, Files, Sound
  <2> QED
    BY <1>1, <1>7, <2>1, BeginStep DEF ManualReload
<1>8. CASE Close
  <2>1. watch' = Disposed(watch) /\ Sound(watch') /\ ~watch'.live /\ UNCHANGED <<tree, rev>>
    BY <1>1, <1>8, Watchers DEF Close, treeVars, Sound
  <2>2. Files'
    BY <1>1, <2>1 DEF Files, Sound
  <2> QED
    BY <1>1, <1>8, <2>1, <2>2, CloseStep
<1>9. CASE CloseEnds
  <2>1. Files'
    BY <1>1, <1>9 DEF CloseEnds, treeVars, Files, Sound
  <2> QED
    BY <1>1, <1>9, <2>1, CloseEndsStep
<1>10. ASSUME NEW l \in DOMAIN loads, LoadStep(l) PROVE Files' /\ DevInv'
  <2>1. l \in 1..Len(loads)
    BY <1>1 DEF Types
  <2>2. UNCHANGED <<tree, rev>>
    BY <1>10 DEF LoadStep, ImportThrows, ModuleListens, ModuleListensAlone, ImportEnds, Started, StartFails,
                 Finish, treeVars
  <2>3. watch' = watch \/ watch' = Ensured(watch, loads[l].roots)
    BY <1>10 DEF LoadStep, ImportThrows, ModuleListens, ModuleListensAlone, ImportEnds, Started, StartFails,
                 Finish, Succeeded
  <2>4. Sound(Ensured(watch, loads[l].roots))
    BY <1>1, <1>3, <2>1, Watchers DEF Ensured
  <2>5. Files'
    BY <1>1, <2>2, <2>3, <2>4 DEF Files, Sound
  <2> QED
    BY <1>1, <1>10, <2>1, <2>5, LoadSteps
<1> QED
  BY <1>4, <1>5, <1>6, <1>7, <1>8, <1>9, <1>10 DEF Dev, DevNext

-----------------------------------------------------------------------------
(* Induction over the steps of a process of its own.                          *)

\* The comment writer stores the file at most once a step, and one that is off
\* never does.
LEMMA WriterSteps ==
  ASSUME rev \in Nat, CleansUp \/ \E line, status : Marks(line, status)
  PROVE  /\ rev' = rev \/ rev' = rev + 1
         /\ writer = NoWriter => writer' = NoWriter /\ rev' = rev
<1>1. ASSUME NEW w, Stores(w) PROVE rev' = rev + 1
  BY <1>1 DEF Stores
<1>2. CASE CleansUp
  <2>1. writer = NoWriter => ~writer.read
    BY DEF NoWriter
  <2>2. UNCHANGED <<writer, treeVars>> \/ (writer.read /\ Stores(CleanedUp(writer)))
    BY <1>2 DEF CleansUp
  <2> QED
    BY <1>1, <2>1, <2>2 DEF treeVars
<1>3. ASSUME NEW line, NEW status, Marks(line, status)
      PROVE  /\ rev' = rev \/ rev' = rev + 1
             /\ writer = NoWriter => writer' = NoWriter /\ rev' = rev
  <2>1. writer = NoWriter => ~Fresh(writer, line, status)
    BY DEF NoWriter, Fresh
  <2>2. CASE ~Fresh(writer, line, status)
    BY <1>3, <2>2 DEF Marks, treeVars
  <2>3. CASE Fresh(writer, line, status)
    <3>1. \E w : Stores(w)
      BY <1>3, <2>3 DEF Marks
    <3> QED
      BY <1>1, <2>1, <2>3, <3>1
  <2> QED
    BY <2>2, <2>3
<1> QED
  BY <1>2, <1>3

\* A process goes on to pc.
LEMMA ProcGoes ==
  ASSUME HotTypes, NEW pc, proc' = [proc EXCEPT !.pc = pc]
  PROVE  DOMAIN proc' = {"pc", "rev", "marks", "routes"} /\ proc'.pc = pc
BY DEF HotTypes

\* Every step of a process of its own: the comment writer, the watcher, ends and restarts.
LEMMA HotSteps ==
  ASSUME IInv, App(HotNext)
  PROVE  IInv'
<1>1. /\ mode = "app" /\ mode' = "app" /\ UNCHANGED devVars /\ DevInv /\ HotNext
      /\ HotTypes /\ Restarts /\ rev \in Nat /\ watch \in Watch /\ Sound(watch)
  BY DEF IInv, Files, HotInv, App, Sound
<1>2. DevInv'
  BY <1>1, DevStays
<1>3. /\ proc.pc \in {"exec", "compiling", "up", "draining", "stopped", "restarting", "exited", "killed"}
      /\ spawned \in Nat /\ procs \in Nat /\ edits \in Nat /\ spawned < procs /\ hotReload \in BOOLEAN
      /\ open \in BOOLEAN /\ (open => proc.pc = "up") /\ watch.previousSnapshot \in Nat
      /\ watch.previousSnapshot <= rev /\ watch.restartTimer \in BOOLEAN /\ watch.live \in BOOLEAN
  BY <1>1 DEF HotTypes, Sound, Watch
<1>4. /\ watch.restartTimer => watch.live
      /\ watch.live => hotReload /\ proc.pc \in {"up", "draining"} /\ spawned <= watch.previousSnapshot
      /\ ~hotReload => spawned = 0 /\ proc.pc # "restarting"
      /\ hotReload => writer = NoWriter /\ rev = edits /\ spawned <= rev
      /\ watch.restartTimer => spawned < watch.previousSnapshot
      /\ proc.pc = "restarting" => spawned < rev
  BY <1>1 DEF Restarts, Sound
<1> SUFFICES rev' \in Nat /\ Sound(watch)' /\ HotTypes' /\ Restarts'
  BY <1>1, <1>2 DEF IInv, Files, Sound, HotInv
<1>5. CASE Boot
  <2>1. /\ UNCHANGED <<watch, hotReload, open, spawned, procs, edits, rev>> /\ proc.pc = "exec"
        /\ writer' = Writer(TRUE, hotReload) /\ proc'.pc = "compiling"
        /\ DOMAIN proc' = {"pc", "rev", "marks", "routes"}
    BY <1>5 DEF Boot, treeVars
  <2>2. hotReload => writer' = NoWriter
    BY <2>1 DEF Writer, NoWriter
  <2> QED
    BY <1>1, <1>3, <1>4, <2>1, <2>2 DEF HotTypes, Restarts, Sound
<1>6. CASE Compile
  <2>1. /\ UNCHANGED <<watch, hotReload, open, spawned, procs, edits>> /\ proc.pc = "compiling"
        /\ \E line, status : Marks(line, status)
        /\ proc' = [proc EXCEPT !.marks = Tail(@)]
    BY <1>6 DEF Compile
  <2>2. proc'.pc = "compiling" /\ DOMAIN proc' = {"pc", "rev", "marks", "routes"}
    BY <1>1, <2>1 DEF HotTypes
  <2>3. (rev' = rev \/ rev' = rev + 1) /\ (writer = NoWriter => writer' = NoWriter /\ rev' = rev)
    BY <1>1, <2>1, WriterSteps
  <2> QED
    BY <1>1, <1>3, <1>4, <2>1, <2>2, <2>3 DEF HotTypes, Restarts, Sound
<1>7. CASE Start
  <2>1. /\ UNCHANGED <<tree, rev, hotReload, writer, spawned, procs, edits>> /\ proc.pc = "compiling"
        /\ proc'.pc = "up" /\ open' = TRUE /\ watch' = (IF hotReload THEN Created(0) ELSE NoWatch)
        /\ DOMAIN proc' = {"pc", "rev", "marks", "routes"}
    BY <1>1, <1>7, ProcGoes DEF Start, treeVars
  <2>2. Sound(watch') /\ ~watch'.restartTimer /\ (watch'.live => hotReload /\ watch'.previousSnapshot = rev)
    BY <1>1, <2>1, Watchers
  <2> QED
    BY <1>1, <1>3, <1>4, <2>1, <2>2 DEF HotTypes, Restarts, Sound
<1>8. ASSUME NEW r \in DOMAIN proc.routes \cap Tracked, Promote(r)
      PROVE  rev' \in Nat /\ Sound(watch)' /\ HotTypes' /\ Restarts'
  <2>1. /\ UNCHANGED <<watch, hotReload, proc, open, spawned, procs, edits>>
        /\ \E line, status : Marks(line, status)
    BY <1>8 DEF Promote
  <2>2. (rev' = rev \/ rev' = rev + 1) /\ (writer = NoWriter => writer' = NoWriter /\ rev' = rev)
    BY <1>1, <2>1, WriterSteps
  <2> QED
    BY <1>1, <1>3, <1>4, <2>1, <2>2 DEF HotTypes, Restarts, Sound
<1>9. CASE CloseServer
  <2>1. /\ UNCHANGED <<hotReload, spawned, procs, edits>> /\ CleansUp
        /\ proc'.pc = "stopped" /\ open' = FALSE /\ watch' = Disposed(watch)
        /\ DOMAIN proc' = {"pc", "rev", "marks", "routes"}
    BY <1>1, <1>9, ProcGoes DEF CloseServer
  <2>2. Sound(watch') /\ ~watch'.restartTimer /\ ~watch'.live
    BY <1>1, <2>1, Watchers
  <2>3. (rev' = rev \/ rev' = rev + 1) /\ (writer = NoWriter => writer' = NoWriter /\ rev' = rev)
    BY <1>1, <2>1, WriterSteps
  <2>4. Sound(watch)'
    BY <1>1, <2>2, <2>3 DEF Sound, Watch
  <2>5. HotTypes'
    BY <1>3, <2>1 DEF HotTypes
  <2>6. Restarts'
    BY <1>3, <1>4, <2>1, <2>2, <2>3 DEF Restarts
  <2> QED
    BY <1>1, <2>3, <2>4, <2>5, <2>6
<1>10. CASE Shutdown
  <2>1. /\ UNCHANGED <<tree, rev, watch, hotReload, writer, spawned, procs, edits>> /\ proc.pc = "up"
        /\ proc'.pc = "draining" /\ open' = FALSE /\ DOMAIN proc' = {"pc", "rev", "marks", "routes"}
    BY <1>1, <1>10, ProcGoes DEF Shutdown, treeVars
  <2> QED
    BY <1>1, <1>3, <1>4, <2>1 DEF HotTypes, Restarts, Sound
<1>11. CASE Exit
  <2>1. /\ UNCHANGED <<hotReload, spawned, procs, edits>> /\ (CleansUp \/ UNCHANGED <<writer, tree, rev>>)
        /\ proc'.pc = "exited" /\ open' = FALSE /\ watch' = NoWatch
        /\ DOMAIN proc' = {"pc", "rev", "marks", "routes"}
    BY <1>1, <1>11, ProcGoes DEF Exit, treeVars
  <2>2. Sound(watch') /\ ~watch'.restartTimer /\ ~watch'.live
    BY <1>1, <2>1, Watchers
  <2>3. (rev' = rev \/ rev' = rev + 1) /\ (writer = NoWriter => writer' = NoWriter /\ rev' = rev)
    BY <1>1, <2>1, WriterSteps
  <2>4. Sound(watch)'
    BY <1>1, <2>2, <2>3 DEF Sound, Watch
  <2>5. HotTypes'
    BY <1>3, <2>1 DEF HotTypes
  <2>6. Restarts'
    BY <1>3, <1>4, <2>1, <2>2, <2>3 DEF Restarts
  <2> QED
    BY <1>1, <2>3, <2>4, <2>5, <2>6
<1>12. CASE Killed
  <2>1. /\ UNCHANGED <<tree, rev, hotReload, writer, spawned, procs, edits>>
        /\ proc'.pc = "killed" /\ open' = FALSE /\ watch' = NoWatch
        /\ DOMAIN proc' = {"pc", "rev", "marks", "routes"}
    BY <1>1, <1>12, ProcGoes DEF Killed, treeVars
  <2>2. Sound(watch') /\ ~watch'.restartTimer /\ ~watch'.live
    BY <1>1, <2>1, Watchers
  <2> QED
    BY <1>1, <1>3, <1>4, <2>1, <2>2 DEF HotTypes, Restarts, Sound
<1>13. CASE RunAgain
  <2>1. /\ UNCHANGED <<tree, rev, watch, hotReload, open, spawned, edits>> /\ procs' = procs + 1
        /\ proc.pc \in {"exited", "killed"} /\ proc'.pc = "exec" /\ writer' = NoWriter
        /\ DOMAIN proc' = {"pc", "rev", "marks", "routes"}
    BY <1>1, <1>13, ProcGoes DEF RunAgain, treeVars
  <2> QED
    BY <1>1, <1>3, <1>4, <2>1 DEF HotTypes, Restarts, Sound
<1>14. CASE Edit
  <2>1. /\ UNCHANGED <<watch, hotReload, proc, open, writer, spawned, procs>>
        /\ rev' = rev + 1 /\ edits' = edits + 1
    BY <1>14 DEF Edit
  <2> QED
    BY <1>1, <1>3, <1>4, <2>1 DEF HotTypes, Restarts, Sound
<1>15. CASE HotWatchStep
  <2>1. /\ UNCHANGED <<tree, rev, hotReload, proc, open, writer, spawned, procs, edits>>
        /\ watch.live /\ Sound(watch)' /\ watch'.live
        /\ \/ watch'.previousSnapshot = watch.previousSnapshot /\ watch'.restartTimer = watch.restartTimer
           \/ watch.previousSnapshot < rev /\ watch'.previousSnapshot = rev
    BY <1>1, <1>15, WatcherSteps DEF HotWatchStep, hotVars, treeVars
  <2>2. watch' \in Watch /\ watch'.previousSnapshot \in Nat
    BY <2>1 DEF Sound, Watch
  <2> QED
    BY <1>1, <1>3, <1>4, <2>1, <2>2 DEF HotTypes, Restarts
<1>16. CASE HotChange
  <2>1. /\ UNCHANGED <<hotReload, spawned, procs, edits>> /\ CleansUp /\ watch.restartTimer
        /\ proc'.pc = "restarting" /\ open' = FALSE /\ watch' = Disposed(watch)
        /\ DOMAIN proc' = {"pc", "rev", "marks", "routes"}
    BY <1>1, <1>16, ProcGoes DEF HotChange
  <2>2. Sound(watch') /\ ~watch'.restartTimer /\ ~watch'.live
    BY <1>1, <2>1, Watchers
  <2>3. writer' = NoWriter /\ rev' = rev
    BY <1>1, <1>4, <2>1, WriterSteps
  <2>4. Sound(watch)'
    BY <1>1, <2>2, <2>3 DEF Sound, Watch
  <2>5. HotTypes'
    BY <1>3, <2>1 DEF HotTypes
  <2>6. Restarts'
    BY <1>3, <1>4, <2>1, <2>2, <2>3 DEF Restarts
  <2> QED
    BY <1>1, <2>3, <2>4, <2>5, <2>6
<1>17. CASE Spawn
  <2>1. /\ UNCHANGED <<tree, rev, watch, hotReload, open, edits>> /\ procs' = procs + 1 /\ spawned' = spawned + 1
        /\ proc.pc = "restarting" /\ proc'.pc = "exec" /\ writer' = NoWriter
        /\ DOMAIN proc' = {"pc", "rev", "marks", "routes"}
    BY <1>1, <1>17, ProcGoes DEF Spawn, treeVars
  <2> QED
    BY <1>1, <1>3, <1>4, <2>1 DEF HotTypes, Restarts, Sound
<1>18. CASE SpawnFails
  <2>1. /\ UNCHANGED <<tree, rev, watch, hotReload, open, writer, spawned, procs, edits>>
        /\ proc.pc = "restarting" /\ proc'.pc = "exited"
        /\ DOMAIN proc' = {"pc", "rev", "marks", "routes"}
    BY <1>1, <1>18, ProcGoes DEF SpawnFails, treeVars
  <2> QED
    BY <1>1, <1>3, <1>4, <2>1 DEF HotTypes, Restarts, Sound
<1> QED
  BY <1>1, <1>5, <1>6, <1>7, <1>8, <1>9, <1>10, <1>11, <1>12, <1>13, <1>14, <1>15, <1>16, <1>17, <1>18 DEF HotNext

-----------------------------------------------------------------------------
(* Induction.                                                                 *)

\* Either way of running starts in the invariant.
LEMMA InitInv == Init => IInv
<1>1. ASSUME mode = "dev", DevInit, HotIdle PROVE IInv
  <2> DEFINE x == [pc |-> "import", type |-> "initial", rev |-> 0, entry |-> tree,
                   previousContext |-> 0, roots |-> 0, snap |-> 0]
  <2>1. /\ tree \in Contents /\ rev = 0 /\ watch = NoWatch /\ loads = <<x>> /\ context = 1 /\ observedSelfStart = FALSE
        /\ snaps = <<>> /\ disposed = {} /\ servers = <<>> /\ currentServer = 0 /\ state = "starting"
        /\ closing = "no" /\ overlapped = FALSE /\ closedLoading = FALSE
    BY <1>1 DEF DevInit
  <2>2. x \in Load /\ x.pc = "import" /\ x.previousContext = 0 /\ x.snap = 0
    BY <2>1 DEF Load
  <2> HIDE DEF x
  <2>3. loads \in Seq(Load) /\ Len(loads) = 1 /\ loads[1] = x
    BY <2>1, <2>2
  <2>4. snaps \in Seq(Nat) /\ Len(snaps) = 0 /\ servers \in Seq(Server) /\ Len(servers) = 0
    BY <2>1
  <2>5. Files
    BY <1>1, <2>1, Watchers DEF Files, Sound
  <2>6. Types
    <3>1. disposed \in SUBSET (1..Len(snaps)) /\ context \in 0..Len(loads) /\ currentServer \in 0..Len(servers)
      BY <2>1, <2>3, <2>4
    <3>2. \A l \in 1..Len(loads) : loads[l].previousContext < l /\ loads[l].snap <= Len(snaps)
      BY <2>2, <2>3, <2>4
    <3> QED
      BY <2>1, <2>3, <2>4, <3>1, <3>2 DEF Types
  <2>10. Snapshots
    <3>1. \A s \in 1..Len(servers) : FALSE
      BY <2>4
    <3>2. \A l \in 1..Len(loads) : ~Waits(l)
      BY <2>2, <2>3 DEF Waits
    <3> QED
      BY <3>1, <3>2 DEF Snapshots
  <2>7. First
    BY <2>1, <2>2, <2>3, Watchers DEF First
  <2>8. Serial
    <3>1. \A l \in 1..Len(loads) : l = 1
      BY <2>3
    <3>2. \A s \in 1..Len(servers) : FALSE
      BY <2>4
    <3> QED
      BY <2>1, <2>2, <2>3, <2>4, <3>1, <3>2 DEF Serial, Waits
  <2>9. HotInv
    <3>1. /\ DOMAIN proc = {"pc", "rev", "marks", "routes"} /\ proc.pc = "exited"
          /\ hotReload = FALSE /\ open = FALSE /\ spawned = 0 /\ procs = 1 /\ edits = 0
      BY <1>1 DEF HotIdle
    <3>2. ~open /\ open \in BOOLEAN /\ hotReload \in BOOLEAN
      BY <3>1, Zenon
    <3>3. spawned \in Nat /\ procs \in Nat /\ edits \in Nat /\ spawned < procs
      BY <3>1
    <3>4. HotTypes
      BY <3>1, <3>2, <3>3, Zenon DEF HotTypes
    <3> QED
      BY <1>1, <3>1, <3>4 DEF HotInv
  <2> QED
    BY <1>1, <2>1, <2>5, <2>6, <2>10, <2>7, <2>8, <2>9 DEF IInv, DevInv, closed
<1>2. ASSUME mode = "app", HotInit, DevIdle PROVE IInv
  <2>1. rev = 0 /\ watch = NoWatch /\ hotReload \in BOOLEAN /\ writer = NoWriter /\ spawned = 0 /\ procs = 1 /\ edits = 0
        /\ proc.pc = "exec" /\ DOMAIN proc = {"pc", "rev", "marks", "routes"} /\ open = FALSE
    BY <1>2 DEF HotInit
  <2>2. ~NoWatch.live /\ ~NoWatch.restartTimer /\ Sound(NoWatch)
    BY <2>1, Watchers
  <2>3. Files
    BY <1>2, <2>1, <2>2 DEF Files, Sound
  <2>4. Types /\ Snapshots
    <3>1. /\ loads = <<>> /\ context = 0 /\ observedSelfStart = FALSE
          /\ snaps = <<>> /\ disposed = {} /\ servers = <<>> /\ currentServer = 0
          /\ state = "closed" /\ closing = "ended" /\ overlapped = FALSE /\ closedLoading = TRUE
      BY <1>2 DEF DevIdle
    <3>2. /\ loads \in Seq(Load) /\ Len(loads) = 0 /\ snaps \in Seq(Nat) /\ Len(snaps) = 0
          /\ servers \in Seq(Server) /\ Len(servers) = 0
      BY <3>1
    <3>3. (\A l \in 1..Len(loads) : FALSE) /\ (\A s \in 1..Len(servers) : FALSE)
      BY <3>2
    <3>4. disposed \in SUBSET (1..Len(snaps)) /\ context \in 0..Len(loads) /\ currentServer \in 0..Len(servers)
      BY <3>1, <3>2
    <3> QED
      BY <3>1, <3>2, <3>3, <3>4 DEF Types, Snapshots
  <2>5. HotInv
    <3>0. ~open /\ open \in BOOLEAN /\ spawned \in Nat /\ procs \in Nat /\ edits \in Nat /\ spawned < procs
      <4>1. ~open /\ open \in BOOLEAN
        BY <2>1, Zenon
      <4> QED
        BY <2>1, <4>1
    <3>1. HotTypes
      BY <2>1, <3>0, Zenon DEF HotTypes
    <3>2. Restarts
      BY <2>1, <2>2 DEF Restarts
    <3> QED
      BY <1>2, <3>1, <3>2 DEF HotInv
  <2> QED
    BY <1>2, <2>3, <2>4, <2>5 DEF IInv, DevInv
<1> QED
  BY <1>1, <1>2 DEF Init

\* No step leaves the invariant.
LEMMA Inductive == IInv /\ [Next]_vars => IInv'
<1> SUFFICES ASSUME IInv, [Next]_vars PROVE IInv'
  OBVIOUS
<1>1. CASE Dev(DevNext)
  BY <1>1, DevSteps
<1>2. CASE App(HotNext)
  BY <1>2, HotSteps
<1>3. CASE UNCHANGED vars
  <2>1. UNCHANGED <<mode, tree, rev, watch>> /\ UNCHANGED devVars /\ UNCHANGED hotVars
    BY <1>3 DEF vars, treeVars
  <2>2. DevInv'
    BY <2>1, DevStays DEF IInv
  <2>3. Files'
    BY <2>1 DEF IInv, Files
  <2>4. HotInv'
    BY <2>1 DEF IInv, HotInv, HotTypes, Restarts, hotVars
  <2> QED
    BY <2>2, <2>3, <2>4 DEF IInv
<1> QED
  BY <1>1, <1>2, <1>3 DEF Next

\* The invariant holds throughout.
LEMMA InvAlways == Spec => []IInv
  BY InitInv, Inductive, PTL DEF Spec

\* Whatever loads overlap, fail or are refused, and whichever server belongs to none of them: a
\* server that is open has the code and the manifest of one snapshot, which is still in use
\* (dev/index.js:263-274, index.js:1865-1879).
THEOREM DevelopmentServesSound == Spec => []ServedSound
<1>1. IInv => ServedSound
  <2> SUFFICES ASSUME IInv PROVE ServedSound
    OBVIOUS
  <2>1. Types /\ Snapshots /\ Files /\ HotTypes
    BY DEF IInv, DevInv, HotInv
  <2>2. /\ DOMAIN loads = 1..Len(loads) /\ DOMAIN servers = 1..Len(servers) /\ DOMAIN snaps = 1..Len(snaps)
        /\ \A l \in 1..Len(loads) : loads[l].pc \in Pcs
    <3>1. loads \in Seq(Load) /\ servers \in Seq(Server) /\ snaps \in Seq(Nat)
      BY <2>1 DEF Types
    <3>2. DOMAIN loads = 1..Len(loads) /\ DOMAIN servers = 1..Len(servers) /\ DOMAIN snaps = 1..Len(snaps)
      BY <3>1, LenProperties
    <3> QED
      BY <2>1, <3>2, LoadTypes
  <2>3. DevTypeOK
    BY <2>1, <2>2 DEF DevTypeOK, Types, Files, Pcs
  <2>4. HotTypeOK
    BY <2>1 DEF HotTypeOK, HotTypes, Files
  <2>5. SnapshotInForce
    BY <2>1, <2>2 DEF SnapshotInForce, Snapshots
  <2> QED
    BY <2>3, <2>4, <2>5 DEF ServedSound, TypeOK
<1> QED
  BY <1>1, InvAlways, PTL

\* As long as loads come one after the other, status() tells how the last one ended, and the
\* server held has the code of the last one that ended well, whatever failed in between
\* (dev/index.js:236-300).
THEOREM StatusIsHonest == Spec => []StatusHonest
<1>1. IInv => StatusHonest
  <2> DEFINE good == {l \in DOMAIN loads : loads[l].pc = "done"}
  <2> SUFFICES ASSUME IInv, ~overlapped, Running = {}, ~closed
               PROVE  /\ state = IF Last(loads).pc = "done" THEN "ready" ELSE "error"
                      /\ context = 0
                      /\ good # {} =>
                            /\ servers[currentServer].open
                            /\ snaps[servers[currentServer].code]
                                 = loads[CHOOSE l \in good : \A m \in good : m <= l].rev
    BY DEF StatusHonest
  <2>1. Types /\ First /\ Serial
    BY DEF IInv, DevInv, Files, DevIdle, closed
  <2>2. DOMAIN loads = 1..Len(loads) /\ Len(loads) \in Nat /\ Len(servers) \in Nat
    BY <2>1 DEF Types
  <2>3. \A l \in 1..Len(loads) : loads[l].pc \in {"done", "failed"}
    BY <2>2 DEF Running
  <2>4. Len(loads) \in 1..Len(loads) /\ Last(loads) = loads[Len(loads)]
    BY <2>1, <2>2 DEF First, Last
  <2>5. state = (IF Last(loads).pc = "done" THEN "ready" ELSE "error") /\ context = 0
    BY <2>1, <2>3, <2>4 DEF Serial
  <2>6. ASSUME good # {}
        PROVE  /\ servers[currentServer].open
               /\ snaps[servers[currentServer].code]
                    = loads[CHOOSE l \in good : \A m \in good : m <= l].rev
    <3>1. ~\A l \in 1..Len(loads) : loads[l].pc # "done"
      BY <2>2, <2>6
    <3>2. PICK g \in 1..Len(loads) : LastGood(g) /\ Code = loads[g].rev /\ currentServer # 0
      BY <2>1, <2>3, <2>4, <3>1 DEF Serial
    <3>3. g \in good /\ \A m \in good : m <= g
      BY <2>2, <3>2 DEF LastGood
    <3>4. \A l \in good : (\A m \in good : m <= l) => l = g
      <4> SUFFICES ASSUME NEW l \in good, \A m \in good : m <= l PROVE l = g
        OBVIOUS
      <4>1. l <= g /\ g <= l /\ l \in 1..Len(loads)
        BY <2>2, <3>3
      <4> QED
        BY <2>2, <4>1
    <3>5. (CHOOSE l \in good : \A m \in good : m <= l) = g
      <4> HIDE DEF good
      <4> QED
        BY <3>3, <3>4, Zenon
    <3>6. currentServer \in 1..Len(servers)
      BY <2>1, <2>2, <3>2 DEF Types
    <3> QED
      BY <2>1, <3>2, <3>5, <3>6 DEF Serial, Code
  <2> QED
    BY <2>5, <2>6
<1> QED
  BY <1>1, InvAlways, PTL

\* A development server that was closed with no load under way has neither a server nor a
\* watcher left, now or later; and a process that was stopped is not brought back by its own
\* watcher (dev/index.js:388-401, dev/hot-reload.js:79-85).
THEOREM ClosedStaysClosed == Spec => ClosedStays
<1>1. IInv => DevNothingAfterClose
  <2> SUFFICES ASSUME IInv, closing = "ended", ~closedLoading, ~overlapped
               PROVE  ~watch.live /\ \A s \in DOMAIN servers : ~servers[s].open
    BY DEF DevNothingAfterClose
  <2>1. mode = "dev" /\ Shut /\ Types
    BY DEF IInv, DevInv, Files, DevIdle, closed
  <2> QED
    BY <2>1 DEF Shut, Types
<1>2. IInv /\ [Next]_vars /\ proc.pc = "stopped" => proc'.pc # "restarting"
  <2> SUFFICES ASSUME IInv, [Next]_vars, proc.pc = "stopped" PROVE proc'.pc # "restarting"
    OBVIOUS
  <2>1. HotTypes /\ (mode = "app" => Restarts) /\ (watch.restartTimer => watch.live)
    BY DEF IInv, HotInv, Files
  <2>2. CASE UNCHANGED vars \/ Dev(DevNext)
    BY <2>2 DEF vars, hotVars, Dev
  <2>3. CASE App(HotNext)
    <3>1. ~watch.restartTimer
      BY <2>1, <2>3 DEF App, Restarts
    <3>2. \/ UNCHANGED proc
          \/ proc' = [proc EXCEPT !.pc = "stopped"]
          \/ proc' = [proc EXCEPT !.pc = "exited"]
          \/ proc' = [proc EXCEPT !.pc = "killed"]
      BY <2>3, <3>1 DEF App, HotNext, Boot, Compile, Start, Promote, CloseServer, Shutdown, Exit, Killed,
                        RunAgain, Edit, HotWatchStep, HotChange, Spawn, SpawnFails, hotVars
    <3> QED
      BY <2>1, <3>2, ProcGoes
  <2> QED
    BY <2>2, <2>3 DEF Next
<1> QED
  BY <1>1, <1>2, InvAlways, PTL DEF Spec, ClosedStays

\* A process restarts at most once for every edit: what it writes into its own sources never
\* makes it restart (index.js:1787, dev/hot-reload.js:47-71).
THEOREM NoRestartLoops == Spec => []NoRestartLoop
<1>1. IInv => NoRestartLoop
  BY DEF IInv, Files, HotInv, HotTypes, Restarts, NoRestartLoop
<1> QED
  BY <1>1, InvAlways, PTL

-----------------------------------------------------------------------------
(* Induction over places.                                                     *)

\* A set of naturals that holds 0 and with each its successor holds all.
LEMMA NatSet ==
  ASSUME NEW T \in SUBSET Nat, 0 \in T, \A n \in T : n + 1 \in T
  PROVE  T = Nat
<1> SUFFICES ASSUME Nat \ T # {} PROVE FALSE
  OBVIOUS
<1>1. PICK x \in Nat \ T : \A y \in Nat \ T : ~ (<<y, x>> \in OpToRel(<, Nat))
  BY WFMin, NatLessThanWellFounded
<1>2. \A y \in Nat \ T : ~(y < x)
  BY <1>1 DEF OpToRel
<1>3. x # 0 /\ x \in Nat
  OBVIOUS
<1>4. x - 1 \in Nat /\ x - 1 < x /\ (x - 1) + 1 = x
  BY <1>3
<1>5. x - 1 \in T
  BY <1>2, <1>4
<1>6. (x - 1) + 1 \in T
  BY <1>5
<1> QED
  BY <1>4, <1>6

\* n steps from a, one after the other.
Iterations(A, a, n, step) == {f \in [0..n -> A] : f[0] = a /\ \A i \in 1..n : f[i] = step[i][f[i - 1]]}

\* Steps can be made one after the other, any number of them.
LEMMA Iterates ==
  ASSUME NEW A, NEW a \in A, NEW n \in Nat, NEW step \in [1..n -> [A -> A]]
  PROVE  Iterations(A, a, n, step) # {}
<1> DEFINE Good(m) == \E f \in [0..m -> A] : f[0] = a /\ \A i \in 1..m : f[i] = step[i][f[i - 1]]
           T == {m \in Nat : m <= n => Good(m)}
<1>1. 0 \in T
  <2> DEFINE f == [i \in 0..0 |-> a]
  <2>1. f \in [0..0 -> A] /\ f[0] = a
    OBVIOUS
  <2>2. Good(0)
    <3>1. \A i \in 1..0 : f[i] = step[i][f[i - 1]]
      OBVIOUS
    <3> HIDE DEF f
    <3> QED
      BY <2>1, <3>1
  <2> QED
    BY <2>2
<1>2. ASSUME NEW m \in T PROVE m + 1 \in T
  <2>0. m \in Nat /\ (m + 1 <= n => Good(m))
    OBVIOUS
  <2> SUFFICES ASSUME m + 1 <= n PROVE Good(m + 1)
    <3> HIDE DEF Good
    <3> QED
      BY <2>0
  <2>1. PICK f \in [0..m -> A] : f[0] = a /\ \A i \in 1..m : f[i] = step[i][f[i - 1]]
    BY <2>0
  <2> DEFINE g == [i \in 0..(m + 1) |-> IF i = m + 1 THEN step[m + 1][f[m]] ELSE f[i]]
  <2>2. m \in 0..m /\ f[m] \in A /\ \A i \in 0..m : g[i] = f[i]
    BY <2>0
  <2>3. g \in [0..(m + 1) -> A]
    <3>1. m + 1 \in 1..n
      BY <2>0
    <3>2. step[m + 1][f[m]] \in A
      BY <2>2, <3>1
    <3> QED
      BY <2>0, <2>2, <3>2
  <2>4. g[0] = a /\ \A i \in 1..(m + 1) : g[i] = step[i][g[i - 1]]
    <3>1. g[0] = a
      BY <2>1, <2>2
    <3>2. \A i \in 1..m : i - 1 \in 0..m /\ g[i - 1] = f[i - 1] /\ g[i] = f[i]
      BY <2>0, <2>2
    <3>3. g[m + 1] = step[m + 1][f[m]] /\ g[(m + 1) - 1] = f[m]
      BY <2>0, <2>2
    <3>4. \A i \in 1..(m + 1) : i \in 1..m \/ i = m + 1
      BY <2>0
    <3> HIDE DEF g
    <3> QED
      BY <2>1, <3>1, <3>2, <3>3, <3>4
  <2> HIDE DEF g
  <2> QED
    BY <2>3, <2>4
<1>3. T = Nat
  <2> HIDE DEF T
  <2>1. T \subseteq Nat
    BY DEF T
  <2> QED
    BY <1>1, <1>2, <2>1, NatSet
<1>4. Good(n)
  <2>1. n \in T
    BY <1>3
  <2> QED
    BY <2>1
<1> QED
  BY <1>4 DEF Iterations

-----------------------------------------------------------------------------
(* What is left of a sequence.                                                *)

\* How many places of G there are up to i.
UpTo(G, i) == Cardinality({j \in G : j <= i})

\* The count over a bounded set starts at 0, ends at the size of the set, and goes up at its places.
LEMMA UpToSteps ==
  ASSUME NEW n \in Nat, NEW G \in SUBSET (1..n)
  PROVE  /\ UpTo(G, 0) = 0 /\ IsFiniteSet(G) /\ UpTo(G, n) = Cardinality(G) /\ Cardinality(G) \in Nat
         /\ \A i \in Nat : /\ UpTo(G, i) \in Nat
                           /\ UpTo(G, i + 1) = IF i + 1 \in G THEN UpTo(G, i) + 1 ELSE UpTo(G, i)
<1>1. IsFiniteSet(G)
  BY FS_Interval, FS_Subset, 1 \in Int, n \in Int
<1>0. \A j \in G : j \in Nat /\ 1 <= j /\ j <= n
  OBVIOUS
<1>2. {j \in G : j <= 0} = {} /\ {j \in G : j <= n} = G
  <2>1. \A j \in G : ~(j <= 0) /\ j <= n
    BY <1>0
  <2> QED
    BY <2>1, Zenon
<1>3. ASSUME NEW i \in Nat
      PROVE  /\ IsFiniteSet({j \in G : j <= i}) /\ UpTo(G, i) \in Nat
             /\ UpTo(G, i + 1) = IF i + 1 \in G THEN UpTo(G, i) + 1 ELSE UpTo(G, i)
  <2> DEFINE X == {j \in G : j <= i}
  <2>1. IsFiniteSet(X)
    BY <1>1, FS_Subset
  <2>2. Cardinality(X) \in Nat
    BY <2>1, FS_CardinalityType
  <2>3. CASE i + 1 \in G
    <3>1. {j \in G : j <= i + 1} = X \cup {i + 1} /\ i + 1 \notin X
      <4>1. \A j \in G : j <= i + 1 <=> (j <= i \/ j = i + 1)
        BY <1>0
      <4>2. ~(i + 1 <= i)
        OBVIOUS
      <4> QED
        BY <2>3, <4>1, <4>2
    <3>2. Cardinality(X \cup {i + 1}) = Cardinality(X) + 1
      BY <2>1, <3>1, FS_AddElement
    <3> QED
      BY <2>1, <2>2, <2>3, <3>1, <3>2 DEF UpTo
  <2>4. CASE i + 1 \notin G
    <3>1. {j \in G : j <= i + 1} = X
      <4>1. \A j \in G : j <= i + 1 <=> j <= i
        BY <1>0, <2>4
      <4> QED
        BY <4>1
    <3> QED
      BY <2>1, <2>2, <2>4, <3>1 DEF UpTo
  <2> QED
    BY <2>3, <2>4
<1>4. Cardinality(G) \in Nat
  BY <1>1, FS_CardinalityType
<1> QED
  BY <1>1, <1>2, <1>3, <1>4, FS_EmptySet DEF UpTo

\* The count grows by one at most from each place to the next.
LEMMA UpToGrows ==
  ASSUME NEW n \in Nat, NEW G \in SUBSET (1..n), NEW i \in Nat, NEW j \in Nat, i <= j
  PROVE  /\ UpTo(G, i) \in Nat /\ UpTo(G, j) \in Nat
         /\ UpTo(G, i) <= UpTo(G, j) /\ UpTo(G, j) - UpTo(G, i) <= j - i
<1> DEFINE Good(d) == /\ UpTo(G, i + d) \in Nat /\ UpTo(G, i) <= UpTo(G, i + d)
                      /\ UpTo(G, i + d) - UpTo(G, i) <= d
           T == {d \in Nat : Good(d)}
<1>0. \A k \in Nat : /\ UpTo(G, k) \in Nat
                     /\ UpTo(G, k + 1) = IF k + 1 \in G THEN UpTo(G, k) + 1 ELSE UpTo(G, k)
  BY UpToSteps
<1>1. 0 \in T
  <2>1. i + 0 = i
    OBVIOUS
  <2> QED
    BY <1>0, <2>1
<1>2. ASSUME NEW d \in T PROVE d + 1 \in T
  <2>1. i + (d + 1) = (i + d) + 1 /\ i + d \in Nat /\ d \in Nat /\ Good(d)
    OBVIOUS
  <2>2. UpTo(G, i + (d + 1)) \in {UpTo(G, i + d), UpTo(G, i + d) + 1}
    BY <1>0, <2>1
  <2>3. UpTo(G, i) \in Nat /\ UpTo(G, i + d) \in Nat
    BY <1>0, <2>1
  <2>4. Good(d + 1)
    BY <2>1, <2>2, <2>3
  <2> QED
    BY <2>1, <2>4
<1>3. T = Nat
  <2> HIDE DEF T
  <2>1. T \subseteq Nat
    BY DEF T
  <2> QED
    BY <1>1, <1>2, <2>1, NatSet
<1>4. j - i \in Nat /\ i + (j - i) = j
  OBVIOUS
<1>5. Good(j - i)
  <2> HIDE DEF Good
  <2>1. j - i \in T
    BY <1>3, <1>4
  <2> QED
    BY <2>1
<1> QED
  BY <1>0, <1>4, <1>5

\* A place that stays is the next of those left.
LEMMA StaysBehind ==
  ASSUME NEW n \in Nat, NEW G \in SUBSET (1..n), NEW i \in Nat, NEW j \in 1..n, i < j, j \notin G
  PROVE  i - UpTo(G, i) < j - UpTo(G, j)
<1>1. j - 1 \in Nat /\ i <= j - 1 /\ (j - 1) + 1 = j
  OBVIOUS
<1>2. UpTo(G, j) = UpTo(G, j - 1)
  BY <1>1, UpToSteps
<1>3. /\ UpTo(G, i) \in Nat /\ UpTo(G, j - 1) \in Nat
      /\ UpTo(G, j - 1) - UpTo(G, i) <= (j - 1) - i
  BY <1>1, UpToGrows
<1> QED
  BY <1>1, <1>2, <1>3

\* Stripped goes through the sequence from its first place to its last.
Leaves(A, L, G, n, u) ==
    /\ u \in [0..n -> Seq(A)] /\ Stripped(L, G) = u[n] /\ u[0] = <<>>
    /\ \A i \in 1..n : u[i] = IF i \in G THEN u[i - 1] ELSE Append(u[i - 1], L[i])

\* The text that is left comes about line by line.
LEMMA StrippedSteps ==
  ASSUME NEW A, NEW L \in Seq(A), NEW G
  PROVE  \E u : Leaves(A, L, G, Len(L), u)
<1> DEFINE n == Len(L)
           Next1(i, s) == IF i \in G THEN s ELSE Append(s, L[i])
           step == [i \in 1..n |-> [s \in Seq(A) |-> Next1(i, s)]]
<1>0. n \in Nat /\ <<>> \in Seq(A)
  BY LenProperties, EmptySeq
<1>1. \A i \in 1..n, s \in Seq(A) : Next1(i, s) \in Seq(A)
  BY ElementOfSeq, AppendProperties
<1> HIDE DEF Next1, n
<1>2. step \in [1..n -> [Seq(A) -> Seq(A)]] /\ \A i \in 1..n, s \in Seq(A) : step[i][s] = Next1(i, s)
  BY <1>1
<1> HIDE DEF step
<1>3. PICK f \in [0..n -> Seq(A)] : f[0] = <<>> /\ \A i \in 1..n : f[i] = step[i][f[i - 1]]
  <2>1. Iterations(Seq(A), <<>>, n, step) # {}
    BY ONLY <1>0, <1>2, Iterates
  <2> QED
    BY <2>1 DEF Iterations
<1>4. ASSUME NEW i \in 1..n PROVE f[i] = Next1(i, f[i - 1])
  <2>1. i - 1 \in 0..n
    BY <1>0
  <2> QED
    BY <1>2, <1>3, <2>1
<1> DEFINE Is(h) == h = [i \in 0..n |-> IF i = 0 THEN <<>> ELSE IF i \in G THEN h[i - 1] ELSE Append(h[i - 1], L[i])]
<1>5. Is(f)
  <2> DEFINE h == [i \in 0..n |-> IF i = 0 THEN <<>> ELSE IF i \in G THEN f[i - 1] ELSE Append(f[i - 1], L[i])]
  <2>1. ASSUME NEW i \in 0..n PROVE f[i] = h[i]
    <3>1. CASE i = 0
      BY <1>3, <3>1
    <3>2. CASE i # 0
      <4>1. i \in 1..n
        BY <1>0, <3>2
      <4>2. h[i] = IF i \in G THEN f[i - 1] ELSE Append(f[i - 1], L[i])
        BY <3>2
      <4> HIDE DEF h
      <4> QED
        BY <1>4, <4>1, <4>2 DEF Next1
    <3> QED
      BY <3>1, <3>2
  <2>2. DOMAIN f = 0..n /\ DOMAIN h = 0..n /\ f = [i \in 0..n |-> f[i]] /\ h = [i \in 0..n |-> h[i]]
    OBVIOUS
  <2> HIDE DEF h
  <2>3. f = h
    BY <2>1, <2>2
  <2> QED
    BY <2>3 DEF h
<1> DEFINE u == CHOOSE h : Is(h)
<1>6. Is(u)
  <2> HIDE DEF Is
  <2> QED
    BY <1>5
<1>7. Stripped(L, G) = u[n]
  BY DEF Stripped, n
<1>8. u[0] = <<>> /\ \A i \in 1..n : u[i] = IF i \in G THEN u[i - 1] ELSE Append(u[i - 1], L[i])
  <2> DEFINE g == [i \in 0..n |-> IF i = 0 THEN <<>> ELSE IF i \in G THEN u[i - 1] ELSE Append(u[i - 1], L[i])]
  <2> HIDE DEF u
  <2>1. u = g
    BY <1>6
  <2>2. g[0] = <<>>
    BY <1>0
  <2>3. ASSUME NEW i \in 1..n PROVE g[i] = IF i \in G THEN u[i - 1] ELSE Append(u[i - 1], L[i])
    <3>1. i \in 0..n /\ i # 0
      BY <1>0
    <3> QED
      BY <3>1
  <2> HIDE DEF g
  <2> QED
    BY <2>1, <2>2, <2>3
<1> DEFINE T == {m \in Nat : m <= n => u[m] \in Seq(A)}
<1>9. T = Nat
  <2> HIDE DEF u
  <2>1. 0 \in T
    BY <1>0, <1>8
  <2>2. ASSUME NEW m \in T PROVE m + 1 \in T
    <3> SUFFICES ASSUME m + 1 <= n PROVE u[m + 1] \in Seq(A)
      OBVIOUS
    <3>1. m \in Nat /\ u[m] \in Seq(A) /\ m + 1 \in 1..n /\ (m + 1) - 1 = m
      BY <1>0
    <3>2. u[m + 1] = Next1(m + 1, u[m])
      BY <1>8, <3>1 DEF Next1
    <3> QED
      BY <1>1, <3>1, <3>2
  <2> HIDE DEF T
  <2>3. T \subseteq Nat
    BY DEF T
  <2> QED
    BY <2>1, <2>2, <2>3, NatSet
<1>10. u \in [0..n -> Seq(A)]
  <2> HIDE DEF u
  <2>1. \A i \in 0..n : u[i] \in Seq(A)
    <3>1. ASSUME NEW i \in 0..n PROVE u[i] \in Seq(A)
      <4>1. i \in Nat /\ i <= n
        BY <1>0
      <4>2. i \in T
        BY <1>9, <4>1
      <4> QED
        BY <4>1, <4>2 DEF T
    <3> QED
      BY <3>1
  <2>2. u = [i \in 0..n |-> u[i]]
    BY <1>6
  <2> HIDE DEF T
  <2> QED
    BY <2>1, <2>2
<1> HIDE DEF u, T
<1> QED
  BY <1>7, <1>8, <1>10 DEF n, Leaves

\* What stays comes in its order, and nothing else does.
LEMMA StrippedIs ==
  ASSUME NEW A, NEW L \in Seq(A), NEW G \in SUBSET (1..Len(L))
  PROVE  /\ Stripped(L, G) \in Seq(A) /\ Len(Stripped(L, G)) = Len(L) - Cardinality(G)
         /\ \A i \in (1..Len(L)) \ G : /\ i - UpTo(G, i) \in 1..Len(Stripped(L, G))
                                       /\ Stripped(L, G)[i - UpTo(G, i)] = L[i]
         /\ \A k \in 1..Len(Stripped(L, G)) : \E i \in (1..Len(L)) \ G : k = i - UpTo(G, i)
<1>0. PICK n : n = Len(L) /\ n \in Nat
  BY LenProperties
<1>u. PICK u : Leaves(A, L, G, n, u)
  BY <1>0, StrippedSteps
<1>1. /\ u \in [0..n -> Seq(A)] /\ Stripped(L, G) = u[n] /\ u[0] = <<>>
      /\ \A i \in 1..n : u[i] = IF i \in G THEN u[i - 1] ELSE Append(u[i - 1], L[i])
  BY <1>u DEF Leaves
<1>2. /\ UpTo(G, 0) = 0 /\ UpTo(G, n) = Cardinality(G)
      /\ \A i \in Nat : /\ UpTo(G, i) \in Nat
                        /\ UpTo(G, i + 1) = IF i + 1 \in G THEN UpTo(G, i) + 1 ELSE UpTo(G, i)
  BY <1>0, UpToSteps
<1>3. \A i \in 1..n : L[i] \in A
  BY <1>0, ElementOfSeq
<1> DEFINE Good(m) ==
       /\ Len(u[m]) = m - UpTo(G, m)
       /\ \A i \in (1..m) \ G : i - UpTo(G, i) \in 1..Len(u[m]) /\ u[m][i - UpTo(G, i)] = L[i]
       /\ \A k \in 1..Len(u[m]) : \E i \in (1..m) \ G : k = i - UpTo(G, i)
<1>4. Good(0)
  <2>1. Len(u[0]) = 0 /\ UpTo(G, 0) = 0
    BY <1>1, <1>2, EmptySeq
  <2> QED
    BY <2>1
<1>5. ASSUME NEW m \in Nat, m + 1 <= n, Good(m) PROVE Good(m + 1)
  <2>1. m \in Nat /\ m <= n /\ m + 1 \in 1..n /\ m \in 0..n /\ (m + 1) - 1 = m
    BY <1>0, <1>5
  <2>2. Good(m)
    BY <1>5
  <2>3. u[m] \in Seq(A) /\ Len(u[m]) \in Nat /\ UpTo(G, m) \in Nat /\ UpTo(G, m + 1) \in Nat
    <3>1. u[m] \in Seq(A)
      BY <1>1, <2>1
    <3>2. m + 1 \in Nat
      OBVIOUS
    <3>3. Len(u[m]) \in Nat
      BY <3>1, LenProperties
    <3> HIDE DEF Good
    <3> QED
      BY <1>2, <3>1, <3>2, <3>3
  <2>4. CASE m + 1 \in G
    <3>1. u[m + 1] = u[m] /\ UpTo(G, m + 1) = UpTo(G, m) + 1
      BY <1>1, <1>2, <2>1, <2>4
    <3>2. (1..(m + 1)) \ G = (1..m) \ G
      <4>1. \A i : i \in 1..(m + 1) <=> i \in 1..m \/ i = m + 1
        BY <2>1
      <4> QED
        BY <2>4, <4>1
    <3>3. Len(u[m + 1]) = (m + 1) - UpTo(G, m + 1)
      BY <2>1, <2>2, <2>3, <3>1
    <3> QED
      BY <2>2, <3>1, <3>2, <3>3
  <2>5. CASE m + 1 \notin G
    <3>1. u[m + 1] = Append(u[m], L[m + 1]) /\ UpTo(G, m + 1) = UpTo(G, m)
      BY <1>1, <1>2, <2>1, <2>5
    <3>2. /\ Len(u[m + 1]) = Len(u[m]) + 1 /\ u[m + 1][Len(u[m]) + 1] = L[m + 1]
          /\ \A k \in 1..Len(u[m]) : u[m + 1][k] = u[m][k]
      BY <1>3, <2>1, <2>3, <3>1, AppendProperties
    <3>3. \A i : i \in (1..(m + 1)) \ G <=> i \in (1..m) \ G \/ i = m + 1
      <4>1. \A i : i \in 1..(m + 1) <=> i \in 1..m \/ i = m + 1
        BY <2>1
      <4> QED
        BY <2>5, <4>1
    <3>4. Len(u[m + 1]) = (m + 1) - UpTo(G, m + 1) /\ (m + 1) - UpTo(G, m + 1) = Len(u[m]) + 1
      BY <2>1, <2>2, <2>3, <3>1, <3>2
    <3>5. \A k : k \in 1..Len(u[m + 1]) <=> k \in 1..Len(u[m]) \/ k = Len(u[m]) + 1
      BY <2>3, <3>2
    <3>6. ASSUME NEW i \in (1..(m + 1)) \ G
          PROVE  i - UpTo(G, i) \in 1..Len(u[m + 1]) /\ u[m + 1][i - UpTo(G, i)] = L[i]
      <4>1. CASE i = m + 1
        BY <3>2, <3>4, <3>5, <4>1
      <4>2. CASE i \in (1..m) \ G
        BY <2>2, <3>2, <3>5, <4>2
      <4> QED
        BY <3>3, <4>1, <4>2
    <3>7. ASSUME NEW k \in 1..Len(u[m + 1]) PROVE \E i \in (1..(m + 1)) \ G : k = i - UpTo(G, i)
      <4>1. CASE k = Len(u[m]) + 1
        BY <3>3, <3>4, <4>1
      <4>2. CASE k \in 1..Len(u[m])
        BY <2>2, <3>3, <4>2
      <4> QED
        BY <3>5, <4>1, <4>2
    <3> QED
      BY <3>4, <3>6, <3>7
  <2> QED
    BY <2>4, <2>5
<1> DEFINE T == {m \in Nat : m <= n => Good(m)}
<1>6. T = Nat
  <2> HIDE DEF Good
  <2>1. 0 \in T
    BY <1>4
  <2>2. \A m \in T : m + 1 \in T
    BY <1>0, <1>5
  <2>3. T \subseteq Nat
    OBVIOUS
  <2> HIDE DEF T
  <2> QED
    BY <2>1, <2>2, <2>3, NatSet
<1>7. Good(n)
  <2> HIDE DEF Good
  <2>1. n \in T
    BY <1>0, <1>6
  <2> QED
    BY <1>0, <2>1
<1>8. u[n] \in Seq(A)
  BY <1>0, <1>1
<1> QED
  BY <1>0, <1>1, <1>2, <1>7, <1>8

\* Two sequences that agree on what stays have the same left.
LEMMA StrippedSame ==
  ASSUME NEW A, NEW L \in Seq(A), NEW M \in Seq(A), NEW G, Len(L) = Len(M),
         \A i \in (1..Len(L)) \ G : L[i] = M[i]
  PROVE  Stripped(L, G) = Stripped(M, G)
<1>0. PICK n : n = Len(L) /\ n \in Nat
  BY LenProperties
<1>u. PICK u : Leaves(A, L, G, n, u)
  BY <1>0, StrippedSteps
<1>1. /\ u \in [0..n -> Seq(A)] /\ Stripped(L, G) = u[n] /\ u[0] = <<>>
      /\ \A i \in 1..n : u[i] = IF i \in G THEN u[i - 1] ELSE Append(u[i - 1], L[i])
  BY <1>u DEF Leaves
<1>v. PICK v : Leaves(A, M, G, n, v)
  BY <1>0, StrippedSteps
<1>2. /\ v \in [0..n -> Seq(A)] /\ Stripped(M, G) = v[n] /\ v[0] = <<>>
      /\ \A i \in 1..n : v[i] = IF i \in G THEN v[i - 1] ELSE Append(v[i - 1], M[i])
  BY <1>v DEF Leaves
<1>3. \A i \in (1..n) \ G : L[i] = M[i]
  BY <1>0
<1> DEFINE Good(m) == u[m] = v[m]
<1>4. Good(0)
  BY <1>1, <1>2
<1>5. ASSUME NEW m \in Nat, m + 1 <= n, Good(m) PROVE Good(m + 1)
  <2>1. m + 1 \in 1..n /\ (m + 1) - 1 = m
    BY <1>0, <1>5
  <2>2. CASE m + 1 \in G
    BY <1>1, <1>2, <1>5, <2>1, <2>2
  <2>3. CASE m + 1 \notin G
    <3>1. L[m + 1] = M[m + 1]
      BY <1>3, <2>1, <2>3
    <3> QED
      BY <1>1, <1>2, <1>5, <2>1, <2>3, <3>1
  <2> QED
    BY <2>2, <2>3
<1> DEFINE T == {m \in Nat : m <= n => Good(m)}
<1>6. T = Nat
  <2> HIDE DEF Good
  <2>1. 0 \in T
    BY <1>4
  <2>2. \A m \in T : m + 1 \in T
    BY <1>0, <1>5
  <2>3. T \subseteq Nat
    OBVIOUS
  <2> HIDE DEF T
  <2> QED
    BY <2>1, <2>2, <2>3, NatSet
<1>7. Good(n)
  <2> HIDE DEF Good
  <2>1. n \in T
    BY <1>0, <1>6
  <2> QED
    BY <1>0, <2>1
<1> QED
  BY <1>1, <1>2, <1>7

\* What is left of two sequences, one after the other.
LEMMA StrippedConcat ==
  ASSUME NEW A, NEW L \in Seq(A), NEW M \in Seq(A), NEW G, NEW H, NEW K,
         \A i \in 1..Len(L) : i \in K <=> i \in G,
         \A i \in 1..Len(M) : Len(L) + i \in K <=> i \in H
  PROVE  Stripped(L \o M, K) = Stripped(L, G) \o Stripped(M, H)
<1>n. PICK n, d : n = Len(L) /\ d = Len(M) /\ n \in Nat /\ d \in Nat
  BY LenProperties
<1>N. PICK N : N = n + d
  OBVIOUS
<1>0. /\ n \in Nat /\ d \in Nat /\ N = n + d /\ N \in Nat /\ L \o M \in Seq(A) /\ Len(L \o M) = N
      /\ Len(L) = n /\ Len(M) = d
      /\ \A i \in 1..n : (L \o M)[i] = L[i]
      /\ \A i \in 1..d : (L \o M)[n + i] = M[i]
  <2>1. /\ L \o M \in Seq(A) /\ Len(L \o M) = n + d
        /\ \A i \in 1..(n + d) : (L \o M)[i] = IF i <= n THEN L[i] ELSE M[i - n]
    BY <1>n, ConcatProperties
  <2>3. \A i \in 1..n : i \in 1..(n + d) /\ i <= n
    BY <1>n
  <2>4. \A i \in 1..d : n + i \in 1..(n + d) /\ ~(n + i <= n) /\ (n + i) - n = i
    BY <1>n
  <2> QED
    BY <1>n, <1>N, <2>1, <2>3, <2>4
<1>u. PICK u : Leaves(A, L \o M, K, N, u)
  BY <1>0, StrippedSteps
<1>1. /\ u \in [0..N -> Seq(A)] /\ Stripped(L \o M, K) = u[N] /\ u[0] = <<>>
      /\ \A i \in 1..N : u[i] = IF i \in K THEN u[i - 1] ELSE Append(u[i - 1], (L \o M)[i])
  BY <1>u DEF Leaves
<1>v. PICK v : Leaves(A, L, G, n, v)
  BY <1>0, StrippedSteps
<1>2. /\ v \in [0..n -> Seq(A)] /\ Stripped(L, G) = v[n] /\ v[0] = <<>>
      /\ \A i \in 1..n : v[i] = IF i \in G THEN v[i - 1] ELSE Append(v[i - 1], L[i])
  BY <1>v DEF Leaves
<1>w. PICK w : Leaves(A, M, H, d, w)
  BY <1>0, StrippedSteps
<1>3. /\ w \in [0..d -> Seq(A)] /\ Stripped(M, H) = w[d] /\ w[0] = <<>>
      /\ \A i \in 1..d : w[i] = IF i \in H THEN w[i - 1] ELSE Append(w[i - 1], M[i])
  BY <1>w DEF Leaves
<1>4. \A i \in 1..d : M[i] \in A
  BY <1>0, ElementOfSeq
<1> DEFINE Same(m) == u[m] = v[m]
<1>5. Same(0)
  BY <1>1, <1>2
<1>6. ASSUME NEW m \in Nat, m + 1 <= n, Same(m) PROVE Same(m + 1)
  <2>1. m + 1 \in 1..n /\ m + 1 \in 1..N /\ (m + 1) - 1 = m
    BY <1>0, <1>6
  <2>2. (L \o M)[m + 1] = L[m + 1] /\ (m + 1 \in K <=> m + 1 \in G)
    BY <1>0, <2>1
  <2>3. u[m + 1] = IF m + 1 \in K THEN u[m] ELSE Append(u[m], (L \o M)[m + 1])
    BY <1>1, <2>1
  <2>4. v[m + 1] = IF m + 1 \in G THEN v[m] ELSE Append(v[m], L[m + 1])
    BY <1>2, <2>1
  <2> QED
    BY <1>6, <2>2, <2>3, <2>4
<1> DEFINE T == {m \in Nat : m <= n => Same(m)}
<1>7. T = Nat
  <2> HIDE DEF Same
  <2>1. 0 \in T
    BY <1>5
  <2>2. \A m \in T : m + 1 \in T
    BY <1>0, <1>6
  <2>3. T \subseteq Nat
    OBVIOUS
  <2> HIDE DEF T
  <2> QED
    BY <2>1, <2>2, <2>3, NatSet
<1>8. Same(n)
  <2> HIDE DEF Same
  <2>1. n \in T
    BY <1>0, <1>7
  <2> QED
    BY <1>0, <2>1
<1>9. u[n] = v[n] /\ v[n] \in Seq(A)
  BY <1>0, <1>2, <1>8
<1> HIDE DEF T, Same
<1> DEFINE After(m) == u[n + m] = v[n] \o w[m]
<1>10. After(0)
  <2>1. v[n] \o <<>> = v[n] /\ n + 0 = n
    BY <1>0, <1>9, ConcatEmptySeq
  <2> QED
    BY <1>3, <1>9, <2>1
<1>11. ASSUME NEW m \in Nat, m + 1 <= d, After(m) PROVE After(m + 1)
  <2>1. m + 1 \in 1..d /\ n + (m + 1) \in 1..N /\ (n + (m + 1)) - 1 = n + m /\ (m + 1) - 1 = m /\ m \in 0..d
    BY <1>0, <1>11
  <2>2. (L \o M)[n + (m + 1)] = M[m + 1] /\ (n + (m + 1) \in K <=> m + 1 \in H)
    BY <1>0, <2>1
  <2>3. u[n + (m + 1)] = IF n + (m + 1) \in K THEN u[n + m] ELSE Append(u[n + m], (L \o M)[n + (m + 1)])
    BY <1>1, <2>1
  <2>4. w[m + 1] = IF m + 1 \in H THEN w[m] ELSE Append(w[m], M[m + 1])
    BY <1>3, <2>1
  <2>5. CASE m + 1 \in H
    BY <1>11, <2>2, <2>3, <2>4, <2>5
  <2>6. CASE m + 1 \notin H
    <3>1. w[m] \in Seq(A) /\ M[m + 1] \in A /\ v[n] \in Seq(A)
      BY <1>3, <1>4, <1>9, <2>1
    <3>2. Append(v[n] \o w[m], M[m + 1]) = v[n] \o Append(w[m], M[m + 1])
      <4> DEFINE x == v[n]
                 y == w[m]
                 z == M[m + 1]
      <4>1. x \in Seq(A) /\ y \in Seq(A) /\ z \in A
        BY <3>1
      <4> HIDE DEF x, y, z
      <4>2. <<z>> \in Seq(A) /\ x \o y \in Seq(A)
        BY <4>1, ConcatProperties
      <4>3. Append(x \o y, z) = (x \o y) \o <<z>> /\ Append(y, z) = y \o <<z>>
        BY <4>1, <4>2, AppendIsConcat
      <4>4. (x \o y) \o <<z>> = x \o (y \o <<z>>)
        BY <4>1, <4>2, ConcatAssociative
      <4>5. Append(x \o y, z) = x \o Append(y, z)
        BY <4>3, <4>4
      <4> QED
        BY <4>5 DEF x, y, z
    <3> QED
      BY <1>11, <2>2, <2>3, <2>4, <2>6, <3>2
  <2> QED
    BY <2>5, <2>6
<1> DEFINE U == {m \in Nat : m <= d => After(m)}
<1>12. U = Nat
  <2> HIDE DEF After
  <2>1. 0 \in U
    BY <1>10
  <2>2. \A m \in U : m + 1 \in U
    BY <1>0, <1>11
  <2>3. U \subseteq Nat
    OBVIOUS
  <2> HIDE DEF U
  <2> QED
    BY <2>1, <2>2, <2>3, NatSet
<1>13. After(d)
  <2> HIDE DEF After
  <2>1. d \in U
    BY <1>0, <1>12
  <2> QED
    BY <1>0, <2>1
<1> QED
  BY <1>0, <1>1, <1>2, <1>3, <1>13

-----------------------------------------------------------------------------
(* Files with comments in them.                                              *)

UserOf(L) == Stripped(L, OurLines(L))

\* A generated block stands at s, directly above a line of code.
Block(L, s) ==
    /\ s \in 1..Len(L) /\ s + 4 \in 1..Len(L)
    /\ L[s].form = "open" /\ L[s + 1].form = "mark" /\ L[s + 2].form = "text" /\ L[s + 3].form = "close"
    /\ L[s].ours /\ L[s + 1].ours /\ L[s + 2].ours /\ L[s + 3].ours
    /\ L[s + 4].form = "code" /\ ~L[s + 4].ours

\* A comment of the user's that nothing stands in.
UserComment(L, s, e) == Comment(L, s, e) /\ \A k \in s..e : ~L[k].ours

\* The user's lines are code and whole comments, and the rest are // comments and
\* blocks, each above a line of code.
Shape(L) ==
    /\ L \in Seq(Lines)
    /\ \A i \in 1..Len(L) : L[i].route # 0 => L[i].form = "code" /\ ~L[i].ours
    /\ \A i \in 1..Len(L) : ~L[i].ours =>
          /\ L[i].form \notin {"oneline", "mark", "single"}
          /\ L[i].form \in {"open", "text", "close"} => \E s \in 1..i, e \in i..Len(L) : UserComment(L, s, e)
    /\ \A i \in 1..Len(L) : L[i].ours =>
          L[i].form = "single" \/ \E s \in 1..i : i <= s + 3 /\ Block(L, s)

\* The lines of a file, and which of them the writer made.
LEMMA LineOf ==
  ASSUME NEW L \in Seq(Lines)
  PROVE  /\ Len(L) \in Nat /\ DOMAIN L = 1..Len(L)
         /\ OurLines(L) \subseteq 1..Len(L)
         /\ \A i \in 1..Len(L) : /\ L[i] \in Lines /\ L[i].ours \in BOOLEAN /\ L[i].route \in Nat
                                 /\ (i \in OurLines(L) <=> L[i].ours)
                                 /\ L[i].statuses \in Seq(Statuses)
<1>1. Len(L) \in Nat /\ DOMAIN L = 1..Len(L)
  BY LenProperties
<1>2. \A i \in 1..Len(L) : L[i] \in Lines
  BY ElementOfSeq
<1>3. \A l \in Lines : l.ours \in BOOLEAN /\ l.route \in Nat /\ l.statuses \in Seq(Statuses)
  BY DEF Lines
<1> QED
  BY <1>1, <1>2, <1>3 DEF OurLines

\* What the comment that starts at a block reaches to.
LEMMA BlockIs ==
  ASSUME NEW L \in Seq(Lines), NEW s, Block(L, s)
  PROVE  CommentFrom(L, s) = s..(s + 3)
<1>1. Len(L) \in Nat /\ s \in 1..Len(L) /\ s + 4 \in 1..Len(L)
  BY LineOf DEF Block
<1>2. s \in Nat /\ s + 3 \in s..Len(L) /\ L[s + 3].form = "close" /\ L[s].form = "open"
  BY <1>1 DEF Block
<1>3. CommentFrom(L, s) = {i \in s..Len(L) : \A j \in s..(i - 1) : L[j].form # "close"}
  BY <1>2 DEF CommentFrom
<1>4. ASSUME NEW i \in s..Len(L), \A j \in s..(i - 1) : L[j].form # "close" PROVE i <= s + 3
  <2> SUFFICES ASSUME ~(i <= s + 3) PROVE FALSE
    OBVIOUS
  <2>1. s + 3 \in s..(i - 1)
    BY <1>1
  <2> QED
    BY <1>2, <1>4, <2>1
<1>5. ASSUME NEW i \in s..(s + 3) PROVE i \in s..Len(L) /\ \A j \in s..(i - 1) : L[j].form # "close"
  <2>1. \A j \in s..(i - 1) : j = s \/ j = s + 1 \/ j = s + 2
    BY <1>1
  <2>2. L[s].form # "close" /\ L[s + 1].form # "close" /\ L[s + 2].form # "close"
    BY DEF Block
  <2>3. i \in s..Len(L)
    BY <1>1
  <2> QED
    BY <2>1, <2>2, <2>3
<1>6. \A i \in s..Len(L) : i <= s + 3 => i \in s..(s + 3)
  BY <1>1
<1> QED
  BY <1>3, <1>4, <1>5, <1>6

\* A comment of the user's is read to its own closer.
LEMMA UserCommentIs ==
  ASSUME NEW L \in Seq(Lines), NEW s \in 1..Len(L), NEW e \in 1..Len(L), UserComment(L, s, e)
  PROVE  /\ CommentFrom(L, s) = s..e
         /\ \A k \in s..e : L[k].form \in {"open", "text", "close"} /\ (L[k].form = "open" => k = s)
                            /\ (L[k].form = "close" => k = e)
<1>1. Len(L) \in Nat /\ s < e /\ L[s].form = "open" /\ L[e].form = "close"
      /\ \A k \in (s + 1)..(e - 1) : L[k].form = "text"
  BY LineOf DEF UserComment, Comment
<1>2. e \in s..Len(L)
  BY <1>1
<1>3. CommentFrom(L, s) = {i \in s..Len(L) : \A j \in s..(i - 1) : L[j].form # "close"}
  BY <1>1, <1>2 DEF CommentFrom
<1>4. \A k \in s..e : k = s \/ k = e \/ k \in (s + 1)..(e - 1)
  BY <1>1
<1>5. \A k \in s..e : L[k].form \in {"open", "text", "close"} /\ (L[k].form = "open" => k = s)
                            /\ (L[k].form = "close" => k = e)
  BY <1>1, <1>4
<1>6. ASSUME NEW i \in s..Len(L), \A j \in s..(i - 1) : L[j].form # "close" PROVE i \in s..e
  <2>1. ~(e \in s..(i - 1))
    BY <1>1, <1>6
  <2> QED
    BY <1>2, <2>1
<1>7. ASSUME NEW i \in s..e PROVE i \in s..Len(L) /\ \A j \in s..(i - 1) : L[j].form # "close"
  <2>1. i \in s..Len(L)
    BY <1>2
  <2>2. \A j \in s..(i - 1) : j \in s..e /\ j # e
    BY <1>2
  <2> QED
    BY <1>5, <2>1, <2>2
<1>8. CommentFrom(L, s) = s..e
  BY <1>3, <1>6, <1>7
<1> QED
  BY <1>5, <1>8

\* A block holds one opener, one closer, and no block overlaps another.
LEMMA BlockLines ==
  ASSUME NEW L \in Seq(Lines), NEW s, Block(L, s), NEW i \in s..(s + 3)
  PROVE  /\ i \in 1..Len(L) /\ L[i].ours /\ L[i].form \in {"open", "mark", "text", "close"}
         /\ (L[i].form = "open" => i = s) /\ (L[i].form = "close" => i = s + 3)
<1>1. Len(L) \in Nat /\ s \in 1..Len(L) /\ s + 4 \in 1..Len(L)
  BY LineOf DEF Block
<1>2. i = s \/ i = s + 1 \/ i = s + 2 \/ i = s + 3
  BY <1>1
<1>3. i \in 1..Len(L)
  BY <1>1
<1> QED
  BY <1>1, <1>2, <1>3 DEF Block

\* Exactly the lines the writer made are taken for generated ones (dev/comments.js:277-319).
LEMMA GeneratedIs ==
  ASSUME NEW L, Shape(L)
  PROVE  Generated(L) = OurLines(L)
<1>1. L \in Seq(Lines)
  BY DEF Shape
<1>2. /\ Len(L) \in Nat /\ DOMAIN L = 1..Len(L) /\ OurLines(L) \subseteq 1..Len(L)
      /\ \A i \in 1..Len(L) : i \in OurLines(L) <=> L[i].ours
  BY <1>1, LineOf
<1>3. ASSUME NEW i \in 1..Len(L), L[i].ours PROVE i \in Generated(L)
  <2>1. CASE L[i].form = "single"
    BY <1>2, <2>1 DEF Generated
  <2>2. CASE L[i].form # "single"
    <3>1. PICK s \in 1..i : i <= s + 3 /\ Block(L, s)
      BY <1>3, <2>2 DEF Shape
    <3>2. CommentFrom(L, s) = s..(s + 3)
      BY <1>1, <3>1, BlockIs
    <3>3. i \in s..(s + 3) /\ s + 1 \in s..(s + 3)
      BY <3>1
    <3>4. L[s + 1].form = "mark"
      BY <3>1 DEF Block
    <3>5. \E x \in 1..i : i \in CommentFrom(L, x) /\ \E j \in CommentFrom(L, x) : L[j].form \in {"mark", "single"}
      BY <3>2, <3>3, <3>4
    <3> QED
      BY <1>2, <3>5 DEF Generated
  <2> QED
    BY <2>1, <2>2
<1>4. ASSUME NEW i \in Generated(L) PROVE i \in 1..Len(L) /\ L[i].ours
  <2>1. /\ i \in 1..Len(L)
        /\ \/ L[i].form = "single"
           \/ \E s \in 1..i : i \in CommentFrom(L, s) /\ \E j \in CommentFrom(L, s) : L[j].form \in {"mark", "single"}
    BY <1>2 DEF Generated
  <2>2. CASE L[i].form = "single"
    BY <2>1, <2>2, <1>1, LineOf DEF Shape
  <2>3. CASE L[i].form # "single"
    <3>1. PICK s \in 1..i : i \in CommentFrom(L, s) /\ \E j \in CommentFrom(L, s) : L[j].form \in {"mark", "single"}
      BY <2>1, <2>3
    <3>2. s \in 1..Len(L) /\ L[s].form \in {"open", "oneline"}
      BY <2>1, <3>1 DEF CommentFrom
    <3>3. CASE L[s].ours
      <4>1. PICK x \in 1..s : s <= x + 3 /\ Block(L, x)
        BY <3>2, <3>3 DEF Shape
      <4>2. s \in x..(x + 3)
        BY <4>1
      <4>3. s = x
        BY <1>1, <3>2, <4>1, <4>2, BlockLines
      <4>4. i \in s..(s + 3)
        BY <1>1, <3>1, <4>1, <4>3, BlockIs
      <4> QED
        BY <1>1, <4>1, <4>3, <4>4, BlockLines
    <3>4. CASE ~L[s].ours
      <4>1. L[s].form = "open"
        BY <3>2, <3>4 DEF Shape
      <4>2. PICK x \in 1..s, e \in s..Len(L) : UserComment(L, x, e)
        BY <3>2, <3>4, <4>1 DEF Shape
      <4>3. x \in 1..Len(L) /\ e \in 1..Len(L) /\ s \in x..e
        BY <1>2, <3>2
      <4>4. s = x
        BY <1>1, <4>1, <4>2, <4>3, UserCommentIs
      <4>5. CommentFrom(L, s) = s..e /\ \A k \in s..e : L[k].form \in {"open", "text", "close"}
        BY <1>1, <4>2, <4>3, <4>4, UserCommentIs
      <4> QED
        BY <3>1, <4>5
    <3> QED
      BY <1>1, <3>2, <3>3, <3>4, LineOf
  <2> QED
    BY <2>2, <2>3
<1> QED
  BY <1>2, <1>3, <1>4

-----------------------------------------------------------------------------
(* Where a block goes.                                                        *)

\* A set of places has a last one.
LEMMA GreatestOf ==
  ASSUME NEW n \in Nat, NEW X \in SUBSET (1..n), X # {}
  PROVE  Max(X) \in X /\ \A y \in X : y <= Max(X)
<1> DEFINE Has1(m) == \A Y \in SUBSET (1..m) : Y # {} => \E x \in Y : \A y \in Y : x >= y
           T == {m \in Nat : Has1(m)}
<1>1. Has1(0)
  <2>1. 1..0 = {}
    OBVIOUS
  <2> SUFFICES ASSUME NEW Y \in SUBSET (1..0), Y # {} PROVE FALSE
    OBVIOUS
  <2> QED
    BY <2>1, Zenon
<1>2. ASSUME NEW m \in Nat, Has1(m) PROVE Has1(m + 1)
  <2> SUFFICES ASSUME NEW Y \in SUBSET (1..(m + 1)), Y # {} PROVE \E x \in Y : \A y \in Y : x >= y
    OBVIOUS
  <2>1. \A y \in Y : y \in Nat /\ (y \in 1..m \/ y = m + 1)
    OBVIOUS
  <2>2. CASE m + 1 \in Y
    <3>1. \A y \in Y : m + 1 >= y
      BY <2>1
    <3> QED
      BY <2>2, <3>1
  <2>3. CASE m + 1 \notin Y
    <3>1. Y \in SUBSET (1..m)
      BY <2>1, <2>3
    <3> QED
      BY <1>2, <3>1
  <2> QED
    BY <2>2, <2>3
<1>3. T = Nat
  <2> HIDE DEF Has1
  <2>1. 0 \in T /\ \A m \in T : m + 1 \in T
    BY <1>1, <1>2
  <2>2. T \subseteq Nat
    OBVIOUS
  <2> HIDE DEF T
  <2> QED
    BY <2>1, <2>2, NatSet
<1>4. Has1(n)
  <2> HIDE DEF Has1
  <2> QED
    BY <1>3
<1>5. \E x \in X : \A y \in X : x >= y
  BY <1>4
<1>6. Max(X) \in X /\ \A y \in X : Max(X) >= y
  <2> DEFINE P(x) == x \in X /\ \A y \in X : x >= y
  <2>1. \E x : P(x)
    BY <1>5
  <2>2. Max(X) = CHOOSE x : P(x)
    BY DEF Max
  <2> HIDE DEF P
  <2>3. P(Max(X))
    BY <2>1, <2>2
  <2> QED
    BY <2>3 DEF P
<1>7. \A x, y \in X : x >= y => y <= x
  OBVIOUS
<1> QED
  BY <1>6, <1>7

\* The block of a line is found, and what is found is the block of the line
\* (dev/comments.js:133-166).
LEMMA ExistingIs ==
  ASSUME NEW L, Shape(L), NEW t \in 1..Len(L), L[t].form = "code"
  PROVE  /\ Block(L, t - 4) => ExistingBlock(L, t) = <<t - 4, t - 1>>
         /\ ~Block(L, t - 4) => ExistingBlock(L, t) = <<>>
<1>1. L \in Seq(Lines)
  BY DEF Shape
<1>2. Len(L) \in Nat /\ t \in Nat /\ t >= 1 /\ t <= Len(L)
  BY <1>1, LineOf
<1> DEFINE above == {i \in 1..(t - 1) : L[i].form # "blank"}
           end == Max(above)
           starts == {i \in 1..end : L[i].form \in {"open", "oneline"}}
<1>3. ExistingBlock(L, t) =
         IF above = {} THEN <<>>
         ELSE IF L[end].form # "close" \/ starts = {} THEN <<>>
         ELSE IF \E i \in Max(starts)..end : L[i].form = "mark" THEN <<Max(starts), end>>
         ELSE <<>>
  BY DEF ExistingBlock
<1>4. above \in SUBSET (1..(t - 1)) /\ t - 1 \in Nat
  BY <1>2
<1>5. above # {} => end \in above /\ \A y \in above : y <= end
  <2> HIDE DEF above
  <2> QED
    BY <1>4, GreatestOf
<1>6. ASSUME Block(L, t - 4) PROVE ExistingBlock(L, t) = <<t - 4, t - 1>>
  <2>1. t - 4 \in 1..Len(L) /\ L[t - 4].form = "open" /\ L[t - 3].form = "mark" /\ L[t - 2].form = "text"
        /\ L[t - 1].form = "close"
    <3>1. (t - 4) + 1 = t - 3 /\ (t - 4) + 2 = t - 2 /\ (t - 4) + 3 = t - 1
      BY <1>2
    <3> QED
      BY <1>6, <3>1 DEF Block
  <2>2. t - 1 \in above
    BY <1>2, <2>1
  <2>3. end \in above /\ t - 1 <= end
    BY <1>5, <2>2
  <2>4. end = t - 1
    <3>1. end \in 1..(t - 1)
      BY <2>3
    <3> HIDE DEF above, end
    <3> QED
      BY <1>2, <2>3, <3>1
  <2>5. starts = {i \in 1..(t - 1) : L[i].form \in {"open", "oneline"}}
    BY <2>4
  <2> HIDE DEF above, end
  <2>6. t - 4 \in starts /\ starts \in SUBSET (1..(t - 1))
    BY <1>2, <2>1, <2>5
  <2>7. Max(starts) \in starts /\ t - 4 <= Max(starts)
    <3> HIDE DEF starts
    <3> QED
      BY <1>4, <2>6, GreatestOf
  <2>8. Max(starts) \in 1..(t - 1) /\ L[Max(starts)].form \in {"open", "oneline"}
    BY <2>5, <2>7
  <2> HIDE DEF starts
  <2>9. Max(starts) = t - 4
    <3>1. Max(starts) \in {t - 4, t - 3, t - 2, t - 1}
      BY <1>2, <2>7, <2>8
    <3> QED
      BY <2>1, <2>8, <3>1
  <2>10. t - 3 \in Max(starts)..end
    BY <1>2, <2>4, <2>9
  <2>11. above # {} /\ starts # {} /\ L[end].form = "close"
    BY <2>1, <2>2, <2>4, <2>6
  <2> QED
    BY <1>3, <2>1, <2>4, <2>9, <2>10, <2>11
<1>7. ASSUME ~Block(L, t - 4) PROVE ExistingBlock(L, t) = <<>>
  <2> SUFFICES ASSUME above # {}, L[end].form = "close", starts # {},
                      \E i \in Max(starts)..end : L[i].form = "mark"
               PROVE  FALSE
    BY <1>3
  <2>1. end \in 1..(t - 1) /\ end \in 1..Len(L) /\ \A y \in 1..(t - 1) : y > end => L[y].form = "blank"
    <3>1. end \in above /\ \A y \in above : y <= end
      BY <1>5
    <3>2. end \in 1..(t - 1) /\ end \in Nat
      BY <3>1
    <3>3. ASSUME NEW y \in 1..(t - 1), y > end PROVE L[y].form = "blank"
      <4>1. ~(y <= end)
        BY <3>2, <3>3
      <4>2. y \notin above
        BY <3>1, <4>1
      <4> QED
        BY <4>2
    <3> HIDE DEF above, end
    <3> QED
      BY <1>2, <3>2, <3>3
  <2> HIDE DEF above, end
  <2>2. starts \in SUBSET (1..end) /\ end \in Nat
    BY <2>1
  <2>3. Max(starts) \in starts /\ \A y \in starts : y <= Max(starts)
    <3> HIDE DEF starts
    <3> QED
      BY <2>2, GreatestOf
  <2>4. Max(starts) \in 1..end
    BY <2>3
  <2>5. CASE L[end].ours
    <3>1. PICK s \in 1..end : end <= s + 3 /\ Block(L, s)
      BY <2>1, <2>5 DEF Shape
    <3>2. end \in s..(s + 3)
      BY <2>1, <3>1
    <3>3. end = s + 3
      BY <1>1, <3>1, <3>2, BlockLines
    <3>4. s + 4 \in 1..Len(L) /\ L[s + 4].form = "code"
      BY <3>1 DEF Block
    <3>5. ~(s + 4 \in 1..(t - 1))
      <4>1. s + 4 > end
        BY <3>3
      <4> QED
        BY <2>1, <3>4, <4>1
    <3>6. s = t - 4
      BY <1>2, <2>1, <3>3, <3>4, <3>5
    <3> QED
      BY <1>7, <3>1, <3>6
  <2>6. CASE ~L[end].ours
    <3>1. PICK s \in 1..end, e \in end..Len(L) : UserComment(L, s, e)
      BY <2>1, <2>6 DEF Shape
    <3>2. s \in 1..Len(L) /\ e \in 1..Len(L) /\ end \in s..e /\ s \in s..e
      BY <1>2, <2>1
    <3>3. \A k \in s..e : L[k].form \in {"open", "text", "close"}
      BY <1>1, <3>1, <3>2, UserCommentIs
    <3>4. L[s].form = "open"
      BY <3>1 DEF UserComment, Comment
    <3>5. s <= Max(starts)
      BY <2>3, <3>4
    <3> HIDE DEF starts
    <3>6. \A i \in Max(starts)..end : i \in s..e
      BY <2>1, <2>4, <3>1, <3>5
    <3> QED
      BY <3>3, <3>6
  <2> QED
    BY <1>1, <2>1, <2>5, <2>6, LineOf
<1> QED
  BY <1>6, <1>7

-----------------------------------------------------------------------------
(* A block put into a file, or put in the place of another.                   *)

Splice(L, p, B, q) == SubSeq(L, 1, p) \o B \o SubSeq(L, q, Len(L))

Spliced(A, L, p, B, q, N) ==
    /\ SubSeq(L, 1, p) \in Seq(A) /\ SubSeq(L, q, Len(L)) \in Seq(A) /\ N \in Seq(A)
    /\ Len(N) = p + 4 + (Len(L) + 1 - q)
    /\ \A i \in 1..p : N[i] = L[i]
    /\ N[p + 1] = B[1] /\ N[p + 2] = B[2] /\ N[p + 3] = B[3] /\ N[p + 4] = B[4]
    /\ \A i \in q..Len(L) : N[p + 4 + (i + 1 - q)] = L[i]

\* The lines of a text with a block in it: those before, the block, those after.
LEMMA SpliceIs ==
  ASSUME NEW A, NEW L \in Seq(A), NEW B \in Seq(A), Len(B) = 4,
         NEW p \in 0..Len(L), NEW q \in 1..(Len(L) + 1)
  PROVE  Spliced(A, L, p, B, q, Splice(L, p, B, q))
<1>0. PICK n : n = Len(L) /\ n \in Nat
  BY LenProperties
<1>X. PICK X : X = SubSeq(L, 1, p)
  OBVIOUS
<1>Y. PICK Y : Y = SubSeq(L, q, n)
  OBVIOUS
<1>1. \A i \in 1..n : L[i] \in A
  BY <1>0, ElementOfSeq
<1>2. X \in Seq(A) /\ Len(X) = p /\ \A i \in 1..p : X[i] = L[i]
  <2>1. \A i \in 1..p : i \in 1..n
    BY <1>0
  <2>2. p \in Int /\ 1 \in Int /\ p - 1 + 1 = p /\ (IF 1 <= p THEN p - 1 + 1 ELSE 0) = p
    BY <1>0
  <2>3. /\ X \in Seq(A) /\ Len(X) = IF 1 <= p THEN p - 1 + 1 ELSE 0
        /\ \A i \in 1..(p - 1 + 1) : X[i] = L[1 + i - 1]
    BY <1>1, <1>X, <2>1, <2>2, SubSeqProperties
  <2>4. \A i \in 1..p : 1 + i - 1 = i
    OBVIOUS
  <2> QED
    BY <2>2, <2>3, <2>4
<1>3. Y \in Seq(A) /\ Len(Y) = n + 1 - q /\ \A i \in 1..(n + 1 - q) : Y[i] = L[q + i - 1]
  <2>1. \A i \in q..n : i \in 1..n
    BY <1>0
  <2>2. q \in Int /\ n \in Int /\ n - q + 1 = n + 1 - q /\ (IF q <= n THEN n - q + 1 ELSE 0) = n + 1 - q
    BY <1>0
  <2>3. /\ Y \in Seq(A) /\ Len(Y) = IF q <= n THEN n - q + 1 ELSE 0
        /\ \A i \in 1..(n - q + 1) : Y[i] = L[q + i - 1]
    BY <1>1, <1>Y, <2>1, <2>2, SubSeqProperties
  <2> QED
    BY <2>2, <2>3
<1>Z. PICK Z : Z = X \o B
  OBVIOUS
<1>4. Z \in Seq(A) /\ Len(Z) = p + 4 /\ \A i \in 1..(p + 4) : Z[i] = IF i <= p THEN X[i] ELSE B[i - p]
  <2>1. /\ X \o B \in Seq(A) /\ Len(X \o B) = Len(X) + Len(B)
        /\ \A i \in 1..(Len(X) + Len(B)) : (X \o B)[i] = IF i <= Len(X) THEN X[i] ELSE B[i - Len(X)]
    BY <1>2, ConcatProperties
  <2> QED
    BY <1>2, <1>Z, <2>1
<1>N. PICK N : N = Z \o Y
  OBVIOUS
<1>5. /\ N \in Seq(A) /\ Len(N) = (p + 4) + (n + 1 - q)
      /\ \A i \in 1..((p + 4) + (n + 1 - q)) : N[i] = IF i <= p + 4 THEN Z[i] ELSE Y[i - (p + 4)]
  <2>1. /\ Z \o Y \in Seq(A) /\ Len(Z \o Y) = Len(Z) + Len(Y)
        /\ \A i \in 1..(Len(Z) + Len(Y)) : (Z \o Y)[i] = IF i <= Len(Z) THEN Z[i] ELSE Y[i - Len(Z)]
    BY <1>3, <1>4, ConcatProperties
  <2> QED
    BY <1>3, <1>4, <1>N, <2>1
<1>6. p \in Nat /\ q \in Nat /\ n + 1 - q \in Nat
  BY <1>0
<1>7. ASSUME NEW i \in 1..p PROVE N[i] = L[i]
  <2>1. i \in 1..((p + 4) + (n + 1 - q)) /\ i \in 1..(p + 4) /\ i <= p + 4 /\ i <= p
    BY <1>6
  <2> QED
    BY <1>2, <1>4, <1>5, <2>1
<1>8. ASSUME NEW k \in 1..4 PROVE N[p + k] = B[k]
  <2>1. p + k \in 1..((p + 4) + (n + 1 - q)) /\ p + k \in 1..(p + 4) /\ p + k <= p + 4 /\ ~(p + k <= p)
        /\ (p + k) - p = k
    BY <1>6
  <2> QED
    BY <1>4, <1>5, <2>1
<1>9. ASSUME NEW i \in q..n PROVE N[(p + 4) + (i + 1 - q)] = L[i]
  <2>1. /\ (p + 4) + (i + 1 - q) \in 1..((p + 4) + (n + 1 - q)) /\ ~((p + 4) + (i + 1 - q) <= p + 4)
        /\ ((p + 4) + (i + 1 - q)) - (p + 4) = i + 1 - q /\ i + 1 - q \in 1..(n + 1 - q)
        /\ q + (i + 1 - q) - 1 = i
    BY <1>0, <1>6
  <2> QED
    BY <1>3, <1>5, <2>1
<1>10. N = Splice(L, p, B, q)
  BY <1>0, <1>X, <1>Y, <1>Z, <1>N DEF Splice
<1>11. 1 \in 1..4 /\ 2 \in 1..4 /\ 3 \in 1..4 /\ 4 \in 1..4
  OBVIOUS
<1>12. N[p + 1] = B[1] /\ N[p + 2] = B[2] /\ N[p + 3] = B[3] /\ N[p + 4] = B[4]
  BY <1>8, <1>11
<1>13. Spliced(A, L, p, B, q, N)
  BY <1>0, <1>X, <1>Y, <1>2, <1>3, <1>5, <1>7, <1>9, <1>12 DEF Spliced
<1> QED
  BY <1>10, <1>13

\* The four lines of a block (dev/comments.js:198-210).
LEMMA BlockMade ==
  ASSUME NEW st \in Seq(Statuses)
  PROVE  LET B == buildOptimizationBlock(st)
         IN  /\ B \in Seq(Lines) /\ Len(B) = 4
             /\ \A k \in 1..4 : B[k].ours /\ B[k].route = 0
             /\ B[1].form = "open" /\ B[2].form = "mark" /\ B[3].form = "text" /\ B[4].form = "close"
             /\ B[2].statuses = st
<1> DEFINE b1 == OurLine("open")
           b2 == [OurLine("mark") EXCEPT !.statuses = st]
           b3 == OurLine("text")
           b4 == OurLine("close")
<1>0. <<>> \in Seq(Statuses)
  BY EmptySeq
<1>1. /\ b1 \in Lines /\ b1.ours /\ b1.route = 0 /\ b1.form = "open"
      /\ b2 \in Lines /\ b2.ours /\ b2.route = 0 /\ b2.form = "mark" /\ b2.statuses = st
      /\ b3 \in Lines /\ b3.ours /\ b3.route = 0 /\ b3.form = "text"
      /\ b4 \in Lines /\ b4.ours /\ b4.route = 0 /\ b4.form = "close"
  BY <1>0 DEF OurLine, Line, Lines
<1> HIDE DEF b1, b2, b3, b4
<1>2. buildOptimizationBlock(st) = <<b1, b2, b3, b4>>
  BY DEF buildOptimizationBlock, b1, b2, b3, b4
<1>3. <<b1, b2, b3, b4>> \in Seq(Lines) /\ Len(<<b1, b2, b3, b4>>) = 4
  BY <1>1
<1>4. \A k \in 1..4 : k = 1 \/ k = 2 \/ k = 3 \/ k = 4
  OBVIOUS
<1>5. /\ <<b1, b2, b3, b4>>[1] = b1 /\ <<b1, b2, b3, b4>>[2] = b2
      /\ <<b1, b2, b3, b4>>[3] = b3 /\ <<b1, b2, b3, b4>>[4] = b4
  OBVIOUS
<1> QED
  BY <1>1, <1>2, <1>3, <1>4, <1>5

\* What the writer did not make of two texts, one after the other.
LEMMA UserConcat ==
  ASSUME NEW L \in Seq(Lines), NEW M \in Seq(Lines)
  PROVE  L \o M \in Seq(Lines) /\ UserOf(L \o M) = UserOf(L) \o UserOf(M)
<1>0. PICK n, d : n = Len(L) /\ d = Len(M) /\ n \in Nat /\ d \in Nat
  BY LenProperties
<1>1. /\ L \o M \in Seq(Lines) /\ Len(L \o M) = n + d
      /\ \A i \in 1..(n + d) : (L \o M)[i] = IF i <= n THEN L[i] ELSE M[i - n]
  BY <1>0, ConcatProperties
<1>2. ASSUME NEW i \in 1..n PROVE i \in OurLines(L \o M) <=> i \in OurLines(L)
  <2>1. i \in 1..(n + d) /\ i <= n
    BY <1>0
  <2> QED
    BY <1>0, <1>1, <2>1, LineOf
<1>3. ASSUME NEW i \in 1..d PROVE n + i \in OurLines(L \o M) <=> i \in OurLines(M)
  <2>1. n + i \in 1..(n + d) /\ ~(n + i <= n) /\ (n + i) - n = i
    BY <1>0
  <2> QED
    BY <1>0, <1>1, <2>1, LineOf
<1>4. Stripped(L \o M, OurLines(L \o M)) = Stripped(L, OurLines(L)) \o Stripped(M, OurLines(M))
  <2> DEFINE G == OurLines(L)
             H == OurLines(M)
             K == OurLines(L \o M)
  <2>1. \A i \in 1..Len(L) : i \in K <=> i \in G
    BY <1>0, <1>2
  <2>2. \A i \in 1..Len(M) : Len(L) + i \in K <=> i \in H
    BY <1>0, <1>3
  <2> HIDE DEF G, H, K
  <2>3. Stripped(L \o M, K) = Stripped(L, G) \o Stripped(M, H)
    BY <2>1, <2>2, StrippedConcat
  <2> QED
    BY <2>3 DEF G, H, K
<1> QED
  BY <1>1, <1>4 DEF UserOf

\* All of a text the writer did not touch, and nothing of a text it made.
LEMMA UserOfAll ==
  ASSUME NEW L \in Seq(Lines)
  PROVE  /\ (\A i \in 1..Len(L) : ~L[i].ours) => UserOf(L) = L
         /\ (\A i \in 1..Len(L) : L[i].ours) => UserOf(L) = <<>>
<1>0. PICK n : n = Len(L) /\ n \in Nat
  BY LenProperties
<1>1. OurLines(L) \in SUBSET (1..n)
  BY <1>0, LineOf
<1>2. /\ UserOf(L) \in Seq(Lines) /\ Len(UserOf(L)) = n - Cardinality(OurLines(L))
      /\ \A i \in (1..n) \ OurLines(L) : UserOf(L)[i - UpTo(OurLines(L), i)] = L[i]
  BY <1>0, <1>1, StrippedIs DEF UserOf
<1>3. ASSUME \A i \in 1..n : ~L[i].ours PROVE UserOf(L) = L
  <2>1. OurLines(L) = {}
    BY <1>0, <1>1, <1>3, LineOf
  <2>2. \A i \in 1..n : UpTo({}, i) = 0 /\ i - 0 = i
    BY <1>0, FS_EmptySet DEF UpTo
  <2>3. Len(UserOf(L)) = n
    BY <1>0, <1>2, <2>1, FS_EmptySet
  <2>4. \A i \in 1..n : UserOf(L)[i] = L[i]
    BY <1>2, <2>1, <2>2
  <2> QED
    BY <1>0, <1>2, <2>3, <2>4, SeqEqual
<1>4. ASSUME \A i \in 1..n : L[i].ours PROVE UserOf(L) = <<>>
  <2>1. OurLines(L) = 1..n
    BY <1>0, <1>1, <1>4, LineOf
  <2>2. Cardinality(1..n) = n
    <3>1. Cardinality(1..n) = IF 1 > n THEN 0 ELSE n - 1 + 1
      BY <1>0, FS_Interval, 1 \in Int, n \in Int
    <3> QED
      BY <1>0, <3>1
  <2>3. Len(UserOf(L)) = 0
    BY <1>0, <1>2, <2>1, <2>2
  <2> QED
    BY <1>2, <2>3, EmptySeq
<1> QED
  BY <1>0, <1>3, <1>4

-----------------------------------------------------------------------------
(* A block more in a file.                                                    *)

\* N is L with a block at t.
Put(L, N, t) ==
    /\ L \in Seq(Lines) /\ N \in Seq(Lines) /\ t \in 1..Len(L) /\ Len(N) = Len(L) + 4
    /\ \A i \in 1..(t - 1) : N[i] = L[i]
    /\ \A i \in t..Len(L) : N[i + 4] = L[i]
    /\ \A i \in t..(t + 3) : N[i].ours /\ N[i].route = 0
    /\ N[t].form = "open" /\ N[t + 1].form = "mark" /\ N[t + 2].form = "text" /\ N[t + 3].form = "close"

\* Where the lines of a text are when a block was put into it.
LEMMA PutPlaces ==
  ASSUME NEW L, NEW N, NEW t, Put(L, N, t)
  PROVE  /\ t \in Nat /\ t >= 1 /\ t <= Len(L) /\ Len(L) \in Nat /\ Len(N) \in Nat
         /\ \A j \in 1..Len(N) : j \in 1..(t - 1) \/ j \in t..(t + 3) \/ (j - 4 \in t..Len(L))
         /\ \A i \in 1..Len(L) : i < t => i \in 1..Len(N) /\ N[i] = L[i]
         /\ \A i \in 1..Len(L) : i >= t => i + 4 \in 1..Len(N) /\ N[i + 4] = L[i]
<1>1. Len(L) \in Nat /\ Len(N) \in Nat /\ t \in 1..Len(L) /\ Len(N) = Len(L) + 4
  BY LineOf DEF Put
<1>2. \A i \in 1..Len(L) : i < t => i \in 1..(t - 1) /\ i \in 1..Len(N)
  BY <1>1
<1>3. \A i \in 1..Len(L) : i >= t => i \in t..Len(L) /\ i + 4 \in 1..Len(N)
  BY <1>1
<1>4. \A j \in 1..Len(N) : j \in 1..(t - 1) \/ j \in t..(t + 3) \/ (j - 4 \in t..Len(L))
  BY <1>1
<1> QED
  BY <1>1, <1>2, <1>3, <1>4 DEF Put

\* The block that was put in stands above the line it was put above.
LEMMA PutBlock ==
  ASSUME NEW L, NEW N, NEW t, Put(L, N, t), L[t].form = "code", ~L[t].ours
  PROVE  Block(N, t)
<1>1. t \in Nat /\ t >= 1 /\ t <= Len(L) /\ Len(L) \in Nat /\ Len(N) = Len(L) + 4
  BY PutPlaces DEF Put
<1>2. t \in 1..Len(N) /\ t + 4 \in 1..Len(N) /\ t \in t..Len(L)
  BY <1>1
<1>3. N[t + 4] = L[t]
  BY <1>2 DEF Put
<1>4. t \in t..(t + 3) /\ t + 1 \in t..(t + 3) /\ t + 2 \in t..(t + 3) /\ t + 3 \in t..(t + 3)
  BY <1>1
<1> QED
  BY <1>2, <1>3, <1>4 DEF Put, Block

\* The blocks that were there are there.
LEMMA PutBlocks ==
  ASSUME NEW L, NEW N, NEW t, Put(L, N, t), ~L[t].ours, NEW s, Block(L, s), s # t - 4
  PROVE  \/ s + 4 < t /\ Block(N, s) /\ N[s + 1] = L[s + 1]
         \/ s > t /\ Block(N, s + 4) /\ N[s + 5] = L[s + 1]
<1>1. /\ t \in Nat /\ t >= 1 /\ t <= Len(L) /\ Len(L) \in Nat /\ Len(N) = Len(L) + 4
      /\ \A i \in 1..Len(L) : i < t => N[i] = L[i]
      /\ \A i \in 1..Len(L) : i >= t => N[i + 4] = L[i]
  BY PutPlaces DEF Put
<1>2. s \in 1..Len(L) /\ s + 4 \in 1..Len(L)
  BY DEF Block
<1>3. s \in Nat /\ s >= 1 /\ s + 4 <= Len(L)
  BY <1>1, <1>2
<1>4. s + 1 \in 1..Len(L) /\ s + 2 \in 1..Len(L) /\ s + 3 \in 1..Len(L)
  BY <1>1, <1>3
<1>5. t # s /\ t # s + 1 /\ t # s + 2 /\ t # s + 3
  BY DEF Block
<1>6. s + 4 < t \/ s > t
  BY <1>1, <1>3, <1>5
<1>7. CASE s + 4 < t
  <2>1. N[s] = L[s] /\ N[s + 1] = L[s + 1] /\ N[s + 2] = L[s + 2] /\ N[s + 3] = L[s + 3] /\ N[s + 4] = L[s + 4]
    <3>1. s < t /\ s + 1 < t /\ s + 2 < t /\ s + 3 < t
      BY <1>1, <1>3, <1>7
    <3> QED
      BY <1>1, <1>2, <1>4, <1>7, <3>1
  <2>2. s \in 1..Len(N) /\ s + 4 \in 1..Len(N)
    BY <1>1, <1>2
  <2>3. Block(N, s)
    BY <2>1, <2>2 DEF Block
  <2> QED
    BY <1>7, <2>1, <2>3
<1>8. CASE s > t
  <2>1. N[s + 4] = L[s] /\ N[s + 5] = L[s + 1] /\ N[s + 6] = L[s + 2] /\ N[s + 7] = L[s + 3] /\ N[s + 8] = L[s + 4]
    <3>1. /\ s >= t /\ s + 1 >= t /\ s + 2 >= t /\ s + 3 >= t /\ s + 4 >= t
          /\ (s + 1) + 4 = s + 5 /\ (s + 2) + 4 = s + 6 /\ (s + 3) + 4 = s + 7 /\ (s + 4) + 4 = s + 8
      BY <1>1, <1>3, <1>8
    <3>2. \A i \in 1..Len(L) : i >= t => N[i + 4] = L[i]
      BY <1>1
    <3>3. N[s + 4] = L[s]
      BY <1>2, <3>1, <3>2
    <3>4. N[s + 5] = L[s + 1]
      BY <1>4, <3>1, <3>2
    <3>5. N[s + 6] = L[s + 2]
      BY <1>4, <3>1, <3>2
    <3>6. N[s + 7] = L[s + 3]
      BY <1>4, <3>1, <3>2
    <3>7. N[s + 8] = L[s + 4]
      BY <1>2, <3>1, <3>2
    <3> QED
      BY <3>3, <3>4, <3>5, <3>6, <3>7
  <2>2. s + 4 \in 1..Len(N) /\ (s + 4) + 4 \in 1..Len(N)
    BY <1>1, <1>2
  <2>3. (s + 4) + 1 = s + 5 /\ (s + 4) + 2 = s + 6 /\ (s + 4) + 3 = s + 7 /\ (s + 4) + 4 = s + 8
    BY <1>3
  <2>4. Block(N, s + 4)
    BY <2>1, <2>2, <2>3 DEF Block
  <2> QED
    BY <1>8, <2>1, <2>4
<1> QED
  BY <1>6, <1>7, <1>8

\* The user's comments are there, too.
LEMMA PutComments ==
  ASSUME NEW L, NEW N, NEW t, Put(L, N, t), L[t].form = "code",
         NEW s \in 1..Len(L), NEW e \in 1..Len(L), UserComment(L, s, e)
  PROVE  \/ e < t /\ UserComment(N, s, e)
         \/ s > t /\ UserComment(N, s + 4, e + 4)
<1>1. /\ t \in Nat /\ t >= 1 /\ t <= Len(L) /\ Len(L) \in Nat
      /\ \A i \in 1..Len(L) : i < t => N[i] = L[i]
      /\ \A i \in 1..Len(L) : i >= t => N[i + 4] = L[i]
  BY PutPlaces
<1>2. /\ s < e /\ L[s].form = "open" /\ L[e].form = "close"
      /\ \A k \in (s + 1)..(e - 1) : L[k].form = "text"
      /\ \A k \in s..e : ~L[k].ours
  BY DEF UserComment, Comment
<1>3. t \notin s..e
  BY LineOf, UserCommentIs DEF Put
<1>4. e < t \/ s > t
  BY <1>1, <1>3
<1>5. CASE e < t
  <2>1. \A k \in s..e : N[k] = L[k]
    <3>1. \A k \in s..e : k \in 1..Len(L) /\ k < t
      BY <1>1, <1>5
    <3> QED
      BY <1>1, <3>1
  <2>2. s \in s..e /\ e \in s..e /\ \A k \in (s + 1)..(e - 1) : k \in s..e
    BY <1>2
  <2>3. UserComment(N, s, e)
    BY <1>2, <2>1, <2>2 DEF UserComment, Comment
  <2> QED
    BY <1>5, <2>3
<1>6. CASE s > t
  <2>1. \A k \in s..e : N[k + 4] = L[k]
    <3>1. \A k \in s..e : k \in 1..Len(L) /\ k >= t
      BY <1>1, <1>6
    <3> QED
      BY <1>1, <3>1
  <2>2. s \in s..e /\ e \in s..e /\ s + 4 < e + 4
    BY <1>2
  <2>3. \A k \in ((s + 4) + 1)..((e + 4) - 1) : k - 4 \in (s + 1)..(e - 1) /\ k - 4 \in s..e /\ (k - 4) + 4 = k
    BY <1>2
  <2>4. \A k \in (s + 4)..(e + 4) : k - 4 \in s..e /\ (k - 4) + 4 = k
    BY <1>2
  <2>5. \A k \in (s + 4)..(e + 4) : ~N[k].ours
    BY <1>2, <2>1, <2>4
  <2>6. \A k \in ((s + 4) + 1)..((e + 4) - 1) : N[k].form = "text"
    BY <1>2, <2>1, <2>3
  <2>7. N[s + 4].form = "open" /\ N[e + 4].form = "close"
    BY <1>2, <2>1, <2>2
  <2>8. UserComment(N, s + 4, e + 4)
    BY <2>2, <2>5, <2>6, <2>7 DEF UserComment, Comment
  <2> QED
    BY <1>6, <2>8
<1> QED
  BY <1>4, <1>5, <1>6

\* A block above a line of code leaves whole comments and whole blocks.
LEMMA PutShape ==
  ASSUME NEW L, NEW N, NEW t, Shape(L), Put(L, N, t), L[t].form = "code", ~L[t].ours, ~Block(L, t - 4)
  PROVE  Shape(N)
<1>1. /\ t \in Nat /\ t >= 1 /\ t <= Len(L) /\ Len(L) \in Nat /\ Len(N) \in Nat /\ Len(N) = Len(L) + 4
      /\ \A j \in 1..Len(N) : j \in 1..(t - 1) \/ j \in t..(t + 3) \/ (j - 4 \in t..Len(L))
      /\ \A i \in 1..Len(L) : i < t => N[i] = L[i]
      /\ \A i \in 1..Len(L) : i >= t => N[i + 4] = L[i]
  <2>1. Len(N) = Len(L) + 4
    BY DEF Put
  <2> QED
    BY <2>1, PutPlaces
<1>2. \A i \in 1..(t - 1) : i \in 1..Len(L) /\ i < t
  BY <1>1
<1>3. \A j \in Nat : j - 4 \in t..Len(L) => j - 4 \in 1..Len(L) /\ j - 4 >= t /\ (j - 4) + 4 = j
  BY <1>1
<1>4. \A j \in t..(t + 3) : N[j].ours /\ N[j].route = 0
  BY DEF Put
\* A line of N that is not in the block is a line of L.
<1>5. ASSUME NEW j \in 1..Len(N), j \notin t..(t + 3)
      PROVE  \E i \in 1..Len(L) : N[j] = L[i] /\ ((i = j /\ i < t) \/ (j = i + 4 /\ i >= t))
  <2>1. CASE j \in 1..(t - 1)
    BY <1>1, <1>2, <2>1
  <2>2. CASE j - 4 \in t..Len(L)
    <3>1. j - 4 \in 1..Len(L) /\ j - 4 >= t /\ (j - 4) + 4 = j
      BY <1>3, <2>2
    <3>2. N[j] = L[j - 4]
      BY <1>1, <3>1
    <3> QED
      BY <3>1, <3>2
  <2> QED
    BY <1>1, <1>5, <2>1, <2>2
<1>6. ASSUME NEW j \in 1..Len(N), N[j].route # 0 PROVE N[j].form = "code" /\ ~N[j].ours
  <2>1. j \notin t..(t + 3)
    BY <1>4, <1>6
  <2>2. PICK i \in 1..Len(L) : N[j] = L[i]
    BY <1>5, <2>1
  <2> QED
    BY <1>6, <2>2 DEF Shape
<1>7. ASSUME NEW j \in 1..Len(N), ~N[j].ours
      PROVE  /\ N[j].form \notin {"oneline", "mark", "single"}
             /\ N[j].form \in {"open", "text", "close"} => \E s \in 1..j, e \in j..Len(N) : UserComment(N, s, e)
  <2>1. j \notin t..(t + 3)
    BY <1>4, <1>7
  <2>2. PICK i \in 1..Len(L) : N[j] = L[i] /\ ((i = j /\ i < t) \/ (j = i + 4 /\ i >= t))
    BY <1>5, <2>1
  <2>3. N[j].form \notin {"oneline", "mark", "single"}
    BY <1>7, <2>2 DEF Shape
  <2>4. ASSUME N[j].form \in {"open", "text", "close"}
        PROVE  \E s \in 1..j, e \in j..Len(N) : UserComment(N, s, e)
    <3>1. PICK s \in 1..i, e \in i..Len(L) : UserComment(L, s, e)
      BY <1>7, <2>2, <2>4 DEF Shape
    <3>2. s \in 1..Len(L) /\ e \in 1..Len(L)
      BY <1>1
    <3>3. \/ e < t /\ UserComment(N, s, e)
          \/ s > t /\ UserComment(N, s + 4, e + 4)
      BY <3>1, <3>2, PutComments
    <3>4. CASE e < t /\ UserComment(N, s, e)
      <4>1. i = j
        BY <1>1, <2>2, <3>4
      <4>2. s \in 1..j /\ e \in j..Len(N)
        BY <1>1, <4>1
      <4> QED
        BY <3>4, <4>2
    <3>5. CASE s > t /\ UserComment(N, s + 4, e + 4)
      <4>1. j = i + 4
        BY <1>1, <2>2, <3>5
      <4>2. s + 4 \in 1..j /\ e + 4 \in j..Len(N)
        BY <1>1, <4>1
      <4> QED
        BY <3>5, <4>2
    <3> QED
      BY <3>3, <3>4, <3>5
  <2> QED
    BY <2>3, <2>4
<1>8. ASSUME NEW j \in 1..Len(N), N[j].ours
      PROVE  N[j].form = "single" \/ \E s \in 1..j : j <= s + 3 /\ Block(N, s)
  <2>1. CASE j \in t..(t + 3)
    <3>1. Block(N, t)
      BY PutBlock
    <3>2. t \in 1..j /\ j <= t + 3
      BY <1>1, <2>1
    <3> QED
      BY <3>1, <3>2
  <2>2. CASE j \notin t..(t + 3)
    <3>1. PICK i \in 1..Len(L) : N[j] = L[i] /\ ((i = j /\ i < t) \/ (j = i + 4 /\ i >= t))
      BY <1>5, <2>2
    <3>2. CASE L[i].form # "single"
      <4>1. PICK s \in 1..i : i <= s + 3 /\ Block(L, s)
        BY <1>8, <3>1, <3>2 DEF Shape
      <4>2. s # t - 4
        BY <4>1
      <4>3. (s + 4 < t /\ Block(N, s)) \/ (s > t /\ Block(N, s + 4))
        BY <4>1, <4>2, PutBlocks
      <4>4. CASE s + 4 < t /\ Block(N, s)
        <5>1. i = j
          BY <1>1, <3>1, <4>1, <4>4
        <5> QED
          BY <4>1, <4>4, <5>1
      <4>5. CASE s > t /\ Block(N, s + 4)
        <5>1. j = i + 4
          BY <1>1, <3>1, <4>5
        <5>2. s + 4 \in 1..j /\ j <= (s + 4) + 3
          BY <1>1, <4>1, <5>1
        <5> QED
          BY <4>5, <5>2
      <4> QED
        BY <4>3, <4>4, <4>5
    <3> QED
      BY <3>1, <3>2
  <2> QED
    BY <2>1, <2>2
<1>9. N \in Seq(Lines)
  BY DEF Put
<1> QED
  BY <1>6, <1>7, <1>8, <1>9 DEF Shape

\* A block put in is none of what the user wrote.
LEMMA PutIs ==
  ASSUME NEW L \in Seq(Lines), NEW t \in 1..Len(L), NEW st \in Seq(Statuses)
  PROVE  LET N == Splice(L, t - 1, buildOptimizationBlock(st), t)
         IN  Put(L, N, t) /\ N[t + 1].statuses = st /\ UserOf(N) = UserOf(L)
<1>0. PICK n : n = Len(L) /\ n \in Nat
  BY LenProperties
<1>p. PICK p : p = t - 1 /\ p \in 0..Len(L)
  BY <1>0
<1>X. PICK X : X = SubSeq(L, 1, p)
  OBVIOUS
<1>Y. PICK Y : Y = SubSeq(L, t, n)
  OBVIOUS
<1>B. PICK B : B = buildOptimizationBlock(st)
  OBVIOUS
<1>1. /\ B \in Seq(Lines) /\ Len(B) = 4 /\ \A k \in 1..4 : B[k].ours /\ B[k].route = 0
      /\ B[1].form = "open" /\ B[2].form = "mark" /\ B[3].form = "text" /\ B[4].form = "close"
      /\ B[2].statuses = st
  BY <1>B, BlockMade
<1>2. t \in 1..(Len(L) + 1) /\ p = t - 1 /\ t \in Nat /\ t <= n /\ t >= 1
  BY <1>0, <1>p
<1>N. PICK N : N = Splice(L, p, B, t)
  OBVIOUS
<1>3. /\ X \in Seq(Lines) /\ Y \in Seq(Lines) /\ N \in Seq(Lines)
      /\ Len(N) = p + 4 + (n + 1 - t)
      /\ \A i \in 1..p : N[i] = L[i]
      /\ N[p + 1] = B[1] /\ N[p + 2] = B[2] /\ N[p + 3] = B[3] /\ N[p + 4] = B[4]
      /\ \A i \in t..n : N[p + 4 + (i + 1 - t)] = L[i]
  <2>1. B \in Seq(Lines) /\ Len(B) = 4
    BY <1>1
  <2>3. p \in 0..Len(L) /\ t \in 1..(Len(L) + 1)
    BY <1>p, <1>2
  <2>2. Spliced(Lines, L, p, B, t, Splice(L, p, B, t))
    BY <2>1, <2>3, SpliceIs
  <2> QED
    BY <1>0, <1>X, <1>Y, <1>N, <2>2 DEF Spliced
<1>4. Len(N) = n + 4 /\ \A i \in t..n : p + 4 + (i + 1 - t) = i + 4
  <2>1. p + 4 + (n + 1 - t) = n + 4 /\ \A i \in t..n : p + 4 + (i + 1 - t) = i + 4
    BY <1>0, <1>2
  <2> QED
    BY <1>3, <2>1
<1>5. \A i \in t..n : N[i + 4] = L[i]
  BY <1>3, <1>4
<1>6. N[t] = B[1] /\ N[t + 1] = B[2] /\ N[t + 2] = B[3] /\ N[t + 3] = B[4]
  <2>1. p + 1 = t /\ p + 2 = t + 1 /\ p + 3 = t + 2 /\ p + 4 = t + 3
    BY <1>2
  <2> QED
    BY <1>3, <2>1
<1>7. ASSUME NEW i \in t..(t + 3) PROVE N[i].ours /\ N[i].route = 0
  <2>1. i = t \/ i = t + 1 \/ i = t + 2 \/ i = t + 3
    BY <1>2
  <2>2. \A k \in 1..4 : B[k].ours /\ B[k].route = 0
    BY <1>1
  <2>3. 1 \in 1..4 /\ 2 \in 1..4 /\ 3 \in 1..4 /\ 4 \in 1..4
    OBVIOUS
  <2>4. N[i] = B[1] \/ N[i] = B[2] \/ N[i] = B[3] \/ N[i] = B[4]
    BY <1>6, <2>1
  <2> QED
    BY <2>2, <2>3, <2>4
<1>8. Put(L, N, t)
  BY <1>0, <1>1, <1>2, <1>3, <1>4, <1>5, <1>6, <1>7 DEF Put
<1>9. UserOf(N) = UserOf(L)
  <2>0. X \in Seq(Lines) /\ B \in Seq(Lines) /\ Y \in Seq(Lines)
    BY <1>1, <1>3
  <2>1. X \o B \in Seq(Lines) /\ UserOf(X \o B) = UserOf(X) \o UserOf(B)
    BY <2>0, UserConcat
  <2>2. UserOf((X \o B) \o Y) = UserOf(X \o B) \o UserOf(Y)
    BY <1>3, <2>1, UserConcat
  <2>3. UserOf(B) = <<>>
    BY <1>1, UserOfAll
  <2>4. UserOf(X \o Y) = UserOf(X) \o UserOf(Y)
    BY <1>3, UserConcat
  <2>5. X \o Y = L
    <3>1. /\ X \o Y \in Seq(Lines) /\ Len(X) = p /\ Len(X \o Y) = Len(X) + Len(Y)
          /\ \A i \in 1..(Len(X) + Len(Y)) : (X \o Y)[i] = IF i <= Len(X) THEN X[i] ELSE Y[i - Len(X)]
      <4>1. Len(X) = p
        BY <1>0, <1>p, <1>X, <1>3, SubSeqProperties
      <4> QED
        BY <1>3, <4>1, ConcatProperties
    <3>2. Len(Y) = n + 1 - t /\ \A i \in 1..(n + 1 - t) : Y[i] = L[t + i - 1]
      <4>1. \A i \in t..n : L[i] \in Lines
        BY <1>0, <1>2, ElementOfSeq
      <4>2. Len(Y) = n - t + 1 /\ \A i \in 1..(n - t + 1) : Y[i] = L[t + i - 1]
        BY <1>0, <1>2, <1>Y, <4>1, SubSeqProperties
      <4> QED
        BY <1>0, <1>2, <4>2
    <3>3. \A i \in 1..p : X[i] = L[i]
      <4>1. \A i \in 1..p : L[i] \in Lines
        BY <1>0, <1>2, ElementOfSeq
      <4>2. \A i \in 1..(p - 1 + 1) : X[i] = L[1 + i - 1]
        BY <1>2, <1>X, <4>1, SubSeqProperties
      <4>3. \A i \in 1..p : i \in 1..(p - 1 + 1) /\ 1 + i - 1 = i
        BY <1>2
      <4> QED
        BY <4>2, <4>3
    <3>4. Len(X \o Y) = n
      <4>1. Len(X) = p /\ Len(X \o Y) = Len(X) + Len(Y) /\ Len(Y) = n + 1 - t
        BY <3>1, <3>2
      <4>2. n \in Nat /\ t \in Nat /\ p = t - 1
        BY <1>0, <1>2, <1>p
      <4>3. p + (n + 1 - t) = n
        BY <4>2
      <4> QED
        BY <4>1, <4>3
    <3>5. ASSUME NEW i \in 1..n PROVE (X \o Y)[i] = L[i]
      <4>1. i \in 1..(Len(X) + Len(Y))
        BY <1>0, <3>1, <3>4
      <4>2. CASE i <= p
        <5>1. i \in 1..p
          BY <1>2, <4>2
        <5> QED
          BY <3>1, <3>3, <4>1, <4>2, <5>1
      <4>3. CASE ~(i <= p)
        <5>1. i - p \in 1..(n + 1 - t) /\ t + (i - p) - 1 = i
          BY <1>0, <1>2, <4>3
        <5>2. (X \o Y)[i] = Y[i - p]
          BY <3>1, <4>1, <4>3
        <5> QED
          BY <3>2, <5>1, <5>2
      <4> QED
        BY <4>2, <4>3
    <3> QED
      BY <1>0, <3>1, <3>4, <3>5, SeqEqual
  <2>6. UserOf(X) \in Seq(Lines)
    <3>1. OurLines(X) \in SUBSET (1..Len(X))
      BY <1>3, LineOf
    <3> QED
      BY <1>3, <3>1, StrippedIs DEF UserOf
  <2>7. UserOf(X) \o <<>> = UserOf(X)
    BY <2>6, ConcatEmptySeq
  <2> QED
    BY <1>0, <1>X, <1>Y, <1>N, <2>1, <2>2, <2>3, <2>4, <2>5, <2>7 DEF Splice
<1> QED
  BY <1>p, <1>B, <1>N, <1>1, <1>6, <1>8, <1>9

\* N is L but for what the comments of the writer say.
Reworded(L, N) ==
    /\ L \in Seq(Lines) /\ N \in Seq(Lines) /\ Len(N) = Len(L)
    /\ \A i \in 1..Len(L) : /\ N[i].form = L[i].form /\ N[i].ours = L[i].ours /\ N[i].route = L[i].route
                            /\ ~L[i].ours => N[i] = L[i]

\* A block that says something else is still one.
LEMMA RewordedBlocks ==
  ASSUME NEW L, NEW N, Reworded(L, N), NEW s, Block(L, s)
  PROVE  Block(N, s)
<1>1. Len(L) \in Nat /\ Len(N) = Len(L) /\ s \in 1..Len(L) /\ s + 4 \in 1..Len(L)
  BY LineOf DEF Block, Reworded
<1>2. s + 1 \in 1..Len(L) /\ s + 2 \in 1..Len(L) /\ s + 3 \in 1..Len(L)
  BY <1>1
<1>3. \A i \in 1..Len(L) : N[i].form = L[i].form /\ N[i].ours = L[i].ours
  BY DEF Reworded
<1> QED
  BY <1>1, <1>2, <1>3 DEF Block

\* What a block says is none of what the user wrote.
LEMMA RewordedShape ==
  ASSUME NEW L, NEW N, Reworded(L, N)
  PROVE  UserOf(N) = UserOf(L) /\ (Shape(L) => Shape(N))
<1>1. Len(L) \in Nat /\ Len(N) = Len(L) /\ L \in Seq(Lines) /\ N \in Seq(Lines)
  BY LineOf DEF Reworded
<1>2. \A i \in 1..Len(L) : /\ N[i].form = L[i].form /\ N[i].ours = L[i].ours /\ N[i].route = L[i].route
                           /\ ~L[i].ours => N[i] = L[i]
  BY DEF Reworded
<1>3. UserOf(N) = UserOf(L)
  <2>1. OurLines(N) = OurLines(L)
    <3>1. DOMAIN N = DOMAIN L /\ DOMAIN L = 1..Len(L)
      BY <1>1, LineOf
    <3> QED
      BY <1>2, <3>1 DEF OurLines
  <2>2. \A i \in (1..Len(L)) \ OurLines(L) : L[i] = N[i]
    BY <1>1, <1>2, LineOf
  <2>3. Stripped(L, OurLines(L)) = Stripped(N, OurLines(L))
    BY <1>1, <2>2, StrippedSame
  <2> QED
    BY <2>1, <2>3 DEF UserOf
<1>4. ASSUME Shape(L) PROVE Shape(N)
  <2>1. \A i \in 1..Len(N) : N[i].route # 0 => N[i].form = "code" /\ ~N[i].ours
    BY <1>1, <1>2, <1>4 DEF Shape
  <2>2. ASSUME NEW i \in 1..Len(N), ~N[i].ours
        PROVE  /\ N[i].form \notin {"oneline", "mark", "single"}
               /\ N[i].form \in {"open", "text", "close"} => \E s \in 1..i, e \in i..Len(N) : UserComment(N, s, e)
    <3>1. ASSUME NEW s \in 1..i, NEW e \in i..Len(L), UserComment(L, s, e) PROVE UserComment(N, s, e)
      <4>1. s \in 1..Len(L) /\ e \in 1..Len(L)
        BY <1>1
      <4>2. \A k \in s..e : k \in 1..Len(L)
        BY <1>1, <4>1
      <4>3. \A k \in (s + 1)..(e - 1) : k \in 1..Len(L)
        BY <1>1, <4>1
      <4> QED
        BY <1>2, <3>1, <4>1, <4>2, <4>3 DEF UserComment, Comment
    <3>2. /\ L[i].form \notin {"oneline", "mark", "single"}
          /\ L[i].form \in {"open", "text", "close"} => \E s \in 1..i, e \in i..Len(L) : UserComment(L, s, e)
      BY <1>1, <1>2, <1>4, <2>2 DEF Shape
    <3>3. N[i] = L[i]
      BY <1>1, <1>2, <2>2
    <3> QED
      BY <1>1, <3>1, <3>2, <3>3
  <2>3. ASSUME NEW i \in 1..Len(N), N[i].ours
        PROVE  N[i].form = "single" \/ \E s \in 1..i : i <= s + 3 /\ Block(N, s)
    <3>1. L[i].form = "single" \/ \E s \in 1..i : i <= s + 3 /\ Block(L, s)
      BY <1>1, <1>2, <1>4, <2>3 DEF Shape
    <3> QED
      BY <1>1, <1>2, <3>1, RewordedBlocks
  <2> QED
    BY <1>1, <2>1, <2>2, <2>3 DEF Shape
<1> QED
  BY <1>3, <1>4

\* A block in the place of another changes what it says.
LEMMA ReplaceIs ==
  ASSUME NEW L, Shape(L), NEW t \in 1..Len(L), Block(L, t - 4), NEW st \in Seq(Statuses)
  PROVE  LET N == Splice(L, t - 5, buildOptimizationBlock(st), t)
         IN  /\ Reworded(L, N) /\ N[t - 3].statuses = st
             /\ \A i \in 1..Len(L) : i \notin (t - 4)..(t - 1) => N[i] = L[i]
<1>L. L \in Seq(Lines) /\ \A i \in 1..Len(L) : L[i].ours => L[i].route = 0
  BY DEF Shape
<1>0. PICK n : n = Len(L) /\ n \in Nat
  BY <1>L, LenProperties
<1>1. t - 4 \in 1..n /\ (t - 4) + 1 = t - 3 /\ (t - 4) + 2 = t - 2 /\ (t - 4) + 3 = t - 1
  BY <1>0 DEF Block
<1>p. PICK p : p = t - 5 /\ p \in 0..Len(L)
  BY <1>0, <1>1
<1>B. PICK B : B = buildOptimizationBlock(st)
  OBVIOUS
<1>2. /\ B \in Seq(Lines) /\ Len(B) = 4 /\ \A k \in 1..4 : B[k].ours /\ B[k].route = 0
      /\ B[1].form = "open" /\ B[2].form = "mark" /\ B[3].form = "text" /\ B[4].form = "close"
      /\ B[2].statuses = st
  BY <1>B, BlockMade
<1>3. t \in 1..(Len(L) + 1) /\ p = t - 5 /\ t \in Nat /\ t <= n /\ t >= 1
  BY <1>0, <1>p
<1>N. PICK N : N = Splice(L, p, B, t)
  OBVIOUS
<1>4. /\ N \in Seq(Lines)
      /\ Len(N) = p + 4 + (n + 1 - t)
      /\ \A i \in 1..p : N[i] = L[i]
      /\ N[p + 1] = B[1] /\ N[p + 2] = B[2] /\ N[p + 3] = B[3] /\ N[p + 4] = B[4]
      /\ \A i \in t..n : N[p + 4 + (i + 1 - t)] = L[i]
  <2>1. B \in Seq(Lines) /\ Len(B) = 4 /\ L \in Seq(Lines)
    BY <1>2, <1>L
  <2>3. p \in 0..Len(L) /\ t \in 1..(Len(L) + 1)
    BY <1>p, <1>3
  <2>2. Spliced(Lines, L, p, B, t, Splice(L, p, B, t))
    BY <2>1, <2>3, SpliceIs
  <2> QED
    BY <1>0, <1>N, <2>2 DEF Spliced
<1>5. Len(N) = n /\ \A i \in t..n : p + 4 + (i + 1 - t) = i
  <2>1. p + 4 + (n + 1 - t) = n /\ \A i \in t..n : p + 4 + (i + 1 - t) = i
    BY <1>0, <1>3
  <2> QED
    BY <1>4, <2>1
<1>6. N[t - 4] = B[1] /\ N[t - 3] = B[2] /\ N[t - 2] = B[3] /\ N[t - 1] = B[4]
  <2>1. p + 1 = t - 4 /\ p + 2 = t - 3 /\ p + 3 = t - 2 /\ p + 4 = t - 1
    BY <1>3
  <2> QED
    BY <1>4, <2>1
<1>7. ASSUME NEW i \in 1..n, i \notin (t - 4)..(t - 1) PROVE N[i] = L[i]
  <2>1. i \in 1..p \/ i \in t..n
    BY <1>0, <1>3, <1>7
  <2> QED
    BY <1>4, <1>5, <2>1
<1>8. ASSUME NEW i \in (t - 4)..(t - 1)
      PROVE  N[i].form = L[i].form /\ N[i].ours /\ L[i].ours /\ N[i].route = 0
  <2>1. i = t - 4 \/ i = t - 3 \/ i = t - 2 \/ i = t - 1
    BY <1>3
  <2>2. /\ L[t - 4].form = "open" /\ L[t - 3].form = "mark" /\ L[t - 2].form = "text" /\ L[t - 1].form = "close"
        /\ L[t - 4].ours /\ L[t - 3].ours /\ L[t - 2].ours /\ L[t - 1].ours
    BY <1>1 DEF Block
  <2>3. /\ B[1].ours /\ B[1].route = 0 /\ B[2].ours /\ B[2].route = 0
        /\ B[3].ours /\ B[3].route = 0 /\ B[4].ours /\ B[4].route = 0
    <3>1. 1 \in 1..4 /\ 2 \in 1..4 /\ 3 \in 1..4 /\ 4 \in 1..4
      OBVIOUS
    <3> QED
      BY <1>2, <3>1
  <2>4. CASE i = t - 4
    BY <1>2, <1>6, <2>2, <2>3, <2>4
  <2>5. CASE i = t - 3
    BY <1>2, <1>6, <2>2, <2>3, <2>5
  <2>6. CASE i = t - 2
    BY <1>2, <1>6, <2>2, <2>3, <2>6
  <2>7. CASE i = t - 1
    BY <1>2, <1>6, <2>2, <2>3, <2>7
  <2> QED
    BY <2>1, <2>4, <2>5, <2>6, <2>7
<1>9. N[t - 3].statuses = st
  BY <1>2, <1>6
<1>10. \A i \in 1..n : i \notin (t - 4)..(t - 1) => N[i] = L[i]
  BY <1>7
<1>11. ASSUME NEW i \in 1..n
       PROVE  N[i].form = L[i].form /\ N[i].ours = L[i].ours /\ N[i].route = L[i].route /\ (~L[i].ours => N[i] = L[i])
  <2>1. CASE i \in (t - 4)..(t - 1)
    <3>1. L[i].route = 0
      <4>1. L[i].ours
        BY <1>8, <2>1
      <4> QED
        BY <1>0, <1>L, <4>1
    <3>2. N[i].ours = L[i].ours
      <4>1. N[i].ours \in BOOLEAN /\ L[i].ours \in BOOLEAN
        BY <1>L, <1>0, <1>4, <1>5, LineOf
      <4> QED
        BY <1>8, <2>1, <4>1
    <3> QED
      BY <1>8, <2>1, <3>1, <3>2
  <2>2. CASE i \notin (t - 4)..(t - 1)
    BY <1>10, <2>2
  <2> QED
    BY <2>1, <2>2
<1>12. Reworded(L, N)
  BY <1>L, <1>0, <1>4, <1>5, <1>11 DEF Reworded
<1> QED
  BY <1>0, <1>p, <1>B, <1>N, <1>9, <1>10, <1>12

-----------------------------------------------------------------------------
(* The writer's copy is laid out as its base with a block above some lines.   *)

At(S, n) == n + 4 * UpTo(S, n)

Laid(L, base, S) ==
    /\ S \subseteq 1..Len(base)
    /\ Len(L) = Len(base) + 4 * Cardinality(S)
    /\ \A n \in 1..Len(base) : /\ At(S, n) \in 1..Len(L) /\ L[At(S, n)] = base[n]
                               /\ n \in S => Block(L, At(S, n) - 4)

Places(S) == \E m \in Nat : S \in SUBSET (1..m)

\* Counting the blocks up to a place.
LEMMA PlacesUpTo ==
  ASSUME NEW S, Places(S)
  PROVE  /\ UpTo(S, 0) = 0 /\ IsFiniteSet(S) /\ Cardinality(S) \in Nat
         /\ \A i \in Nat : /\ UpTo(S, i) \in Nat
                           /\ UpTo(S, i + 1) = IF i + 1 \in S THEN UpTo(S, i) + 1 ELSE UpTo(S, i)
<1>1. PICK m \in Nat : S \in SUBSET (1..m)
  BY DEF Places
<1> QED
  BY <1>1, UpToSteps

\* Blocks do not change the order of the lines.
LEMMA AtGrows ==
  ASSUME NEW S, Places(S), NEW i \in Nat, NEW j \in Nat, i < j
  PROVE  At(S, i) \in Nat /\ At(S, j) \in Nat /\ At(S, i) < At(S, j)
<1>1. PICK m \in Nat : S \in SUBSET (1..m)
  BY DEF Places
<1>2. i <= j
  OBVIOUS
<1>3. UpTo(S, i) \in Nat /\ UpTo(S, j) \in Nat /\ UpTo(S, i) <= UpTo(S, j)
  BY <1>1, <1>2, UpToGrows
<1> QED
  BY <1>3 DEF At

\* One block more counts for the places behind it.
LEMMA UpToAdds ==
  ASSUME NEW S, Places(S), NEW x \in Nat, x \notin S, NEW n \in Nat
  PROVE  /\ UpTo(S, n) \in Nat
         /\ UpTo(S \cup {x}, n) = IF n < x THEN UpTo(S, n) ELSE UpTo(S, n) + 1
<1>1. IsFiniteSet(S) /\ UpTo(S, n) \in Nat
  BY PlacesUpTo
<1>2. IsFiniteSet({j \in S : j <= n})
  BY <1>1, FS_Subset
<1>3. CASE n < x
  <2>1. {j \in S \cup {x} : j <= n} = {j \in S : j <= n}
    <3>1. ~(x <= n)
      BY <1>3
    <3> QED
      BY <3>1
  <2> QED
    BY <1>1, <1>3, <2>1 DEF UpTo
<1>4. CASE ~(n < x)
  <2>1. x <= n
    BY <1>4
  <2>2. {j \in S \cup {x} : j <= n} = {j \in S : j <= n} \cup {x} /\ x \notin {j \in S : j <= n}
    BY <2>1
  <2>3. Cardinality({j \in S : j <= n} \cup {x}) = Cardinality({j \in S : j <= n}) + 1
    BY <1>2, <2>2, FS_AddElement
  <2> QED
    BY <1>1, <1>4, <2>2, <2>3 DEF UpTo
<1> QED
  BY <1>3, <1>4

\* Above a line without a block stands what stood above it in the base.
LEMMA NoBlockAbove ==
  ASSUME NEW base \in Seq(Lines), \A i \in 1..Len(base) : ~base[i].ours, NEW L \in Seq(Lines),
         NEW S, Laid(L, base, S), NEW x \in 1..Len(base), x \notin S
  PROVE  ~Block(L, At(S, x) - 4)
<1>0. PICK m : m = Len(base) /\ m \in Nat
  BY LenProperties
<1>1. S \in SUBSET (1..m) /\ x \in 1..m /\ x \in Nat /\ Len(L) \in Nat
  BY <1>0, LineOf DEF Laid
<1> SUFFICES ASSUME Block(L, At(S, x) - 4) PROVE FALSE
  OBVIOUS
<1>2. x - 1 \in Nat /\ (x - 1) + 1 = x
  BY <1>1
<1>3. UpTo(S, x) = UpTo(S, x - 1) /\ UpTo(S, x) \in Nat /\ UpTo(S, 0) = 0
  <2>1. Places(S)
    BY <1>0, <1>1 DEF Places
  <2> QED
    BY <1>1, <1>2, <2>1, PlacesUpTo
<1>4. CASE x = 1
  <2>1. At(S, x) = 1
    BY <1>3, <1>4 DEF At
  <2>2. At(S, x) - 4 \in 1..Len(L)
    BY DEF Block
  <2> QED
    BY <1>1, <2>1, <2>2
<1>5. CASE x # 1
  <2>1. x - 1 \in 1..Len(base)
    BY <1>0, <1>1, <1>5
  <2>2. At(S, x - 1) = At(S, x) - 1 /\ (At(S, x) - 4) + 3 = At(S, x) - 1
    BY <1>1, <1>3 DEF At
  <2>3. L[At(S, x) - 1] = base[x - 1]
    BY <2>1, <2>2 DEF Laid
  <2>4. L[At(S, x) - 1].ours
    BY <2>2 DEF Block
  <2> QED
    BY <2>1, <2>3, <2>4
<1> QED
  BY <1>4, <1>5

\* A block was put above line x of the base.
LaidMore(L, N, base, S, x) ==
    /\ Laid(N, base, S \cup {x})
    /\ \A n \in S : N[At(S \cup {x}, n) - 3] = L[At(S, n) - 3]
    /\ At(S \cup {x}, x) - 3 = At(S, x) + 1

\* A block above a line without one is counted there and nowhere else.
LEMMA PutLaid ==
  ASSUME NEW base \in Seq(Lines), \A i \in 1..Len(base) : ~base[i].ours, NEW L \in Seq(Lines), NEW N,
         NEW S, Laid(L, base, S), NEW x \in 1..Len(base), x \notin S, base[x].form = "code",
         Put(L, N, At(S, x))
  PROVE  LaidMore(L, N, base, S, x)
<1>0. PICK m : m = Len(base) /\ m \in Nat
  BY LenProperties
<1>t. PICK t : t = At(S, x)
  OBVIOUS
<1>K. PICK K : K = S \cup {x}
  OBVIOUS
<1>1. /\ S \in SUBSET (1..m) /\ x \in 1..m /\ x \in Nat /\ Len(L) \in Nat /\ Len(N) \in Nat
      /\ Len(N) = Len(L) + 4 /\ t \in Nat /\ t >= 1 /\ t <= Len(L)
  <2>1. Len(N) = Len(L) + 4
    BY DEF Put
  <2>2. t \in Nat /\ t >= 1 /\ t <= Len(L) /\ Len(L) \in Nat /\ Len(N) \in Nat
    BY <1>t, PutPlaces
  <2> QED
    BY <1>0, <2>1, <2>2 DEF Laid
<1>p. Places(S)
  BY <1>0, <1>1 DEF Places
<1>2. ~L[t].ours /\ L[t].form = "code"
  BY <1>t DEF Laid
<1>3. ASSUME NEW n \in 1..m
      PROVE  /\ At(S, n) \in Nat
             /\ At(K, n) = IF n < x THEN At(S, n) ELSE At(S, n) + 4
             /\ n < x => At(S, n) < t
             /\ ~(n < x) => At(S, n) >= t
             /\ n > x => At(S, n) > t
  <2>1. n \in Nat /\ x \in Nat
    BY <1>0, <1>1
  <2>2. UpTo(S, n) \in Nat /\ UpTo(K, n) = IF n < x THEN UpTo(S, n) ELSE UpTo(S, n) + 1
    BY <1>1, <1>p, <1>K, <2>1, UpToAdds
  <2>3. n < x => At(S, n) < t
    BY <1>1, <1>p, <1>t, <2>1, AtGrows
  <2>4. n > x => At(S, n) > t
    <3>1. ASSUME n > x PROVE At(S, n) > t
      <4>1. x < n
        BY <2>1, <3>1
      <4>2. At(S, x) \in Nat /\ At(S, n) \in Nat /\ At(S, x) < At(S, n)
        BY <1>1, <1>p, <2>1, <4>1, AtGrows
      <4> QED
        BY <1>t, <4>2
    <3> QED
      BY <3>1
  <2>5. At(S, n) \in Nat /\ At(K, n) = IF n < x THEN At(S, n) ELSE At(S, n) + 4
    BY <2>1, <2>2 DEF At
  <2>6. n = x => At(S, n) = t
    BY <1>t
  <2> QED
    BY <1>1, <2>1, <2>3, <2>4, <2>5, <2>6
<1>4. ASSUME NEW n \in 1..m PROVE At(K, n) \in 1..Len(N) /\ N[At(K, n)] = base[n]
  <2>1. At(S, n) \in 1..Len(L) /\ L[At(S, n)] = base[n]
    BY <1>0 DEF Laid
  <2>2. /\ At(S, n) < t => At(S, n) \in 1..Len(N) /\ N[At(S, n)] = L[At(S, n)]
        /\ At(S, n) >= t => At(S, n) + 4 \in 1..Len(N) /\ N[At(S, n) + 4] = L[At(S, n)]
    BY <1>t, <2>1, PutPlaces
  <2> QED
    BY <1>3, <2>1, <2>2
<1>5. Block(N, t) /\ At(K, x) = t + 4
  <2>1. Block(N, t)
    BY <1>2, <1>t, PutBlock
  <2>2. ~(x < x)
    BY <1>1
  <2> QED
    BY <1>1, <1>3, <1>t, <2>1, <2>2
<1>6. ASSUME NEW n \in S
      PROVE  Block(N, At(K, n) - 4) /\ N[At(K, n) - 3] = L[At(S, n) - 3]
  <2>1. n \in 1..m /\ n # x /\ n \in Nat
    BY <1>1
  <2>2. Block(L, At(S, n) - 4) /\ At(S, n) \in Nat
    BY <1>0, <1>3, <2>1 DEF Laid
  <2>3. At(S, n) # t
    BY <1>1, <1>3, <2>1
  <2>4. At(S, n) - 4 # t - 4
    BY <1>1, <2>2, <2>3
  <2>5. \/ (At(S, n) - 4) + 4 < t /\ Block(N, At(S, n) - 4) /\ N[(At(S, n) - 4) + 1] = L[(At(S, n) - 4) + 1]
        \/ At(S, n) - 4 > t /\ Block(N, (At(S, n) - 4) + 4) /\ N[(At(S, n) - 4) + 5] = L[(At(S, n) - 4) + 1]
    BY <1>2, <1>t, <2>2, <2>4, PutBlocks
  <2>6. (At(S, n) - 4) + 4 = At(S, n) /\ (At(S, n) - 4) + 1 = At(S, n) - 3 /\ (At(S, n) - 4) + 5 = At(S, n) + 1
    BY <2>2
  <2>7. CASE n < x
    <3>1. At(K, n) = At(S, n) /\ At(S, n) < t
      BY <1>3, <2>1, <2>7
    <3>2. ~(At(S, n) - 4 > t)
      BY <1>1, <2>2, <3>1
    <3> QED
      BY <2>5, <2>6, <3>1, <3>2
  <2>8. CASE ~(n < x)
    <3>1. At(K, n) = At(S, n) + 4 /\ At(S, n) >= t
      BY <1>3, <2>1, <2>8
    <3>2. ~(At(S, n) < t)
      BY <1>1, <2>2, <3>1
    <3>3. At(K, n) - 4 = At(S, n) /\ At(K, n) - 3 = At(S, n) + 1
      BY <2>2, <3>1
    <3> QED
      BY <2>5, <2>6, <3>2, <3>3
  <2> QED
    BY <2>7, <2>8
<1>7. Cardinality(K) = Cardinality(S) + 1 /\ Cardinality(S) \in Nat
  <2>1. IsFiniteSet(S) /\ Cardinality(S) \in Nat
    BY <1>p, PlacesUpTo
  <2>2. Cardinality(S \cup {x}) = Cardinality(S) + 1
    BY <2>1, FS_AddElement
  <2> QED
    BY <1>K, <2>1, <2>2
<1>8. Len(N) = Len(base) + 4 * Cardinality(K)
  <2>1. Len(L) = Len(base) + 4 * Cardinality(S)
    BY DEF Laid
  <2> QED
    BY <1>0, <1>1, <1>7, <2>1
<1>9. At(K, x) - 3 = At(S, x) + 1 /\ At(K, x) - 4 = t
  BY <1>1, <1>5, <1>t
<1>10. \A n \in 1..m : n \in K => Block(N, At(K, n) - 4)
  BY <1>5, <1>6, <1>9, <1>K
<1>11. K \subseteq 1..Len(base)
  BY <1>0, <1>1, <1>K
<1>12. Laid(N, base, K)
  BY <1>0, <1>4, <1>8, <1>10, <1>11 DEF Laid
<1> QED
  BY <1>6, <1>9, <1>12, <1>K DEF LaidMore

\* What the blocks say moves no line.
LEMMA RewordedLaid ==
  ASSUME NEW base \in Seq(Lines), \A i \in 1..Len(base) : ~base[i].ours, NEW L, NEW N, Reworded(L, N),
         NEW S, Laid(L, base, S)
  PROVE  Laid(N, base, S)
<1>1. Len(N) = Len(L) /\ \A i \in 1..Len(L) : ~L[i].ours => N[i] = L[i]
  BY DEF Reworded
<1>2. ASSUME NEW n \in 1..Len(base)
      PROVE  /\ At(S, n) \in 1..Len(N) /\ N[At(S, n)] = base[n]
             /\ n \in S => Block(N, At(S, n) - 4)
  <2>1. At(S, n) \in 1..Len(L) /\ L[At(S, n)] = base[n] /\ (n \in S => Block(L, At(S, n) - 4))
    BY DEF Laid
  <2>2. ~L[At(S, n)].ours
    BY <2>1
  <2>3. N[At(S, n)] = L[At(S, n)]
    BY <1>1, <2>1, <2>2
  <2> QED
    BY <1>1, <2>1, <2>3, RewordedBlocks
<1> QED
  BY <1>1, <1>2 DEF Laid

\* A text without blocks is its own base.
LEMMA LaidBare ==
  ASSUME NEW base \in Seq(Lines)
  PROVE  Laid(base, base, {})
<1>1. \A n \in 1..Len(base) : At({}, n) = n
  BY FS_EmptySet DEF At, UpTo
<1>2. Len(base) \in Nat /\ Cardinality({}) = 0
  BY FS_EmptySet, LenProperties
<1> QED
  BY <1>1, <1>2 DEF Laid

-----------------------------------------------------------------------------
(* What annotateFile makes of the file.                                       *)

FileStates == [lines : Seq(Lines), baseLines : Seq(Lines), removed : SUBSET Nat, inserted : SUBSET Nat]

\* What a user wrote: every route is registered once, in a line of code.
Registered(u) ==
    /\ u \in Seq(Lines) /\ RouteLines(u) # {}
    /\ \A i \in 1..Len(u) : ~u[i].ours /\ (u[i].route # 0 => u[i].form = "code")
    /\ \A i, j \in RouteLines(u) : u[i].route = u[j].route => i = j

Written(u) == Registered(u) /\ WholeComments(u)

\* The file state is one of the user's text, and the routes have their lines in it.
Ready(fs, routes, text) ==
    /\ fs \in FileStates /\ fs.baseLines = text
    /\ Written(text) /\ Shape(fs.lines) /\ UserOf(fs.lines) = text /\ Laid(fs.lines, text, fs.inserted)
    /\ \A r \in DOMAIN routes : /\ r # 0 /\ normalizeSourceLine(fs, routes[r]) \in 1..Len(text)
                                /\ text[normalizeSourceLine(fs, routes[r])].route = r

Said(applied, line) == {a[2] : a \in {b \in applied : b[1] = line}}

\* The blocks say what was marked.
Told(fs, routes, applied) ==
    /\ \A n \in fs.inserted : \E r \in DOMAIN routes : n = normalizeSourceLine(fs, routes[r])
    /\ \A r \in DOMAIN routes :
          LET n == normalizeSourceLine(fs, routes[r]) IN
          IF n \in fs.inserted
          THEN /\ Said(applied, routes[r]) # {}
               /\ ToSet(fs.lines[At(fs.inserted, n) - 3].statuses) = Said(applied, routes[r])
          ELSE Said(applied, routes[r]) = {}

\* A text of whole comments without blocks.
LEMMA WrittenShape ==
  ASSUME NEW u, Written(u)
  PROVE  Shape(u) /\ UserOf(u) = u
<1>1. /\ u \in Seq(Lines) /\ Len(u) \in Nat /\ DOMAIN u = 1..Len(u)
      /\ \A i \in 1..Len(u) : ~u[i].ours /\ (u[i].route # 0 => u[i].form = "code")
  BY LineOf DEF Written, Registered
<1>2. ASSUME NEW i \in 1..Len(u)
      PROVE  /\ u[i].form \notin {"oneline", "mark", "single"}
             /\ u[i].form \in {"open", "text", "close"} => \E s \in 1..i, e \in i..Len(u) : UserComment(u, s, e)
  <2>1. /\ u[i].form \notin {"oneline", "mark", "single"}
        /\ u[i].form \in {"open", "text", "close"} => \E s \in 1..i, e \in i..Len(u) : Comment(u, s, e)
    BY <1>1 DEF Written, Registered, WholeComments
  <2>2. ASSUME NEW s \in 1..i, NEW e \in i..Len(u), Comment(u, s, e) PROVE UserComment(u, s, e)
    <3>1. \A k \in s..e : k \in 1..Len(u)
      BY <1>1
    <3> QED
      BY <1>1, <2>2, <3>1 DEF UserComment
  <2> QED
    BY <2>1, <2>2
<1>3. Shape(u)
  BY <1>1, <1>2 DEF Shape
<1> QED
  BY <1>1, <1>3, UserOfAll

Merged(A, s, st) ==
    /\ mergeStatuses(s, st) \in Seq(A) /\ ToSet(mergeStatuses(s, st)) = ToSet(s) \cup {st}
    /\ <<st>> \in Seq(A) /\ ToSet(<<st>>) = {st}

\* Merging adds a status once (dev/comments.js:212-218).
LEMMA MergesStatuses ==
  ASSUME NEW A, NEW s \in Seq(A), NEW st \in A
  PROVE  Merged(A, s, st)
<1>0. Len(s) \in Nat /\ DOMAIN s = 1..Len(s)
  BY LenProperties
<1>1. mergeStatuses(s, st) \in Seq(A) /\ ToSet(mergeStatuses(s, st)) = ToSet(s) \cup {st}
  <2>1. CASE Contains(s, st)
    <3>1. mergeStatuses(s, st) = s
      BY <2>1 DEF mergeStatuses
    <3>2. st \in ToSet(s)
      BY <1>0, <2>1 DEF Contains, ToSet
    <3>3. ToSet(s) = ToSet(s) \cup {st}
      BY <3>2
    <3> QED
      BY <3>1, <3>3
  <2>2. CASE ~Contains(s, st)
    <3>1. mergeStatuses(s, st) = Append(s, st)
      BY <2>2 DEF mergeStatuses
    <3>2. /\ Append(s, st) \in Seq(A) /\ Len(Append(s, st)) = Len(s) + 1
          /\ \A i \in 1..Len(s) : Append(s, st)[i] = s[i]
          /\ Append(s, st)[Len(s) + 1] = st
      BY AppendProperties
    <3> DEFINE p == Append(s, st)
    <3>3. DOMAIN p = 1..(Len(s) + 1)
      BY <3>2, LenProperties
    <3>4. \A i \in 1..(Len(s) + 1) : i \in 1..Len(s) \/ i = Len(s) + 1
      BY <1>0
    <3>5. \A i \in 1..Len(s) : i \in 1..(Len(s) + 1)
      BY <1>0
    <3>6. Len(s) + 1 \in 1..(Len(s) + 1)
      BY <1>0
    <3> HIDE DEF p
    <3>7. ToSet(p) = ToSet(s) \cup {st}
      BY <1>0, <3>2, <3>3, <3>4, <3>5, <3>6 DEF ToSet, p
    <3> QED
      BY <3>1, <3>2, <3>7 DEF p
  <2> QED
    BY <2>1, <2>2
<1>2. <<st>> \in Seq(A)
  OBVIOUS
<1>3. ToSet(<<st>>) = {st}
  <2>1. DOMAIN <<st>> = {1} /\ <<st>>[1] = st
    OBVIOUS
  <2> QED
    BY <2>1 DEF ToSet
<1> QED
  BY <1>1, <1>2, <1>3 DEF Merged

\* What a block says is in its marked line.
LEMMA StatusesAre ==
  ASSUME NEW L \in Seq(Lines), NEW t \in 1..Len(L), Block(L, t - 4)
  PROVE  StatusesOf(L, <<t - 4, t - 1>>) = L[t - 3].statuses /\ L[t - 3].statuses \in Seq(Statuses)
<1>1. Len(L) \in Nat /\ t \in Nat
  BY LineOf
<1>2. t - 4 \in 1..Len(L) /\ (t - 4) + 1 = t - 3 /\ (t - 4) + 2 = t - 2 /\ (t - 4) + 3 = t - 1
  BY <1>1 DEF Block
<1>3. L[t - 4].form = "open" /\ L[t - 3].form = "mark" /\ L[t - 2].form = "text" /\ L[t - 1].form = "close"
  BY <1>2 DEF Block
<1>4. {i \in (t - 4)..(t - 1) : L[i].form = "mark"} = {t - 3}
  <2>1. \A i \in (t - 4)..(t - 1) : i = t - 4 \/ i = t - 3 \/ i = t - 2 \/ i = t - 1
    BY <1>1
  <2>2. t - 3 \in (t - 4)..(t - 1)
    BY <1>1
  <2> QED
    BY <1>3, <2>1, <2>2
<1>5. Min({t - 3}) = t - 3
  BY <1>1 DEF Min
<1>6. StatusesOf(L, <<t - 4, t - 1>>) = L[t - 3].statuses
  BY <1>4, <1>5 DEF StatusesOf
<1>7. t - 3 \in 1..Len(L)
  BY <1>1, <1>2
<1> QED
  BY <1>6, <1>7, LineOf

\* Each route has a line of its own, and the lines of two routes differ.
LEMMA RoutesApart ==
  ASSUME NEW fs, NEW routes, NEW text, Ready(fs, routes, text),
         NEW r \in DOMAIN routes, NEW q \in DOMAIN routes, r # q
  PROVE  routes[r] # routes[q] /\ normalizeSourceLine(fs, routes[r]) # normalizeSourceLine(fs, routes[q])
<1>1. /\ text[normalizeSourceLine(fs, routes[r])].route = r
      /\ text[normalizeSourceLine(fs, routes[q])].route = q
  BY DEF Ready
<1> QED
  BY <1>1

More(applied, line, st) == applied \cup {<<line, st>>}

\* A mark is said of its line.
LEMMA SaidMore ==
  ASSUME NEW applied, NEW line, NEW st
  PROVE  Said(More(applied, line, st), line) = Said(applied, line) \cup {st}
<1> DEFINE m == <<line, st>>
<1>0. m[1] = line /\ m[2] = st
  OBVIOUS
<1> HIDE DEF m
<1>1. {b \in applied \cup {m} : b[1] = line} = {b \in applied : b[1] = line} \cup {m}
  BY <1>0
<1>2. {a[2] : a \in {b \in applied : b[1] = line} \cup {m}} = {a[2] : a \in {b \in applied : b[1] = line}} \cup {st}
  BY <1>0
<1> QED
  BY <1>1, <1>2 DEF Said, More, m

\* A mark is said of no other line.
LEMMA SaidSame ==
  ASSUME NEW applied, NEW line, NEW st, NEW other, other # line
  PROVE  Said(More(applied, line, st), other) = Said(applied, other)
<1> DEFINE m == <<line, st>>
<1>0. m[1] = line /\ m[2] = st
  OBVIOUS
<1> HIDE DEF m
<1>1. {b \in applied \cup {m} : b[1] = other} = {b \in applied : b[1] = other}
  BY <1>0
<1> QED
  BY <1>1 DEF Said, More, m

\* Where the comment of a route goes, and whether it has one.
LEMMA PlaceIs ==
  ASSUME NEW fs, NEW routes, NEW text, Ready(fs, routes, text), NEW r \in DOMAIN routes
  PROVE  LET n == normalizeSourceLine(fs, routes[r])
             t == At(fs.inserted, n)
             at == Place(fs, routes[r])
         IN  /\ n \in 1..Len(text) /\ t \in 1..Len(fs.lines) /\ fs.lines[t] = text[n]
             /\ fs.lines[t].form = "code" /\ ~fs.lines[t].ours
             /\ at.line = n /\ at.t = t
             /\ IF n \in fs.inserted THEN Block(fs.lines, t - 4) /\ at.block = <<t - 4, t - 1>>
                ELSE ~Block(fs.lines, t - 4) /\ at.block = <<>>
<1>n. PICK n : n = normalizeSourceLine(fs, routes[r])
  OBVIOUS
<1>t. PICK t : t = At(fs.inserted, n)
  OBVIOUS
<1>L. PICK L : L = fs.lines
  OBVIOUS
<1>1. /\ n \in 1..Len(text) /\ text[n].route = r /\ r # 0 /\ Written(text) /\ Shape(L) /\ Laid(L, text, fs.inserted)
  BY <1>n, <1>L DEF Ready
<1>2. t \in 1..Len(L) /\ L[t] = text[n] /\ (n \in fs.inserted => Block(L, t - 4))
  BY <1>1, <1>t DEF Laid
<1>3. L \in Seq(Lines) /\ text \in Seq(Lines) /\ \A i \in 1..Len(text) : ~text[i].ours
  BY <1>1 DEF Shape, Written, Registered
<1>4. text[n].form = "code" /\ ~text[n].ours
  BY <1>1 DEF Written, Registered
<1>5. n \notin fs.inserted => ~Block(L, t - 4)
  BY <1>1, <1>3, <1>t, NoBlockAbove
<1>6. t \in DOMAIN L
  BY <1>2, <1>3, LineOf
<1>7. Place(fs, routes[r]) = [line |-> n, t |-> t, block |-> ExistingBlock(L, t)]
  <2>1. n + countInsertedBefore(fs, n) = t
    BY <1>t DEF countInsertedBefore, At, UpTo
  <2> QED
    BY <1>6, <1>n, <1>L, <2>1 DEF Place
<1>8. /\ Block(L, t - 4) => ExistingBlock(L, t) = <<t - 4, t - 1>>
      /\ ~Block(L, t - 4) => ExistingBlock(L, t) = <<>>
  <2>1. L[t].form = "code"
    BY <1>2, <1>4
  <2> QED
    BY <1>1, <1>2, <2>1, ExistingIs
<1> QED
  BY <1>1, <1>2, <1>4, <1>5, <1>7, <1>8, <1>n, <1>t, <1>L

\* The state of the file after a mark.
AfterMark(fs, routes, applied, r, status) ==
    Annotated(fs, Place(fs, routes[r]), status, \A a \in applied : a[1] # routes[r])

\* A mark of a route that has a block is merged into what the block says.
LEMMA AnnotatesOld ==
  ASSUME NEW fs, NEW routes, NEW text, NEW applied, NEW r \in DOMAIN routes, NEW status \in Statuses,
         Ready(fs, routes, text), Told(fs, routes, applied),
         normalizeSourceLine(fs, routes[r]) \in fs.inserted
  PROVE  LET g == AfterMark(fs, routes, applied, r, status)
         IN  Ready(g, routes, text) /\ Told(g, routes, More(applied, routes[r], status))
<1>n. PICK n : n = normalizeSourceLine(fs, routes[r])
  OBVIOUS
<1>S. PICK S : S = fs.inserted
  OBVIOUS
<1>t. PICK t : t = At(S, n)
  OBVIOUS
<1>L. PICK L : L = fs.lines
  OBVIOUS
<1>at. PICK at : at = Place(fs, routes[r])
  OBVIOUS
<1>1. /\ n \in 1..Len(text) /\ t \in 1..Len(L) /\ L[t] = text[n] /\ L[t].form = "code" /\ ~L[t].ours
      /\ at.line = n /\ at.t = t /\ Block(L, t - 4) /\ at.block = <<t - 4, t - 1>>
  BY <1>n, <1>S, <1>t, <1>L, <1>at, PlaceIs
<1>2. /\ fs \in FileStates /\ Written(text) /\ Shape(L) /\ UserOf(L) = text /\ Laid(L, text, S) /\ fs.baseLines = text
  BY <1>S, <1>L DEF Ready
<1>3. L \in Seq(Lines) /\ text \in Seq(Lines) /\ (\A i \in 1..Len(text) : ~text[i].ours) /\ t \in DOMAIN L /\ t \in Nat
  BY <1>1, <1>2, LineOf DEF Shape, Written, Registered
<1>4. /\ Said(applied, routes[r]) # {} /\ ToSet(L[t - 3].statuses) = Said(applied, routes[r])
  BY <1>n, <1>S, <1>t, <1>L DEF Told
<1>5. ~(\A a \in applied : a[1] # routes[r])
  BY <1>4 DEF Said
<1>6. StatusesOf(L, at.block) = L[t - 3].statuses /\ L[t - 3].statuses \in Seq(Statuses)
  BY <1>1, <1>3, StatusesAre
<1>m. PICK m : m = mergeStatuses(L[t - 3].statuses, status)
  OBVIOUS
<1>7. m \in Seq(Statuses) /\ ToSet(m) = ToSet(L[t - 3].statuses) \cup {status}
  <2>1. PICK A : A = Statuses
    OBVIOUS
  <2>2. L[t - 3].statuses \in Seq(A) /\ status \in A
    BY <1>6, <2>1, Zenon
  <2>3. m \in Seq(A) /\ ToSet(m) = ToSet(L[t - 3].statuses) \cup {status}
    <3>1. Merged(A, L[t - 3].statuses, status)
      BY <2>2, MergesStatuses
    <3> QED
      BY <1>m, <3>1 DEF Merged
  <2> QED
    BY <2>1, <2>3, Zenon
<1>N. PICK N : N = Splice(L, t - 5, buildOptimizationBlock(m), t)
  OBVIOUS
<1>g. PICK g : g = AfterMark(fs, routes, applied, r, status)
  OBVIOUS
<1>8. g = [fs EXCEPT !.lines = N]
  <2>1. at.block[1] - 1 = t - 5 /\ at.block[2] + 1 = t /\ at.block # <<>>
    BY <1>1, <1>3
  <2>2. g = [fs EXCEPT !.lines = SubSeq(L, 1, at.block[1] - 1) \o buildOptimizationBlock(m)
                                 \o SubSeq(L, at.block[2] + 1, Len(L))]
    BY <1>1, <1>3, <1>5, <1>6, <1>L, <1>at, <1>g, <1>m, <2>1 DEF AfterMark, Annotated
  <2> QED
    BY <1>N, <2>1, <2>2 DEF Splice
<1>9. /\ Reworded(L, N) /\ N[t - 3].statuses = m
      /\ \A i \in 1..Len(L) : i \notin (t - 4)..(t - 1) => N[i] = L[i]
  BY <1>1, <1>2, <1>7, <1>N, ReplaceIs
<1>10. Shape(N) /\ UserOf(N) = text /\ Laid(N, text, S)
  BY <1>2, <1>3, <1>9, RewordedShape, RewordedLaid
<1>11. g.lines = N /\ g.baseLines = text /\ g.removed = fs.removed /\ g.inserted = S /\ g \in FileStates
  <2>1. N \in Seq(Lines)
    BY <1>10 DEF Shape
  <2> QED
    BY <1>2, <1>8, <1>S, <2>1 DEF FileStates
<1>12. \A q : normalizeSourceLine(g, routes[q]) = normalizeSourceLine(fs, routes[q])
  BY <1>11 DEF normalizeSourceLine
<1>13. Ready(g, routes, text)
  BY <1>2, <1>10, <1>11, <1>12 DEF Ready
<1>14. ASSUME NEW q \in DOMAIN routes, q # r, normalizeSourceLine(fs, routes[q]) \in S
       PROVE  N[At(S, normalizeSourceLine(fs, routes[q])) - 3] = L[At(S, normalizeSourceLine(fs, routes[q])) - 3]
  <2>k. PICK k : k = normalizeSourceLine(fs, routes[q])
    OBVIOUS
  <2>1. k # n /\ k \in 1..Len(text)
    BY <1>14, <1>n, <2>k, RoutesApart DEF Ready
  <2>2. Block(L, At(S, k) - 4) /\ At(S, k) \in 1..Len(L) /\ Len(L) \in Nat /\ Len(text) \in Nat
    BY <1>2, <1>3, <1>14, <2>1, <2>k, LineOf DEF Laid
  <2>3. At(S, k) # t
    <3>1. Places(S) /\ k \in Nat /\ n \in Nat
      <4>1. S \in SUBSET (1..Len(text))
        BY <1>2 DEF Laid
      <4>2. Len(text) \in Nat
        BY <2>2
      <4>3. Places(S)
        BY <4>1, <4>2 DEF Places
      <4>4. k \in Nat /\ n \in Nat
        BY <1>1, <2>1, <4>2
      <4> QED
        BY <4>3, <4>4
    <3>2. k < n \/ n < k
      BY <2>1, <3>1
    <3>3. CASE k < n
      <4>1. At(S, k) \in Nat /\ At(S, k) < At(S, n)
        BY <3>1, <3>3, AtGrows
      <4> QED
        BY <1>3, <1>t, <4>1
    <3>4. CASE n < k
      <4>1. At(S, k) \in Nat /\ At(S, n) < At(S, k)
        BY <3>1, <3>4, AtGrows
      <4> QED
        BY <1>3, <1>t, <4>1
    <3> QED
      BY <3>2, <3>3, <3>4
  <2>x. PICK x : x = At(S, k)
    OBVIOUS
  <2>4. x - 4 \in (x - 4)..((x - 4) + 3) /\ x - 3 \in (x - 4)..((x - 4) + 3) /\ x \in Nat /\ x # t
    BY <2>2, <2>3, <2>x
  <2>5. x - 4 \in 1..Len(L) /\ (x - 4) + 1 = x - 3 /\ (x - 4) + 4 = x
    BY <2>2, <2>4, <2>x DEF Block
  <2>6. x - 3 \in 1..Len(L)
    BY <2>2, <2>4, <2>5, <2>x
  <2>7. L[x - 3].form = "mark"
    BY <2>2, <2>5, <2>x DEF Block
  <2>8. x - 3 \notin (t - 4)..(t - 1)
    <3>1. ASSUME x - 3 \in (t - 4)..(t - 1) PROVE FALSE
      <4>1. x - 3 = t - 4 \/ x - 3 = t - 3 \/ x - 3 = t - 2 \/ x - 3 = t - 1
        BY <1>3, <2>4, <3>1
      <4>2. (t - 4) + 1 = t - 3 /\ (t - 4) + 2 = t - 2 /\ (t - 4) + 3 = t - 1
        BY <1>3
      <4>3. L[t - 4].form = "open" /\ L[t - 2].form = "text" /\ L[t - 1].form = "close"
        BY <1>1, <4>2 DEF Block
      <4>4. x - 3 # t - 3
        BY <1>3, <2>4
      <4> QED
        BY <2>7, <4>1, <4>3, <4>4
    <3> QED
      BY <3>1
  <2> QED
    BY <1>9, <2>6, <2>8, <2>k, <2>x
<1>15. ASSUME NEW q \in DOMAIN routes
       PROVE  LET k == normalizeSourceLine(g, routes[q])
                  more == More(applied, routes[r], status) IN
              IF k \in g.inserted
              THEN Said(more, routes[q]) # {} /\ ToSet(g.lines[At(g.inserted, k) - 3].statuses) = Said(more, routes[q])
              ELSE Said(more, routes[q]) = {}
  <2>k. PICK k : k = normalizeSourceLine(fs, routes[q]) /\ k = normalizeSourceLine(g, routes[q])
    BY <1>12
  <2>more. PICK more : more = More(applied, routes[r], status)
    OBVIOUS
  <2>1. IF k \in S
        THEN Said(applied, routes[q]) # {} /\ ToSet(L[At(S, k) - 3].statuses) = Said(applied, routes[q])
        ELSE Said(applied, routes[q]) = {}
    BY <1>S, <1>L, <2>k DEF Told
  <2>2. CASE q = r
    <3>1. Said(more, routes[q]) = Said(applied, routes[q]) \cup {status}
      BY <2>2, <2>more, SaidMore
    <3>2. k = n /\ k \in S /\ At(S, k) = t
      BY <1>n, <1>t, <1>S, <2>2, <2>k
    <3>3. ToSet(N[At(S, k) - 3].statuses) = Said(more, routes[q])
      BY <1>4, <1>7, <1>9, <2>2, <3>1, <3>2
    <3> QED
      BY <1>11, <2>k, <2>more, <3>1, <3>2, <3>3
  <2>3. CASE q # r
    <3>1. Said(more, routes[q]) = Said(applied, routes[q])
      <4>1. routes[q] # routes[r]
        BY <2>3, RoutesApart
      <4> QED
        BY <2>more, <4>1, SaidSame
    <3>2. k \in S => N[At(S, k) - 3] = L[At(S, k) - 3]
      BY <1>14, <2>3, <2>k
    <3> QED
      BY <1>11, <2>k, <2>more, <2>1, <3>1, <3>2
  <2> QED
    BY <2>2, <2>3
<1>16. Told(g, routes, More(applied, routes[r], status))
  <2>1. \A k \in g.inserted : \E q \in DOMAIN routes : k = normalizeSourceLine(g, routes[q])
    BY <1>11, <1>12, <1>S DEF Told
  <2> QED
    BY <1>15, <2>1 DEF Told
<1> QED
  BY <1>13, <1>16, <1>g

\* A mark of a route without a block puts one above it.
LEMMA AnnotatesNew ==
  ASSUME NEW fs, NEW routes, NEW text, NEW applied, NEW r \in DOMAIN routes, NEW status \in Statuses,
         Ready(fs, routes, text), Told(fs, routes, applied),
         normalizeSourceLine(fs, routes[r]) \notin fs.inserted
  PROVE  LET g == AfterMark(fs, routes, applied, r, status)
         IN  Ready(g, routes, text) /\ Told(g, routes, More(applied, routes[r], status))
<1>n. PICK n : n = normalizeSourceLine(fs, routes[r])
  OBVIOUS
<1>S. PICK S : S = fs.inserted
  OBVIOUS
<1>t. PICK t : t = At(S, n)
  OBVIOUS
<1>L. PICK L : L = fs.lines
  OBVIOUS
<1>at. PICK at : at = Place(fs, routes[r])
  OBVIOUS
<1>1. /\ n \in 1..Len(text) /\ t \in 1..Len(L) /\ L[t] = text[n] /\ L[t].form = "code" /\ ~L[t].ours
      /\ at.line = n /\ at.t = t /\ ~Block(L, t - 4) /\ at.block = <<>>
  BY <1>n, <1>S, <1>t, <1>L, <1>at, PlaceIs
<1>2. /\ fs \in FileStates /\ Written(text) /\ Shape(L) /\ UserOf(L) = text /\ Laid(L, text, S) /\ fs.baseLines = text
  BY <1>S, <1>L DEF Ready
<1>3. L \in Seq(Lines) /\ text \in Seq(Lines) /\ (\A i \in 1..Len(text) : ~text[i].ours) /\ t \in DOMAIN L /\ t \in Nat
  BY <1>1, <1>2, LineOf DEF Shape, Written, Registered
<1>4. Said(applied, routes[r]) = {}
  BY <1>n, <1>S DEF Told
<1>7. <<status>> \in Seq(Statuses) /\ ToSet(<<status>>) = {status}
  <2>1. PICK A : A = Statuses
    OBVIOUS
  <2>2. <<>> \in Seq(A) /\ status \in A
    <3>1. status \in A
      BY <2>1, Zenon
    <3> QED
      BY <3>1, EmptySeq
  <2>3. Merged(A, <<>>, status)
    BY <2>2, MergesStatuses
  <2>4. <<status>> \in Seq(A) /\ ToSet(<<status>>) = {status}
    BY <2>3 DEF Merged
  <2> QED
    BY <2>1, <2>4, Zenon
<1>N. PICK N : N = Splice(L, t - 1, buildOptimizationBlock(<<status>>), t)
  OBVIOUS
<1>K. PICK K : K = S \cup {n}
  OBVIOUS
<1>g. PICK g : g = AfterMark(fs, routes, applied, r, status)
  OBVIOUS
<1>8. g = [fs EXCEPT !.lines = N, !.inserted = K]
  <2>1. g = [fs EXCEPT !.lines = SubSeq(L, 1, at.t - 1) \o buildOptimizationBlock(<<status>>) \o SubSeq(L, at.t, Len(L)),
                       !.inserted = S \cup {at.line}]
    BY <1>1, <1>3, <1>L, <1>S, <1>at, <1>g DEF AfterMark, Annotated
  <2> QED
    BY <1>1, <1>N, <1>K, <2>1 DEF Splice
<1>9. Put(L, N, t) /\ N[t + 1].statuses = <<status>> /\ UserOf(N) = UserOf(L)
  BY <1>1, <1>3, <1>7, <1>N, PutIs
<1>10. Shape(N)
  BY <1>1, <1>2, <1>9, PutShape
<1>17. /\ Laid(N, text, K) /\ \A k \in S : N[At(K, k) - 3] = L[At(S, k) - 3]
       /\ At(K, n) - 3 = t + 1
  <2>1. n \notin S /\ text[n].form = "code"
    BY <1>1, <1>n, <1>S
  <2>2. Put(L, N, At(S, n)) /\ Laid(L, text, S) /\ n \in 1..Len(text)
    BY <1>1, <1>2, <1>9, <1>t
  <2>3. LaidMore(L, N, text, S, n)
    BY <1>3, <2>1, <2>2, PutLaid
  <2> QED
    BY <1>t, <1>K, <2>3 DEF LaidMore
<1>11. g.lines = N /\ g.baseLines = text /\ g.removed = fs.removed /\ g.inserted = K /\ g \in FileStates
  <2>1. N \in Seq(Lines)
    BY <1>10 DEF Shape
  <2>2. K \in SUBSET Nat
    BY <1>1, <1>2, <1>S, <1>K DEF FileStates
  <2> QED
    BY <1>2, <1>8, <2>1, <2>2 DEF FileStates
<1>12. \A q : normalizeSourceLine(g, routes[q]) = normalizeSourceLine(fs, routes[q])
  BY <1>11 DEF normalizeSourceLine
<1>13. Ready(g, routes, text)
  BY <1>2, <1>9, <1>10, <1>17, <1>11, <1>12, <1>L DEF Ready
<1>15. ASSUME NEW q \in DOMAIN routes
       PROVE  LET k == normalizeSourceLine(g, routes[q])
                  more == More(applied, routes[r], status) IN
              IF k \in g.inserted
              THEN Said(more, routes[q]) # {} /\ ToSet(g.lines[At(g.inserted, k) - 3].statuses) = Said(more, routes[q])
              ELSE Said(more, routes[q]) = {}
  <2>k. PICK k : k = normalizeSourceLine(fs, routes[q]) /\ k = normalizeSourceLine(g, routes[q])
    BY <1>12
  <2>more. PICK more : more = More(applied, routes[r], status)
    OBVIOUS
  <2>1. IF k \in S
        THEN Said(applied, routes[q]) # {} /\ ToSet(L[At(S, k) - 3].statuses) = Said(applied, routes[q])
        ELSE Said(applied, routes[q]) = {}
    BY <1>S, <1>L, <2>k DEF Told
  <2>2. CASE q = r
    <3>1. Said(more, routes[q]) = {status}
      BY <1>4, <2>2, <2>more, SaidMore
    <3>2. k = n /\ k \in K /\ At(K, k) - 3 = t + 1
      BY <1>n, <1>K, <1>17, <2>2, <2>k
    <3>3. ToSet(N[At(K, k) - 3].statuses) = Said(more, routes[q])
      BY <1>7, <1>9, <3>1, <3>2
    <3> QED
      BY <1>11, <2>k, <2>more, <3>1, <3>2, <3>3
  <2>3. CASE q # r
    <3>1. routes[q] # routes[r] /\ k # n
      BY <1>n, <2>3, <2>k, RoutesApart
    <3>2. Said(more, routes[q]) = Said(applied, routes[q])
      BY <2>more, <3>1, SaidSame
    <3>3. k \in K <=> k \in S
      BY <1>K, <3>1
    <3>4. k \in S => N[At(K, k) - 3] = L[At(S, k) - 3]
      BY <1>17
    <3> QED
      BY <1>11, <2>k, <2>more, <2>1, <3>2, <3>3, <3>4
  <2> QED
    BY <2>2, <2>3
<1>16. Told(g, routes, More(applied, routes[r], status))
  <2>1. ASSUME NEW k \in g.inserted PROVE \E q \in DOMAIN routes : k = normalizeSourceLine(g, routes[q])
    <3>1. k \in S \/ k = n
      BY <1>11, <1>K
    <3> QED
      BY <1>12, <1>n, <1>S, <3>1 DEF Told
  <2> QED
    BY <1>15, <2>1 DEF Told
<1> QED
  BY <1>13, <1>16, <1>g

\* A mark leaves the user's text and every other block as they were, and adds
\* to what is said above its route.
LEMMA Annotates ==
  ASSUME NEW fs, NEW routes, NEW text, NEW applied, NEW r \in DOMAIN routes, NEW status \in Statuses,
         Ready(fs, routes, text), Told(fs, routes, applied)
  PROVE  LET g == AfterMark(fs, routes, applied, r, status)
         IN  Ready(g, routes, text) /\ Told(g, routes, More(applied, routes[r], status))
BY AnnotatesOld, AnnotatesNew

\* The file is read.
LEMMA ReadsFile ==
  ASSUME NEW L, NEW text, Shape(L), UserOf(L) = text, Written(text), NEW w, ~w.read, NEW routes,
         \A r \in DOMAIN routes : r # 0 /\ routes[r] \in 1..Len(L) /\ L[routes[r]].route = r
  PROVE  LET fs == FileState(w, L, Generated(L))
         IN  Ready(fs, routes, text) /\ Told(fs, routes, {})
<1>G. PICK G : G = OurLines(L)
  OBVIOUS
<1>fs. PICK fs : fs = FileState(w, L, Generated(L))
  OBVIOUS
<1>1. L \in Seq(Lines) /\ text \in Seq(Lines) /\ Len(L) \in Nat /\ G \in SUBSET (1..Len(L)) /\ G \in SUBSET Nat
  <2>1. L \in Seq(Lines) /\ text \in Seq(Lines)
    BY DEF Shape, Written, Registered
  <2>2. Len(L) \in Nat /\ G \in SUBSET (1..Len(L))
    BY <1>G, <2>1, LineOf
  <2>3. \A x \in 1..Len(L) : x \in Nat
    BY <2>2
  <2> QED
    BY <2>1, <2>2, <2>3
<1>2. Stripped(L, G) = text
  BY <1>G DEF UserOf
<1>3. fs = [lines |-> text, baseLines |-> text, removed |-> G, inserted |-> {}]
  BY <1>G, <1>fs, <1>2, GeneratedIs DEF FileState
<1>4. fs \in FileStates /\ fs.baseLines = text /\ fs.lines = text /\ fs.removed = G /\ fs.inserted = {}
  BY <1>1, <1>3 DEF FileStates
<1>5. Shape(fs.lines) /\ UserOf(fs.lines) = text /\ Laid(fs.lines, text, fs.inserted)
  BY <1>1, <1>4, WrittenShape, LaidBare
<1>6. ASSUME NEW r \in DOMAIN routes
      PROVE  /\ normalizeSourceLine(fs, routes[r]) \in 1..Len(text)
             /\ text[normalizeSourceLine(fs, routes[r])].route = r
  <2>i. PICK i : i = routes[r]
    OBVIOUS
  <2>1. r # 0 /\ i \in 1..Len(L) /\ L[i].route = r
    BY <2>i
  <2>2. ~L[i].ours
    BY <2>1 DEF Shape
  <2>3. i \in (1..Len(L)) \ G
    BY <1>1, <1>G, <2>1, <2>2, LineOf
  <2>4. i - UpTo(G, i) \in 1..Len(text) /\ text[i - UpTo(G, i)] = L[i]
    <3>1. L \in Seq(Lines) /\ G \in SUBSET (1..Len(L))
      BY <1>1
    <3>2. \A j \in (1..Len(L)) \ G : /\ j - UpTo(G, j) \in 1..Len(Stripped(L, G))
                                     /\ Stripped(L, G)[j - UpTo(G, j)] = L[j]
      BY <3>1, StrippedIs
    <3> QED
      BY <1>2, <2>3, <3>2
  <2>5. normalizeSourceLine(fs, i) = i - UpTo(G, i)
    <3>1. normalizeSourceLine(fs, i) = AtLeast(1, i - UpTo(G, i))
      BY <1>4 DEF normalizeSourceLine, UpTo
    <3>2. 1 < i - UpTo(G, i) \/ i - UpTo(G, i) = 1
      <4>1. Len(text) \in Nat
        BY <1>1, LenProperties
      <4> QED
        BY <2>4, <4>1
    <3> QED
      BY <3>1, <3>2 DEF AtLeast
  <2> QED
    BY <2>1, <2>4, <2>5, <2>i
<1>7. Ready(fs, routes, text)
  BY <1>4, <1>5, <1>6 DEF Ready
<1>8. Told(fs, routes, {})
  BY <1>4 DEF Told, Said
<1> QED
  BY <1>7, <1>8, <1>fs

-----------------------------------------------------------------------------
(* The user's file.                                                           *)

RoutesOf(L) == {L[i].route : i \in RouteLines(L)}

\* The routes are those of what the user wrote.
LEMMA RoutesKept ==
  ASSUME NEW L, Shape(L), NEW u, UserOf(L) = u, Registered(u)
  PROVE  /\ RoutesOf(L) = RoutesOf(u) /\ RouteLines(L) # {} /\ RouteLines(L) \subseteq 1..Len(L)
         /\ \A i, j \in RouteLines(L) : L[i].route = L[j].route => i = j
         /\ \A i \in RouteLines(L) : i - UpTo(OurLines(L), i) \in RouteLines(u) /\ u[i - UpTo(OurLines(L), i)] = L[i]
         /\ \A k \in RouteLines(u) : \E i \in RouteLines(L) : k = i - UpTo(OurLines(L), i)
<1>G. PICK G : G = OurLines(L)
  OBVIOUS
<1>1. /\ L \in Seq(Lines) /\ u \in Seq(Lines) /\ Len(L) \in Nat /\ Len(u) \in Nat
      /\ DOMAIN L = 1..Len(L) /\ DOMAIN u = 1..Len(u) /\ G \in SUBSET (1..Len(L))
      /\ \A i \in 1..Len(L) : L[i].route # 0 => i \notin G
  <2>1. L \in Seq(Lines) /\ u \in Seq(Lines) /\ \A i \in 1..Len(L) : L[i].route # 0 => ~L[i].ours
    BY DEF Shape, Registered
  <2> QED
    BY <2>1, <1>G, LineOf
<1>2. Stripped(L, G) = u
  BY <1>G DEF UserOf
<1>3. /\ \A i \in (1..Len(L)) \ G : i - UpTo(G, i) \in 1..Len(u) /\ u[i - UpTo(G, i)] = L[i]
      /\ \A k \in 1..Len(u) : \E i \in (1..Len(L)) \ G : k = i - UpTo(G, i)
  <2>1. L \in Seq(Lines) /\ G \in SUBSET (1..Len(L))
    BY <1>1
  <2>2. /\ \A i \in (1..Len(L)) \ G : /\ i - UpTo(G, i) \in 1..Len(Stripped(L, G))
                                      /\ Stripped(L, G)[i - UpTo(G, i)] = L[i]
        /\ \A k \in 1..Len(Stripped(L, G)) : \E i \in (1..Len(L)) \ G : k = i - UpTo(G, i)
    BY <2>1, StrippedIs
  <2> QED
    BY <1>2, <2>2
<1>4. RouteLines(L) = {i \in 1..Len(L) : L[i].route # 0} /\ RouteLines(u) = {i \in 1..Len(u) : u[i].route # 0}
  BY <1>1 DEF RouteLines
<1>5. ASSUME NEW i \in RouteLines(L)
      PROVE  i \in (1..Len(L)) \ G /\ i - UpTo(G, i) \in RouteLines(u) /\ u[i - UpTo(G, i)] = L[i]
  <2>1. i \in (1..Len(L)) \ G /\ L[i].route # 0
    BY <1>1, <1>4
  <2>2. i - UpTo(G, i) \in 1..Len(u) /\ u[i - UpTo(G, i)] = L[i]
    BY <1>3, <2>1
  <2> QED
    BY <1>4, <2>1, <2>2
<1>6. ASSUME NEW k \in RouteLines(u) PROVE \E i \in RouteLines(L) : k = i - UpTo(G, i)
  <2>1. k \in 1..Len(u) /\ u[k].route # 0
    BY <1>4
  <2>2. PICK i \in (1..Len(L)) \ G : k = i - UpTo(G, i)
    BY <1>3, <2>1
  <2>3. u[k] = L[i]
    BY <1>3, <2>2
  <2> QED
    BY <1>4, <2>1, <2>2, <2>3
<1>7. ASSUME NEW i \in RouteLines(L), NEW j \in RouteLines(L), L[i].route = L[j].route PROVE i = j
  <2>1. i - UpTo(G, i) = j - UpTo(G, j)
    BY <1>5, <1>7 DEF Registered
  <2>2. i \in (1..Len(L)) \ G /\ j \in (1..Len(L)) \ G /\ i \in Nat /\ j \in Nat
    BY <1>1, <1>5
  <2>3. UpTo(G, i) \in Nat /\ UpTo(G, j) \in Nat
    <3>1. Places(G)
      BY <1>1 DEF Places
    <3> QED
      BY <2>2, <3>1, PlacesUpTo
  <2>4. ASSUME i < j PROVE FALSE
    <3>1. i - UpTo(G, i) < j - UpTo(G, j)
      BY <1>1, <2>2, <2>4, StaysBehind
    <3> QED
      BY <2>1, <2>2, <2>3, <3>1
  <2>5. ASSUME j < i PROVE FALSE
    <3>1. j - UpTo(G, j) < i - UpTo(G, i)
      BY <1>1, <2>2, <2>5, StaysBehind
    <3> QED
      BY <2>1, <2>2, <2>3, <3>1
  <2> QED
    BY <2>2, <2>4, <2>5
<1>8. RoutesOf(L) = RoutesOf(u)
  <2>1. \A x \in RoutesOf(L) : x \in RoutesOf(u)
    BY <1>5 DEF RoutesOf
  <2>2. \A x \in RoutesOf(u) : x \in RoutesOf(L)
    <3>1. ASSUME NEW k \in RouteLines(u) PROVE u[k].route \in RoutesOf(L)
      <4>1. PICK i \in RouteLines(L) : k = i - UpTo(G, i)
        BY <1>6
      <4>2. u[k] = L[i]
        BY <1>5, <4>1
      <4> QED
        BY <4>2 DEF RoutesOf
    <3> QED
      BY <3>1 DEF RoutesOf
  <2> QED
    BY <2>1, <2>2
<1>9. RouteLines(L) # {} /\ RouteLines(L) \subseteq 1..Len(L)
  <2>1. RouteLines(u) # {}
    BY DEF Registered
  <2> QED
    BY <1>4, <1>6, <2>1
<1> QED
  BY <1>5, <1>6, <1>7, <1>8, <1>9, <1>G

\* The user adds a line of code at the top.
OneMore(L) == <<Line("code")>> \o L

\* The lines of the file after the edit.
LEMMA OneMoreIs ==
  ASSUME NEW L \in Seq(Lines)
  PROVE  /\ OneMore(L) \in Seq(Lines) /\ Len(OneMore(L)) = Len(L) + 1 /\ Len(L) \in Nat
         /\ OneMore(L)[1] = Line("code")
         /\ \A i \in 1..Len(L) : OneMore(L)[i + 1] = L[i]
         /\ \A i \in 1..(Len(L) + 1) : i = 1 \/ (i - 1 \in 1..Len(L) /\ OneMore(L)[i] = L[i - 1])
         /\ Line("code").form = "code" /\ ~Line("code").ours /\ Line("code").route = 0
<1>1. Line("code") \in Lines /\ Line("code").form = "code" /\ ~Line("code").ours /\ Line("code").route = 0
  <2>1. <<>> \in Seq(Statuses)
    BY EmptySeq
  <2> QED
    BY <2>1 DEF Line, Lines
<1>c. PICK c : c = Line("code")
  OBVIOUS
<1>2. Len(L) \in Nat /\ <<c>> \in Seq(Lines) /\ Len(<<c>>) = 1 /\ <<c>>[1] = c
  BY <1>1, <1>c, LenProperties
<1>X. PICK X : X = <<c>>
  OBVIOUS
<1>N. PICK N : N = X \o L
  OBVIOUS
<1>3. N \in Seq(Lines) /\ Len(N) = 1 + Len(L) /\ \A i \in 1..(1 + Len(L)) : N[i] = IF i <= 1 THEN X[i] ELSE L[i - 1]
  <2>1. X \in Seq(Lines) /\ Len(X) = 1
    BY <1>2, <1>X
  <2>2. /\ X \o L \in Seq(Lines) /\ Len(X \o L) = Len(X) + Len(L)
        /\ \A i \in 1..(Len(X) + Len(L)) : (X \o L)[i] = IF i <= Len(X) THEN X[i] ELSE L[i - Len(X)]
    BY <2>1, ConcatProperties
  <2> QED
    BY <1>N, <2>1, <2>2
<1>4. N[1] = c
  <2>1. 1 \in 1..(1 + Len(L)) /\ 1 <= 1
    BY <1>2
  <2> QED
    BY <1>2, <1>3, <1>X, <2>1
<1>5. ASSUME NEW i \in 1..Len(L) PROVE N[i + 1] = L[i]
  <2>1. i + 1 \in 1..(1 + Len(L)) /\ ~(i + 1 <= 1) /\ (i + 1) - 1 = i
    BY <1>2
  <2> QED
    BY <1>3, <2>1
<1>6. \A i \in 1..(Len(L) + 1) : i = 1 \/ (i - 1 \in 1..Len(L) /\ (i - 1) + 1 = i)
  BY <1>2
<1>7. N = OneMore(L)
  BY <1>c, <1>X, <1>N DEF OneMore
<1>8. \A i \in 1..(Len(L) + 1) : i = 1 \/ (i - 1 \in 1..Len(L) /\ N[i] = L[i - 1])
  BY <1>5, <1>6
<1> QED
  BY <1>1, <1>2, <1>3, <1>4, <1>5, <1>7, <1>8, <1>c

\* The edit is in none of the comments and blocks.
LEMMA OneMoreShape ==
  ASSUME NEW L, Shape(L)
  PROVE  /\ Shape(OneMore(L)) /\ UserOf(OneMore(L)) = OneMore(UserOf(L))
         /\ OurLines(L) = {} => OurLines(OneMore(L)) = {}
<1>N. PICK N : N = OneMore(L)
  OBVIOUS
<1>0. L \in Seq(Lines)
  BY DEF Shape
<1>1. /\ N \in Seq(Lines) /\ Len(N) = Len(L) + 1 /\ Len(L) \in Nat /\ N[1] = Line("code")
      /\ \A i \in 1..Len(L) : N[i + 1] = L[i]
      /\ \A i \in 1..(Len(L) + 1) : i = 1 \/ (i - 1 \in 1..Len(L) /\ N[i] = L[i - 1])
      /\ Line("code").form = "code" /\ ~Line("code").ours /\ Line("code").route = 0
  BY <1>0, <1>N, OneMoreIs
<1>2. ASSUME NEW s, Block(L, s) PROVE Block(N, s + 1)
  <2>1. s \in 1..Len(L) /\ s + 4 \in 1..Len(L)
    BY <1>2 DEF Block
  <2>2. /\ s + 1 \in 1..Len(L) /\ s + 2 \in 1..Len(L) /\ s + 3 \in 1..Len(L)
        /\ s + 1 \in 1..Len(N) /\ (s + 1) + 4 \in 1..Len(N)
        /\ (s + 1) + 1 = s + 2 /\ (s + 1) + 2 = s + 3 /\ (s + 1) + 3 = s + 4 /\ (s + 1) + 4 = s + 5
        /\ (s + 2) + 1 = s + 3 /\ (s + 3) + 1 = s + 4 /\ (s + 4) + 1 = s + 5
    BY <1>1, <2>1
  <2>3. N[s + 1] = L[s] /\ N[s + 2] = L[s + 1] /\ N[s + 3] = L[s + 2] /\ N[s + 4] = L[s + 3] /\ N[s + 5] = L[s + 4]
    BY <1>1, <2>1, <2>2
  <2> QED
    BY <1>2, <2>2, <2>3 DEF Block
<1>3. ASSUME NEW s \in 1..Len(L), NEW e \in 1..Len(L), UserComment(L, s, e) PROVE UserComment(N, s + 1, e + 1)
  <2>1. \A k \in (s + 1)..(e + 1) : k - 1 \in s..e /\ k - 1 \in 1..Len(L) /\ (k - 1) + 1 = k
    BY <1>1
  <2>2. \A k \in (s + 1)..(e + 1) : N[k] = L[k - 1]
    BY <1>1, <2>1
  <2>3. \A k \in ((s + 1) + 1)..((e + 1) - 1) : k - 1 \in (s + 1)..(e - 1) /\ k \in (s + 1)..(e + 1)
    BY <1>1
  <2>4. N[s + 1] = L[s] /\ N[e + 1] = L[e] /\ (s < e => s + 1 < e + 1)
    BY <1>1
  <2> QED
    BY <1>3, <2>1, <2>2, <2>3, <2>4 DEF UserComment, Comment
<1>4. ASSUME NEW j \in 1..Len(N), N[j].route # 0 PROVE N[j].form = "code" /\ ~N[j].ours
  <2>1. j - 1 \in 1..Len(L) /\ N[j] = L[j - 1]
    BY <1>1, <1>4
  <2> QED
    BY <1>4, <2>1 DEF Shape
<1>5. ASSUME NEW j \in 1..Len(N), ~N[j].ours
      PROVE  /\ N[j].form \notin {"oneline", "mark", "single"}
             /\ N[j].form \in {"open", "text", "close"} => \E s \in 1..j, e \in j..Len(N) : UserComment(N, s, e)
  <2>1. CASE j = 1
    BY <1>1, <2>1
  <2>2. CASE j - 1 \in 1..Len(L) /\ N[j] = L[j - 1]
    <3>1. N[j].form \notin {"oneline", "mark", "single"}
      BY <1>5, <2>2 DEF Shape
    <3>2. ASSUME N[j].form \in {"open", "text", "close"} PROVE \E s \in 1..j, e \in j..Len(N) : UserComment(N, s, e)
      <4>1. PICK s \in 1..(j - 1), e \in (j - 1)..Len(L) : UserComment(L, s, e)
        BY <1>5, <2>2, <3>2 DEF Shape
      <4>2. s \in 1..Len(L) /\ e \in 1..Len(L) /\ s + 1 \in 1..j /\ e + 1 \in j..Len(N)
        BY <1>1, <2>2
      <4> QED
        BY <1>3, <4>1, <4>2
    <3> QED
      BY <3>1, <3>2
  <2> QED
    BY <1>1, <2>1, <2>2
<1>6. ASSUME NEW j \in 1..Len(N), N[j].ours
      PROVE  N[j].form = "single" \/ \E s \in 1..j : j <= s + 3 /\ Block(N, s)
  <2>1. j - 1 \in 1..Len(L) /\ N[j] = L[j - 1]
    BY <1>1, <1>6
  <2>2. L[j - 1].form = "single" \/ \E s \in 1..(j - 1) : j - 1 <= s + 3 /\ Block(L, s)
    BY <1>6, <2>1 DEF Shape
  <2>3. ASSUME NEW s \in 1..(j - 1), j - 1 <= s + 3, Block(L, s)
        PROVE  s + 1 \in 1..j /\ j <= (s + 1) + 3 /\ Block(N, s + 1)
    BY <1>1, <1>2, <2>3
  <2> QED
    BY <2>1, <2>2, <2>3
<1>7. Shape(N)
  BY <1>1, <1>4, <1>5, <1>6 DEF Shape
<1>8. UserOf(N) = OneMore(UserOf(L))
  <2>1. <<Line("code")>> \in Seq(Lines)
    <3>1. 1 \in 1..Len(N)
      BY <1>1
    <3>2. Line("code") \in Lines
      BY <1>1, <3>1, ElementOfSeq
    <3> QED
      BY <3>2
  <2>2. UserOf(N) = UserOf(<<Line("code")>>) \o UserOf(L)
    BY <1>0, <1>N, <2>1, UserConcat DEF OneMore
  <2>3. UserOf(<<Line("code")>>) = <<Line("code")>>
    <3>X. PICK X : X = <<Line("code")>>
      OBVIOUS
    <3>1. X \in Seq(Lines) /\ \A i \in 1..Len(X) : ~X[i].ours
      <4>1. Len(<<Line("code")>>) = 1 /\ <<Line("code")>>[1] = Line("code")
        OBVIOUS
      <4>2. \A i \in 1..1 : i = 1
        OBVIOUS
      <4> QED
        BY <1>1, <2>1, <3>X, <4>1, <4>2
    <3>2. UserOf(X) = X
      BY <3>1, UserOfAll
    <3> QED
      BY <3>2, <3>X
  <2> QED
    BY <2>2, <2>3 DEF OneMore
<1>9. ASSUME OurLines(L) = {} PROVE OurLines(N) = {}
  <2>1. \A i \in 1..Len(L) : ~L[i].ours
    BY <1>0, <1>9, LineOf
  <2>2. \A i \in 1..Len(N) : ~N[i].ours
    BY <1>1, <2>1
  <2> QED
    BY <1>1, <2>2, LineOf
<1> QED
  BY <1>7, <1>8, <1>9, <1>N

\* What is whole with a line more was whole without it.
LEMMA OneMoreWritten ==
  ASSUME NEW u, Registered(u)
  PROVE  /\ Registered(OneMore(u)) /\ RoutesOf(OneMore(u)) = RoutesOf(u)
         /\ WholeComments(OneMore(u)) => WholeComments(u)
<1>N. PICK N : N = OneMore(u)
  OBVIOUS
<1>0. /\ u \in Seq(Lines) /\ RouteLines(u) # {}
      /\ \A i \in 1..Len(u) : ~u[i].ours /\ (u[i].route # 0 => u[i].form = "code")
      /\ \A i, j \in RouteLines(u) : u[i].route = u[j].route => i = j
  BY DEF Registered
<1>1. /\ N \in Seq(Lines) /\ Len(N) = Len(u) + 1 /\ Len(u) \in Nat /\ N[1] = Line("code")
      /\ \A i \in 1..Len(u) : N[i + 1] = u[i]
      /\ \A i \in 1..(Len(u) + 1) : i = 1 \/ (i - 1 \in 1..Len(u) /\ N[i] = u[i - 1])
      /\ Line("code").form = "code" /\ ~Line("code").ours /\ Line("code").route = 0
  BY <1>0, <1>N, OneMoreIs
<1>2. DOMAIN u = 1..Len(u) /\ DOMAIN N = 1..Len(N)
  BY <1>0, <1>1, LineOf
<1>3. \A i \in RouteLines(N) : i - 1 \in RouteLines(u) /\ N[i] = u[i - 1] /\ i \in Nat
  BY <1>1, <1>2 DEF RouteLines
<1>4. \A i \in RouteLines(u) : i + 1 \in RouteLines(N) /\ N[i + 1] = u[i]
  <2>1. \A i \in 1..Len(u) : i + 1 \in 1..Len(N)
    BY <1>1
  <2> QED
    BY <1>1, <1>2, <2>1 DEF RouteLines
<1>5. \A i \in 1..Len(N) : ~N[i].ours /\ (N[i].route # 0 => N[i].form = "code")
  BY <1>0, <1>1
<1>6. \A i, j \in RouteLines(N) : N[i].route = N[j].route => i = j
  <2>1. ASSUME NEW i \in RouteLines(N), NEW j \in RouteLines(N), N[i].route = N[j].route PROVE i = j
    <3>1. i - 1 = j - 1 /\ i \in Nat /\ j \in Nat
      BY <1>0, <1>3, <2>1
    <3> QED
      BY <3>1
  <2> QED
    BY <2>1
<1>7. Registered(N)
  <2>1. RouteLines(N) # {}
    BY <1>0, <1>4
  <2> QED
    BY <1>1, <1>5, <1>6, <2>1 DEF Registered
<1>8. RoutesOf(N) = RoutesOf(u)
  <2>1. \A i \in RouteLines(N) : N[i].route \in RoutesOf(u)
    BY <1>3 DEF RoutesOf
  <2>2. \A i \in RouteLines(u) : u[i].route \in RoutesOf(N)
    BY <1>4 DEF RoutesOf
  <2> QED
    BY <2>1, <2>2 DEF RoutesOf
<1>9. ASSUME WholeComments(N) PROVE WholeComments(u)
  <2>1. ASSUME NEW i \in 1..Len(u)
        PROVE  /\ u[i].form \notin {"oneline", "mark", "single"}
               /\ u[i].form \in {"open", "text", "close"} => \E s \in 1..i, e \in i..Len(u) : Comment(u, s, e)
    <3>1. i + 1 \in 1..Len(N) /\ N[i + 1] = u[i]
      BY <1>1
    <3>2. u[i].form \notin {"oneline", "mark", "single"}
      BY <1>2, <1>9, <3>1 DEF WholeComments
    <3>3. ASSUME u[i].form \in {"open", "text", "close"} PROVE \E s \in 1..i, e \in i..Len(u) : Comment(u, s, e)
      <4>1. PICK s \in 1..(i + 1), e \in (i + 1)..Len(N) : Comment(N, s, e)
        BY <1>2, <1>9, <3>1, <3>3 DEF WholeComments
      <4>2. s < e /\ N[s].form = "open" /\ N[e].form = "close" /\ \A k \in (s + 1)..(e - 1) : N[k].form = "text"
        BY <4>1 DEF Comment
      <4>3. s # 1
        BY <1>1, <4>2
      <4>4. s - 1 \in 1..i /\ e - 1 \in i..Len(u) /\ s - 1 < e - 1 /\ s - 1 \in 1..Len(u) /\ e - 1 \in 1..Len(u)
            /\ (s - 1) + 1 = s /\ (e - 1) + 1 = e
        BY <1>1, <4>2, <4>3
      <4>5. u[s - 1] = N[s] /\ u[e - 1] = N[e]
        BY <1>1, <4>4
      <4>6. \A k \in ((s - 1) + 1)..((e - 1) - 1) : k \in 1..Len(u) /\ k + 1 \in (s + 1)..(e - 1)
        BY <1>1, <4>4
      <4>7. \A k \in ((s - 1) + 1)..((e - 1) - 1) : u[k].form = "text"
        BY <1>1, <4>2, <4>6
      <4>8. Comment(u, s - 1, e - 1)
        BY <4>2, <4>4, <4>5, <4>7 DEF Comment
      <4> QED
        BY <4>4, <4>8
    <3> QED
      BY <3>2, <3>3
  <2> QED
    BY <1>2, <2>1 DEF WholeComments
<1> QED
  BY <1>7, <1>8, <1>9, <1>N

-----------------------------------------------------------------------------
(* The file a user starts from.                                              *)

\* What a file may be that a user starts from.
LEMMA TextIs ==
  ASSUME NEW L \in Texts
  PROVE  /\ L \in Seq(Lines) /\ RouteLines(L) # {}
         /\ \A i, j \in RouteLines(L) : L[i].route = L[j].route => i = j
         /\ \A i \in 1..Len(L) : L[i].route # 0 => L[i].form = "code" /\ ~L[i].ours
         /\ \A i \in 1..Len(L) : L[i].ours =>
              /\ L[i].form = "single"
              /\ \A s \in 1..i : L[s].form = "open" => \E e \in s..i : L[e].form = "close"
<1>1. L \in Seq(Lines)
  BY HotRestartAssumption
<1>2. DOMAIN L = 1..Len(L)
  BY <1>1, LineOf
<1>3. \A i \in 1..Len(L) : (L[i].route # 0 => i \in RouteLines(L)) /\ (L[i].ours => i \in OurLines(L))
  BY <1>2 DEF RouteLines, OurLines
<1> QED
  BY <1>1, <1>3, HotRestartAssumption

\* What the user wrote: what stays, in its order.
UserAt(L, G, u) ==
    /\ L \in Seq(Lines) /\ u \in Seq(Lines) /\ Len(L) \in Nat /\ Len(u) \in Nat
    /\ DOMAIN L = 1..Len(L) /\ DOMAIN u = 1..Len(u) /\ G \in SUBSET (1..Len(L))
    /\ \A i \in 1..Len(L) : i \in G <=> L[i].ours
    /\ \A i \in (1..Len(L)) \ G : i - UpTo(G, i) \in 1..Len(u) /\ u[i - UpTo(G, i)] = L[i]
    /\ \A k \in 1..Len(u) : \E i \in (1..Len(L)) \ G : k = i - UpTo(G, i)
    /\ \A i \in 1..Len(L), j \in 1..Len(L) :
          /\ UpTo(G, i) \in Nat
          /\ i < j /\ j \notin G => i - UpTo(G, i) < j - UpTo(G, j)

\* Every line that is left was in the file, and the order is the same.
LEMMA UserIsAt ==
  ASSUME NEW L \in Seq(Lines)
  PROVE  UserAt(L, OurLines(L), UserOf(L))
<1>G. PICK G : G = OurLines(L)
  OBVIOUS
<1>1. /\ L \in Seq(Lines) /\ Len(L) \in Nat /\ DOMAIN L = 1..Len(L) /\ G \in SUBSET (1..Len(L))
      /\ \A i \in 1..Len(L) : i \in G <=> L[i].ours
  BY <1>G, LineOf
<1>2. /\ Stripped(L, G) \in Seq(Lines)
      /\ \A i \in (1..Len(L)) \ G : /\ i - UpTo(G, i) \in 1..Len(Stripped(L, G))
                                    /\ Stripped(L, G)[i - UpTo(G, i)] = L[i]
      /\ \A k \in 1..Len(Stripped(L, G)) : \E i \in (1..Len(L)) \ G : k = i - UpTo(G, i)
  BY <1>1, StrippedIs
<1>3. Len(Stripped(L, G)) \in Nat /\ DOMAIN Stripped(L, G) = 1..Len(Stripped(L, G))
  BY <1>2, LineOf
<1>4. ASSUME NEW i \in 1..Len(L), NEW j \in 1..Len(L)
      PROVE  UpTo(G, i) \in Nat /\ (i < j /\ j \notin G => i - UpTo(G, i) < j - UpTo(G, j))
  <2>1. i \in Nat
    BY <1>1
  <2>2. UpTo(G, i) \in Nat
    <3>1. Places(G)
      BY <1>1 DEF Places
    <3> QED
      BY <2>1, <3>1, PlacesUpTo
  <2>3. i < j /\ j \notin G => i - UpTo(G, i) < j - UpTo(G, j)
    BY <1>1, <2>1, StaysBehind
  <2> QED
    BY <2>2, <2>3
<1>5. UserAt(L, G, Stripped(L, G))
  BY <1>1, <1>2, <1>3, <1>4 DEF UserAt
<1> QED
  BY <1>5, <1>G DEF UserOf

\* Without what an older writer left, every route is still registered once.
LEMMA TextRegistered ==
  ASSUME NEW L \in Texts
  PROVE  Registered(UserOf(L))
<1>1. PICK u : u = UserOf(L)
  OBVIOUS
<1>2. PICK G : G = OurLines(L)
  OBVIOUS
<1>3. /\ L \in Seq(Lines) /\ RouteLines(L) # {}
      /\ \A i, j \in RouteLines(L) : L[i].route = L[j].route => i = j
      /\ \A i \in 1..Len(L) : L[i].route # 0 => L[i].form = "code" /\ ~L[i].ours
  BY TextIs
<1>4. UserAt(L, G, u)
  BY <1>1, <1>2, <1>3, UserIsAt
<1>5. /\ DOMAIN L = 1..Len(L) /\ DOMAIN u = 1..Len(u) /\ u \in Seq(Lines)
      /\ \A i \in 1..Len(L) : i \in G <=> L[i].ours
      /\ \A i \in (1..Len(L)) \ G : i - UpTo(G, i) \in 1..Len(u) /\ u[i - UpTo(G, i)] = L[i]
      /\ \A k \in 1..Len(u) : \E i \in (1..Len(L)) \ G : k = i - UpTo(G, i)
  BY <1>4 DEF UserAt
<1>6. ASSUME NEW k \in 1..Len(u)
      PROVE  ~u[k].ours /\ (u[k].route # 0 => u[k].form = "code")
  <2>1. PICK i \in (1..Len(L)) \ G : k = i - UpTo(G, i)
    BY <1>5
  <2>2. u[k] = L[i]
    BY <1>5, <2>1
  <2> QED
    BY <1>3, <1>5, <2>2
<1>7. ASSUME NEW k \in RouteLines(u) PROVE \E i \in RouteLines(L) : k = i - UpTo(G, i) /\ u[k] = L[i]
  <2>1. k \in 1..Len(u) /\ u[k].route # 0
    BY <1>5, <1>7 DEF RouteLines
  <2>2. PICK i \in (1..Len(L)) \ G : k = i - UpTo(G, i)
    BY <1>5, <2>1
  <2>3. u[k] = L[i]
    BY <1>5, <2>2
  <2> QED
    BY <1>5, <2>1, <2>2, <2>3 DEF RouteLines
<1>8. RouteLines(u) # {}
  <2>1. PICK i \in RouteLines(L) : TRUE
    BY <1>3
  <2>2. i \in (1..Len(L)) \ G /\ L[i].route # 0
    BY <1>3, <1>5, <2>1 DEF RouteLines
  <2>3. i - UpTo(G, i) \in 1..Len(u) /\ u[i - UpTo(G, i)].route # 0
    BY <1>5, <2>2
  <2> QED
    BY <1>5, <2>3 DEF RouteLines
<1>9. ASSUME NEW k \in RouteLines(u), NEW m \in RouteLines(u), u[k].route = u[m].route PROVE k = m
  <2>1. PICK i \in RouteLines(L) : k = i - UpTo(G, i) /\ u[k] = L[i]
    BY <1>7
  <2>2. PICK j \in RouteLines(L) : m = j - UpTo(G, j) /\ u[m] = L[j]
    BY <1>7
  <2>3. i = j
    BY <1>3, <1>9, <2>1, <2>2
  <2> QED
    BY <2>1, <2>2, <2>3
<1>10. Registered(u)
  BY <1>5, <1>6, <1>8, <1>9 DEF Registered
<1> QED
  BY <1>1, <1>10

\* Whole comments of the user's hold none of the lines an older writer left.
LEMMA TextShape ==
  ASSUME NEW L \in Texts, WholeComments(UserOf(L))
  PROVE  Shape(L)
<1>1. PICK u : u = UserOf(L)
  OBVIOUS
<1>2. PICK G : G = OurLines(L)
  OBVIOUS
<1>3. /\ L \in Seq(Lines)
      /\ \A i \in 1..Len(L) : L[i].route # 0 => L[i].form = "code" /\ ~L[i].ours
      /\ \A i \in 1..Len(L) : L[i].ours =>
           /\ L[i].form = "single"
           /\ \A s \in 1..i : L[s].form = "open" => \E e \in s..i : L[e].form = "close"
  BY TextIs
<1>4. UserAt(L, G, u)
  BY <1>1, <1>2, <1>3, UserIsAt
<1>5. /\ DOMAIN u = 1..Len(u) /\ Len(L) \in Nat /\ Len(u) \in Nat
      /\ \A i \in 1..Len(L) : i \in G <=> L[i].ours
      /\ \A i \in (1..Len(L)) \ G : i - UpTo(G, i) \in 1..Len(u) /\ u[i - UpTo(G, i)] = L[i]
      /\ \A k \in 1..Len(u) : \E i \in (1..Len(L)) \ G : k = i - UpTo(G, i)
      /\ \A i \in 1..Len(L), j \in 1..Len(L) :
            /\ UpTo(G, i) \in Nat
            /\ i < j /\ j \notin G => i - UpTo(G, i) < j - UpTo(G, j)
  BY <1>4 DEF UserAt
<1>6. ASSUME NEW i \in (1..Len(L)) \ G, L[i].form \in {"open", "text", "close"}
      PROVE  \E s \in 1..i, e \in i..Len(L) : UserComment(L, s, e)
  <2>k. PICK k : k = i - UpTo(G, i)
    OBVIOUS
  <2>1. k \in 1..Len(u) /\ u[k] = L[i]
    BY <1>5, <2>k
  <2>2. PICK x \in 1..k, y \in k..Len(u) : Comment(u, x, y)
    BY <1>1, <1>5, <1>6, <2>1 DEF WholeComments
  <2>3. /\ x < y /\ u[x].form = "open" /\ u[y].form = "close" /\ \A z \in (x + 1)..(y - 1) : u[z].form = "text"
        /\ x \in 1..Len(u) /\ y \in 1..Len(u)
    <3>1. Len(u) \in Nat
      BY <1>5
    <3>2. x \in 1..Len(u) /\ y \in 1..Len(u)
      BY <2>1, <3>1
    <3> QED
      BY <2>2, <3>2 DEF Comment
  <2>4. PICK s \in (1..Len(L)) \ G : x = s - UpTo(G, s)
    BY <1>5, <2>3
  <2>5. PICK e \in (1..Len(L)) \ G : y = e - UpTo(G, e)
    BY <1>5, <2>3
  <2>6. L[s].form = "open" /\ L[e].form = "close" /\ s # e
    BY <1>5, <2>3, <2>4, <2>5
  <2>7. s < e
    <3>1. ~(e < s)
      BY <1>5, <2>3, <2>4, <2>5
    <3> QED
      BY <1>5, <2>6, <3>1
  <2>8. s <= i /\ i <= e
    <3>1. ~(i < s)
      <4> SUFFICES ASSUME i < s PROVE FALSE
        OBVIOUS
      <4>1. k < x
        BY <1>5, <2>4, <2>k
      <4> QED
        BY <1>5, <2>1, <2>2, <4>1
    <3>2. ~(e < i)
      <4> SUFFICES ASSUME e < i PROVE FALSE
        OBVIOUS
      <4>1. y < k
        BY <1>5, <2>5, <2>k
      <4> QED
        BY <1>5, <2>1, <2>2, <4>1
    <3> QED
      BY <1>5, <3>1, <3>2
  <2>n. /\ Len(L) \in Nat /\ Len(u) \in Nat /\ s \in 1..Len(L) /\ e \in 1..Len(L)
        /\ s \in Nat /\ e \in Nat /\ i \in Nat
    <3>1. Len(L) \in Nat /\ Len(u) \in Nat
      BY <1>5
    <3> QED
      BY <3>1
  <2>9. ASSUME NEW z \in (1..Len(L)) \ G, s < z, z < e PROVE L[z].form = "text"
    <3>z. PICK q : q = z - UpTo(G, z)
      OBVIOUS
    <3>1. q \in 1..Len(u) /\ u[q] = L[z]
      BY <1>5, <3>z
    <3>2. x < q /\ q < y
      BY <1>5, <2>4, <2>5, <2>9, <3>z
    <3>3. q \in (x + 1)..(y - 1)
      <4>1. x \in Nat /\ y \in Nat /\ q \in Nat
        BY <2>n, <2>3, <3>1
      <4> QED
        BY <3>2, <4>1
    <3> QED
      BY <2>3, <3>1, <3>3
  <2>10. ASSUME NEW j \in s..e PROVE j \in (1..Len(L)) \ G
    <3>1. j \in 1..Len(L)
      BY <2>n
    <3> SUFFICES ASSUME j \in G PROVE FALSE
      BY <3>1
    <3>2. L[j].ours
      BY <1>5, <3>1
    <3>3. s \in 1..j
      BY <2>n
    <3>4. PICK c \in s..j : L[c].form = "close"
      BY <1>3, <2>6, <3>1, <3>2, <3>3
    <3>5. L[j].form = "single"
      BY <1>3, <3>1, <3>2
    <3>6. c # j /\ c # s
      BY <2>6, <3>4, <3>5
    <3>7. c \in 1..Len(L) /\ s < c /\ c < e
      BY <2>n, <3>6
    <3>8. c \notin G
      <4>1. ~L[c].ours
        BY <1>3, <3>4, <3>7
      <4> QED
        BY <1>5, <3>7, <4>1
    <3> QED
      BY <2>9, <3>4, <3>7, <3>8
  <2>11. UserComment(L, s, e)
    <3>1. \A z \in (s + 1)..(e - 1) : z \in s..e /\ s < z /\ z < e
      BY <2>n
    <3>3. \A z \in s..e : z \in 1..Len(L) /\ z \notin G
      BY <2>10
    <3>4. \A z \in s..e : ~L[z].ours
      BY <1>5, <3>3
    <3>5. \A z \in (s + 1)..(e - 1) : L[z].form = "text"
      BY <2>9, <3>1, <3>3
    <3> QED
      BY <2>6, <2>7, <3>4, <3>5 DEF UserComment, Comment
  <2>12. s \in 1..i /\ e \in i..Len(L)
    BY <2>n, <2>8
  <2> QED
    BY <2>11, <2>12
<1>7. ASSUME NEW i \in 1..Len(L), ~L[i].ours
      PROVE  L[i].form \notin {"oneline", "mark", "single"}
  <2>1. i - UpTo(G, i) \in DOMAIN u /\ u[i - UpTo(G, i)] = L[i]
    BY <1>5, <1>7
  <2> QED
    BY <1>1, <2>1 DEF WholeComments
<1>8. \A i \in 1..Len(L) : ~L[i].ours => i \in (1..Len(L)) \ G
  BY <1>5
<1> QED
  BY <1>3, <1>6, <1>7, <1>8 DEF Shape

-----------------------------------------------------------------------------
(* What a process loads.                                                      *)

\* What is left is what stays.
LEMMA StrippedSet ==
  ASSUME NEW A, NEW L \in Seq(A), NEW G \in SUBSET (1..Len(L))
  PROVE  /\ Stripped(L, G) \in Seq(A) /\ DOMAIN Stripped(L, G) = 1..Len(Stripped(L, G))
         /\ \A k \in 1..Len(Stripped(L, G)) : \E i \in (1..Len(L)) \ G : Stripped(L, G)[k] = L[i]
         /\ \A i \in (1..Len(L)) \ G : \E k \in 1..Len(Stripped(L, G)) : Stripped(L, G)[k] = L[i]
<1>1. /\ Stripped(L, G) \in Seq(A)
      /\ \A i \in (1..Len(L)) \ G : /\ i - UpTo(G, i) \in 1..Len(Stripped(L, G))
                                    /\ Stripped(L, G)[i - UpTo(G, i)] = L[i]
      /\ \A k \in 1..Len(Stripped(L, G)) : \E i \in (1..Len(L)) \ G : k = i - UpTo(G, i)
  BY StrippedIs
<1>2. DOMAIN Stripped(L, G) = 1..Len(Stripped(L, G))
  BY <1>1, LenProperties
<1>3. ASSUME NEW k \in 1..Len(Stripped(L, G)) PROVE \E i \in (1..Len(L)) \ G : Stripped(L, G)[k] = L[i]
  <2>1. PICK i \in (1..Len(L)) \ G : k = i - UpTo(G, i)
    BY <1>1
  <2> QED
    BY <1>1, <2>1
<1>4. ASSUME NEW i \in (1..Len(L)) \ G PROVE \E k \in 1..Len(Stripped(L, G)) : Stripped(L, G)[k] = L[i]
  BY <1>1
<1> QED
  BY <1>1, <1>2, <1>3, <1>4

\* A process loads the routes that its file registers.
LEMMA RoutesLoaded ==
  ASSUME NEW L \in Seq(Lines), NEW reg,
         reg = Stripped([i \in DOMAIN L |-> L[i].route], DOMAIN L \ RouteLines(L))
  PROVE  /\ reg \in Seq(Nat) /\ ToSet(reg) = RoutesOf(L) /\ 0 \notin RoutesOf(L)
         /\ RouteLines(L) \subseteq 1..Len(L)
<1>1. /\ Len(L) \in Nat /\ DOMAIN L = 1..Len(L) /\ \A i \in 1..Len(L) : L[i].route \in Nat
  BY LineOf
<1>2. RouteLines(L) = {i \in 1..Len(L) : L[i].route # 0}
  BY <1>1 DEF RouteLines
<1>M. PICK M : M = [i \in 1..Len(L) |-> L[i].route]
  OBVIOUS
<1>G. PICK G : G = (1..Len(L)) \ RouteLines(L)
  OBVIOUS
<1>3. M \in Seq(Nat) /\ Len(M) = Len(L) /\ \A i \in 1..Len(L) : M[i] = L[i].route
  BY <1>1, <1>M
<1>4. G \in SUBSET (1..Len(M)) /\ (1..Len(M)) \ G = RouteLines(L)
  BY <1>2, <1>3, <1>G
<1>5. reg = Stripped(M, G)
  BY <1>1, <1>M, <1>G
<1>6. /\ Stripped(M, G) \in Seq(Nat) /\ DOMAIN Stripped(M, G) = 1..Len(Stripped(M, G))
      /\ \A k \in 1..Len(Stripped(M, G)) : \E i \in (1..Len(M)) \ G : Stripped(M, G)[k] = M[i]
      /\ \A i \in (1..Len(M)) \ G : \E k \in 1..Len(Stripped(M, G)) : Stripped(M, G)[k] = M[i]
  BY <1>3, <1>4, StrippedSet
<1>7. /\ reg \in Seq(Nat) /\ DOMAIN reg = 1..Len(reg)
      /\ \A k \in 1..Len(reg) : \E i \in RouteLines(L) : reg[k] = M[i]
      /\ \A i \in RouteLines(L) : \E k \in 1..Len(reg) : reg[k] = M[i]
  BY <1>4, <1>5, <1>6
<1>8. /\ \A k \in 1..Len(reg) : \E i \in RouteLines(L) : reg[k] = L[i].route
      /\ \A i \in RouteLines(L) : \E k \in 1..Len(reg) : reg[k] = L[i].route
  <2>1. \A i \in RouteLines(L) : M[i] = L[i].route
    BY <1>2, <1>3
  <2>2. ASSUME NEW k \in 1..Len(reg) PROVE \E i \in RouteLines(L) : reg[k] = L[i].route
    <3>1. PICK i \in RouteLines(L) : reg[k] = M[i]
      BY <1>7
    <3>2. reg[k] = L[i].route
      BY <2>1, <3>1
    <3> QED
      BY <3>2
  <2>3. ASSUME NEW i \in RouteLines(L) PROVE \E k \in 1..Len(reg) : reg[k] = L[i].route
    <3>1. PICK k \in 1..Len(reg) : reg[k] = M[i]
      BY <1>7
    <3>2. reg[k] = L[i].route
      BY <2>1, <3>1
    <3> QED
      BY <3>2
  <2> QED
    BY <2>2, <2>3
<1>9. ToSet(reg) = RoutesOf(L)
  <2>1. ToSet(reg) = {reg[k] : k \in 1..Len(reg)}
    BY <1>7 DEF ToSet
  <2>2. \A x \in ToSet(reg) : x \in RoutesOf(L)
    <3>1. ASSUME NEW k \in 1..Len(reg) PROVE reg[k] \in RoutesOf(L)
      <4>1. PICK i \in RouteLines(L) : reg[k] = L[i].route
        BY <1>8
      <4> QED
        BY <4>1 DEF RoutesOf
    <3> QED
      BY <2>1, <3>1
  <2>3. \A x \in RoutesOf(L) : x \in ToSet(reg)
    BY <1>8, <2>1 DEF RoutesOf
  <2> QED
    BY <2>2, <2>3
<1> QED
  BY <1>2, <1>7, <1>9 DEF RoutesOf

\* Compilation marks every route, and only with statuses.
LEMMA MarksAre ==
  ASSUME NEW routes \in Seq(Nat)
  PROVE  /\ marksFrom(routes) \in Seq(ToSet(routes) \X Statuses)
         /\ \A r \in ToSet(routes) : \E k \in 1..Len(marksFrom(routes)) : marksFrom(routes)[k][1] = r
<1>n. PICK n : n = Len(routes)
  OBVIOUS
<1>R. PICK R : R = ToSet(routes)
  OBVIOUS
<1>1. n \in Nat /\ DOMAIN routes = 1..n /\ \A j \in 1..n : routes[j] \in R
  <2>1. n \in Nat /\ DOMAIN routes = 1..n
    BY <1>n, LenProperties
  <2> QED
    BY <1>R, <2>1 DEF ToSet
<1>2. \A k \in 1..(2 * n) : (k + 1) \div 2 \in 1..n
  BY <1>1
<1> DEFINE base(k) == IF k % 2 = 1 THEN "bridge-dispatch" ELSE "runtime-cache-tracking"
<1>3. PICK all : all = [k \in 1..(2 * n) |-> <<routes[(k + 1) \div 2], base(k)>>]
  OBVIOUS
<1>P. PICK P : P = R \X Statuses
  OBVIOUS
<1>4. ASSUME NEW k \in 1..(2 * n) PROVE all[k] \in P /\ all[k][1] = routes[(k + 1) \div 2]
  <2>1. routes[(k + 1) \div 2] \in R
    BY <1>1, <1>2
  <2>s. base(k) \in Statuses
    BY DEF Statuses
  <2>2. all[k] = <<routes[(k + 1) \div 2], base(k)>>
    BY <1>3
  <2> HIDE DEF base
  <2> QED
    BY <1>P, <2>1, <2>s, <2>2
<1>5. 2 * n \in Nat
  BY <1>1
<1>6. all \in Seq(P) /\ Len(all) = 2 * n /\ DOMAIN all = 1..(2 * n)
  <2>1. all \in [1..(2 * n) -> P]
    BY <1>3, <1>4
  <2> HIDE DEF base
  <2> QED
    BY <1>5, <2>1
<1>G. PICK G : G = {k \in DOMAIN all : k % 2 = 0 /\ all[k][1] \notin Tracked}
  OBVIOUS
<1>7. G \in SUBSET (1..Len(all)) /\ \A k \in G : k % 2 = 0
  BY <1>6, <1>G
<1>8. marksFrom(routes) = Stripped(all, G)
  BY <1>3, <1>n, <1>G DEF marksFrom
<1>9. /\ Stripped(all, G) \in Seq(P)
      /\ \A i \in (1..Len(all)) \ G : \E k \in 1..Len(Stripped(all, G)) : Stripped(all, G)[k] = all[i]
  <2>1. all \in Seq(P) /\ G \in SUBSET (1..Len(all))
    BY <1>6, <1>7
  <2> HIDE DEF base
  <2> QED
    BY <2>1, StrippedSet
<1>10. ASSUME NEW r \in R PROVE \E k \in 1..Len(marksFrom(routes)) : marksFrom(routes)[k][1] = r
  <2>1. PICK j \in 1..n : routes[j] = r
    BY <1>1, <1>R DEF ToSet
  <2>i. PICK i : i = (2 * j) - 1
    OBVIOUS
  <2>2. i \in 1..(2 * n) /\ i % 2 = 1 /\ (i + 1) \div 2 = j
    BY <1>1, <2>i
  <2>3. i \in (1..Len(all)) \ G /\ all[i][1] = r
    BY <1>4, <1>6, <1>7, <2>1, <2>2
  <2> QED
    BY <1>8, <1>9, <2>3
<1> QED
  BY <1>8, <1>9, <1>10, <1>P, <1>R

-----------------------------------------------------------------------------
(* When every route was marked, each has its block.                           *)

\* The block of the route in line i, and the line the route has in the user's text.
HasBlock(L, fs, routes, applied, i) ==
    LET r == L[i].route
        k == i - UpTo(OurLines(L), i)
    IN  /\ r \in DOMAIN routes /\ Block(L, i - 4)
        /\ ToSet(L[i - 3].statuses) = Said(applied, routes[r])
        /\ k = normalizeSourceLine(fs, routes[r]) /\ k \in fs.inserted

\* The line of every route is the one its block was put above.
LEMMA BlocksAbove ==
  ASSUME NEW fs, NEW routes, NEW text, NEW applied, NEW L, L = fs.lines,
         Ready(fs, routes, text), Told(fs, routes, applied), DOMAIN routes = RoutesOf(text),
         \A r \in DOMAIN routes : Said(applied, routes[r]) # {},
         NEW i \in RouteLines(L)
  PROVE  HasBlock(L, fs, routes, applied, i)
<1>S. PICK S : S = fs.inserted
  OBVIOUS
<1>k. PICK k : k = i - UpTo(OurLines(L), i)
  OBVIOUS
<1>r. PICK r : r = L[i].route
  OBVIOUS
<1>1. Shape(L) /\ UserOf(L) = text /\ Written(text) /\ Laid(L, text, S)
  BY <1>S DEF Ready
<1>2. Registered(text) /\ \A x, y \in RouteLines(text) : text[x].route = text[y].route => x = y
  BY <1>1 DEF Written, Registered
<1>3. /\ k \in RouteLines(text) /\ text[k] = L[i]
      /\ RoutesOf(L) = RoutesOf(text)
      /\ \A x, y \in RouteLines(L) : L[x].route = L[y].route => x = y
  BY <1>1, <1>2, <1>k, RoutesKept
<1>4. r \in DOMAIN routes
  BY <1>3, <1>r DEF RoutesOf
<1>n. PICK n : n = normalizeSourceLine(fs, routes[r])
  OBVIOUS
<1>5. r # 0 /\ n \in 1..Len(text) /\ text[n].route = r
  BY <1>4, <1>n DEF Ready
<1>6. n = k
  <2>1. n \in RouteLines(text)
    <3>1. DOMAIN text = 1..Len(text)
      BY <1>2, LineOf DEF Registered
    <3> QED
      BY <1>5, <3>1 DEF RouteLines
  <2> QED
    BY <1>2, <1>3, <1>5, <1>r, <2>1
<1>7. n \in S /\ ToSet(L[At(S, n) - 3].statuses) = Said(applied, routes[r])
  BY <1>4, <1>n, <1>S DEF Told
<1>8. At(S, n) = i /\ Block(L, i - 4)
  <2>t. PICK t : t = At(S, n)
    OBVIOUS
  <2>1. t \in 1..Len(L) /\ L[t] = text[n] /\ Block(L, t - 4)
    BY <1>1, <1>5, <1>7, <2>t DEF Laid
  <2>2. t \in RouteLines(L)
    <3>1. DOMAIN L = 1..Len(L)
      BY <1>1, LineOf DEF Shape
    <3> QED
      BY <1>5, <2>1, <3>1 DEF RouteLines
  <2>3. t = i
    BY <1>3, <1>5, <1>r, <2>1, <2>2
  <2> QED
    BY <2>1, <2>3, <2>t
<1>9. i - UpTo(OurLines(L), i) = normalizeSourceLine(fs, routes[L[i].route]) /\ i - UpTo(OurLines(L), i) \in fs.inserted
  BY <1>6, <1>7, <1>k, <1>n, <1>r, <1>S
<1>10. L[i].route \in DOMAIN routes /\ Block(L, i - 4) /\ ToSet(L[i - 3].statuses) = Said(applied, routes[L[i].route])
  BY <1>4, <1>7, <1>8, <1>r
<1> QED
  BY <1>9, <1>10 DEF HasBlock

\* There is no line of the writer but those blocks.
LEMMA BlocksCounted ==
  ASSUME NEW fs, NEW routes, NEW text, NEW applied, NEW L, L = fs.lines,
         Ready(fs, routes, text), Told(fs, routes, applied), DOMAIN routes = RoutesOf(text),
         \A r \in DOMAIN routes : Said(applied, routes[r]) # {}
  PROVE  Cardinality(OurLines(L)) = 4 * Cardinality(RouteLines(L))
<1>S. PICK S : S = fs.inserted
  OBVIOUS
<1>G. PICK G : G = OurLines(L)
  OBVIOUS
<1>R. PICK R : R = RouteLines(L)
  OBVIOUS
<1>1. Shape(L) /\ UserOf(L) = text /\ Written(text) /\ Laid(L, text, S)
  BY <1>S DEF Ready
<1>2. Registered(text) /\ L \in Seq(Lines) /\ Len(L) \in Nat
  BY <1>1, LineOf DEF Written, Shape
<1>3. /\ \A x, y \in R : L[x].route = L[y].route => x = y
      /\ \A x \in R : text[x - UpTo(G, x)] = L[x]
      /\ \A y \in RouteLines(text) : \E x \in R : y = x - UpTo(G, x)
      /\ R \subseteq 1..Len(L)
  BY <1>1, <1>2, <1>G, <1>R, RoutesKept
<1>4. \A x \in R : x - UpTo(G, x) \in S
  <2>1. ASSUME NEW x \in R PROVE x - UpTo(G, x) \in S
    <3>1. HasBlock(L, fs, routes, applied, x)
      BY <1>R, BlocksAbove
    <3> QED
      BY <1>S, <1>G, <3>1 DEF HasBlock
  <2> QED
    BY <2>1
<1>5. ASSUME NEW n \in S PROVE \E x \in R : n = x - UpTo(G, x)
  <2>1. PICK r \in DOMAIN routes : n = normalizeSourceLine(fs, routes[r])
    BY <1>S DEF Told
  <2>2. r # 0 /\ n \in 1..Len(text) /\ text[n].route = r
    BY <2>1 DEF Ready
  <2>3. DOMAIN text = 1..Len(text)
    BY <1>2, LineOf DEF Registered
  <2>4. n \in RouteLines(text)
    BY <2>2, <2>3 DEF RouteLines
  <2> QED
    BY <1>3, <2>4
<1>f. PICK f : f = [x \in R |-> x - UpTo(G, x)]
  OBVIOUS
<1>6. f \in [R -> S] /\ \A x \in R : f[x] = x - UpTo(G, x)
  BY <1>4, <1>f
<1>7. f \in Bijection(R, S)
  <2>1. ASSUME NEW x \in R, NEW y \in R, f[x] = f[y] PROVE x = y
    <3>1. L[x] = L[y]
      BY <1>3, <1>6, <2>1
    <3> QED
      BY <1>3, <3>1
  <2>2. \A n \in S : \E x \in R : f[x] = n
    BY <1>5, <1>6
  <2> QED
    BY <1>6, <2>1, <2>2 DEF Bijection, Injection, IsInjective, Surjection
<1>8. Cardinality(S) = Cardinality(R)
  <2>1. IsFiniteSet(R)
    <3>1. IsFiniteSet(1..Len(L))
      BY <1>2, FS_Interval
    <3> QED
      BY <1>3, <3>1, FS_Subset
  <2>2. ExistsBijection(R, S)
    BY <1>7 DEF ExistsBijection
  <2> QED
    BY <2>1, <2>2, FS_Bijection
<1>9. Len(text) = Len(L) - Cardinality(G)
  <2>1. L \in Seq(Lines) /\ G \in SUBSET (1..Len(L))
    BY <1>2, <1>G, LineOf
  <2>2. Len(Stripped(L, G)) = Len(L) - Cardinality(G)
    BY <2>1, StrippedIs
  <2>3. Stripped(L, G) = text
    BY <1>1, <1>G DEF UserOf
  <2> QED
    BY <2>2, <2>3
<1>10. Len(L) = Len(text) + 4 * Cardinality(S)
  BY <1>1 DEF Laid
<1>11. Cardinality(G) \in Nat /\ Len(text) \in Nat /\ Cardinality(S) \in Nat
  <2>1. IsFiniteSet(1..Len(L)) /\ IsFiniteSet(1..Len(text)) /\ Len(text) \in Nat
    BY <1>2, LineOf, FS_Interval DEF Registered
  <2>2. G \subseteq 1..Len(L) /\ S \subseteq 1..Len(text)
    BY <1>1, <1>2, <1>G, LineOf DEF Laid
  <2>3. IsFiniteSet(G) /\ IsFiniteSet(S)
    BY <2>1, <2>2, FS_Subset
  <2> QED
    BY <2>1, <2>3, FS_CardinalityType
<1>12. Cardinality(G) = 4 * Cardinality(S)
  <2>1. PICK a, b, c, d : a = Len(L) /\ b = Len(text) /\ c = Cardinality(S) /\ d = Cardinality(G)
    OBVIOUS
  <2>2. a \in Nat /\ b \in Nat /\ c \in Nat /\ d \in Nat /\ b = a - d /\ a = b + 4 * c
    BY <1>2, <1>9, <1>10, <1>11, <2>1
  <2>3. d = 4 * c
    BY <2>2
  <2> QED
    BY <2>1, <2>3
<1> QED
  BY <1>8, <1>12, <1>G, <1>R
-----------------------------------------------------------------------------
(* The file and the writer of a process.                                      *)

WriterFields == {"on", "applied", "fs", "read"}

\* The routes have their lines in what the writer knows of the file.
FileKept(w, L, routes, text) ==
    IF w.read
    THEN Ready(w.fs, routes, text) /\ Told(w.fs, routes, w.applied) /\ w.fs.lines = L
    ELSE w.applied = {} /\ \A r \in DOMAIN routes : r # 0 /\ routes[r] \in 1..Len(L) /\ L[routes[r]].route = r

\* Every route of the process is marked or will be.
MarksKept ==
    /\ DOMAIN writer = WriterFields /\ writer.on = TRUE /\ writer.read \in BOOLEAN
    /\ DOMAIN proc.routes = RoutesOf(userText)
    /\ proc.marks \in Seq((DOMAIN proc.routes) \X Statuses)
    /\ proc.pc # "compiling" => proc.marks = <<>>
    /\ \A r \in DOMAIN proc.routes :
          (\E k \in 1..Len(proc.marks) : proc.marks[k][1] = r) \/ Said(writer.applied, proc.routes[r]) # {}

WriterKept == MarksKept /\ FileKept(writer, tree, proc.routes, userText)

Insertions == writer.fs.inserted \subseteq DOMAIN writer.fs.baseLines

\* The file is what the user wrote and whole blocks; the writer that runs knows them.
TextKept ==
    /\ Shape(tree) /\ UserOf(tree) = userText /\ Insertions
    /\ ~hotReload /\ proc.pc \in {"stopped", "exited"} => OurLines(tree) = {}
    /\ ~hotReload /\ proc.pc \in {"compiling", "up", "draining"} => WriterKept

TextInv ==
    /\ mode = "dev" => editedUnder
    /\ mode = "app" => Registered(userText)
    /\ Undisturbed => TextKept

\* The file state is one of text, and what is in the file.
LEMMA ReadyIs ==
  ASSUME NEW fs, NEW routes, NEW text, Ready(fs, routes, text)
  PROVE  /\ fs \in FileStates /\ DOMAIN fs = {"lines", "baseLines", "removed", "inserted"}
         /\ fs.baseLines = text /\ fs.inserted \subseteq DOMAIN text
         /\ Shape(fs.lines) /\ UserOf(fs.lines) = text /\ Written(text)
<1>1. fs \in FileStates /\ fs.baseLines = text /\ Shape(fs.lines) /\ UserOf(fs.lines) = text /\ Written(text)
      /\ fs.inserted \subseteq 1..Len(text)
  BY DEF Ready, Laid
<1>2. DOMAIN fs = {"lines", "baseLines", "removed", "inserted"}
  BY <1>1 DEF FileStates
<1>3. DOMAIN text = 1..Len(text)
  BY <1>1, LineOf DEF Written, Registered
<1> QED
  BY <1>1, <1>2, <1>3

\* A mark of the writer that runs.
LEMMA MarkStep ==
  ASSUME Shape(tree), UserOf(tree) = userText, Written(userText), NEW routes,
         DOMAIN writer = WriterFields, writer.on = TRUE, writer.read \in BOOLEAN,
         FileKept(writer, tree, routes, userText),
         NEW r \in DOMAIN routes, NEW status \in Statuses, Marks(routes[r], status)
  PROVE  /\ DOMAIN writer' = WriterFields /\ writer'.on = TRUE /\ writer'.read = TRUE
         /\ FileKept(writer', tree', routes, userText)
         /\ Shape(tree') /\ UserOf(tree') = userText
         /\ writer'.fs.inserted \subseteq DOMAIN writer'.fs.baseLines
         /\ Said(writer'.applied, routes[r]) # {}
         /\ \A line : Said(writer.applied, line) # {} => Said(writer'.applied, line) # {}
<1>l. PICK line : line = routes[r]
  OBVIOUS
<1>1. CASE ~Fresh(writer, line, status)
  <2>1. writer' = writer /\ tree' = tree /\ <<line, status>> \in writer.applied
    BY <1>1, <1>l DEF Marks, treeVars, Fresh
  <2>2. writer.read = TRUE /\ Ready(writer.fs, routes, userText)
    BY <2>1 DEF FileKept
  <2>3. Said(writer.applied, line) # {}
    <3>p. PICK p : p = <<line, status>>
      OBVIOUS
    <3>1. p \in writer.applied /\ p[1] = line
      BY <2>1, <3>p
    <3> QED
      BY <3>1 DEF Said
  <2>4. writer.fs.inserted \subseteq DOMAIN writer.fs.baseLines
    BY <2>2, ReadyIs
  <2> QED
    BY <1>l, <2>1, <2>2, <2>3, <2>4
<1>2. CASE Fresh(writer, line, status)
  <2>1. PICK fs : fs = FileState(writer, tree, Generated(tree))
    OBVIOUS
  <2>2. PICK at : at = Place(fs, line)
    OBVIOUS
  <2>3. PICK w : w = Marked(writer, fs, at, line, status)
    OBVIOUS
  <2>4. writer' = w /\ tree' = w.fs.lines
    BY <1>2, <1>l, <2>1, <2>2, <2>3 DEF Marks, Stores
  <2>5. Ready(fs, routes, userText) /\ Told(fs, routes, writer.applied)
    <3>1. CASE writer.read
      BY <2>1, <3>1 DEF FileKept, FileState
    <3>2. CASE ~writer.read
      <4>1. /\ writer.applied = {}
            /\ \A q \in DOMAIN routes : q # 0 /\ routes[q] \in 1..Len(tree) /\ tree[routes[q]].route = q
        BY <3>2 DEF FileKept
      <4> QED
        BY <2>1, <3>2, <4>1, ReadsFile
    <3> QED
      BY <3>1, <3>2
  <2>6. /\ DOMAIN w = WriterFields /\ w.on = TRUE /\ w.read = TRUE
        /\ w.applied = More(writer.applied, line, status)
        /\ w.fs = AfterMark(fs, routes, writer.applied, r, status)
    <3>g. PICK g : g = Annotated(fs, at, status, \A a \in writer.applied : a[1] # line)
      OBVIOUS
    <3>1. w = [writer EXCEPT !.applied = @ \cup {<<line, status>>}, !.read = TRUE, !.fs = g]
      BY <2>3, <3>g DEF Marked
    <3>2. /\ DOMAIN w = WriterFields /\ w.on = TRUE /\ w.read = TRUE /\ w.fs = g
          /\ w.applied = writer.applied \cup {<<line, status>>}
      BY <3>1 DEF WriterFields
    <3>3. AfterMark(fs, routes, writer.applied, r, status) = g
      BY <1>l, <2>2, <3>g DEF AfterMark
    <3> QED
      BY <3>2, <3>3 DEF More
  <2>7. Ready(w.fs, routes, userText) /\ Told(w.fs, routes, w.applied)
    BY <1>l, <2>5, <2>6, Annotates
  <2>8. Said(w.applied, line) # {} /\ \A x : Said(writer.applied, x) # {} => Said(w.applied, x) # {}
    <3>1. Said(w.applied, line) = Said(writer.applied, line) \cup {status}
      BY <2>6, SaidMore
    <3>2. ASSUME NEW x, x # line PROVE Said(w.applied, x) = Said(writer.applied, x)
      BY <2>6, <3>2, SaidSame
    <3> QED
      BY <3>1, <3>2
  <2>9. FileKept(w, w.fs.lines, routes, userText)
    BY <2>6, <2>7 DEF FileKept
  <2>10. /\ w.fs.inserted \subseteq DOMAIN w.fs.baseLines
         /\ Shape(w.fs.lines) /\ UserOf(w.fs.lines) = userText
    BY <2>7, ReadyIs
  <2> QED
    BY <1>l, <2>4, <2>6, <2>8, <2>9, <2>10
<1> QED
  BY <1>1, <1>2

\* The cleanup of the writer that runs.
LEMMA CleanStep ==
  ASSUME NEW routes, DOMAIN writer = WriterFields, writer.read = TRUE,
         FileKept(writer, tree, routes, userText), CleansUp
  PROVE  /\ tree' = userText /\ Shape(tree') /\ UserOf(tree') = userText /\ OurLines(tree') = {}
         /\ writer'.fs.inserted \subseteq DOMAIN writer'.fs.baseLines
<1>1. Ready(writer.fs, routes, userText) /\ writer.fs.lines = tree
  BY DEF FileKept
<1>2. /\ DOMAIN writer.fs = {"lines", "baseLines", "removed", "inserted"}
      /\ writer.fs.baseLines = userText /\ writer.fs.inserted \subseteq DOMAIN userText
      /\ Written(userText)
  BY <1>1, ReadyIs
<1>3. Shape(userText) /\ UserOf(userText) = userText
  BY <1>2, WrittenShape
<1>4. OurLines(userText) = {}
  BY <1>2, LineOf DEF Written, Registered
<1>5. CASE writer.fs.lines = writer.fs.baseLines
  BY <1>1, <1>2, <1>3, <1>4, <1>5 DEF CleansUp, treeVars
<1>6. CASE writer.fs.lines # writer.fs.baseLines
  <2>1. PICK w : w = CleanedUp(writer)
    OBVIOUS
  <2>2. writer' = w /\ tree' = w.fs.lines
    BY <1>6, <2>1 DEF CleansUp, Stores
  <2>3. w.fs = [writer.fs EXCEPT !.lines = userText]
    BY <1>2, <2>1 DEF CleanedUp, WriterFields
  <2>4. w.fs.lines = userText /\ w.fs.inserted = writer.fs.inserted /\ w.fs.baseLines = userText
    BY <1>2, <2>3
  <2> QED
    BY <1>2, <1>3, <1>4, <2>2, <2>4
<1> QED
  BY <1>5, <1>6

\* When all marks are made, the writer has read the file.
LEMMA MarkedAll ==
  ASSUME WriterKept, proc.marks = <<>>, Registered(userText)
  PROVE  writer.read = TRUE
<1>1. PICK i \in RouteLines(userText) : TRUE
  BY DEF Registered
<1>2. userText[i].route \in DOMAIN proc.routes
  BY DEF WriterKept, MarksKept, RoutesOf
<1>3. Len(proc.marks) = 0
  BY EmptySeq
<1>4. \A k \in 1..Len(proc.marks) : FALSE
  BY <1>3
<1>5. Said(writer.applied, proc.routes[userText[i].route]) # {}
  BY <1>2, <1>4 DEF WriterKept, MarksKept
<1>6. writer.applied # {}
  BY <1>5 DEF Said
<1> QED
  BY <1>6 DEF WriterKept, MarksKept, FileKept

\* A process without a writer leaves the file alone.
LEMMA NoWriterWrites ==
  ASSUME writer = NoWriter, CleansUp \/ \E line, status : Marks(line, status)
  PROVE  writer' = writer /\ tree' = tree
<1>1. writer.read = FALSE /\ writer.on = FALSE
  BY DEF NoWriter
<1>2. CASE CleansUp
  BY <1>1, <1>2 DEF CleansUp, treeVars
<1>3. ASSUME NEW line, NEW status, Marks(line, status) PROVE writer' = writer /\ tree' = tree
  <2>1. ~Fresh(writer, line, status)
    BY <1>1 DEF Fresh
  <2> QED
    BY <1>3, <2>1 DEF Marks, treeVars
<1> QED
  BY <1>2, <1>3

\* What is kept under a step that is not an edit.
LEMMA TextStays ==
  ASSUME TextInv, mode = "app", mode' = mode, userText' = userText, editedUnder' = editedUnder,
         lateMark => lateMark',
         ASSUME Undisturbed, ~lateMark', TextKept, Registered(userText), WholeComments(userText) PROVE TextKept'
  PROVE  TextInv'
<1>1. Registered(userText)
  BY DEF TextInv
<1>2. Undisturbed' => Undisturbed /\ ~lateMark' /\ WholeComments(userText)
  BY DEF Undisturbed
<1>3. Undisturbed => TextKept
  BY DEF TextInv
<1>4. Undisturbed' => TextKept'
  BY <1>1, <1>2, <1>3
<1> QED
  BY <1>1, <1>4 DEF TextInv

\* A process that loads the file makes a writer that has not read it.
LEMMA BootText ==
  ASSUME TextKept, Registered(userText), hotReload \in BOOLEAN, Boot
  PROVE  TextKept'
<1>1. /\ tree' = tree /\ hotReload' = hotReload /\ userText' = userText /\ proc'.pc = "compiling"
      /\ writer' = Writer(TRUE, hotReload)
  BY DEF Boot, treeVars
<1>2. Shape(tree) /\ UserOf(tree) = userText /\ tree \in Seq(Lines)
  BY DEF TextKept, Shape
<1>3. /\ DOMAIN writer' = WriterFields /\ writer'.applied = {} /\ writer'.fs = NoState /\ writer'.read = FALSE
      /\ (hotReload = FALSE => writer'.on = TRUE)
  BY <1>1 DEF Writer, NoWriter, WriterFields
<1>4. writer'.fs.inserted \subseteq DOMAIN writer'.fs.baseLines
  BY <1>3 DEF NoState
<1>5. ASSUME hotReload = FALSE PROVE WriterKept'
  <2>1. PICK reg : reg = Stripped([i \in DOMAIN tree |-> tree[i].route], DOMAIN tree \ RouteLines(tree))
    OBVIOUS
  <2>2. /\ proc'.marks = marksFrom(reg)
        /\ proc'.routes = [r \in ToSet(reg) |-> CHOOSE i \in RouteLines(tree) : tree[i].route = r]
    BY <2>1 DEF Boot
  <2>3. reg \in Seq(Nat) /\ ToSet(reg) = RoutesOf(tree) /\ 0 \notin RoutesOf(tree) /\ RouteLines(tree) \subseteq 1..Len(tree)
    BY <1>2, <2>1, RoutesLoaded
  <2>4. RoutesOf(tree) = RoutesOf(userText)
    BY <1>2, RoutesKept
  <2>5. DOMAIN proc'.routes = ToSet(reg)
    BY <2>2
  <2>6. ASSUME NEW r \in ToSet(reg)
        PROVE  r # 0 /\ proc'.routes[r] \in 1..Len(tree) /\ tree[proc'.routes[r]].route = r
    <3>1. \E i \in RouteLines(tree) : tree[i].route = r
      BY <2>3 DEF RoutesOf
    <3>2. proc'.routes[r] = CHOOSE i \in RouteLines(tree) : tree[i].route = r
      BY <2>2
    <3>3. proc'.routes[r] \in RouteLines(tree) /\ tree[proc'.routes[r]].route = r
      BY <3>1, <3>2
    <3> QED
      BY <2>3, <3>3
  <2>7. /\ proc'.marks \in Seq(ToSet(reg) \X Statuses)
        /\ \A r \in ToSet(reg) : \E k \in 1..Len(proc'.marks) : proc'.marks[k][1] = r
    <3>1. /\ marksFrom(reg) \in Seq(ToSet(reg) \X Statuses)
          /\ \A r \in ToSet(reg) : \E k \in 1..Len(marksFrom(reg)) : marksFrom(reg)[k][1] = r
      BY <2>3, MarksAre
    <3>2. proc'.marks = marksFrom(reg)
      BY <2>2
    <3> QED
      BY <3>1, <3>2
  <2>8. MarksKept'
    BY <1>1, <1>3, <1>5, <2>3, <2>4, <2>5, <2>7 DEF MarksKept
  <2>9. FileKept(writer', tree', proc'.routes, userText')
    BY <1>1, <1>3, <2>5, <2>6 DEF FileKept
  <2> QED
    BY <2>8, <2>9 DEF WriterKept
<1> QED
  BY <1>1, <1>2, <1>4, <1>5 DEF TextKept, Insertions

\* A mark of compilation.
LEMMA CompileText ==
  ASSUME TextKept, Registered(userText), WholeComments(userText), hotReload \in BOOLEAN,
         hotReload => writer = NoWriter, DOMAIN proc = {"pc", "rev", "marks", "routes"}, Compile
  PROVE  TextKept'
<1>1. /\ proc.pc = "compiling" /\ proc.marks # <<>> /\ Marks(proc.routes[Head(proc.marks)[1]], Head(proc.marks)[2])
      /\ proc' = [proc EXCEPT !.marks = Tail(@)] /\ hotReload' = hotReload /\ userText' = userText
  BY DEF Compile
<1>2. proc'.pc = "compiling" /\ proc'.routes = proc.routes /\ proc'.marks = Tail(proc.marks)
  BY <1>1
<1>3. Shape(tree) /\ UserOf(tree) = userText
  BY DEF TextKept
<1>4. CASE hotReload = TRUE
  <2>1. writer' = writer /\ tree' = tree
    BY <1>1, <1>4, NoWriterWrites
  <2> QED
    BY <1>1, <1>2, <1>4, <2>1 DEF TextKept, Insertions
<1>5. CASE hotReload = FALSE
  <2>1. WriterKept
    BY <1>1, <1>5 DEF TextKept
  <2>R. PICK R : R = DOMAIN proc.routes
    OBVIOUS
  <2>M. PICK m : m = proc.marks
    OBVIOUS
  <2>2. /\ DOMAIN writer = WriterFields /\ writer.on = TRUE /\ writer.read \in BOOLEAN
        /\ R = RoutesOf(userText) /\ m \in Seq(R \X Statuses)
        /\ \A r \in R : (\E k \in 1..Len(m) : m[k][1] = r) \/ Said(writer.applied, proc.routes[r]) # {}
        /\ FileKept(writer, tree, proc.routes, userText)
    BY <2>1, <2>R, <2>M DEF WriterKept, MarksKept
  <2>3. /\ Len(m) \in Nat /\ Len(m) # 0 /\ Head(m) = m[1] /\ Head(m) \in R \X Statuses
        /\ Tail(m) \in Seq(R \X Statuses) /\ Len(Tail(m)) = Len(m) - 1
        /\ \A k \in 1..(Len(m) - 1) : Tail(m)[k] = m[k + 1]
    <3>1. PICK P : P = R \X Statuses
      OBVIOUS
    <3>2. m \in Seq(P) /\ m # <<>>
      BY <1>1, <2>2, <2>M, <3>1
    <3>3. /\ Len(m) \in Nat /\ Len(m) # 0 /\ Head(m) = m[1] /\ Head(m) \in P
          /\ Tail(m) \in Seq(P) /\ Len(Tail(m)) = Len(m) - 1
      BY <3>2, HeadTailProperties, EmptySeq, LenProperties
    <3>4. \A k \in 1..(Len(m) - 1) : Tail(m)[k] = m[k + 1]
      BY <3>2, <3>3, HeadTailProperties
    <3> QED
      BY <3>1, <3>3, <3>4
  <2>4. PICK r \in R, st \in Statuses : Head(m) = <<r, st>>
    BY <2>3
  <2>5. Marks(proc.routes[r], st) /\ m[1][1] = r
    BY <1>1, <2>M, <2>3, <2>4
  <2>6. Written(userText)
    BY DEF Written
  <2>7. /\ DOMAIN writer' = WriterFields /\ writer'.on = TRUE /\ writer'.read = TRUE
        /\ FileKept(writer', tree', proc.routes, userText)
        /\ Shape(tree') /\ UserOf(tree') = userText
        /\ writer'.fs.inserted \subseteq DOMAIN writer'.fs.baseLines
        /\ Said(writer'.applied, proc.routes[r]) # {}
        /\ \A line : Said(writer.applied, line) # {} => Said(writer'.applied, line) # {}
    BY <1>3, <2>R, <2>2, <2>5, <2>6, MarkStep
  <2>8. ASSUME NEW q \in R
        PROVE  (\E k \in 1..Len(Tail(m)) : Tail(m)[k][1] = q) \/ Said(writer'.applied, proc.routes[q]) # {}
    <3>1. CASE Said(writer.applied, proc.routes[q]) # {}
      BY <2>7, <3>1
    <3>2. ASSUME NEW k \in 1..Len(m), m[k][1] = q
          PROVE  (\E j \in 1..Len(Tail(m)) : Tail(m)[j][1] = q) \/ Said(writer'.applied, proc.routes[q]) # {}
      <4>1. CASE k = 1
        BY <2>5, <2>7, <3>2, <4>1
      <4>2. CASE k # 1
        <5>1. k - 1 \in 1..(Len(m) - 1) /\ (k - 1) + 1 = k
          BY <2>3, <4>2
        <5>2. Tail(m)[k - 1] = m[k] /\ k - 1 \in 1..Len(Tail(m))
          BY <2>3, <5>1
        <5> QED
          BY <3>2, <5>2
      <4> QED
        BY <4>1, <4>2
    <3> QED
      BY <2>2, <3>1, <3>2
  <2>9. MarksKept'
    <3>1. proc'.marks \in Seq((DOMAIN proc'.routes) \X Statuses) /\ DOMAIN proc'.routes = RoutesOf(userText')
      BY <1>1, <1>2, <2>R, <2>M, <2>2, <2>3
    <3>2. \A q \in DOMAIN proc'.routes :
            (\E k \in 1..Len(proc'.marks) : proc'.marks[k][1] = q) \/ Said(writer'.applied, proc'.routes[q]) # {}
      BY <1>2, <2>R, <2>M, <2>8
    <3> QED
      BY <1>2, <2>7, <3>1, <3>2 DEF MarksKept
  <2>10. FileKept(writer', tree', proc'.routes, userText')
    BY <1>1, <1>2, <2>7
  <2> QED
    BY <1>1, <1>2, <2>7, <2>9, <2>10 DEF TextKept, Insertions, WriterKept
<1> QED
  BY <1>4, <1>5

\* A promotion by a process that is not stopped.
LEMMA PromoteText ==
  ASSUME TextKept, Registered(userText), WholeComments(userText), hotReload \in BOOLEAN,
         hotReload => writer = NoWriter, NEW r \in DOMAIN proc.routes, Promote(r), proc.pc # "stopped"
  PROVE  TextKept'
<1>1. /\ proc.pc \in {"up", "draining"} /\ Fresh(writer, proc.routes[r], "runtime-cache-promoted")
      /\ Marks(proc.routes[r], "runtime-cache-promoted")
      /\ proc' = proc /\ hotReload' = hotReload /\ userText' = userText
  BY DEF Promote
<1>2. hotReload = FALSE
  BY <1>1 DEF Fresh, NoWriter
<1>3. WriterKept /\ Shape(tree) /\ UserOf(tree) = userText
  BY <1>1, <1>2 DEF TextKept
<1>4. "runtime-cache-promoted" \in Statuses
  BY DEF Statuses
<1>5. /\ DOMAIN writer = WriterFields /\ writer.on = TRUE /\ writer.read \in BOOLEAN
      /\ FileKept(writer, tree, proc.routes, userText) /\ Written(userText)
  BY <1>3 DEF WriterKept, MarksKept, Written
<1>6. /\ DOMAIN writer' = WriterFields /\ writer'.on = TRUE /\ writer'.read = TRUE
      /\ FileKept(writer', tree', proc.routes, userText)
      /\ Shape(tree') /\ UserOf(tree') = userText
      /\ writer'.fs.inserted \subseteq DOMAIN writer'.fs.baseLines
      /\ \A line : Said(writer.applied, line) # {} => Said(writer'.applied, line) # {}
  BY <1>1, <1>3, <1>4, <1>5, MarkStep
<1>7. MarksKept'
  BY <1>1, <1>3, <1>6 DEF WriterKept, MarksKept
<1> QED
  BY <1>1, <1>6, <1>7 DEF TextKept, Insertions, WriterKept

\* A process that ends takes its comments back.
LEMMA CleanText ==
  ASSUME TextKept, Registered(userText), hotReload \in BOOLEAN, hotReload => writer = NoWriter,
         proc.pc \in {"compiling", "up", "draining"}, hotReload = FALSE => proc.marks = <<>>, CleansUp,
         hotReload' = hotReload, userText' = userText, proc'.pc \in {"stopped", "exited", "restarting"}
  PROVE  TextKept'
<1>1. CASE hotReload = TRUE
  <2>1. writer' = writer /\ tree' = tree
    BY <1>1, NoWriterWrites
  <2> QED
    BY <1>1, <2>1 DEF TextKept, Insertions
<1>2. CASE hotReload = FALSE
  <2>1. WriterKept
    BY <1>2 DEF TextKept
  <2>2. DOMAIN writer = WriterFields /\ writer.read = TRUE /\ FileKept(writer, tree, proc.routes, userText)
    BY <1>2, <2>1, MarkedAll DEF WriterKept, MarksKept
  <2>3. /\ Shape(tree') /\ UserOf(tree') = userText /\ OurLines(tree') = {}
        /\ writer'.fs.inserted \subseteq DOMAIN writer'.fs.baseLines
    BY <2>2, CleanStep
  <2>4. proc'.pc \notin {"compiling", "up", "draining"}
    OBVIOUS
  <2> QED
    BY <2>3, <2>4 DEF TextKept, Insertions
<1> QED
  BY <1>1, <1>2

\* The user edits a file that no writer has read.
LEMMA EditText ==
  ASSUME TextInv, mode = "app", mode' = mode, hotReload \in BOOLEAN, Edit
  PROVE  TextInv'
<1>1. /\ tree' = OneMore(tree) /\ userText' = OneMore(userText) /\ UNCHANGED <<hotReload, proc, writer, lateMark>>
      /\ editedUnder' = (editedUnder \/ (~hotReload /\ proc.pc \notin {"exec", "exited", "killed"}))
  BY DEF Edit, OneMore
<1>2. Registered(userText)
  BY DEF TextInv
<1>3. Registered(userText') /\ (WholeComments(userText') => WholeComments(userText))
  BY <1>1, <1>2, OneMoreWritten
<1>4. ASSUME Undisturbed' PROVE TextKept'
  <2>1. Undisturbed /\ (hotReload = FALSE => proc.pc \in {"exec", "exited", "killed"})
    BY <1>1, <1>3, <1>4 DEF Undisturbed
  <2>2. TextKept
    BY <2>1 DEF TextInv
  <2>3. /\ Shape(tree') /\ UserOf(tree') = userText'
        /\ (OurLines(tree) = {} => OurLines(tree') = {})
    BY <1>1, <2>2, OneMoreShape DEF TextKept
  <2> QED
    BY <1>1, <2>1, <2>2, <2>3 DEF TextKept, Insertions
<1> QED
  BY <1>3, <1>4 DEF TextInv

\* Every step of a process of its own leaves the user's lines in place.
LEMMA TextSteps ==
  ASSUME IInv, TextInv, App(HotNext)
  PROVE  TextInv'
<1>1. mode = "app" /\ mode' = mode /\ HotNext /\ HotTypes /\ Restarts /\ Sound(watch)
  BY DEF IInv, Files, HotInv, App, Sound
<1>2. /\ hotReload \in BOOLEAN /\ DOMAIN proc = {"pc", "rev", "marks", "routes"}
      /\ hotReload => writer = NoWriter
      /\ watch.restartTimer => hotReload /\ proc.pc \in {"up", "draining"}
      /\ proc.pc = "restarting" => hotReload
  BY <1>1 DEF HotTypes, Restarts, Sound
<1>3. ASSUME NEW pc, proc' = [proc EXCEPT !.pc = pc]
      PROVE  proc'.pc = pc /\ proc'.marks = proc.marks /\ proc'.routes = proc.routes
  BY <1>2, <1>3
<1>4. CASE Boot
  <2>1. UNCHANGED <<userText, editedUnder, lateMark>>
    BY <1>4 DEF Boot
  <2> QED
    BY <1>1, <1>2, <1>4, <2>1, BootText, TextStays
<1>5. CASE Compile
  <2>1. UNCHANGED <<userText, editedUnder, lateMark>>
    BY <1>5 DEF Compile
  <2> QED
    BY <1>1, <1>2, <1>5, <2>1, CompileText, TextStays
<1>6. CASE Start
  <2>1. /\ UNCHANGED <<tree, hotReload, writer, userText, editedUnder, lateMark>>
        /\ proc.pc = "compiling" /\ proc.marks = <<>>
        /\ proc'.pc = "up" /\ proc'.marks = proc.marks /\ proc'.routes = proc.routes
    BY <1>3, <1>6 DEF Start, treeVars
  <2>2. ASSUME TextKept PROVE TextKept'
    BY <2>1, <2>2 DEF TextKept, Insertions, WriterKept, MarksKept
  <2> QED
    BY <1>1, <2>1, <2>2, TextStays
<1>7. ASSUME NEW r \in DOMAIN proc.routes \cap Tracked, Promote(r)
      PROVE  TextInv'
  <2>1. UNCHANGED <<userText, editedUnder>> /\ lateMark' = (lateMark \/ proc.pc = "stopped")
    BY <1>7 DEF Promote
  <2>2. ASSUME TextKept, Registered(userText), WholeComments(userText), ~lateMark' PROVE TextKept'
    <3>1. proc.pc # "stopped" /\ r \in DOMAIN proc.routes
      BY <2>1, <2>2
    <3> QED
      BY <1>2, <1>7, <2>2, <3>1, PromoteText
  <2> QED
    BY <1>1, <2>1, <2>2, TextStays
<1>8. CASE CloseServer
  <2>1. /\ UNCHANGED <<hotReload, userText, editedUnder, lateMark>> /\ CleansUp
        /\ proc.pc \in {"up", "draining"} /\ proc'.pc = "stopped"
    BY <1>3, <1>8 DEF CloseServer
  <2>2. ASSUME TextKept, Registered(userText) PROVE TextKept'
    <3>1. hotReload = FALSE => proc.marks = <<>>
      BY <2>1, <2>2 DEF TextKept, WriterKept, MarksKept
    <3> QED
      BY <1>2, <2>1, <2>2, <3>1, CleanText
  <2> QED
    BY <1>1, <2>1, <2>2, TextStays
<1>9. CASE Shutdown
  <2>1. /\ UNCHANGED <<tree, hotReload, writer, userText, editedUnder, lateMark>>
        /\ proc.pc = "up"
        /\ proc'.pc = "draining" /\ proc'.marks = proc.marks /\ proc'.routes = proc.routes
    BY <1>3, <1>9 DEF Shutdown, treeVars
  <2>2. ASSUME TextKept PROVE TextKept'
    BY <2>1, <2>2 DEF TextKept, Insertions, WriterKept, MarksKept
  <2> QED
    BY <1>1, <2>1, <2>2, TextStays
<1>10. CASE Exit
  <2>1. /\ UNCHANGED <<hotReload, userText, editedUnder, lateMark>>
        /\ proc.pc \in {"compiling", "up", "stopped"} /\ proc.marks = <<>> /\ proc'.pc = "exited"
        /\ IF proc.pc = "stopped" THEN UNCHANGED <<writer, treeVars>> ELSE CleansUp
    BY <1>3, <1>10 DEF Exit
  <2>2. ASSUME TextKept, Registered(userText) PROVE TextKept'
    <3>1. CASE proc.pc = "stopped"
      BY <2>1, <2>2, <3>1 DEF TextKept, Insertions, treeVars
    <3>2. CASE proc.pc # "stopped"
      BY <1>2, <2>1, <2>2, <3>2, CleanText
    <3> QED
      BY <3>1, <3>2
  <2> QED
    BY <1>1, <2>1, <2>2, TextStays
<1>11. CASE Killed
  <2>1. UNCHANGED <<tree, hotReload, writer, userText, editedUnder, lateMark>> /\ proc'.pc = "killed"
    BY <1>3, <1>11 DEF Killed, treeVars
  <2>2. ASSUME TextKept PROVE TextKept'
    BY <2>1, <2>2 DEF TextKept, Insertions
  <2> QED
    BY <1>1, <2>1, <2>2, TextStays
<1>12. ASSUME UNCHANGED <<tree, hotReload, userText, editedUnder, lateMark>>, proc'.pc = "exec", writer' = NoWriter
       PROVE  TextInv'
  <2>1. writer'.fs.inserted \subseteq DOMAIN writer'.fs.baseLines
    BY <1>12 DEF NoWriter, NoState
  <2>2. ASSUME TextKept PROVE TextKept'
    BY <1>12, <2>1, <2>2 DEF TextKept, Insertions
  <2> QED
    BY <1>1, <1>12, <2>2, TextStays
<1>13. CASE RunAgain
  <2>1. UNCHANGED <<tree, hotReload, userText, editedUnder, lateMark>> /\ proc'.pc = "exec" /\ writer' = NoWriter
    BY <1>3, <1>13 DEF RunAgain, treeVars
  <2> QED
    BY <1>12, <2>1
<1>14. CASE Edit
  BY <1>1, <1>2, <1>14, EditText
<1>15. CASE HotWatchStep
  <2>1. UNCHANGED <<tree, hotReload, proc, writer, userText, editedUnder, lateMark>>
    BY <1>15 DEF HotWatchStep, StartupOver, Poll, hotVars, treeVars
  <2>2. ASSUME TextKept PROVE TextKept'
    BY <2>1, <2>2 DEF TextKept, Insertions, WriterKept, MarksKept
  <2> QED
    BY <1>1, <2>1, <2>2, TextStays
<1>16. CASE HotChange
  <2>1. /\ UNCHANGED <<hotReload, userText, editedUnder, lateMark>> /\ CleansUp
        /\ watch.restartTimer /\ proc'.pc = "restarting"
    BY <1>3, <1>16 DEF HotChange
  <2>2. ASSUME TextKept, Registered(userText) PROVE TextKept'
    BY <1>2, <2>1, <2>2, CleanText
  <2> QED
    BY <1>1, <2>1, <2>2, TextStays
<1>17. CASE Spawn
  <2>1. UNCHANGED <<tree, hotReload, userText, editedUnder, lateMark>> /\ proc'.pc = "exec" /\ writer' = NoWriter
    BY <1>3, <1>17 DEF Spawn, treeVars
  <2> QED
    BY <1>12, <2>1
<1>18. CASE SpawnFails
  <2>1. /\ UNCHANGED <<tree, hotReload, writer, userText, editedUnder, lateMark>>
        /\ proc.pc = "restarting" /\ proc'.pc = "exited"
    BY <1>3, <1>18 DEF SpawnFails, treeVars
  <2>2. ASSUME TextKept PROVE TextKept'
    BY <1>2, <2>1, <2>2 DEF TextKept, Insertions
  <2> QED
    BY <1>1, <2>1, <2>2, TextStays
<1> QED
  BY <1>1, <1>4, <1>5, <1>6, <1>7, <1>8, <1>9, <1>10, <1>11, <1>13, <1>14, <1>15, <1>16, <1>17, <1>18 DEF HotNext

\* The file is what the user wrote at the start.
LEMMA TextInit == Init => TextInv
<1>1. ASSUME mode = "dev", HotIdle PROVE TextInv
  BY <1>1 DEF HotIdle, TextInv, Undisturbed
<1>2. ASSUME mode = "app", HotInit PROVE TextInv
  <2>1. /\ tree \in Texts /\ userText = UserOf(tree) /\ proc.pc = "exec" /\ writer = NoWriter
    BY <1>2 DEF HotInit, UserOf
  <2>2. Registered(userText)
    BY <2>1, TextRegistered
  <2>3. ASSUME Undisturbed PROVE TextKept
    <3>1. Shape(tree)
      BY <2>1, <2>3, TextShape DEF Undisturbed
    <3>2. Insertions
      BY <2>1 DEF Insertions, NoWriter, NoState
    <3> QED
      BY <2>1, <3>1, <3>2 DEF TextKept
  <2> QED
    BY <1>2, <2>2, <2>3 DEF TextInv
<1> QED
  BY <1>1, <1>2 DEF Init

\* No step leaves the invariant.
LEMMA TextInductive == IInv /\ TextInv /\ [Next]_vars => TextInv'
<1> SUFFICES ASSUME IInv, TextInv, [Next]_vars PROVE TextInv'
  OBVIOUS
<1>1. CASE Dev(DevNext)
  <2>1. mode = "dev" /\ mode' = mode /\ UNCHANGED hotVars
    BY <1>1 DEF Dev
  <2> QED
    BY <2>1 DEF TextInv, Undisturbed, hotVars
<1>2. CASE App(HotNext)
  BY <1>2, TextSteps
<1>3. CASE UNCHANGED vars
  <2>1. UNCHANGED <<mode, tree, hotReload, proc, writer, userText, editedUnder, lateMark>>
    BY <1>3 DEF vars, treeVars, hotVars
  <2> QED
    BY <2>1 DEF TextInv, Undisturbed, TextKept, Insertions, WriterKept, MarksKept
<1> QED
  BY <1>1, <1>2, <1>3 DEF Next

\* The invariant holds throughout.
LEMMA TextAlways == Spec => []TextInv
  BY InvAlways, TextInit, TextInductive, PTL DEF Spec

\* Every route has its block in the invariant.
LEMMA BlocksStay == IInv /\ TextInv => BlocksInPlace
<1> SUFFICES ASSUME IInv, TextInv PROVE BlocksInPlace
  OBVIOUS
<1>1. mode \in {"dev", "app"} /\ HotTypes /\ (mode = "app" => Restarts)
  BY DEF IInv, Files, HotInv
<1>2. ASSUME Undisturbed PROVE mode = "app" /\ TextKept /\ Registered(userText) /\ tree \in Seq(Lines)
  BY <1>1, <1>2 DEF TextInv, Undisturbed, TextKept, Shape
<1>3. ASSUME writer.on, proc.pc \in {"compiling", "up", "draining"}, proc.marks = <<>>, Undisturbed
      PROVE  /\ \A i \in RouteLines(tree) :
                  /\ i > 4 /\ \A j \in (i - 4)..(i - 1) : tree[j].ours
                  /\ ToSet(tree[i - 3].statuses)
                       = {a[2] : a \in {b \in writer.applied : b[1] = proc.routes[tree[i].route]}}
             /\ Cardinality({i \in DOMAIN tree : tree[i].ours}) = 4 * Cardinality(RouteLines(tree))
  <2>1. TextKept /\ Registered(userText) /\ Restarts /\ hotReload \in BOOLEAN
    BY <1>1, <1>2, <1>3 DEF HotTypes
  <2>2. hotReload = FALSE
    BY <1>3, <2>1 DEF Restarts, NoWriter
  <2>3. WriterKept
    BY <1>3, <2>1, <2>2 DEF TextKept
  <2>4. writer.read = TRUE
    BY <1>3, <2>1, <2>3, MarkedAll
  <2>5. /\ Ready(writer.fs, proc.routes, userText) /\ Told(writer.fs, proc.routes, writer.applied)
        /\ tree = writer.fs.lines
    BY <2>3, <2>4 DEF WriterKept, FileKept
  <2>6. DOMAIN proc.routes = RoutesOf(userText)
    BY <2>3 DEF WriterKept, MarksKept
  <2>7. \A r \in DOMAIN proc.routes : Said(writer.applied, proc.routes[r]) # {}
    <3>1. \A k \in 1..Len(proc.marks) : FALSE
      BY <1>3, EmptySeq
    <3> QED
      BY <2>3, <3>1 DEF WriterKept, MarksKept
  <2>8. ASSUME NEW i \in RouteLines(tree)
        PROVE  /\ i > 4 /\ \A j \in (i - 4)..(i - 1) : tree[j].ours
               /\ ToSet(tree[i - 3].statuses) = Said(writer.applied, proc.routes[tree[i].route])
    <3>1. HasBlock(tree, writer.fs, proc.routes, writer.applied, i)
      BY <2>5, <2>6, <2>7, BlocksAbove
    <3>2. Block(tree, i - 4) /\ ToSet(tree[i - 3].statuses) = Said(writer.applied, proc.routes[tree[i].route])
      BY <3>1 DEF HasBlock
    <3>3. Len(tree) \in Nat /\ i \in 1..Len(tree)
      BY <1>2, <1>3, LineOf DEF RouteLines
    <3>4. i - 4 \in 1..Len(tree)
      BY <3>2 DEF Block
    <3>5. i > 4 /\ (i - 4) + 3 = i - 1
      BY <3>3, <3>4
    <3>6. \A j \in (i - 4)..(i - 1) : tree[j].ours
      <4>1. \A j \in (i - 4)..((i - 4) + 3) : tree[j].ours
        BY <1>2, <1>3, <3>2, BlockLines
      <4> QED
        BY <3>5, <4>1
    <3> QED
      BY <3>2, <3>5, <3>6
  <2>9. Cardinality(OurLines(tree)) = 4 * Cardinality(RouteLines(tree))
    BY <2>5, <2>6, <2>7, BlocksCounted
  <2> QED
    BY <2>8, <2>9 DEF Said, OurLines
<1>4. OneBlockEach
  BY <1>3 DEF OneBlockEach
<1>5. CommentsTakenBack
  <2> SUFFICES ASSUME ~hotReload, proc.pc \in {"stopped", "exited"}, Undisturbed
               PROVE  \A i \in DOMAIN tree : ~tree[i].ours
    BY DEF CommentsTakenBack
  <2>1. OurLines(tree) = {}
    BY <1>2 DEF TextKept
  <2> QED
    BY <2>1 DEF OurLines
<1>6. Undisturbed => writer.fs.inserted \subseteq DOMAIN writer.fs.baseLines
  BY <1>2 DEF TextKept, Insertions
<1> QED
  BY <1>4, <1>5, <1>6 DEF BlocksInPlace

\* Through marks, cleanups, restarts, kills that leave comments behind and edits between runs, the
\* file without the generated lines is what the user wrote, whatever the file holds (whole doc
\* comments anywhere, // comments of an older writer) and however many routes it registers
\* (dev/comments.js:78-131, 277-319).
THEOREM UserLinesAreKept == Spec => []UserLinesKept
<1>1. TextInv => UserLinesKept
  BY DEF TextInv, TextKept, UserLinesKept, UserOf
<1> QED
  BY <1>1, TextAlways, PTL

\* While a process runs, every route has one block directly above it that says exactly what the
\* route was marked with, and there is no other generated line; an orderly end takes all of them
\* back; and the lines the writer counts insertions at are lines of its base
\* (dev/comments.js:61-131, 259-275).
THEOREM BlocksStayInPlace == Spec => []BlocksInPlace
  BY BlocksStay, InvAlways, TextAlways, PTL
=============================================================================
