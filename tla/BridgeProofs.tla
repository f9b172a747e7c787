----------------------------- MODULE BridgeProofs -----------------------------
(***************************************************************************)
(* For every number of requests, generations and thresholds, every pool limit *)
(* and every set of routes: a pooled request object serves one dispatch at a  *)
(* time and shows it its own request, only stable responses are promoted, the *)
(* source a probe writes answers as the handler does, a function gets the     *)
(* fields it reads, whatever functions its plan was merged from, and what one *)
(* side of the bridge encodes the other one reads back.                      *)
(***************************************************************************)
EXTENDS Bridge, SequenceTheorems, FiniteSetTheorems, WellFoundedInduction, TLAPS

Object == [owner : 0..N, slot : [Slots -> 0..N]]
Fields == {"pc", "obj", "gen", "shown", "lateWrite", "answer"}

(* The types of the pool and of what the requests know of it.  A request whose *)
(* code runs, awaited or left behind, refers to an object.                    *)
PoolTypes ==
    /\ obj \in Seq(Object)
    /\ requestPool \in Seq(1..Len(obj))
    /\ DOMAIN rq = Requests
    /\ \A r \in Requests :
          /\ DOMAIN rq[r] = Fields
          /\ rq[r].pc \in {"new", "running", "loose", "done"}
          /\ Runs(r) => rq[r].obj \in 1..Len(obj)

IInv == PoolTypes /\ PoolExclusive

LEMMA NewObjectType == NewObject \in Object
  BY BridgeAssumption DEF NewObject, Object

(* What is left of a pool whose last object was taken.                        *)
LEMMA FrontOf ==
  ASSUME NEW S, NEW s \in Seq(S), s # <<>>
  PROVE  /\ Front(s) \in Seq(S) /\ Len(s) \in Nat \ {0} /\ Len(Front(s)) = Len(s) - 1
         /\ \A i \in 1..Len(s) - 1 : Front(s)[i] = s[i]
<1>1. Len(s) \in Nat \ {0}
  BY EmptySeq
<1>2. Front(s) = SubSeq(s, 1, Len(s) - 1)
  BY DEF Front
<1>3. \A i \in 1..Len(s) - 1 : s[i] \in S
  BY <1>1
<1> DEFINE n == Len(s) - 1
<1>4. n \in Nat /\ 1 \in Int /\ n \in Int /\ n - 1 + 1 = n
  BY <1>1
<1>5. /\ SubSeq(s, 1, n) \in Seq(S)
      /\ Len(SubSeq(s, 1, n)) = IF 1 <= n THEN n - 1 + 1 ELSE 0
      /\ \A i \in 1..n - 1 + 1 : SubSeq(s, 1, n)[i] = s[1 + i - 1]
  <2> HIDE DEF n
  <2> QED
    BY <1>3, <1>4, SubSeqProperties DEF n
<1>6. \A i \in 1..n : SubSeq(s, 1, n)[i] = s[i]
  <2> HIDE DEF n
  <2> QED
    BY <1>4, <1>5
<1> QED
  BY <1>1, <1>2, <1>4, <1>5, <1>6

(* A step that leaves the pool, the owners of objects and the requests that    *)
(* run alone preserves the invariant; a request may stop running.              *)
LEMMA Others ==
  ASSUME IInv,
         requestPool' = requestPool, obj' \in Seq(Object), Len(obj') = Len(obj),
         \A o \in 1..Len(obj) : obj'[o].owner = obj[o].owner,
         DOMAIN rq' = Requests,
         \A r \in Requests :
            /\ DOMAIN rq'[r] = Fields
            /\ rq'[r].pc \in {"new", "running", "loose", "done"}
            /\ rq'[r].pc = "running" => rq[r].pc = "running"
            /\ rq'[r].pc \in {"running", "loose"} => Runs(r) /\ rq'[r].obj = rq[r].obj
  PROVE  IInv'
<1>1. PoolTypes'
  BY DEF IInv, PoolTypes, Runs
<1>2. PoolExclusive'
  BY DEF IInv, PoolTypes, PoolExclusive, Runs, Requests
<1> QED
  BY <1>1, <1>2 DEF IInv

(* buildRequest: the object that leaves the pool, or is created, belongs to the *)
(* request and to nobody else that runs.                                       *)
LEMMA AcquireStep ==
  ASSUME IInv, NEW r \in Requests, rq[r].pc = "new", Acquire(r)
  PROVE  IInv'
<1> DEFINE o == IF requestPool = <<>> THEN Len(obj) + 1 ELSE requestPool[Len(requestPool)]
           objs == IF requestPool = <<>> THEN Append(obj, NewObject) ELSE obj
<1>1. /\ objs \in Seq(Object) /\ Len(obj) \in Nat /\ Len(objs) >= Len(obj) /\ Len(objs) \in Nat
      /\ o \in 1..Len(objs)
      /\ \A i \in 1..Len(obj) : objs[i] = obj[i]
  BY NewObjectType DEF IInv, PoolTypes
<1>2. /\ requestPool' \in Seq(1..Len(obj)) /\ Len(requestPool') <= Len(requestPool)
      /\ \A i \in 1..Len(requestPool') : i \in 1..Len(requestPool) /\ requestPool'[i] = requestPool[i]
      /\ \A i \in 1..Len(requestPool') : requestPool'[i] # o
      /\ requestPool # <<>> => \E i \in 1..Len(requestPool) : requestPool[i] = o
  <2>1. CASE requestPool = <<>>
    BY <2>1 DEF Acquire, AfterAcquire, IInv, PoolTypes
  <2>2. CASE requestPool # <<>>
    <3>1. requestPool' = Front(requestPool)
      BY <2>2 DEF Acquire, AfterAcquire
    <3>2. requestPool \in Seq(1..Len(obj))
      BY DEF IInv, PoolTypes
    <3>3. /\ requestPool' \in Seq(1..Len(obj)) /\ Len(requestPool) \in Nat \ {0}
          /\ Len(requestPool') = Len(requestPool) - 1
          /\ \A i \in 1..Len(requestPool) - 1 : requestPool'[i] = requestPool[i]
      BY <2>2, <3>1, <3>2, FrontOf
    <3>4. o = requestPool[Len(requestPool)]
      BY <2>2
    <3> HIDE DEF o
    <3>5. \A i \in 1..Len(requestPool') : i \in 1..Len(requestPool) /\ i # Len(requestPool)
      BY <3>3
    <3>6. \A i \in 1..Len(requestPool') : requestPool'[i] # o
      <4>1. \A i, j \in 1..Len(requestPool) : requestPool[i] = requestPool[j] => i = j
        BY DEF IInv, PoolExclusive
      <4>2. Len(requestPool) \in 1..Len(requestPool)
        BY <3>3
      <4> SUFFICES ASSUME NEW i \in 1..Len(requestPool') PROVE requestPool'[i] # o
        OBVIOUS
      <4>3. i \in 1..Len(requestPool) /\ i # Len(requestPool) /\ requestPool'[i] = requestPool[i]
        BY <3>3, <3>5
      <4> QED
        BY <3>4, <4>1, <4>2, <4>3
    <3> QED
      BY <3>3, <3>4, <3>5, <3>6
  <2> QED
    BY <2>1, <2>2
<1>3. /\ obj' \in Seq(Object) /\ Len(obj') = Len(objs) /\ obj'[o].owner = r
      /\ \A i \in 1..Len(obj) : i # o => obj'[i] = obj[i]
  <2> DEFINE new == [owner |-> r, slot |-> [s \in Slots |-> IF ClearedOnAcquire(s) THEN 0 ELSE objs[o].slot[s]]]
  <2>1. obj' = [objs EXCEPT ![o] = new]
    BY DEF Acquire
  <2> HIDE DEF objs, o
  <2>2. objs[o] \in Object
    BY <1>1
  <2>3. new \in Object /\ new.owner = r
    BY <2>2, BridgeAssumption DEF Object, Requests
  <2> HIDE DEF new
  <2> QED
    BY <1>1, <2>1, <2>3
<1>4. /\ DOMAIN rq' = Requests
      /\ rq'[r].pc = "running" /\ rq'[r].obj = o /\ DOMAIN rq'[r] = Fields
      /\ \A q \in Requests : q # r => rq'[q] = rq[q]
  BY DEF Acquire, IInv, PoolTypes, Fields
<1> HIDE DEF o, objs
<1>5. PoolTypes'
  BY <1>1, <1>2, <1>3, <1>4, SMTT(30) DEF IInv, PoolTypes, Runs
<1>6. \A q \in Requests : rq[q].pc = "running" => rq[q].obj # o
  <2>1. CASE requestPool = <<>>
    BY <2>1 DEF IInv, PoolTypes, Runs, o
  <2>2. CASE requestPool # <<>>
    BY <2>2, <1>2 DEF IInv, PoolExclusive
  <2> QED
    BY <2>1, <2>2
<1>7. PoolExclusive'
  <2>1. Len(requestPool') <= REQUEST_POOL_MAX
    BY <1>1, <1>2, BridgeAssumption DEF IInv, PoolTypes, PoolExclusive
  <2>2. \A i, j \in 1..Len(requestPool') : requestPool'[i] = requestPool'[j] => i = j
    BY <1>2 DEF IInv, PoolExclusive
  <2>3. ASSUME NEW q \in Requests, rq'[q].pc = "running"
        PROVE  /\ obj'[rq'[q].obj].owner = q
               /\ \A i \in 1..Len(requestPool') : requestPool'[i] # rq'[q].obj
    <3>1. CASE q = r
      BY <3>1, <1>2, <1>3, <1>4
    <3>2. CASE q # r
      <4>1. rq[q].pc = "running" /\ rq'[q].obj = rq[q].obj /\ rq[q].obj \in 1..Len(obj) /\ rq[q].obj # o
        BY <2>3, <3>2, <1>4, <1>6 DEF IInv, PoolTypes, Runs
      <4>2. obj'[rq[q].obj].owner = q
        BY <4>1, <1>3 DEF IInv, PoolExclusive
      <4> QED
        BY <4>1, <4>2, <1>2 DEF IInv, PoolExclusive
    <3> QED
      BY <3>1, <3>2
  <2> QED
    BY <2>1, <2>2, <2>3 DEF PoolExclusive
<1> QED
  BY <1>5, <1>7 DEF IInv

(* The end of a dispatch, whose object goes back into a pool that does not hold *)
(* it, or is dropped.                                                         *)
LEMMA ReleaseStep ==
  ASSUME IInv, NEW r \in Requests, rq[r].pc = "running", NEW loose \in BOOLEAN,
         Release(rq[r].obj), rq' = Ended(r, loose)
  PROVE  IInv'
<1> DEFINE o == rq[r].obj
<1>1. /\ DOMAIN rq' = Requests /\ rq'[r].pc \in {"loose", "done"} /\ DOMAIN rq'[r] = Fields
      /\ rq'[r].pc = "loose" => rq'[r].obj = o
      /\ \A q \in Requests : q # r => rq'[q] = rq[q]
  BY DEF Ended, IInv, PoolTypes, Fields
<1>2. o \in 1..Len(obj) /\ obj[o].owner = r /\ Len(obj) \in Nat
  BY DEF IInv, PoolTypes, PoolExclusive, Runs
<1>3. CASE Len(requestPool) >= REQUEST_POOL_MAX
  <2>1. obj' = obj /\ requestPool' = requestPool
    BY <1>3 DEF Release, poolVars
  <2> QED
    BY <1>1, <2>1, Others DEF IInv, PoolTypes, Runs
<1>4. CASE ~(Len(requestPool) >= REQUEST_POOL_MAX)
  <2>1. requestPool' = Append(requestPool, o)
    BY <1>4 DEF Release
  <2>2. /\ obj' \in Seq(Object) /\ Len(obj') = Len(obj)
        /\ \A i \in 1..Len(obj) : i # o => obj'[i] = obj[i]
    <3> DEFINE new == [owner |-> 0, slot |-> [s \in Slots |-> IF s \in ClearedOnRelease THEN 0 ELSE obj[o].slot[s]]]
    <3>1. obj' = [obj EXCEPT ![o] = new]
      BY <1>4 DEF Release
    <3>2. obj[o] \in Object /\ obj \in Seq(Object)
      BY <1>2 DEF IInv, PoolTypes
    <3>3. new \in Object
      BY <3>2, BridgeAssumption, SMTT(30) DEF Object
    <3> HIDE DEF o, new
    <3> QED
      BY <1>2, <3>1, <3>2, <3>3
  <2>3. /\ requestPool' \in Seq(1..Len(obj)) /\ Len(requestPool') = Len(requestPool) + 1
        /\ requestPool'[Len(requestPool) + 1] = o /\ Len(requestPool) \in Nat
        /\ \A i \in 1..Len(requestPool) : requestPool'[i] = requestPool[i]
    BY <1>2, <2>1 DEF IInv, PoolTypes
  <2>4. \A i \in 1..Len(requestPool) : requestPool[i] # o
    BY DEF IInv, PoolExclusive
  <2>5. \A q \in Requests : q # r /\ rq[q].pc = "running" => rq[q].obj # o
    BY <1>2 DEF IInv, PoolExclusive
  <2> HIDE DEF o
  <2>6. PoolTypes'
    BY <1>1, <1>2, <2>2, <2>3 DEF IInv, PoolTypes, Runs
  <2>7. PoolExclusive'
    <3>1. Len(requestPool') <= REQUEST_POOL_MAX
      BY <1>4, <2>3, BridgeAssumption
    <3>2. \A i, j \in 1..Len(requestPool') : requestPool'[i] = requestPool'[j] => i = j
      BY <2>3, <2>4, SMTT(30) DEF IInv, PoolExclusive
    <3>3. ASSUME NEW q \in Requests, rq'[q].pc = "running"
          PROVE  /\ obj'[rq'[q].obj].owner = q
                 /\ \A i \in 1..Len(requestPool') : requestPool'[i] # rq'[q].obj
      <4>1. q # r /\ rq[q].pc = "running" /\ rq'[q].obj = rq[q].obj /\ rq[q].obj \in 1..Len(obj)
        BY <3>3, <1>1 DEF IInv, PoolTypes, Runs
      <4>2. obj'[rq[q].obj].owner = q
        BY <4>1, <2>2, <2>5 DEF IInv, PoolExclusive
      <4> QED
        BY <4>1, <4>2, <2>3, <2>5 DEF IInv, PoolExclusive
    <3> QED
      BY <3>1, <3>2, <3>3 DEF PoolExclusive
  <2> QED
    BY <2>6, <2>7 DEF IInv
<1> QED
  BY <1>3, <1>4

(* No pool, no objects and no request that runs: the codec, plan and probe     *)
(* modes start with the same objects as serving does.                         *)
LEMMA InitInv == Init => IInv
<1> SUFFICES ASSUME Init PROVE IInv
  OBVIOUS
<1>1. /\ obj = <<>> /\ requestPool = <<>> /\ rq = [r \in Requests |-> NewRequest]
  BY DEF Init, ServeInit
<1>2. PoolTypes
  BY <1>1 DEF PoolTypes, Runs, NewRequest, Fields
<1>3. PoolExclusive
  BY <1>1, BridgeAssumption DEF PoolExclusive, NewRequest
<1> QED
  BY <1>2, <1>3 DEF IInv

LEMMA SlotSet ==
  ASSUME NEW x \in Object, NEW s \in Slots, NEW v \in 0..N
  PROVE  [x EXCEPT !.slot[s] = v] \in Object /\ [x EXCEPT !.slot[s] = v].owner = x.owner
  BY DEF Object

(* Code that reads or writes a slot of the object it refers to, be it its own   *)
(* or, left behind, another request's, touches neither owners nor the pool.    *)
LEMMA SlotStep ==
  ASSUME IInv, NEW r \in Requests, Runs(r), NEW x \in Object, x.owner = obj[rq[r].obj].owner,
         obj' = [obj EXCEPT ![rq[r].obj] = x], requestPool' = requestPool, DOMAIN rq' = Requests,
         \A q \in Requests : DOMAIN rq'[q] = Fields /\ rq'[q].pc = rq[q].pc /\ rq'[q].obj = rq[q].obj
  PROVE  IInv'
<1> DEFINE o == rq[r].obj
<1>1. /\ o \in 1..Len(obj) /\ obj \in Seq(Object) /\ Len(obj) \in Nat
      /\ obj' = [obj EXCEPT ![o] = x] /\ x.owner = obj[o].owner
  BY DEF IInv, PoolTypes
<1> HIDE DEF o
<1>2. /\ obj' \in Seq(Object) /\ Len(obj') = Len(obj) /\ obj'[o] = x
      /\ \A i \in 1..Len(obj) : i # o => obj'[i] = obj[i]
  <2>1. [obj EXCEPT ![o] = x] \in Seq(Object)
    BY <1>1, ExceptSeq, Zenon
  <2>2. Len(obj') = Len(obj) /\ obj'[o] = x
    BY <1>1
  <2>3. \A i \in 1..Len(obj) : i # o => obj'[i] = obj[i]
    BY <1>1
  <2> QED
    BY <1>1, <2>1, <2>2, <2>3
<1>3. \A i \in 1..Len(obj) : obj'[i].owner = obj[i].owner
  BY <1>1, <1>2
<1> QED
  BY <1>2, <1>3, Others DEF IInv, PoolTypes, Runs

(* Every step of the served requests preserves the invariant.                  *)
LEMMA StepInv == IInv /\ [Next]_vars => IInv'
<1> SUFFICES ASSUME IInv, [Next]_vars PROVE IInv'
  OBVIOUS
<1>0. /\ obj \in Seq(Object) /\ DOMAIN rq = Requests
      /\ \A q \in Requests : DOMAIN rq[q] = Fields /\ rq[q].pc \in {"new", "running", "loose", "done"}
  BY DEF IInv, PoolTypes
<1>1. ASSUME NEW r \in Requests, Arrive(r) PROVE IInv'
  BY <1>1, AcquireStep DEF Arrive, IsNext
<1>2. ASSUME NEW r \in Requests, ArriveCached(r) PROVE IInv'
  <2>1. obj' = obj /\ requestPool' = requestPool
    BY <1>2 DEF ArriveCached, poolVars
  <2>2. /\ DOMAIN rq' = Requests
        /\ \A q \in Requests : /\ DOMAIN rq'[q] = Fields
                               /\ rq'[q].pc = "done" \/ rq'[q] = rq[q]
    BY <1>2, <1>0 DEF ArriveCached, Fields
  <2> QED
    BY <2>1, <2>2, <1>0, Others DEF Runs
<1>3. ASSUME NEW r \in Requests, LooseEnds(r) PROVE IInv'
  <2>1. obj' = obj /\ requestPool' = requestPool
    BY <1>3 DEF LooseEnds, poolVars
  <2>2. /\ DOMAIN rq' = Requests
        /\ \A q \in Requests : /\ DOMAIN rq'[q] = Fields
                               /\ rq'[q].pc = "done" \/ rq'[q] = rq[q]
    BY <1>3, <1>0 DEF LooseEnds, Ended, Fields
  <2> QED
    BY <2>1, <2>2, <1>0, Others DEF Runs
<1>4. ASSUME NEW r \in Requests, NEW s \in Slots, ReadSlot(r, s) PROVE IInv'
  <2> DEFINE o == obj[rq[r].obj]
             shown == IF s \in Lazy /\ o.slot[s] = 0 THEN o.owner ELSE o.slot[s]
  <2>1. Runs(r) /\ requestPool' = requestPool /\ rq' = [rq EXCEPT ![r].shown = [slot |-> s, of |-> shown]]
    BY <1>4 DEF ReadSlot
  <2>2. o \in Object
    BY <2>1 DEF IInv, PoolTypes
  <2>3. shown \in 0..N
    BY <2>2 DEF Object
  <2> HIDE DEF shown
  <2>4. /\ DOMAIN rq' = Requests
        /\ \A q \in Requests : DOMAIN rq'[q] = Fields /\ rq'[q].pc = rq[q].pc /\ rq'[q].obj = rq[q].obj
    BY <2>1, <1>0 DEF Fields
  <2>5. CASE s \in Lazy
    <3> DEFINE x == [o EXCEPT !.slot[s] = shown]
    <3>1. obj' = [obj EXCEPT ![rq[r].obj] = x]
      BY <1>4, <2>5 DEF ReadSlot, shown
    <3>2. x \in Object /\ x.owner = obj[rq[r].obj].owner
      BY <2>2, <2>3, SlotSet
    <3> HIDE DEF x
    <3> QED
      BY <3>1, <3>2, <2>1, <2>4, SlotStep
  <2>6. CASE s \notin Lazy
    <3>1. obj' = obj
      BY <1>4, <2>6 DEF ReadSlot
    <3> QED
      BY <3>1, <2>1, <2>4, <1>0, Others DEF Runs
  <2> QED
    BY <2>5, <2>6
<1>5. ASSUME NEW r \in Requests, NEW s \in Slots, WriteSlot(r, s) PROVE IInv'
  <2> DEFINE x == [obj[rq[r].obj] EXCEPT !.slot[s] = r]
  <2>1. /\ Runs(r) /\ requestPool' = requestPool /\ r \in 0..N
        /\ obj' = [obj EXCEPT ![rq[r].obj] = x]
    BY <1>5, BridgeAssumption DEF WriteSlot, Requests
  <2>2. /\ DOMAIN rq' = Requests
        /\ \A q \in Requests : DOMAIN rq'[q] = Fields /\ rq'[q].pc = rq[q].pc /\ rq'[q].obj = rq[q].obj
    BY <1>5, <1>0 DEF WriteSlot, Fields
  <2>3. obj[rq[r].obj] \in Object
    BY <2>1 DEF IInv, PoolTypes
  <2>4. x \in Object /\ x.owner = obj[rq[r].obj].owner
    BY <2>1, <2>3, SlotSet
  <2> HIDE DEF x
  <2> QED
    BY <2>1, <2>2, <2>4, SlotStep
<1>6. ASSUME NEW r \in Requests, NEW loose \in BOOLEAN, FinishOk(r, loose) PROVE IInv'
  BY <1>6, ReleaseStep DEF FinishOk
<1>7. ASSUME NEW r \in Requests, NEW loose \in BOOLEAN, FinishError(r, loose) PROVE IInv'
  BY <1>7, ReleaseStep DEF FinishError
<1>8. ASSUME NEW r \in Requests, NEW loose \in BOOLEAN, FinishThrows(r, loose) PROVE IInv'
  <2>1. obj' = obj /\ requestPool' = requestPool /\ rq[r].pc = "running" /\ rq' = Ended(r, loose)
    BY <1>8 DEF FinishThrows, poolVars
  <2>2. /\ DOMAIN rq' = Requests
        /\ \A q \in Requests :
              /\ DOMAIN rq'[q] = Fields
              /\ \/ rq'[q].pc = "done"
                 \/ rq'[q].pc = "loose" /\ rq[q].pc = "running" /\ rq'[q].obj = rq[q].obj
                 \/ rq'[q] = rq[q]
    BY <2>1, <1>0 DEF Ended, Fields
  <2> QED
    BY <2>1, <2>2, <1>0, Others DEF Runs
<1>9. CASE WorldChanges \/ Replace \/ UNCHANGED vars
  <2>1. obj' = obj /\ requestPool' = requestPool /\ rq' = rq
    BY <1>9 DEF WorldChanges, Replace, vars, serveVars, poolVars
  <2> QED
    BY <2>1, <1>0, Others DEF Runs
<1> QED
  <2>1. CASE Next
    <3>1. ServeNext
      BY <2>1 DEF Next
    <3> QED
      BY <3>1, <1>1, <1>2, <1>3, <1>4, <1>5, <1>6, <1>7, <1>8, <1>9 DEF ServeNext, Slots
  <2> QED
    BY <2>1, <1>9

(* For every pool limit, every set of routes and any number of requests, reloads *)
(* and handlers that run on after their dispatch: the pool of request objects   *)
(* keeps its limit, holds no object twice, and an object that a dispatch uses is *)
(* its own and not in the pool (bridge.js:437-467, index.js:714-749, 857-905).   *)
THEOREM RequestObjectsExclusive == Spec => []PoolExclusive
<1>1. Init => IInv
  BY InitInv
<1>2. IInv /\ [Next]_vars => IInv'
  BY StepInv
<1>3. IInv => PoolExclusive
  BY DEF IInv
<1> QED
  BY <1>1, <1>2, <1>3, PTL DEF Spec

-----------------------------------------------------------------------------
(* A request is shown its own data.  What the slots of an object in use, the   *)
(* slot a request read last and the slots of a pooled object may hold; L are    *)
(* the requests whose code wrote to an object after they were answered.         *)
Clean(x, r, L) == (\A s \in Lazy : x.slot[s] \in {0, r}) /\ x.slot["validatedBody"] \in {0, r} \cup L
Shows(v, r, L) ==
    /\ v.slot \in Lazy => v.of = r
    /\ v.slot = "validatedBody" => v.of \in {0, r} \cup L
Left(x, L) == x.slot["validatedBody"] \in {0} \cup L

(* A lazy slot is filled only while the object has an owner, and with the       *)
(* owner's data; a new request has read nothing.  _bodyParsed survives in the    *)
(* pool, which is why nothing is said of the lazy slots of pooled objects.      *)
OwnInv ==
    /\ \A r \in Requests : rq[r].lateWrite \in BOOLEAN /\ (rq[r].pc = "new" => rq[r].shown = Unread)
    /\ \A r \in Requests : rq[r].pc = "running" =>
          Clean(obj[rq[r].obj], r, LateWriters) /\ Shows(rq[r].shown, r, LateWriters)
    /\ \A i \in 1..Len(requestPool) : Left(obj[requestPool[i]], LateWriters)

LEMMA UnreadShows == ASSUME NEW r, NEW L PROVE Shows(Unread, r, L)
  BY DEF Shows, Unread, Lazy

LEMMA MoreLate ==
  ASSUME NEW L, NEW M, L \subseteq M
  PROVE  /\ \A x, r : Clean(x, r, L) => Clean(x, r, M)
         /\ \A v, r : Shows(v, r, L) => Shows(v, r, M)
         /\ \A x : Left(x, L) => Left(x, M)
  BY DEF Clean, Shows, Left

LEMMA LateGrows ==
  ASSUME \A q \in Requests : rq[q].lateWrite => rq'[q].lateWrite
  PROVE  LateWriters \subseteq LateWriters'
  BY DEF LateWriters

(* A step after which the objects in use and in the pool were so before, with   *)
(* their slots, except object o whose slots stay as they have to be.            *)
LEMMA OwnKept ==
  ASSUME IInv, IInv', OwnInv, NEW o,
         \A q \in Requests : rq[q].lateWrite => rq'[q].lateWrite,
         \A q \in Requests : rq'[q].lateWrite \in BOOLEAN /\ (rq'[q].pc = "new" => rq'[q].shown = Unread),
         \A q \in Requests : rq'[q].pc = "running" =>
            /\ \/ rq[q].pc = "running" /\ rq'[q].obj = rq[q].obj /\ rq[q].obj # o
               \/ rq'[q].obj = o /\ Clean(obj'[o], q, LateWriters')
            /\ (rq[q].pc = "running" /\ rq'[q].shown = rq[q].shown) \/ Shows(rq'[q].shown, q, LateWriters'),
         \A i \in 1..Len(requestPool') :
            \/ \E j \in 1..Len(requestPool) : requestPool'[i] = requestPool[j] /\ requestPool[j] # o
            \/ requestPool'[i] = o /\ Left(obj'[o], LateWriters'),
         \A i \in 1..Len(obj) : i # o => obj'[i] = obj[i]
  PROVE  OwnInv'
<1>1. /\ \A x, r : Clean(x, r, LateWriters) => Clean(x, r, LateWriters')
      /\ \A v, r : Shows(v, r, LateWriters) => Shows(v, r, LateWriters')
      /\ \A x : Left(x, LateWriters) => Left(x, LateWriters')
  BY LateGrows, MoreLate, Zenon
<1>2. ASSUME NEW q \in Requests, rq'[q].pc = "running"
      PROVE  Clean(obj'[rq'[q].obj], q, LateWriters') /\ Shows(rq'[q].shown, q, LateWriters')
  <2>1. Shows(rq'[q].shown, q, LateWriters')
    BY <1>1, <1>2 DEF OwnInv
  <2>2. CASE rq[q].pc = "running" /\ rq'[q].obj = rq[q].obj /\ rq[q].obj # o
    <3>1. rq[q].obj \in 1..Len(obj)
      BY <2>2 DEF IInv, PoolTypes, Runs
    <3>2. obj'[rq'[q].obj] = obj[rq[q].obj] /\ Clean(obj[rq[q].obj], q, LateWriters)
      BY <2>2, <3>1 DEF OwnInv
    <3> QED
      BY <1>1, <2>1, <3>2
  <2>3. CASE rq'[q].obj = o /\ Clean(obj'[o], q, LateWriters')
    BY <2>1, <2>3
  <2> QED
    BY <1>2, <2>2, <2>3
<1>3. ASSUME NEW i \in 1..Len(requestPool') PROVE Left(obj'[requestPool'[i]], LateWriters')
  <2>1. CASE \E j \in 1..Len(requestPool) : requestPool'[i] = requestPool[j] /\ requestPool[j] # o
    <3>1. PICK j \in 1..Len(requestPool) : requestPool'[i] = requestPool[j] /\ requestPool[j] # o
      BY <2>1
    <3>2. requestPool[j] \in 1..Len(obj)
      BY DEF IInv, PoolTypes
    <3>3. obj'[requestPool'[i]] = obj[requestPool[j]] /\ Left(obj[requestPool[j]], LateWriters)
      BY <3>1, <3>2 DEF OwnInv
    <3> QED
      BY <1>1, <3>3
  <2> QED
    BY <1>3, <2>1
<1> QED
  BY <1>2, <1>3 DEF OwnInv

(* A request that ends, or code that ends behind one.                          *)
LEMMA EndedFields ==
  ASSUME IInv, OwnInv, NEW r \in Requests, Runs(r), NEW loose \in BOOLEAN, rq' = Ended(r, loose)
  PROVE  /\ \A q \in Requests : q # r => rq'[q] = rq[q]
         /\ rq'[r].pc \in {"loose", "done"} /\ rq'[r].lateWrite = rq[r].lateWrite
  BY DEF Ended, IInv, PoolTypes, Fields

LEMMA AcquireOwn ==
  ASSUME IInv, IInv', OwnInv, NEW r \in Requests, rq[r].pc = "new", Acquire(r)
  PROVE  OwnInv'
<1> DEFINE o == IF requestPool = <<>> THEN Len(obj) + 1 ELSE requestPool[Len(requestPool)]
           objs == IF requestPool = <<>> THEN Append(obj, NewObject) ELSE obj
           slots == [s \in Slots |-> IF ClearedOnAcquire(s) THEN 0 ELSE objs[o].slot[s]]
<1>1. /\ objs \in Seq(Object) /\ Len(obj) \in Nat /\ o \in 1..Len(objs)
      /\ \A i \in 1..Len(obj) : i \in 1..Len(objs) /\ objs[i] = obj[i]
  BY NewObjectType DEF IInv, PoolTypes
<1>2. Left(objs[o], LateWriters)
  <2>1. CASE requestPool = <<>>
    <3>1. objs[o] = NewObject
      BY <2>1 DEF IInv, PoolTypes
    <3> QED
      BY <3>1 DEF NewObject, Left, Slots, Attached
  <2>2. CASE requestPool # <<>>
    <3>1. Len(requestPool) \in 1..Len(requestPool)
      BY <2>2 DEF IInv, PoolTypes
    <3> QED
      BY <2>2, <3>1 DEF OwnInv
  <2> QED
    BY <2>1, <2>2
<1>3. obj' = [objs EXCEPT ![o] = [owner |-> r, slot |-> slots]]
  BY DEF Acquire
<1>4. slots["validatedBody"] \in {0} \cup LateWriters /\ \A s \in Lazy : slots[s] = 0
  BY <1>2 DEF Left, ClearedOnAcquire, Slots, Lazy, Attached
<1>5. /\ rq'[r].pc = "running" /\ rq'[r].obj = o /\ rq'[r].shown = Unread
      /\ rq'[r].lateWrite = rq[r].lateWrite /\ \A q \in Requests : q # r => rq'[q] = rq[q]
  BY DEF Acquire, IInv, PoolTypes, Fields, OwnInv
<1>6. \A i \in 1..Len(requestPool') : i \in 1..Len(requestPool) /\ requestPool'[i] = requestPool[i]
  <2>1. CASE requestPool = <<>>
    BY <2>1 DEF Acquire, AfterAcquire
  <2>2. CASE requestPool # <<>>
    <3>1. requestPool' = Front(requestPool) /\ requestPool \in Seq(1..Len(obj))
      BY <2>2 DEF Acquire, AfterAcquire, IInv, PoolTypes
    <3>2. /\ Len(requestPool) \in Nat \ {0} /\ Len(requestPool') = Len(requestPool) - 1
          /\ \A i \in 1..Len(requestPool) - 1 : requestPool'[i] = requestPool[i]
      BY <2>2, <3>1, FrontOf
    <3> QED
      BY <3>2
  <2> QED
    BY <2>1, <2>2
<1> HIDE DEF o, objs, slots
<1>7. obj'[o] = [owner |-> r, slot |-> slots] /\ \A i \in 1..Len(obj) : i # o => obj'[i] = obj[i]
  BY <1>1, <1>3
<1>8. Clean(obj'[o], r, LateWriters')
  <2>1. LateWriters \subseteq LateWriters'
    BY <1>5, LateGrows
  <2> QED
    BY <1>4, <1>7, <2>1 DEF Clean
<1>9. \A q \in Requests : q # r /\ rq[q].pc = "running" => rq[q].obj # o
  <2>1. \A q \in Requests : rq'[q].pc = "running" => obj'[rq'[q].obj].owner = q
    BY DEF IInv, PoolExclusive
  <2> QED
    BY <1>5, <1>7, <2>1
<1>10. \A i \in 1..Len(requestPool') : requestPool'[i] # o
  BY <1>5 DEF IInv, PoolExclusive
<1>11. Shows(rq'[r].shown, r, LateWriters')
  BY <1>5, UnreadShows
<1>12. \A q \in Requests : /\ rq[q].lateWrite => rq'[q].lateWrite
                           /\ rq'[q].lateWrite \in BOOLEAN
                           /\ rq'[q].pc = "new" => rq'[q].shown = Unread
  BY <1>5 DEF OwnInv
<1>13. \A q \in Requests : rq'[q].pc = "running" =>
            /\ \/ rq[q].pc = "running" /\ rq'[q].obj = rq[q].obj /\ rq[q].obj # o
               \/ rq'[q].obj = o /\ Clean(obj'[o], q, LateWriters')
            /\ (rq[q].pc = "running" /\ rq'[q].shown = rq[q].shown) \/ Shows(rq'[q].shown, q, LateWriters')
  BY <1>5, <1>8, <1>9, <1>11
<1>14. \A i \in 1..Len(requestPool') :
          \E j \in 1..Len(requestPool) : requestPool'[i] = requestPool[j] /\ requestPool[j] # o
  BY <1>6, <1>10
<1> QED
  BY <1>7, <1>12, <1>13, <1>14, OwnKept, ZenonT(60)

LEMMA ReleaseOwn ==
  ASSUME IInv, IInv', OwnInv, NEW r \in Requests, rq[r].pc = "running", NEW loose \in BOOLEAN,
         Release(rq[r].obj), rq' = Ended(r, loose)
  PROVE  OwnInv'
<1> DEFINE o == rq[r].obj
           slots == [s \in Slots |-> IF s \in ClearedOnRelease THEN 0 ELSE obj[o].slot[s]]
<1>1. /\ \A q \in Requests : q # r => rq'[q] = rq[q]
      /\ rq'[r].pc \in {"loose", "done"} /\ rq'[r].lateWrite = rq[r].lateWrite
  BY EndedFields DEF Runs
<1>2. \A q \in Requests : /\ rq[q].lateWrite => rq'[q].lateWrite
                          /\ rq'[q].lateWrite \in BOOLEAN
                          /\ rq'[q].pc = "new" => rq'[q].shown = Unread
  BY <1>1 DEF OwnInv
<1>3. \A q \in Requests : rq'[q].pc = "running" =>
            rq[q].pc = "running" /\ rq'[q].obj = rq[q].obj /\ rq[q].obj # o /\ rq'[q].shown = rq[q].shown
  BY <1>1 DEF IInv, PoolExclusive
<1>4. o \in 1..Len(obj) /\ obj \in Seq(Object) /\ \A j \in 1..Len(requestPool) : requestPool[j] # o
  BY DEF IInv, PoolTypes, PoolExclusive, Runs
<1>5. CASE Len(requestPool) >= REQUEST_POOL_MAX
  <2>1. obj' = obj /\ requestPool' = requestPool
    BY <1>5 DEF Release, poolVars
  <2>2. \A i \in 1..Len(requestPool') :
          \E j \in 1..Len(requestPool) : requestPool'[i] = requestPool[j] /\ requestPool[j] # o
    BY <1>4, <2>1
  <2> HIDE DEF o
  <2> QED
    BY <1>2, <1>3, <2>1, <2>2, OwnKept, ZenonT(60)
<1>6. CASE ~(Len(requestPool) >= REQUEST_POOL_MAX)
  <2>1. requestPool' = Append(requestPool, o) /\ obj' = [obj EXCEPT ![o] = [owner |-> 0, slot |-> slots]]
    BY <1>6 DEF Release
  <2>2. slots["validatedBody"] = 0
    BY DEF Slots, Attached, ClearedOnRelease
  <2> HIDE DEF o, slots
  <2>3. obj'[o] = [owner |-> 0, slot |-> slots] /\ \A i \in 1..Len(obj) : i # o => obj'[i] = obj[i]
    BY <1>4, <2>1
  <2>4. Left(obj'[o], LateWriters')
    BY <2>2, <2>3 DEF Left
  <2>5. \A i \in 1..Len(requestPool') :
            \/ i \in 1..Len(requestPool) /\ requestPool'[i] = requestPool[i]
            \/ requestPool'[i] = o
    BY <2>1, SMTT(30) DEF IInv, PoolTypes
  <2>6. \A i \in 1..Len(requestPool') :
            \/ \E j \in 1..Len(requestPool) : requestPool'[i] = requestPool[j] /\ requestPool[j] # o
            \/ requestPool'[i] = o /\ Left(obj'[o], LateWriters')
    BY <1>4, <2>4, <2>5
  <2> QED
    BY <1>2, <1>3, <2>3, <2>6, OwnKept, ZenonT(60)
<1> QED
  BY <1>5, <1>6

(* Code of r changes a slot of the object it refers to: its own, or another one's *)
(* that it was left with.                                                      *)
LEMMA SlotOwn ==
  ASSUME IInv, IInv', OwnInv, NEW r \in Requests, Runs(r), NEW s \in Slots, NEW v \in 0..N,
         obj' = [obj EXCEPT ![rq[r].obj].slot[s] = v], requestPool' = requestPool,
         s \in Lazy => v \in {obj[rq[r].obj].owner, obj[rq[r].obj].slot[s]},
         s = "validatedBody" => \/ v = r /\ (rq[r].pc = "loose" => r \in LateWriters')
                                \/ v = obj[rq[r].obj].slot[s],
         \A q \in Requests : /\ rq'[q].pc = rq[q].pc /\ rq'[q].obj = rq[q].obj
                             /\ rq[q].lateWrite => rq'[q].lateWrite
                             /\ rq'[q].lateWrite \in BOOLEAN
                             /\ \/ rq'[q].shown = rq[q].shown
                                \/ Runs(q) /\ (rq[q].pc = "running" => Shows(rq'[q].shown, q, LateWriters'))
  PROVE  OwnInv'
<1> DEFINE o == rq[r].obj
<1>1. o \in 1..Len(obj) /\ obj \in Seq(Object) /\ obj[o] \in Object
  BY DEF IInv, PoolTypes
<1>2. /\ obj'[o] = [obj[o] EXCEPT !.slot[s] = v] /\ \A i \in 1..Len(obj) : i # o => obj'[i] = obj[i]
  BY <1>1
<1>3. /\ obj'[o].slot[s] = v /\ \A z \in Slots : z # s => obj'[o].slot[z] = obj[o].slot[z]
      /\ obj'[o].owner = obj[o].owner
  <2>1. /\ [obj[o] EXCEPT !.slot[s] = v].slot[s] = v
        /\ \A z \in Slots : z # s => [obj[o] EXCEPT !.slot[s] = v].slot[z] = obj[o].slot[z]
        /\ [obj[o] EXCEPT !.slot[s] = v].owner = obj[o].owner
    BY <1>1 DEF Object
  <2> QED
    BY <1>2, <2>1
<1>4. LateWriters \subseteq LateWriters'
  BY LateGrows
<1>5. /\ s \in Lazy => v \in {obj[o].owner, obj[o].slot[s]}
      /\ s = "validatedBody" => \/ v = r /\ (rq[r].pc = "loose" => r \in LateWriters')
                             \/ v = obj[o].slot[s]
  OBVIOUS
<1> HIDE DEF o
<1>6. ASSUME NEW q \in Requests, rq[q].pc = "running", rq[q].obj = o PROVE Clean(obj'[o], q, LateWriters')
  <2>1. Clean(obj[o], q, LateWriters) /\ obj[o].owner = q
    BY <1>6 DEF OwnInv, IInv, PoolExclusive
  <2>2. rq[r].pc = "running" => r = q
    BY <2>1 DEF IInv, PoolExclusive, o
  <2>3. \A z \in Lazy : obj'[o].slot[z] \in {0, q}
    BY <1>3, <1>5, <2>1 DEF Clean, Slots
  <2>4. obj'[o].slot["validatedBody"] \in {0, q} \cup LateWriters'
    BY <1>3, <1>4, <1>5, <2>1, <2>2 DEF Clean, Slots, Attached, Runs
  <2> QED
    BY <2>3, <2>4 DEF Clean
<1>7. ASSUME NEW i \in 1..Len(requestPool), requestPool[i] = o PROVE Left(obj'[o], LateWriters')
  <2>1. Left(obj[o], LateWriters) /\ rq[r].pc = "loose"
    BY <1>7 DEF OwnInv, IInv, PoolExclusive, Runs, o
  <2> QED
    BY <1>3, <1>4, <1>5, <2>1 DEF Left, Slots, Attached
<1>8. \A q \in Requests : rq'[q].lateWrite \in BOOLEAN /\ (rq'[q].pc = "new" => rq'[q].shown = Unread)
  BY DEF OwnInv, Runs
<1>9. \A q \in Requests : rq'[q].pc = "running" =>
            /\ \/ rq[q].pc = "running" /\ rq'[q].obj = rq[q].obj /\ rq[q].obj # o
               \/ rq'[q].obj = o /\ Clean(obj'[o], q, LateWriters')
            /\ (rq[q].pc = "running" /\ rq'[q].shown = rq[q].shown) \/ Shows(rq'[q].shown, q, LateWriters')
  BY <1>6
<1>10. \A i \in 1..Len(requestPool') :
            \/ \E j \in 1..Len(requestPool) : requestPool'[i] = requestPool[j] /\ requestPool[j] # o
            \/ requestPool'[i] = o /\ Left(obj'[o], LateWriters')
  BY <1>7
<1> QED
  BY <1>2, <1>8, <1>9, <1>10, OwnKept, ZenonT(60)

LEMMA OwnStep == IInv /\ OwnInv /\ [Next]_vars => OwnInv'
<1> SUFFICES ASSUME IInv, OwnInv, [Next]_vars PROVE OwnInv'
  OBVIOUS
<1>0. IInv'
  BY StepInv
<1>a. /\ DOMAIN rq = Requests /\ \A q \in Requests : DOMAIN rq[q] = Fields /\ rq[q].lateWrite \in BOOLEAN
  BY DEF IInv, PoolTypes, OwnInv
<1>b. \A i \in 1..Len(requestPool) : requestPool[i] # 0
  BY DEF IInv, PoolTypes
<1>c. \A q \in Requests : rq[q].pc = "running" => rq[q].obj # 0
  BY DEF IInv, PoolTypes, Runs
<1>k. ASSUME obj' = obj, requestPool' = requestPool,
             \A q \in Requests : \/ rq'[q] = rq[q]
                                 \/ rq'[q].pc \in {"loose", "done"} /\ rq'[q].lateWrite = rq[q].lateWrite
      PROVE  OwnInv'
  <2>1. \A q \in Requests : /\ rq[q].lateWrite => rq'[q].lateWrite
                            /\ rq'[q].lateWrite \in BOOLEAN
                            /\ rq'[q].pc = "new" => rq'[q].shown = Unread
    BY <1>a, <1>k DEF OwnInv
  <2>2. \A q \in Requests : rq'[q].pc = "running" =>
            rq[q].pc = "running" /\ rq'[q].obj = rq[q].obj /\ rq[q].obj # 0 /\ rq'[q].shown = rq[q].shown
    BY <1>c, <1>k
  <2>3. \A i \in 1..Len(requestPool') :
            \E j \in 1..Len(requestPool) : requestPool'[i] = requestPool[j] /\ requestPool[j] # 0
    BY <1>b, <1>k
  <2> QED
    BY <1>0, <1>k, <2>1, <2>2, <2>3, OwnKept, ZenonT(60)
<1>1. ASSUME NEW r \in Requests, Arrive(r) PROVE OwnInv'
  BY <1>0, <1>1, AcquireOwn DEF Arrive, IsNext
<1>2. ASSUME NEW r \in Requests, ArriveCached(r) PROVE OwnInv'
  <2>1. obj' = obj /\ requestPool' = requestPool
    BY <1>2 DEF ArriveCached, poolVars
  <2>2. \A q \in Requests : \/ rq'[q] = rq[q]
                            \/ rq'[q].pc \in {"loose", "done"} /\ rq'[q].lateWrite = rq[q].lateWrite
    BY <1>2, <1>a DEF ArriveCached, Fields
  <2> QED
    BY <1>k, <2>1, <2>2
<1>3. ASSUME NEW r \in Requests, Runs(r), NEW loose \in BOOLEAN, rq' = Ended(r, loose), UNCHANGED poolVars
      PROVE  OwnInv'
  <2>1. \A q \in Requests : \/ rq'[q] = rq[q]
                            \/ rq'[q].pc \in {"loose", "done"} /\ rq'[q].lateWrite = rq[q].lateWrite
    BY <1>3, EndedFields
  <2> QED
    BY <1>3, <1>k, <2>1 DEF poolVars
<1>4. ASSUME NEW r \in Requests, NEW s \in Slots, ReadSlot(r, s) PROVE OwnInv'
  <2> DEFINE o == rq[r].obj
             shown == IF s \in Lazy /\ obj[o].slot[s] = 0 THEN obj[o].owner ELSE obj[o].slot[s]
  <2>1. Runs(r) /\ requestPool' = requestPool /\ rq' = [rq EXCEPT ![r].shown = [slot |-> s, of |-> shown]]
    BY <1>4 DEF ReadSlot
  <2>2. obj[o] \in Object /\ o \in 1..Len(obj) /\ obj \in Seq(Object)
    BY <2>1 DEF IInv, PoolTypes
  <2>3. shown \in 0..N /\ shown \in {obj[o].owner, obj[o].slot[s]} /\ (s \notin Lazy => shown = obj[o].slot[s])
    BY <2>2 DEF Object
  <2>4. obj' = [obj EXCEPT ![o].slot[s] = shown]
    <3>1. CASE s \in Lazy
      BY <1>4, <3>1 DEF ReadSlot
    <3>2. CASE s \notin Lazy
      <4>1. obj' = obj
        BY <1>4, <3>2 DEF ReadSlot
      <4>2. [obj[o].slot EXCEPT ![s] = obj[o].slot[s]] = obj[o].slot
        BY <2>2 DEF Object
      <4>3. [obj[o] EXCEPT !.slot = obj[o].slot] = obj[o]
        BY <2>2 DEF Object
      <4>4. [obj EXCEPT ![o] = obj[o]] = obj
        BY <2>2
      <4> QED
        BY <2>3, <3>2, <4>1, <4>2, <4>3, <4>4
    <3> QED
      BY <3>1, <3>2
  <2>5. rq[r].pc = "running" => Shows([slot |-> s, of |-> shown], r, LateWriters)
    <3> SUFFICES ASSUME rq[r].pc = "running" PROVE Shows([slot |-> s, of |-> shown], r, LateWriters)
      OBVIOUS
    <3>1. Clean(obj[o], r, LateWriters) /\ obj[o].owner = r
      BY DEF OwnInv, IInv, PoolExclusive
    <3>2. s \in Lazy => shown = r
      BY <3>1 DEF Clean
    <3>3. s = "validatedBody" => shown \in {0, r} \cup LateWriters
      BY <2>3, <3>1 DEF Clean, Lazy
    <3> HIDE DEF shown
    <3> QED
      BY <3>2, <3>3 DEF Shows
  <2> HIDE DEF shown
  <2>6. /\ \A q \in Requests : /\ rq'[q].pc = rq[q].pc /\ rq'[q].obj = rq[q].obj
                               /\ rq'[q].lateWrite = rq[q].lateWrite
                               /\ q # r => rq'[q].shown = rq[q].shown
        /\ rq'[r].shown = [slot |-> s, of |-> shown]
    BY <1>a, <2>1 DEF Fields
  <2>7. LateWriters' = LateWriters
    BY <2>6, Zenon DEF LateWriters
  <2>8. \A q \in Requests : /\ rq'[q].pc = rq[q].pc /\ rq'[q].obj = rq[q].obj
                            /\ rq[q].lateWrite => rq'[q].lateWrite
                            /\ rq'[q].lateWrite \in BOOLEAN
                            /\ \/ rq'[q].shown = rq[q].shown
                               \/ Runs(q) /\ (rq[q].pc = "running" => Shows(rq'[q].shown, q, LateWriters'))
    <3> SUFFICES ASSUME NEW q \in Requests
                 PROVE  /\ rq'[q].lateWrite \in BOOLEAN
                        /\ \/ rq'[q].shown = rq[q].shown
                           \/ Runs(q) /\ (rq[q].pc = "running" => Shows(rq'[q].shown, q, LateWriters'))
      BY <2>6, Zenon
    <3>1. rq'[q].lateWrite \in BOOLEAN
      BY <1>a, <2>6, Zenon
    <3>2. CASE q = r
      BY <2>1, <2>5, <2>6, <2>7, <3>1, <3>2, Zenon
    <3>3. CASE q # r
      <4>1. rq'[q].shown = rq[q].shown
        BY <2>6, <3>3
      <4> QED
        BY <3>1, <4>1
    <3> QED
      BY <3>2, <3>3
  <2>9. s = "validatedBody" => shown = obj[o].slot[s]
    BY <2>3 DEF Lazy
  <2> QED
    BY <1>0, <2>1, <2>3, <2>4, <2>8, <2>9, SlotOwn
<1>5. ASSUME NEW r \in Requests, NEW s \in Attached, WriteSlot(r, s) PROVE OwnInv'
  <2>1. /\ Runs(r) /\ requestPool' = requestPool /\ r \in 0..N /\ s \in Slots /\ s \notin Lazy
        /\ obj' = [obj EXCEPT ![rq[r].obj].slot[s] = r]
    BY <1>5, BridgeAssumption DEF WriteSlot, Requests, Slots, Attached, Lazy
  <2>2. /\ \A q \in Requests : rq'[q].pc = rq[q].pc /\ rq'[q].obj = rq[q].obj /\ rq'[q].shown = rq[q].shown
        /\ \A q \in Requests : q # r => rq'[q] = rq[q]
        /\ rq'[r].lateWrite = (rq[r].lateWrite \/ rq[r].pc = "loose")
    BY <1>5, <1>a DEF WriteSlot, Fields
  <2>3. \A q \in Requests : (rq[q].lateWrite => rq'[q].lateWrite) /\ rq'[q].lateWrite \in BOOLEAN
    BY <1>a, <2>2, Zenon
  <2>4. rq[r].pc = "loose" => r \in LateWriters'
    BY <2>2 DEF LateWriters
  <2> QED
    <3>1. /\ s \in Lazy => r \in {obj[rq[r].obj].owner, obj[rq[r].obj].slot[s]}
          /\ s = "validatedBody" => \/ r = r /\ (rq[r].pc = "loose" => r \in LateWriters')
                                 \/ r = obj[rq[r].obj].slot[s]
      BY <2>1, <2>4
    <3>2. \A q \in Requests : /\ rq'[q].pc = rq[q].pc /\ rq'[q].obj = rq[q].obj
                              /\ rq[q].lateWrite => rq'[q].lateWrite
                              /\ rq'[q].lateWrite \in BOOLEAN
                              /\ \/ rq'[q].shown = rq[q].shown
                                 \/ Runs(q) /\ (rq[q].pc = "running" => Shows(rq'[q].shown, q, LateWriters'))
      BY <2>2, <2>3, Zenon
    <3> QED
      BY <1>0, <2>1, <3>1, <3>2, SlotOwn, ZenonT(60)
<1>6. ASSUME NEW r \in Requests, NEW loose \in BOOLEAN, FinishOk(r, loose) PROVE OwnInv'
  BY <1>0, <1>6, ReleaseOwn DEF FinishOk
<1>7. ASSUME NEW r \in Requests, NEW loose \in BOOLEAN, FinishError(r, loose) PROVE OwnInv'
  BY <1>0, <1>7, ReleaseOwn DEF FinishError
<1>8. ASSUME NEW r \in Requests, NEW loose \in BOOLEAN, FinishThrows(r, loose) PROVE OwnInv'
  BY <1>3, <1>8 DEF FinishThrows, Runs
<1>9. ASSUME NEW r \in Requests, LooseEnds(r) PROVE OwnInv'
  BY <1>3, <1>9 DEF LooseEnds, Runs
<1>10. CASE WorldChanges \/ Replace \/ UNCHANGED vars
  BY <1>10, <1>k DEF WorldChanges, Replace, vars, serveVars, poolVars
<1> QED
  <2>1. CASE Next
    <3>1. ServeNext
      BY <2>1 DEF Next
    <3> QED
      BY <3>1, <1>1, <1>2, <1>4, <1>5, <1>6, <1>7, <1>8, <1>9, <1>10 DEF ServeNext, Slots
  <2> QED
    BY <2>1, <1>10

(* For every pool limit, every set of routes and any number of overlapping      *)
(* requests: what a request reads of its object before it is answered is its    *)
(* own data, whatever object it got and whatever code of earlier requests still  *)
(* reads it; only what validate() leaves may come from code that writes to the  *)
(* object after its own request was answered (bridge.js:434-467, 481-640).      *)
THEOREM RequestsReadOwn == Spec => []ReadsOwn
<1>1. Init => IInv /\ OwnInv
  <2>1. ASSUME Init PROVE OwnInv
    <3>1. requestPool = <<>> /\ rq = [r \in Requests |-> NewRequest]
      BY <2>1 DEF Init, ServeInit
    <3> QED
      <4>1. \A r \in Requests : rq[r] = NewRequest
        BY <3>1
      <4>2. NewRequest.lateWrite = FALSE /\ NewRequest.shown = Unread /\ NewRequest.pc = "new"
        BY DEF NewRequest
      <4>3. 1..Len(requestPool) = {}
        BY <3>1
      <4> QED
        BY <4>1, <4>2, <4>3, Zenon DEF OwnInv
  <2> QED
    BY <2>1, InitInv
<1>2. IInv /\ OwnInv /\ [Next]_vars => (IInv /\ OwnInv)'
  BY StepInv, OwnStep
<1>3. OwnInv => ReadsOwn
  BY DEF OwnInv, ReadsOwn, Shows
<1> QED
  BY <1>1, <1>2, <1>3, PTL DEF Spec

-----------------------------------------------------------------------------
(* Promotion.  The responses a route's handler can give, and what is kept of    *)
(* them in the response cache and in the optimizer's entry.                    *)
Key(s) == buildSnapshotCacheKey(s)
Shown == {Response(r, w) : r \in Requests, w \in {0, 1}}
Caches(S) == [on : BOOLEAN, encoded : {None} \cup {<<s>> : s \in S},
              lastKey : {None} \cup {Key(s) : s \in S}, stableHits : Nat]
Entries(S) == [stage : {"cold", "hot"}, hits : Nat, candidate : BOOLEAN, settled : BOOLEAN, stable : Nat,
               lastKey : {None} \cup {Key(s) : s \in S}, recommended : BOOLEAN]

(* The last k elements of s have the key; somewhere behind the first from, k     *)
(* in a row have it.                                                          *)
EndsIn(s, k, key) == k <= Len(s) /\ \A i \in Len(s) - k + 1..Len(s) : Key(s[i]) = key
HasRun(s, from, k, key) == \E i \in from..Len(s) - k : \A j \in i + 1..i + k : Key(s[j]) = key

(* A cache counts the answers at the end of those that were sent; once full, it  *)
(* holds the last of a run of them.                                            *)
CacheOk(c, sent) ==
    /\ ~c.on => c.encoded = None /\ c.stableHits = 0
    /\ c.encoded = None => /\ c.stableHits < ROUTE_CACHE_PROMOTE_HITS
                           /\ EndsIn(sent, c.stableHits, c.lastKey)
    /\ c.encoded # None => /\ c.stableHits = ROUTE_CACHE_PROMOTE_HITS
                           /\ HasRun(sent, 0, ROUTE_CACHE_PROMOTE_HITS, Key(c.encoded[1]))

(* An entry that is not settled counts all responses, and those in a row since   *)
(* the route became hot.                                                       *)
EntryOk(e, given_) ==
    /\ ~e.settled => /\ ~e.recommended /\ e.hits = Len(given_)
                     /\ e.stage = "cold" => e.hits < HOT_HIT_THRESHOLD /\ e.stable = 0
                     /\ e.stage = "hot" => /\ e.stable + HOT_HIT_THRESHOLD <= e.hits
                                           /\ EndsIn(given_, e.stable, e.lastKey)
    /\ e.recommended => \E key : HasRun(given_, HOT_HIT_THRESHOLD, STABLE_RESPONSE_THRESHOLD, key)

(* One more element at the end. *)
LEMMA OneMore ==
  ASSUME NEW S, NEW s \in Seq(S), NEW e \in S
  PROVE  /\ Append(s, e) \in Seq(S) /\ Len(Append(s, e)) = Len(s) + 1 /\ Len(s) \in Nat
         /\ Append(s, e)[Len(s) + 1] = e
         /\ \A i \in 1..Len(s) : Append(s, e)[i] = s[i]
  OBVIOUS

(* An equal element makes the end of equal ones longer, another one begins anew. *)
LEMMA EndGrows ==
  ASSUME NEW S, NEW s \in Seq(S), NEW e \in S, NEW k \in Nat, NEW key, EndsIn(s, k, key)
  PROVE  /\ Key(e) = key => EndsIn(Append(s, e), k + 1, Key(e))
         /\ EndsIn(Append(s, e), 1, Key(e)) /\ EndsIn(Append(s, e), 0, key)
<1> DEFINE t == Append(s, e)
<1>1. /\ Len(t) = Len(s) + 1 /\ Len(s) \in Nat /\ t[Len(s) + 1] = e
      /\ \A i \in 1..Len(s) : t[i] = s[i]
  BY OneMore
<1>2. k <= Len(s) /\ \A i \in Len(s) - k + 1..Len(s) : Key(s[i]) = key
  BY DEF EndsIn
<1> HIDE DEF t
<1>3. EndsIn(t, 1, Key(e)) /\ EndsIn(t, 0, key)
  BY <1>1 DEF EndsIn
<1>4. ASSUME Key(e) = key PROVE EndsIn(t, k + 1, Key(e))
  <2>1. ASSUME NEW i \in Len(t) - (k + 1) + 1..Len(t) PROVE Key(t[i]) = Key(e)
    <3>1. i = Len(s) + 1 \/ (i \in Len(s) - k + 1..Len(s) /\ i \in 1..Len(s))
      BY <1>1, <1>2
    <3> QED
      BY <3>1, <1>1, <1>2, <1>4
  <2>2. k + 1 <= Len(t)
    BY <1>1, <1>2
  <2> QED
    BY <2>1, <2>2 DEF EndsIn
<1> QED
  BY <1>3, <1>4 DEF t

(* A run stays where it is. *)
LEMMA RunStays ==
  ASSUME NEW S, NEW s \in Seq(S), NEW e \in S, NEW from \in Nat, NEW k \in Nat, NEW key, HasRun(s, from, k, key)
  PROVE  HasRun(Append(s, e), from, k, key)
<1>1. PICK i \in from..Len(s) - k : \A j \in i + 1..i + k : Key(s[j]) = key
  BY DEF HasRun
<1>2. /\ Len(Append(s, e)) = Len(s) + 1 /\ Len(s) \in Nat
      /\ \A j \in 1..Len(s) : Append(s, e)[j] = s[j]
  BY OneMore
<1>3. i \in from..Len(Append(s, e)) - k
  BY <1>2
<1>4. \A j \in i + 1..i + k : Key(Append(s, e)[j]) = key
  <2> TAKE j \in i + 1..i + k
  <2>1. j \in 1..Len(s)
    BY <1>2
  <2> QED
    BY <2>1, <1>1, <1>2
<1> QED
  BY <1>3, <1>4 DEF HasRun

(* A long enough end is a run. *)
LEMMA EndIsRun ==
  ASSUME NEW S, NEW s \in Seq(S), NEW from \in Nat, NEW k \in Nat, NEW m \in Nat, NEW key,
         EndsIn(s, k, key), m <= k, from + k <= Len(s)
  PROVE  HasRun(s, from, m, key)
<1>1. Len(s) \in Nat /\ Len(s) - m \in from..Len(s) - m
  OBVIOUS
<1>2. ASSUME NEW j \in Len(s) - m + 1..Len(s) - m + m PROVE Key(s[j]) = key
  <2>1. j \in Len(s) - k + 1..Len(s)
    BY <1>1
  <2> QED
    BY <2>1 DEF EndsIn
<1> QED
  BY <1>1, <1>2 DEF HasRun

Cut(S, s, from, k, key) ==
    \E i \in from..Len(s) - k :
        LET t == SubSeq(s, i + 1, i + k)
        IN  t \in Seq(S) /\ Len(t) = k /\ \A j \in 1..k : Key(t[j]) = key

(* The elements of a run, cut out, have the same key. *)
LEMMA RunIsSame ==
  ASSUME NEW S, NEW s \in Seq(S), NEW from \in Nat, NEW k \in Nat, NEW key, HasRun(s, from, k, key)
  PROVE  Cut(S, s, from, k, key)
<1>1. PICK i \in from..Len(s) - k : \A j \in i + 1..i + k : Key(s[j]) = key
  BY DEF HasRun
<1>2. Len(s) \in Nat /\ i \in Nat /\ i + 1 \in Int /\ i + k \in Int /\ i + k - (i + 1) + 1 = k /\ i + k <= Len(s)
  OBVIOUS
<1>3. \A j \in i + 1..i + k : s[j] \in S
  BY <1>2
<1> DEFINE t == SubSeq(s, i + 1, i + k)
           a == i + 1
           b == i + k
<1>4. /\ t \in Seq(S)
      /\ Len(t) = (IF a <= b THEN b - a + 1 ELSE 0)
      /\ \A j \in 1..b - a + 1 : t[j] = s[a + j - 1]
  <2>1. a \in Int /\ b \in Int /\ \A j \in a..b : s[j] \in S
    BY <1>2, <1>3
  <2>2. t = SubSeq(s, a, b)
    OBVIOUS
  <2> HIDE DEF a, b
  <2> QED
    BY <2>1, <2>2, SubSeqProperties
<1>5. Len(t) = k
  <2>1. a \in Int /\ b \in Int /\ b - a + 1 = k /\ k \in Nat
    BY <1>2
  <2>2. Len(t) = IF a <= b THEN b - a + 1 ELSE 0
    BY <1>4
  <2> HIDE DEF a, b, t
  <2> QED
    BY <2>1, <2>2
<1>6. ASSUME NEW j \in 1..k PROVE Key(t[j]) = key
  <2>1. t[j] = s[i + j]
    <3>1. j \in 1..b - a + 1 /\ a + j - 1 = i + j
      BY <1>2
    <3> HIDE DEF t
    <3> QED
      BY <3>1, <1>4
  <2>2. i + j \in i + 1..i + k
    BY <1>2
  <2> QED
    BY <2>1, <2>2, <1>1
<1> QED
  BY <1>4, <1>5, <1>6 DEF Cut

(* maybePromoteRouteResponseCache with an answer that is sent keeps the count.   *)
LEMMA PromoteOk ==
  ASSUME NEW S, NEW c \in Caches(S), NEW s \in S, NEW sent \in Seq(S), CacheOk(c, sent)
  PROVE  LET d == maybePromoteRouteResponseCache(c, s)
         IN  d \in Caches(S) /\ d.on = c.on /\ CacheOk(d, Append(sent, s))
<1> DEFINE d == maybePromoteRouteResponseCache(c, s)
           P == ROUTE_CACHE_PROMOTE_HITS
<1>0. P \in Nat \ {0} /\ c.stableHits \in Nat /\ c.on \in BOOLEAN
  BY BridgeAssumption DEF Caches
<1>1. CASE ~c.on \/ c.encoded # None
  <2>1. d = c
    BY <1>1 DEF maybePromoteRouteResponseCache
  <2>2. c.encoded # None => HasRun(Append(sent, s), 0, P, Key(c.encoded[1]))
    BY <1>0, RunStays DEF CacheOk
  <2>3. c.encoded = None => EndsIn(Append(sent, s), c.stableHits, c.lastKey)
    BY <1>0, <1>1, EndGrows DEF CacheOk
  <2> QED
    BY <2>1, <2>2, <2>3, <1>0 DEF CacheOk
<1>2. CASE c.on /\ c.encoded = None
  <2> DEFINE hits == IF Key(s) = c.lastKey THEN c.stableHits + 1 ELSE 1
             full == IF hits >= P THEN <<s>> ELSE None
  <2>1. d = [c EXCEPT !.lastKey = Key(s), !.stableHits = hits, !.encoded = full]
    BY <1>2 DEF maybePromoteRouteResponseCache, Key
  <2>2. hits \in Nat /\ hits <= P /\ EndsIn(Append(sent, s), hits, Key(s))
    BY <1>0, <1>2, EndGrows DEF CacheOk
  <2> HIDE DEF hits
  <2>3. full \in {None} \cup {<<x>> : x \in S} /\ (full # None <=> hits >= P) /\ (hits >= P => full[1] = s)
    BY DEF None
  <2> HIDE DEF full
  <2>4. d \in Caches(S) /\ d.on /\ d.lastKey = Key(s) /\ d.stableHits = hits /\ d.encoded = full
    <3>1. Key(s) \in {Key(x) : x \in S}
      OBVIOUS
    <3> DEFINE k == Key(s)
    <3>2. k \in {None} \cup {Key(x) : x \in S} /\ d = [c EXCEPT !.lastKey = k, !.stableHits = hits, !.encoded = full]
      BY <2>1, <3>1
    <3> HIDE DEF d, k
    <3>3. d \in Caches(S)
      BY <2>2, <2>3, <3>2 DEF Caches
    <3>4. d.on /\ d.lastKey = k /\ d.stableHits = hits /\ d.encoded = full
      BY <3>2, <1>2 DEF Caches
    <3> QED
      BY <3>3, <3>4 DEF k
  <2>5. hits >= P => HasRun(Append(sent, s), 0, P, Key(s))
    <3>1. Append(sent, s) \in Seq(S) /\ (EndsIn(Append(sent, s), hits, Key(s)) => hits <= Len(Append(sent, s)))
      BY OneMore DEF EndsIn
    <3> DEFINE t == Append(sent, s)
    <3> SUFFICES ASSUME hits >= P PROVE HasRun(t, 0, P, Key(s))
      OBVIOUS
    <3>2. t \in Seq(S) /\ EndsIn(t, hits, Key(s)) /\ P <= hits /\ 0 + hits <= Len(t) /\ 0 \in Nat /\ P \in Nat
      BY <3>1, <2>2, <1>0
    <3> HIDE DEF t
    <3> QED
      BY <3>2, <2>2, EndIsRun
  <2> QED
    BY <2>2, <2>3, <2>4, <2>5, <1>0, <1>2 DEF CacheOk
<1> QED
  BY <1>1, <1>2, <1>0

(* recordDispatch keeps the entry's count.                                      *)
LEMMA RecordOk ==
  ASSUME NEW S, NEW e \in Entries(S), NEW s \in S, NEW given_ \in Seq(S)
  PROVE  LET f == recordDispatch(e, s)
         IN  f \in Entries(S) /\ (EntryOk(e, given_) => EntryOk(f, Append(given_, s)))
<1> DEFINE f == recordDispatch(e, s)
           key == Key(s)
           t == Append(given_, s)
           stable == IF e.lastKey = key THEN e.stable + 1 ELSE 1
           hot == e.hits + 1 >= HOT_HIT_THRESHOLD
<1>0. /\ HOT_HIT_THRESHOLD \in Nat \ {0} /\ STABLE_RESPONSE_THRESHOLD \in Nat \ {0}
      /\ e.hits \in Nat /\ e.stable \in Nat /\ Len(t) = Len(given_) + 1 /\ Len(given_) \in Nat /\ t \in Seq(S)
      /\ e.stage \in {"cold", "hot"} /\ e.settled \in BOOLEAN /\ e.candidate \in BOOLEAN /\ e.recommended \in BOOLEAN
  BY BridgeAssumption, OneMore DEF Entries
<1>00. stable \in Nat /\ hot \in BOOLEAN /\ key \in {Key(x) : x \in S}
  BY <1>0
<1>1. CASE e.settled
  <2>1. f = e
    BY <1>1 DEF recordDispatch
  <2>2. ASSUME NEW x, HasRun(given_, HOT_HIT_THRESHOLD, STABLE_RESPONSE_THRESHOLD, x)
        PROVE  HasRun(t, HOT_HIT_THRESHOLD, STABLE_RESPONSE_THRESHOLD, x)
    BY <1>0, <2>2, RunStays
  <2> QED
    BY <1>1, <2>1, <2>2 DEF EntryOk
<1>2. CASE ~e.settled /\ e.stage = "cold"
  <2> DEFINE stage == IF hot THEN "hot" ELSE "cold"
             settled == hot /\ ~e.candidate
             n == e.hits + 1
  <2>1. f = [e EXCEPT !.hits = n, !.stage = stage, !.settled = settled]
    BY <1>2 DEF recordDispatch
  <2>0. stage \in {"cold", "hot"} /\ settled \in BOOLEAN /\ n \in Nat
    BY <1>0
  <2> HIDE DEF hot, stage, settled, n, f
  <2>2. /\ f \in Entries(S) /\ f.hits = n /\ f.stage = stage
        /\ f.recommended = e.recommended /\ f.stable = e.stable
    BY <2>1, <2>0 DEF Entries
  <2>3. ASSUME EntryOk(e, given_) PROVE EntryOk(f, t)
    <3>1. ~e.recommended /\ e.hits = Len(given_) /\ e.stable = 0
      BY <1>2, <2>3 DEF EntryOk
    <3>2. EndsIn(t, 0, f.lastKey)
      BY <1>0 DEF EndsIn
    <3> HIDE DEF t
    <3> QED
      BY <1>0, <2>2, <3>1, <3>2 DEF EntryOk, hot, stage, n
  <2> QED
    BY <2>2, <2>3 DEF f
<1>3. CASE ~e.settled /\ e.stage = "hot" /\ ~e.candidate
  <2>1. f = [e EXCEPT !.hits = e.hits + 1, !.settled = TRUE]
    BY <1>3 DEF recordDispatch
  <2> DEFINE n == e.hits + 1
  <2>0. n \in Nat
    BY <1>0
  <2> HIDE DEF f, n
  <2>2. f \in Entries(S) /\ f.settled /\ f.recommended = e.recommended
    <3>1. f = [e EXCEPT !.hits = n, !.settled = TRUE]
      BY <2>1 DEF n
    <3> QED
      BY <2>0, <3>1 DEF Entries
  <2> QED
    BY <1>3, <2>2 DEF EntryOk, f
<1>4. CASE ~e.settled /\ e.stage = "hot" /\ e.candidate
  <2> DEFINE enough == stable >= STABLE_RESPONSE_THRESHOLD
  <2>1. f = [e EXCEPT !.hits = e.hits + 1, !.lastKey = key, !.stable = stable,
                      !.recommended = enough, !.settled = enough]
    BY <1>4 DEF recordDispatch, StableEnough, Key
  <2> DEFINE n == e.hits + 1
  <2>0. enough \in BOOLEAN /\ n \in Nat
    BY <1>0
  <2> HIDE DEF enough, stable, key, n, f
  <2>2. /\ f \in Entries(S) /\ f.hits = n /\ f.stage = "hot" /\ f.lastKey = key
        /\ f.stable = stable /\ f.recommended = enough /\ f.settled = enough
    <3>1. f = [e EXCEPT !.hits = n, !.lastKey = key, !.stable = stable, !.recommended = enough, !.settled = enough]
      BY <2>1 DEF n
    <3> QED
      BY <3>1, <2>0, <1>00, <1>4 DEF Entries
  <2>3. ASSUME EntryOk(e, given_) PROVE EntryOk(f, t)
    <3>1. e.hits = Len(given_) /\ e.stable + HOT_HIT_THRESHOLD <= e.hits /\ EndsIn(given_, e.stable, e.lastKey)
      BY <1>4, <2>3 DEF EntryOk
    <3>2. EndsIn(t, stable, key)
      BY <1>0, <3>1, EndGrows DEF stable, key
    <3>3. stable + HOT_HIT_THRESHOLD <= Len(t)
      BY <1>0, <3>1 DEF stable
    <3>4. enough => HasRun(t, HOT_HIT_THRESHOLD, STABLE_RESPONSE_THRESHOLD, key)
      <4> HIDE DEF t
      <4> QED
        BY <1>0, <1>00, <3>2, <3>3, EndIsRun DEF enough
    <3> HIDE DEF t
    <3> QED
      BY <1>0, <2>2, <3>1, <3>2, <3>3, <3>4 DEF EntryOk, n
  <2> QED
    BY <2>2, <2>3 DEF f
<1> QED
  BY <1>0, <1>1, <1>2, <1>3, <1>4

(* A plan that is merged from one that asks for something asks for it.           *)
LEMMA MergedAsks ==
  ASSUME NEW plans, NEW p \in plans, ~hasNoRequestAccess(p)
  PROVE  ~hasNoRequestAccess(mergeRequestAccessPlans(plans))
<1> DEFINE m == mergeRequestAccessPlans(plans)
<1>1. /\ m.scalars = UNION {q.scalars : q \in plans} /\ m.full = UNION {q.full : q \in plans}
      /\ \A f \in Objects : m.keys[f] = UNION {q.keys[f] : q \in plans}
  BY DEF mergeRequestAccessPlans, Plan
<1> HIDE DEF m
<1>2. CASE p.scalars # {}
  <2>1. m.scalars # {}
    BY <1>1, <1>2
  <2> QED
    BY <2>1 DEF hasNoRequestAccess, m
<1>3. CASE p.full # {}
  <2>1. m.full # {}
    BY <1>1, <1>3
  <2> QED
    BY <2>1 DEF hasNoRequestAccess, m
<1>4. CASE \E f \in Objects : p.keys[f] # {}
  <2>1. PICK f \in Objects : p.keys[f] # {}
    BY <1>4
  <2>2. m.keys[f] # {}
    BY <1>1, <2>1
  <2> QED
    BY <2>2 DEF hasNoRequestAccess, m
<1> QED
  BY <1>2, <1>3, <1>4 DEF hasNoRequestAccess, m

(* Every way of using the request that the analysis follows asks for something. *)
LEMMA UseAsks ==
  ASSUME NEW u \in Uses, u.how # "helper", u.field \notin {"ip", "body"}
  PROVE  /\ u.how # "rest" => ~hasNoRequestAccess(Marks(u))
         /\ ~hasNoRequestAccess(RegexMarks(u))
<1>1. \/ u.how = "read" /\ u.field \in Scalars
      \/ u.how = "read" /\ u.field \in Objects
      \/ u.how \in {"whole", "unpack"} /\ u.field \in Objects
      \/ u.how = "unpack" /\ u.field \in Scalars
      \/ u.how = "call" \/ u.how = "callAny" \/ u.how = "any" \/ u.how = "rest"
  BY DEF Uses, Use, Scalars, Objects
<1>2. \A k : \A f \in Objects : [NoKeys EXCEPT ![f] = {k}][f] # {}
  BY DEF NoKeys
<1>3. ~hasNoRequestAccess(FullPlan)
  BY DEF hasNoRequestAccess, FullPlan, Plan, Scalars
<1>4. CASE u.how = "read" /\ u.field \in Scalars
  <2>1. Marks(u) = Plan({u.field}, {}, NoKeys)
    BY <1>4 DEF Marks, Scalars, Objects
  <2> QED
    BY <1>4, <2>1 DEF hasNoRequestAccess, Plan, RegexMarks
<1>5. CASE u.how = "read" /\ u.field \in Objects
  <2>1. Marks(u) = Plan({}, {}, [NoKeys EXCEPT ![u.field] = {u.key}])
    BY <1>5 DEF Marks, Scalars, Objects
  <2>2. Marks(u).keys[u.field] # {}
    BY <1>2, <1>5, <2>1 DEF Plan
  <2>3. ~hasNoRequestAccess(Marks(u))
    BY <1>5, <2>2 DEF hasNoRequestAccess
  <2> QED
    BY <1>5, <2>3 DEF RegexMarks
<1>6. CASE u.how \in {"whole", "unpack"} /\ u.field \in Objects
  <2>1. Marks(u) = Plan({}, {u.field}, NoKeys)
    BY <1>6 DEF Marks, Scalars, Objects
  <2> QED
    BY <1>3, <1>6, <2>1 DEF hasNoRequestAccess, Plan, RegexMarks
<1>7. CASE u.how = "unpack" /\ u.field \in Scalars
  <2>1. Marks(u) = Plan({u.field}, {}, NoKeys)
    BY <1>7 DEF Marks, Scalars, Objects
  <2> QED
    BY <1>3, <1>7, <2>1 DEF hasNoRequestAccess, Plan, RegexMarks
<1>8. CASE u.how = "call"
  <2>1. Marks(u) = Plan({}, {}, [NoKeys EXCEPT !["headers"] = {u.key}])
    BY <1>8 DEF Marks
  <2>2. "headers" \in Objects
    BY DEF Objects
  <2> QED
    BY <1>2, <1>8, <2>1, <2>2 DEF hasNoRequestAccess, Plan, RegexMarks
<1>9. CASE u.how = "callAny"
  <2>1. Marks(u) = Plan({}, {"headers"}, NoKeys)
    BY <1>9 DEF Marks
  <2> QED
    BY <1>9, <2>1 DEF hasNoRequestAccess, Plan, RegexMarks
<1>10. CASE u.how = "any"
  <2>1. Marks(u) = FullPlan
    BY <1>10 DEF Marks
  <2> QED
    BY <1>3, <1>10, <2>1 DEF RegexMarks
<1>11. CASE u.how = "rest"
  BY <1>3, <1>11 DEF RegexMarks
<1> QED
  BY <1>1, <1>4, <1>5, <1>6, <1>7, <1>8, <1>9, <1>10, <1>11

(* A route without request access whose handler the analysis can follow, and    *)
(* does not read the ip or the body, shows nothing of the request.              *)
LEMMA NothingRead ==
  ASSUME NEW rt \in Routes, hasNoRequestAccess(RoutePlan(rt)), Followed(rt.handler),
         \A u \in rt.handler.uses : u.field \notin {"ip", "body"}
  PROVE  ~Reads(rt.handler)
<1> DEFINE h == rt.handler
           P == {analyzeRequestAccess(h)} \cup (IF rt.errorHandler THEN {ERROR_HANDLER_PLAN} ELSE {})
<1>1. hasNoRequestAccess(analyzeRequestAccess(h))
  <2>1. analyzeRequestAccess(h) \in P /\ hasNoRequestAccess(mergeRequestAccessPlans(P))
    BY DEF RoutePlan
  <2> HIDE DEF P
  <2> QED
    BY <2>1, MergedAsks
<1>2. ASSUME NEW u \in h.uses, u.how # "helper" PROVE FALSE
  <2>1. u \in Uses /\ u.field \notin {"ip", "body"}
    BY BridgeAssumption
  <2>2. CASE h.form = "function" /\ h.param # "pattern"
    <3>1. u.how # "rest"
      BY <2>2 DEF Followed
    <3>2. ~hasNoRequestAccess(Marks(u)) /\ Marks(u) \in {Marks(v) : v \in h.uses}
      BY <1>2, <2>1, <3>1, UseAsks
    <3>3. analyzeRequestAccess(h) = mergeRequestAccessPlans({Marks(v) : v \in h.uses})
      BY <2>2 DEF analyzeRequestAccess
    <3> QED
      BY <1>1, <3>2, <3>3, MergedAsks
  <2>3. CASE h.form = "shorthand" /\ h.param = "req"
    <3>2. ~hasNoRequestAccess(RegexMarks(u)) /\ RegexMarks(u) \in {RegexMarks(v) : v \in h.uses}
      BY <1>2, <2>1, UseAsks
    <3>3. analyzeRequestAccess(h) = mergeRequestAccessPlans({RegexMarks(v) : v \in h.uses})
      BY <2>3 DEF analyzeRequestAccess
    <3> QED
      BY <1>1, <3>2, <3>3, MergedAsks
  <2> QED
    BY <2>2, <2>3 DEF Followed
<1> QED
  BY <1>2 DEF Reads

(* The inductive invariant of promotion.  Over are the dispatches that ended.   *)
Over == {r \in Requests : rq[r].pc \in {"loose", "done"}}
Histories(S) == [given : Seq(S), sent : Seq(S)]
RouteTypes ==
    /\ route \in Routes /\ world \in {0, 1} /\ gen \in 1..MaxGen
    /\ DOMAIN cache = 1..MaxGen /\ DOMAIN entry = 1..MaxGen /\ DOMAIN hist = 1..MaxGen
    /\ \A g \in 1..MaxGen : /\ cache[g] \in Caches(Shown) /\ entry[g] \in Entries(Shown)
                            /\ hist[g] \in Histories(Shown)
RouteInv ==
    \A g \in 1..MaxGen :
        /\ cache[g].on => route.static /\ hasNoRequestAccess(RoutePlan(route))
        /\ CacheOk(cache[g], hist[g].sent)
        /\ Promotes => EntryOk(entry[g], hist[g].given)
CountInv == \A g \in 1..MaxGen : Len(hist[g].given) <= Cardinality(Over)
RequestInv ==
    \A r \in Requests : /\ rq[r].pc \in {"new", "done"} => rq[r].obj = 0
                        /\ rq[r].pc = "running" => rq[r].gen \in 1..gen
PromoInv == RouteTypes /\ RouteInv /\ CountInv /\ RequestInv /\ PromotedSuits

(* What the route can answer does not change. *)
LEMMA ShownStays == ASSUME route' = route PROVE Shown' = Shown
  BY DEF Shown, Response, Reads, DataOf

LEMMA ShownIs == ASSUME RouteTypes, NEW r \in Requests PROVE Response(r, world) \in Shown
  BY DEF RouteTypes, Shown

(* The number of dispatches that ended. *)
LEMMA OverCount ==
  ASSUME \A q \in Requests : rq[q].pc \in {"loose", "done"} => rq'[q].pc \in {"loose", "done"}
  PROVE  /\ Cardinality(Over) \in 0..N /\ Cardinality(Over') \in 0..N /\ Cardinality(Over) <= Cardinality(Over')
         /\ \A r \in Requests : rq[r].pc = "running" /\ rq'[r].pc \in {"loose", "done"}
                                    => Cardinality(Over) + 1 <= Cardinality(Over')
<1>1. IsFiniteSet(Requests) /\ Cardinality(Requests) = N /\ N \in Nat
  BY BridgeAssumption, FS_Interval DEF Requests
<1>2. Over \subseteq Requests /\ Over' \subseteq Requests /\ Over \subseteq Over'
  BY DEF Over
<1>3. /\ IsFiniteSet(Over) /\ IsFiniteSet(Over') /\ Cardinality(Over) <= N /\ Cardinality(Over') <= N
      /\ Cardinality(Over) \in Nat /\ Cardinality(Over') \in Nat
  BY <1>1, <1>2, FS_Subset, FS_CardinalityType
<1>4. Cardinality(Over) <= Cardinality(Over')
  BY <1>2, <1>3, FS_Subset
<1>5. ASSUME NEW r \in Requests, rq[r].pc = "running", rq'[r].pc \in {"loose", "done"}
      PROVE  Cardinality(Over) + 1 <= Cardinality(Over')
  <2>1. r \notin Over /\ Over \cup {r} \subseteq Over'
    BY <1>2, <1>5 DEF Over
  <2>2. Cardinality(Over \cup {r}) = Cardinality(Over) + 1 /\ IsFiniteSet(Over \cup {r})
    BY <1>3, <2>1, FS_AddElement
  <2>3. Cardinality(Over \cup {r}) <= Cardinality(Over')
    BY <1>3, <2>1, FS_Subset
  <2> QED
    BY <2>2, <2>3
<1> QED
  BY <1>1, <1>3, <1>4, <1>5

(* A step that leaves caches, entries and history alone and answers no request   *)
(* with another one's data.                                                   *)
LEMMA Unpromoted ==
  ASSUME PromoInv, UNCHANGED <<route, gen, routeVars>>, world' \in {0, 1},
         \A q \in Requests : /\ rq[q].pc \in {"loose", "done"} => rq'[q].pc \in {"loose", "done"}
                             /\ rq'[q].pc \in {"new", "done"} => rq'[q].obj = 0
                             /\ rq'[q].pc = "running" => rq'[q].gen \in 1..gen,
         PromotedSuits'
  PROVE  PromoInv'
<1>1. Shown' = Shown /\ cache' = cache /\ entry' = entry /\ hist' = hist /\ route' = route /\ gen' = gen
  BY ShownStays DEF routeVars
<1>2. RouteTypes'
  BY <1>1 DEF PromoInv, RouteTypes, Caches, Entries, Histories, Key
<1>3. RouteInv'
  BY <1>1 DEF PromoInv, RouteInv, CacheOk, EntryOk, Promotes
<1>4. CountInv'
  <2>1. \A g \in 1..MaxGen : Len(hist[g].given) \in Nat /\ Len(hist[g].given) <= Cardinality(Over)
    BY DEF PromoInv, RouteTypes, Histories, CountInv
  <2>2. Cardinality(Over) \in 0..N /\ Cardinality(Over') \in 0..N /\ Cardinality(Over) <= Cardinality(Over')
    BY OverCount
  <2>3. N \in Nat
    BY BridgeAssumption
  <2> QED
    BY <1>1, <2>1, <2>2, <2>3 DEF CountInv
<1>5. RequestInv'
  BY <1>1 DEF RequestInv
<1> QED
  BY <1>2, <1>3, <1>4, <1>5 DEF PromoInv

(* What was answered stays answered. *)
LEMMA SuitsStays ==
  ASSUME PromotedSuits, route' = route, \A q \in Requests : rq'[q].answer = rq[q].answer
  PROVE  PromotedSuits'
  BY DEF PromotedSuits, Followed, DataOf

(* What a dispatch in progress becomes when it ends. *)
LEMMA EndedIs ==
  ASSUME IInv, PromoInv, NEW r \in Requests, Runs(r), NEW loose \in BOOLEAN, rq' = Ended(r, loose)
  PROVE  /\ rq'[r].pc \in {"loose", "done"} /\ (rq'[r].pc = "done" => rq'[r].obj = 0)
         /\ \A q \in Requests : q # r => rq'[q] = rq[q]
         /\ \A q \in Requests : rq'[q].answer = rq[q].answer
         /\ \A q \in Requests : /\ rq[q].pc \in {"loose", "done"} => rq'[q].pc \in {"loose", "done"}
                                /\ rq'[q].pc \in {"new", "done"} => rq'[q].obj = 0
                                /\ rq'[q].pc = "running" => rq'[q].gen \in 1..gen
<1>1. DOMAIN rq = Requests /\ DOMAIN rq[r] = Fields
  BY DEF IInv, PoolTypes
<1>2. /\ rq'[r].pc = (IF loose THEN "loose" ELSE "done") /\ rq'[r].obj = (IF loose THEN rq[r].obj ELSE 0)
      /\ rq'[r].answer = rq[r].answer
      /\ \A q \in Requests : q # r => rq'[q] = rq[q]
  BY <1>1 DEF Ended, Fields
<1> QED
  BY <1>2 DEF PromoInv, RequestInv

(* A dispatch that gave its handler's response ends: FinishOk, FinishThrows.     *)
LEMMA Promoted ==
  ASSUME IInv, PromoInv, NEW r \in Requests, rq[r].pc = "running", NEW loose \in BOOLEAN, NEW sent \in BOOLEAN,
         rq' = Ended(r, loose), UNCHANGED <<route, world, gen>>,
         entry' = [entry EXCEPT ![rq[r].gen] = recordDispatch(@, Response(r, world))],
         cache' = IF sent THEN [cache EXCEPT ![rq[r].gen] =
                                   maybePromoteRouteResponseCache(@, Response(r, world))]
                  ELSE cache,
         hist' = Recorded(rq[r].gen, Response(r, world), sent)
  PROVE  PromoInv'
<1> DEFINE g == rq[r].gen
           s == Response(r, world)
           h == hist[g]
<1>0. RouteTypes /\ RouteInv /\ CountInv /\ RequestInv /\ PromotedSuits
  BY DEF PromoInv
<1>1. g \in 1..MaxGen /\ s \in Shown /\ Shown' = Shown
  BY <1>0, ShownIs, ShownStays, BridgeAssumption DEF RequestInv, RouteTypes
<1>2. cache[g] \in Caches(Shown) /\ entry[g] \in Entries(Shown) /\ h.given \in Seq(Shown) /\ h.sent \in Seq(Shown)
  BY <1>0, <1>1 DEF RouteTypes, Histories
<1>3. CacheOk(cache[g], h.sent) /\ (Promotes => EntryOk(entry[g], h.given))
  BY <1>0, <1>1 DEF RouteInv
<1> DEFINE c == IF sent THEN maybePromoteRouteResponseCache(cache[g], s) ELSE cache[g]
           e == recordDispatch(entry[g], s)
           given_ == IF Promotes THEN Append(h.given, s) ELSE h.given
           sent_ == IF Promotes /\ sent THEN Append(h.sent, s) ELSE h.sent
<1>4. /\ e \in Entries(Shown) /\ (Promotes => EntryOk(e, given_))
  BY <1>1, <1>2, <1>3, RecordOk
<1>5. c \in Caches(Shown) /\ c.on = cache[g].on /\ CacheOk(c, sent_)
  <2>1. CASE Promotes /\ sent
    BY <1>1, <1>2, <1>3, <2>1, PromoteOk
  <2>2. CASE Promotes /\ ~sent
    BY <1>1, <1>2, <1>3, <2>2
  <2>3. CASE ~Promotes
    <3>1. ~cache[g].on
      BY <1>0, <1>1, <2>3, BridgeAssumption DEF RouteInv, RouteTypes, Promotes
    <3>2. c = cache[g]
      BY <3>1 DEF maybePromoteRouteResponseCache
    <3> QED
      BY <1>2, <1>3, <2>3, <3>2
  <2> QED
    BY <2>1, <2>2, <2>3
<1>6. /\ given_ \in Seq(Shown) /\ sent_ \in Seq(Shown) /\ Len(given_) <= Len(h.given) + 1 /\ Len(h.given) \in Nat
      /\ Len(given_) \in Nat
  <2>1. /\ Len(h.given) \in Nat /\ Append(h.given, s) \in Seq(Shown)
        /\ Len(Append(h.given, s)) = Len(h.given) + 1 /\ Append(h.sent, s) \in Seq(Shown)
    BY <1>1, <1>2, OneMore
  <2> HIDE DEF s, h
  <2> QED
    BY <1>2, <2>1
<1>7. /\ DOMAIN cache' = 1..MaxGen /\ DOMAIN entry' = 1..MaxGen /\ DOMAIN hist' = 1..MaxGen
      /\ cache'[g] = c /\ entry'[g] = e /\ hist'[g] = [given |-> given_, sent |-> sent_]
      /\ \A k \in 1..MaxGen : k # g => cache'[k] = cache[k] /\ entry'[k] = entry[k] /\ hist'[k] = hist[k]
  <2>1. DOMAIN cache = 1..MaxGen /\ DOMAIN entry = 1..MaxGen /\ DOMAIN hist = 1..MaxGen
    BY <1>0 DEF RouteTypes
  <2>2. DOMAIN cache' = 1..MaxGen /\ cache'[g] = c /\ \A k \in 1..MaxGen : k # g => cache'[k] = cache[k]
    BY <1>1, <2>1
  <2>3. DOMAIN entry' = 1..MaxGen /\ entry'[g] = e /\ \A k \in 1..MaxGen : k # g => entry'[k] = entry[k]
    BY <1>1, <2>1
  <2>4. /\ DOMAIN hist' = 1..MaxGen /\ hist'[g] = [given |-> given_, sent |-> sent_]
        /\ \A k \in 1..MaxGen : k # g => hist'[k] = hist[k]
    <3>1. CASE Promotes
      <4>1. hist' = [hist EXCEPT ![g] = [given |-> given_, sent |-> sent_]]
        BY <3>1 DEF Recorded
      <4> HIDE DEF given_, sent_, g
      <4> QED
        BY <4>1, <1>1, <2>1
    <3>2. CASE ~Promotes
      <4>1. hist' = hist
        BY <3>2 DEF Recorded
      <4>2. hist[g] = [given |-> hist[g].given, sent |-> hist[g].sent]
        BY <1>0, <1>1 DEF RouteTypes, Histories
      <4> QED
        BY <3>2, <4>1, <4>2, <2>1
    <3> QED
      BY <3>1, <3>2
  <2> QED
    BY <2>2, <2>3, <2>4
<1>8. /\ rq'[r].pc \in {"loose", "done"}
      /\ \A q \in Requests : rq'[q].answer = rq[q].answer
      /\ \A q \in Requests : /\ rq[q].pc \in {"loose", "done"} => rq'[q].pc \in {"loose", "done"}
                             /\ rq'[q].pc \in {"new", "done"} => rq'[q].obj = 0
                             /\ rq'[q].pc = "running" => rq'[q].gen \in 1..gen
  BY EndedIs DEF Runs
<1> HIDE DEF g, s, h, c, e, given_, sent_
<1>9. RouteTypes'
  <2>1. [given |-> given_, sent |-> sent_] \in Histories(Shown)
    BY <1>6 DEF Histories
  <2>2. \A k \in 1..MaxGen : /\ cache'[k] \in Caches(Shown) /\ entry'[k] \in Entries(Shown)
                             /\ hist'[k] \in Histories(Shown)
    BY <1>0, <1>4, <1>5, <1>7, <2>1 DEF RouteTypes
  <2>3. /\ Caches(Shown)' = Caches(Shown) /\ Entries(Shown)' = Entries(Shown)
        /\ Histories(Shown)' = Histories(Shown)
    BY <1>1 DEF Caches, Entries, Histories, Key
  <2> QED
    BY <1>0, <1>1, <1>7, <2>2, <2>3 DEF RouteTypes
<1>10. RouteInv'
  <2>1. ASSUME NEW k \in 1..MaxGen
        PROVE  /\ cache'[k].on => route.static /\ hasNoRequestAccess(RoutePlan(route))
               /\ CacheOk(cache'[k], hist'[k].sent)
               /\ Promotes => EntryOk(entry'[k], hist'[k].given)
    BY <1>0, <1>1, <1>4, <1>5, <1>7 DEF RouteInv
  <2> QED
    BY <2>1 DEF RouteInv, CacheOk, EntryOk, Promotes
<1>11. CountInv'
  <2>1. /\ Cardinality(Over) \in 0..N /\ Cardinality(Over') \in 0..N /\ N \in Nat
        /\ Cardinality(Over) + 1 <= Cardinality(Over')
    BY <1>8, OverCount, BridgeAssumption
  <2>2. \A k \in 1..MaxGen : Len(hist[k].given) <= Cardinality(Over) /\ Len(hist[k].given) \in Nat
    BY <1>0 DEF CountInv, RouteTypes, Histories
  <2>3. ASSUME NEW k \in 1..MaxGen PROVE Len(hist'[k].given) <= Cardinality(Over')
    <3>1. CASE k = g
      <4>1. Len(given_) <= Cardinality(Over) + 1 /\ Len(given_) \in Nat
        BY <1>1, <1>6, <2>1, <2>2 DEF h
      <4>2. hist'[k].given = given_
        BY <1>7, <3>1
      <4> QED
        BY <1>1, <2>1, <4>1, <4>2
    <3>2. CASE k # g
      <4>1. hist'[k].given = hist[k].given
        BY <1>7, <3>2
      <4> QED
        BY <2>1, <2>2, <4>1
    <3> QED
      BY <3>1, <3>2
  <2> QED
    BY <2>3 DEF CountInv
<1>12. RequestInv'
  BY <1>8 DEF RequestInv
<1>13. PromotedSuits'
  BY <1>0, <1>8, SuitsStays
<1> QED
  BY <1>9, <1>10, <1>11, <1>12, <1>13 DEF PromoInv

(* A cache as createRouteResponseCache makes it has counted nothing. *)
LEMMA NewCache ==
  ASSUME NEW S, NEW sent \in Seq(S), NEW c \in {NoCache, [NoCache EXCEPT !.on = TRUE]}
  PROVE  c \in Caches(S) /\ CacheOk(c, sent) /\ (c.on <=> c # NoCache)
<1>1. c.encoded = None /\ c.lastKey = None /\ c.stableHits = 0 /\ c.on \in BOOLEAN /\ c \in Caches(S)
  <2> DEFINE m == None
  <2>1. \E b \in BOOLEAN : c = [on |-> b, encoded |-> m, lastKey |-> m, stableHits |-> 0]
    BY DEF NoCache
  <2> HIDE DEF m
  <2>2. c.encoded = m /\ c.lastKey = m /\ c.stableHits = 0 /\ c.on \in BOOLEAN
    BY <2>1
  <2>3. c \in Caches(S)
    BY <2>1 DEF Caches, m
  <2> QED
    BY <2>2, <2>3 DEF m
<1>3. EndsIn(sent, 0, None)
  BY DEF EndsIn
<1>4. c.on <=> c # NoCache
  BY DEF NoCache
<1> QED
  BY <1>1, <1>3, <1>4, BridgeAssumption DEF CacheOk

(* The cache of a route, on or off. *)
LEMMA RouteCacheIs ==
  ASSUME NEW rt
  PROVE  /\ createRouteResponseCache(rt) \in {NoCache, [NoCache EXCEPT !.on = TRUE]}
         /\ createRouteResponseCache(rt) # NoCache => rt.static /\ hasNoRequestAccess(RoutePlan(rt))
  BY DEF createRouteResponseCache

(* Nothing is promoted, and nobody has arrived. *)
LEMMA PromoInit == Init => PromoInv
<1> SUFFICES ASSUME Init PROVE PromoInv
  OBVIOUS
<1>1. /\ route \in Routes /\ rq = [r \in Requests |-> NewRequest] /\ world = 0 /\ gen = 1
      /\ cache = [g \in 1..MaxGen |-> IF g = 1 THEN createRouteResponseCache(route) ELSE NoCache]
      /\ entry = [g \in 1..MaxGen |-> NewEntry(route)] /\ hist = [g \in 1..MaxGen |-> NoHistory]
  BY DEF Init, ServeInit
<1>2. /\ NoHistory \in Histories(Shown) /\ NoHistory.given = <<>> /\ NoHistory.sent = <<>>
      /\ NoHistory.given \in Seq(Shown) /\ NoHistory.sent \in Seq(Shown)
  BY DEF NoHistory, Histories
<1>3. /\ NewEntry(route) \in Entries(Shown) /\ EntryOk(NewEntry(route), <<>>)
  <2>1. cacheCandidate(route) \in BOOLEAN
    BY DEF cacheCandidate
  <2> DEFINE b == cacheCandidate(route)
             e == NewEntry(route)
  <2>2. e = [stage |-> "cold", hits |-> 0, candidate |-> b, settled |-> FALSE,
             stable |-> 0, lastKey |-> None, recommended |-> FALSE]
    BY DEF NewEntry
  <2> HIDE DEF b, e
  <2>3. e \in Entries(Shown)
    BY <2>1, <2>2 DEF Entries, b
  <2>4. EntryOk(e, <<>>)
    BY <2>2, BridgeAssumption DEF EntryOk
  <2> QED
    BY <2>3, <2>4 DEF e
<1>4. \A g \in 1..MaxGen : /\ cache[g] \in Caches(Shown) /\ CacheOk(cache[g], <<>>)
                           /\ cache[g].on => route.static /\ hasNoRequestAccess(RoutePlan(route))
  <2> TAKE g \in 1..MaxGen
  <2>1. cache[g] \in {createRouteResponseCache(route), NoCache} /\ <<>> \in Seq(Shown)
    BY <1>1
  <2>2. cache[g] \in {NoCache, [NoCache EXCEPT !.on = TRUE]}
    BY <2>1, RouteCacheIs
  <2>3. /\ cache[g] \in Caches(Shown) /\ CacheOk(cache[g], <<>>) /\ (cache[g].on <=> cache[g] # NoCache)
    BY <2>1, <2>2, NewCache
  <2>4. cache[g] # NoCache => route.static /\ hasNoRequestAccess(RoutePlan(route))
    BY <2>1, RouteCacheIs
  <2> QED
    BY <2>3, <2>4
<1>5. RouteTypes
  <2>1. route \in Routes /\ world \in {0, 1} /\ gen \in 1..MaxGen
    BY <1>1, BridgeAssumption
  <2>2. DOMAIN cache = 1..MaxGen /\ DOMAIN entry = 1..MaxGen /\ DOMAIN hist = 1..MaxGen
    BY <1>1
  <2>3. \A g \in 1..MaxGen : entry[g] \in Entries(Shown) /\ hist[g] \in Histories(Shown)
    BY <1>1, <1>2, <1>3
  <2> QED
    BY <2>1, <2>2, <2>3, <1>4 DEF RouteTypes
<1>6. RouteInv
  BY <1>1, <1>2, <1>3, <1>4 DEF RouteInv
<1>7. \A r \in Requests : rq[r].pc = "new" /\ rq[r].obj = 0 /\ rq[r].answer.cached = FALSE
  BY <1>1 DEF NewRequest, NoAnswer
<1>8. CountInv
  <2>1. Cardinality(Over) \in 0..N /\ N \in Nat
    <3>1. Over \subseteq Requests /\ IsFiniteSet(Requests) /\ Cardinality(Requests) = N
      BY BridgeAssumption, FS_Interval DEF Over, Requests
    <3> QED
      BY <3>1, FS_Subset, FS_CardinalityType, BridgeAssumption
  <2> QED
    BY <1>1, <1>2, <2>1 DEF CountInv
<1>9. RequestInv /\ PromotedSuits
  BY <1>7 DEF RequestInv, PromotedSuits
<1> QED
  BY <1>5, <1>6, <1>8, <1>9 DEF PromoInv

(* A promoted response shows nothing that belongs to a request. *)
LEMMA CachedSuits ==
  ASSUME IInv, PromoInv, NEW r \in Requests, ArriveCached(r)
  PROVE  PromotedSuits'
<1> DEFINE c == cache[gen]
           s == c.encoded[1]
<1>1. /\ c \in Caches(Shown) /\ c.encoded # None /\ CacheOk(c, hist[gen].sent) /\ route \in Routes
      /\ c.on => hasNoRequestAccess(RoutePlan(route))
  BY DEF ArriveCached, PromoInv, RouteTypes, RouteInv
<1>2. c.on /\ s \in Shown
  BY <1>1 DEF CacheOk, Caches
<1>3. PICK q \in Requests, w \in {0, 1} : s = Response(q, w)
  BY <1>2 DEF Shown
<1>4. /\ DOMAIN rq = Requests /\ DOMAIN rq[r] = Fields /\ route' = route
      /\ rq' = [rq EXCEPT ![r].pc = "done", ![r].gen = gen,
                  ![r].answer = [cached |-> TRUE, shows |-> IF s.body = <<>> THEN 0 ELSE s.body[1]]]
  BY DEF ArriveCached, IInv, PoolTypes
<1> HIDE DEF s, c
<1>5. /\ rq'[r].answer.shows = (IF s.body = <<>> THEN 0 ELSE s.body[1])
      /\ \A p \in Requests : p # r => rq'[p].answer = rq[p].answer
  BY <1>4 DEF Fields
<1>6. ASSUME Followed(route.handler), \A u \in route.handler.uses : u.field \notin {"ip", "body"}
      PROVE  rq'[r].answer.shows = 0
  <2>1. ~Reads(route.handler)
    BY <1>1, <1>2, <1>6, NothingRead
  <2>2. s.body = <<>> \/ s.body = <<0, w>>
    BY <1>3, <2>1 DEF Response
  <2> QED
    BY <1>5, <2>2
<1>7. PromotedSuits
  BY DEF PromoInv
<1> QED
  BY <1>4, <1>5, <1>6, <1>7 DEF PromotedSuits, Followed, DataOf

(* Every step of the served requests preserves the invariant of promotion.      *)
LEMMA PromoStep == IInv /\ PromoInv /\ [Next]_vars => PromoInv'
<1> SUFFICES ASSUME IInv, PromoInv, [Next]_vars PROVE PromoInv'
  OBVIOUS
<1>0. /\ DOMAIN rq = Requests /\ \A q \in Requests : DOMAIN rq[q] = Fields
      /\ world \in {0, 1} /\ gen \in 1..MaxGen /\ PromotedSuits /\ RequestInv
      /\ \A q \in Requests : rq[q].pc \in {"new", "running", "loose", "done"}
  BY DEF IInv, PoolTypes, PromoInv, RouteTypes
<1>1. ASSUME NEW r \in Requests, Arrive(r) PROVE PromoInv'
  <2>1. /\ rq[r].pc = "new" /\ rq'[r].pc = "running" /\ rq'[r].gen = gen /\ rq'[r].answer = rq[r].answer
        /\ \A q \in Requests : q # r => rq'[q] = rq[q]
        /\ UNCHANGED <<route, world, gen, routeVars>>
    BY <1>0, <1>1 DEF Arrive, IsNext, Acquire, Fields
  <2>2. PromotedSuits'
    BY <1>0, <2>1, SuitsStays
  <2>3. \A q \in Requests : /\ rq[q].pc \in {"loose", "done"} => rq'[q].pc \in {"loose", "done"}
                            /\ rq'[q].pc \in {"new", "done"} => rq'[q].obj = 0
                            /\ rq'[q].pc = "running" => rq'[q].gen \in 1..gen
    BY <1>0, <2>1, BridgeAssumption DEF RequestInv
  <2> QED
    BY <1>0, <2>1, <2>2, <2>3, Unpromoted
<1>2. ASSUME NEW r \in Requests, ArriveCached(r) PROVE PromoInv'
  <2>1. /\ rq[r].pc = "new" /\ rq'[r].pc = "done" /\ rq'[r].obj = rq[r].obj
        /\ \A q \in Requests : q # r => rq'[q] = rq[q]
        /\ UNCHANGED <<route, world, gen, routeVars>>
    BY <1>0, <1>2 DEF ArriveCached, IsNext, Fields
  <2>3. \A q \in Requests : /\ rq[q].pc \in {"loose", "done"} => rq'[q].pc \in {"loose", "done"}
                            /\ rq'[q].pc \in {"new", "done"} => rq'[q].obj = 0
                            /\ rq'[q].pc = "running" => rq'[q].gen \in 1..gen
    BY <1>0, <2>1 DEF RequestInv
  <2> QED
    BY <1>0, <1>2, <2>1, <2>3, CachedSuits, Unpromoted
<1>3. ASSUME NEW r \in Requests, NEW loose \in BOOLEAN, Runs(r), rq' = Ended(r, loose),
             UNCHANGED <<route, world, gen, routeVars>>
      PROVE  PromoInv'
  BY <1>0, <1>3, EndedIs, SuitsStays, Unpromoted
<1>4. ASSUME \A q \in Requests : /\ rq'[q].pc = rq[q].pc /\ rq'[q].obj = rq[q].obj
                                 /\ rq'[q].gen = rq[q].gen /\ rq'[q].answer = rq[q].answer,
             world' \in {0, 1}, UNCHANGED <<route, gen, routeVars>>
      PROVE  PromoInv'
  <2>1. PromotedSuits'
    BY <1>0, <1>4, SuitsStays
  <2>2. \A q \in Requests : /\ rq[q].pc \in {"loose", "done"} => rq'[q].pc \in {"loose", "done"}
                            /\ rq'[q].pc \in {"new", "done"} => rq'[q].obj = 0
                            /\ rq'[q].pc = "running" => rq'[q].gen \in 1..gen
    BY <1>0, <1>4 DEF RequestInv
  <2> QED
    BY <1>4, <2>1, <2>2, Unpromoted
<1>5. ASSUME NEW r \in Requests, NEW s \in Slots, ReadSlot(r, s) \/ WriteSlot(r, s) PROVE PromoInv'
  <2>1. UNCHANGED <<route, world, gen, routeVars>>
    BY <1>5 DEF ReadSlot, WriteSlot
  <2>2. \A q \in Requests : /\ rq'[q].pc = rq[q].pc /\ rq'[q].obj = rq[q].obj
                            /\ rq'[q].gen = rq[q].gen /\ rq'[q].answer = rq[q].answer
    <3>1. CASE ReadSlot(r, s)
      <4> DEFINE o == obj[rq[r].obj]
                 v == [slot |-> s, of |-> IF s \in Lazy /\ o.slot[s] = 0 THEN o.owner ELSE o.slot[s]]
      <4>1. rq' = [rq EXCEPT ![r].shown = v]
        BY <3>1 DEF ReadSlot
      <4> HIDE DEF v
      <4> QED
        BY <1>0, <4>1 DEF Fields
    <3>2. CASE WriteSlot(r, s)
      BY <1>0, <3>2 DEF WriteSlot, Fields
    <3> QED
      BY <1>5, <3>1, <3>2
  <2> QED
    BY <1>0, <1>4, <2>1, <2>2
<1>6. ASSUME NEW r \in Requests, NEW loose \in BOOLEAN, FinishOk(r, loose) PROVE PromoInv'
  <2>1. /\ rq[r].pc = "running" /\ rq' = Ended(r, loose) /\ UNCHANGED <<route, world, gen>>
        /\ entry' = [entry EXCEPT ![rq[r].gen] = recordDispatch(@, Response(r, world))]
        /\ cache' = [cache EXCEPT ![rq[r].gen] = maybePromoteRouteResponseCache(@, Response(r, world))]
        /\ hist' = Recorded(rq[r].gen, Response(r, world), TRUE)
    BY <1>6 DEF FinishOk
  <2> QED
    BY <2>1, Promoted
<1>7. ASSUME NEW r \in Requests, NEW loose \in BOOLEAN, FinishThrows(r, loose) PROVE PromoInv'
  <2>1. /\ rq[r].pc = "running" /\ rq' = Ended(r, loose) /\ UNCHANGED <<route, world, gen>>
        /\ entry' = [entry EXCEPT ![rq[r].gen] = recordDispatch(@, Response(r, world))]
        /\ cache' = cache
        /\ hist' = Recorded(rq[r].gen, Response(r, world), FALSE)
    BY <1>7 DEF FinishThrows
  <2> QED
    BY <2>1, Promoted
<1>8. CASE Replace
  <2> DEFINE c == createRouteResponseCache(route)
             g == gen + 1
  <2>1. /\ g \in 1..MaxGen /\ gen' = g /\ cache' = [cache EXCEPT ![g] = c]
        /\ UNCHANGED <<route, rq, world, entry, hist>>
    BY <1>0, <1>8, BridgeAssumption DEF Replace
  <2>2. RouteTypes /\ RouteInv /\ CountInv
    BY DEF PromoInv
  <2>3. c \in Caches(Shown) /\ CacheOk(c, hist[g].sent) /\ (c.on => route.static /\ hasNoRequestAccess(RoutePlan(route)))
    <3>1. hist[g].sent \in Seq(Shown)
      BY <2>1, <2>2 DEF RouteTypes, Histories
    <3> QED
      BY <3>1, NewCache, RouteCacheIs
  <2>4. /\ DOMAIN cache' = 1..MaxGen /\ cache'[g] = c
        /\ \A k \in 1..MaxGen : k # g => cache'[k] = cache[k]
    BY <2>1, <2>2 DEF RouteTypes
  <2>5. Shown' = Shown /\ Over' = Over
    BY <2>1, ShownStays DEF Over
  <2> HIDE DEF c
  <2>6. RouteTypes'
    <3>1. \A k \in 1..MaxGen : cache'[k] \in Caches(Shown)
      BY <2>2, <2>3, <2>4 DEF RouteTypes
    <3>2. Caches(Shown)' = Caches(Shown) /\ Entries(Shown)' = Entries(Shown) /\ Histories(Shown)' = Histories(Shown)
      BY <2>5 DEF Caches, Entries, Histories, Key
    <3> QED
      BY <2>1, <2>2, <2>4, <3>1, <3>2 DEF RouteTypes
  <2>7. RouteInv'
    <3>1. ASSUME NEW k \in 1..MaxGen
          PROVE  /\ cache'[k].on => route.static /\ hasNoRequestAccess(RoutePlan(route))
                 /\ CacheOk(cache'[k], hist[k].sent)
                 /\ Promotes => EntryOk(entry[k], hist[k].given)
      BY <2>2, <2>3, <2>4 DEF RouteInv
    <3> QED
      BY <2>1, <3>1 DEF RouteInv, CacheOk, EntryOk, Promotes
  <2>8. CountInv' /\ RequestInv' /\ PromotedSuits'
    <3>1. CountInv'
      BY <2>1, <2>2, <2>5 DEF CountInv
    <3>2. RequestInv'
      BY <1>0, <2>1 DEF RequestInv
    <3>3. PromotedSuits'
      BY <1>0, <2>1, SuitsStays
    <3> QED
      BY <3>1, <3>2, <3>3
  <2> QED
    BY <2>6, <2>7, <2>8 DEF PromoInv
<1>9. CASE WorldChanges \/ UNCHANGED vars
  BY <1>0, <1>4, <1>9 DEF WorldChanges, vars, serveVars, routeVars, poolVars
<1>10. ASSUME NEW r \in Requests, NEW loose \in BOOLEAN, FinishError(r, loose) PROVE PromoInv'
  BY <1>3, <1>10 DEF FinishError, Runs
<1>11. ASSUME NEW r \in Requests, LooseEnds(r) PROVE PromoInv'
  BY <1>3, <1>11 DEF LooseEnds, Runs
<1> QED
  <2>1. CASE Next
    <3>1. ServeNext
      BY <2>1 DEF Next
    <3> QED
      BY <3>1, <1>1, <1>2, <1>5, <1>6, <1>7, <1>8, <1>9, <1>10, <1>11 DEF ServeNext, Slots
  <2> QED
    BY <2>1, <1>9

(* The invariant says what PromotionSound says. *)
LEMMA PromotionIs == IInv /\ PromoInv => PromotionSound
<1> SUFFICES ASSUME IInv, PromoInv PROVE PromotionSound
  OBVIOUS
<1>0. /\ RouteTypes /\ RouteInv /\ CountInv /\ RequestInv /\ PromotedSuits
      /\ ROUTE_CACHE_PROMOTE_HITS \in Nat \ {0} /\ HOT_HIT_THRESHOLD \in Nat \ {0}
      /\ STABLE_RESPONSE_THRESHOLD \in Nat \ {0} /\ N \in Nat
  BY BridgeAssumption DEF PromoInv
<1>1. TypeOK
  <2>1. /\ \A i \in 1..Len(requestPool) : requestPool[i] \in 1..Len(obj)
        /\ \A o \in 1..Len(obj) : obj[o].owner \in 0..N /\ \A s \in Slots : obj[o].slot[s] \in 0..N
    <3>1. obj \in Seq(Object) /\ requestPool \in Seq(1..Len(obj))
      BY DEF IInv, PoolTypes
    <3>2. \A o \in 1..Len(obj) : obj[o] \in Object
      BY <3>1
    <3>3. \A i \in 1..Len(requestPool) : requestPool[i] \in 1..Len(obj)
      BY <3>1
    <3>4. \A x \in Object : x.owner \in 0..N /\ \A s \in Slots : x.slot[s] \in 0..N
      BY DEF Object
    <3> QED
      BY <3>2, <3>3, <3>4, Zenon
  <2>2. \A r \in Requests : rq[r].pc \in {"new", "running", "loose", "done"} /\ rq[r].obj \in 0..Len(obj)
    <3>1. Len(obj) \in Nat
      BY DEF IInv, PoolTypes
    <3> QED
      BY <1>0, <3>1 DEF IInv, PoolTypes, RequestInv, Runs
  <2>3. gen \in 1..MaxGen
    BY <1>0 DEF RouteTypes
  <2>4. ASSUME NEW g \in 1..MaxGen
        PROVE  cache[g].stableHits <= ROUTE_CACHE_PROMOTE_HITS /\ Len(hist[g].given) <= N
    <3>1. cache[g].stableHits <= ROUTE_CACHE_PROMOTE_HITS
      <4>1. CacheOk(cache[g], hist[g].sent) /\ cache[g].stableHits \in Nat
        BY <1>0 DEF RouteInv, RouteTypes, Caches
      <4> QED
        BY <1>0, <4>1 DEF CacheOk
    <3>2. Len(hist[g].given) \in Nat /\ Len(hist[g].given) <= Cardinality(Over)
      BY <1>0 DEF CountInv, RouteTypes, Histories
    <3>3. Cardinality(Over) \in 0..N
      <4>1. Over \subseteq Requests /\ IsFiniteSet(Requests) /\ Cardinality(Requests) = N
        BY <1>0, FS_Interval DEF Over, Requests
      <4> QED
        BY <1>0, <4>1, FS_Subset, FS_CardinalityType
    <3> QED
      BY <1>0, <3>1, <3>2, <3>3
  <2> QED
    BY <2>1, <2>2, <2>3, <2>4 DEF TypeOK
<1>2. PromotedIsStable
  <2> SUFFICES ASSUME NEW g \in 1..MaxGen, cache[g].encoded # None
               PROVE  \E i \in 0..Len(hist[g].sent) - ROUTE_CACHE_PROMOTE_HITS :
                         SameKeys(Append(SubSeq(hist[g].sent, i + 1, i + ROUTE_CACHE_PROMOTE_HITS), cache[g].encoded[1]))
    BY DEF PromotedIsStable
  <2> DEFINE P == ROUTE_CACHE_PROMOTE_HITS
             x == cache[g].encoded[1]
             sent == hist[g].sent
  <2>1. /\ sent \in Seq(Shown) /\ HasRun(sent, 0, P, Key(x)) /\ x \in Shown
    BY <1>0 DEF RouteInv, RouteTypes, Histories, CacheOk, Caches
  <2>0. P \in Nat /\ 0 \in Nat
    BY <1>0
  <2> HIDE DEF x, sent, P
  <2>2. PICK i \in 0..Len(sent) - P :
            LET t == SubSeq(sent, i + 1, i + P)
            IN  t \in Seq(Shown) /\ Len(t) = P /\ \A j \in 1..P : Key(t[j]) = Key(x)
    <3>1. Cut(Shown, sent, 0, P, Key(x))
      BY <2>0, <2>1, RunIsSame
    <3> QED
      BY <3>1 DEF Cut
  <2> DEFINE t == SubSeq(sent, i + 1, i + P)
  <2>3. t \in Seq(Shown) /\ Len(t) = P /\ \A j \in 1..P : Key(t[j]) = Key(x)
    BY <2>2
  <2> HIDE DEF t
  <2>4. /\ Len(Append(t, x)) = P + 1 /\ Append(t, x)[P + 1] = x
        /\ \A j \in 1..P : Append(t, x)[j] = t[j]
    BY <2>1, <2>3, OneMore
  <2>5. \A j \in 1..Len(Append(t, x)) : Key(Append(t, x)[j]) = Key(x)
    BY <2>0, <2>3, <2>4
  <2>6. SameKeys(Append(t, x))
    BY <2>5 DEF SameKeys, Key
  <2> QED
    BY <2>2, <2>6 DEF t, x, sent, P
<1>3. RecommendedIsStable
  <2> SUFFICES ASSUME Promotes, NEW g \in 1..MaxGen, entry[g].recommended
               PROVE  \E i \in HOT_HIT_THRESHOLD..Len(hist[g].given) - STABLE_RESPONSE_THRESHOLD :
                         SameKeys(SubSeq(hist[g].given, i + 1, i + STABLE_RESPONSE_THRESHOLD))
    BY DEF RecommendedIsStable
  <2> DEFINE K == STABLE_RESPONSE_THRESHOLD
             given_ == hist[g].given
  <2>1. given_ \in Seq(Shown) /\ \E key : HasRun(given_, HOT_HIT_THRESHOLD, K, key)
    BY <1>0 DEF RouteInv, RouteTypes, Histories, EntryOk
  <2>2. PICK key : HasRun(given_, HOT_HIT_THRESHOLD, K, key)
    BY <2>1
  <2>0. K \in Nat /\ HOT_HIT_THRESHOLD \in Nat
    BY <1>0
  <2> HIDE DEF given_, K
  <2>3. PICK i \in HOT_HIT_THRESHOLD..Len(given_) - K :
            LET t == SubSeq(given_, i + 1, i + K)
            IN  t \in Seq(Shown) /\ Len(t) = K /\ \A j \in 1..K : Key(t[j]) = key
    <3>1. Cut(Shown, given_, HOT_HIT_THRESHOLD, K, key)
      BY <2>0, <2>1, <2>2, RunIsSame
    <3> QED
      BY <3>1 DEF Cut
  <2>4. SameKeys(SubSeq(given_, i + 1, i + K))
    BY <2>3 DEF SameKeys, Key
  <2> QED
    BY <2>3, <2>4 DEF given_, K
<1> QED
  BY <1>0, <1>1, <1>2, <1>3 DEF PromotionSound

(* For any number of overlapping requests and reloads and any thresholds: a      *)
(* response is promoted, and caching is recommended, only after enough answers   *)
(* in a row of the same generation and key, and a promoted response shows no     *)
(* other request's data where the analysis can follow the handler                *)
(* (index.js:1061-1186, opt/runtime.js:43-101).                                *)
THEOREM PromotionIsSound == Spec => []PromotionSound
<1>1. Init => IInv /\ PromoInv
  BY InitInv, PromoInit
<1>2. IInv /\ PromoInv /\ [Next]_vars => (IInv /\ PromoInv)'
  BY StepInv, PromoStep
<1>3. IInv /\ PromoInv => PromotionSound
  BY PromotionIs
<1> QED
  BY <1>1, <1>2, <1>3, PTL DEF Spec

-----------------------------------------------------------------------------
(* Probing.  A handler whose answer consists of constants and the parameter is   *)
(* answered for by its new source.                                            *)
LEMMA ProbeIsFaithful ==
  ASSUME NEW h \in Handlers, Resolvable(h)
  PROVE  ProbeFaithful(h)
<1> DEFINE a == Answers(h, Probe, "none", "t0")
           s == probeHandlerForFastPath(h, "t0")
<1> SUFFICES ASSUME s # NoSource, NEW p \in {"x", "y"}, NEW q \in {"none", "q"}
             PROVE  ResolvedAnswer(s, p) = Answers(h, p, q, "t1")
  BY DEF ProbeFaithful
<1>1. h.field \in {"const", "param", "object"} /\ ~h.branch
  BY DEF Resolvable
<1>2. s = generateResolvedJsonSource(a)
  BY DEF probeHandlerForFastPath
<1>3. a.field[1] # "{}" /\ s = [field |-> a.field, param |-> a.field = <<Probe, FALSE>>, status |-> a.status]
  BY <1>2 DEF generateResolvedJsonSource
<1>4. /\ a.status = h.status /\ a.field = FieldFor(h, Probe, "none", "t0")
      /\ Answers(h, p, q, "t1") = [status |-> h.status, field |-> FieldFor(h, p, q, "t1")]
  BY <1>1 DEF Answers
<1> HIDE DEF a, s
<1>5. s.status = h.status /\ s.field = a.field /\ (s.param <=> a.field = <<Probe, FALSE>>)
  BY <1>3, <1>4
<1>6. ResolvedAnswer(s, p) = [status |-> h.status, field |-> IF s.param THEN <<p, FALSE>> ELSE s.field]
  BY <1>5 DEF ResolvedAnswer
<1>7. CASE h.field = "const"
  <2>1. a.field = <<"c", FALSE>> /\ FieldFor(h, p, q, "t1") = <<"c", FALSE>>
    BY <1>4, <1>7 DEF FieldFor
  <2>2. ~s.param
    BY <1>5, <2>1 DEF Probe
  <2> QED
    BY <1>4, <1>5, <1>6, <2>1, <2>2
<1>8. CASE h.field = "param"
  <2>1. a.field = <<Probe, FALSE>> /\ FieldFor(h, p, q, "t1") = <<p, FALSE>>
    BY <1>4, <1>8 DEF FieldFor
  <2> QED
    BY <1>4, <1>5, <1>6, <2>1
<1>9. CASE h.field = "object"
  <2>1. a.field = <<"{}", FALSE>>
    BY <1>4, <1>9 DEF FieldFor
  <2>2. \A x, y : <<x, y>>[1] = x
    OBVIOUS
  <2>3. a.field[1] = "{}"
    BY <2>1, <2>2, Zenon
  <2> QED
    BY <1>3, <2>3, Zenon
<1> QED
  BY <1>1, <1>7, <1>8, <1>9

(* Whatever a handler of constants and the parameter answers, with any status and *)
(* any query, the source the probe writes for it answers the same (index.js:1189-  *)
(* 1312).                                                                     *)
THEOREM ProbesAreSound == Spec => []ProbeSound
<1> DEFINE Inv == mode = "probe" => given \in Handlers
<1>1. Init => Inv
  BY DEF Init
<1>2. Inv /\ [Next]_vars => Inv'
  BY DEF Next, vars
<1>3. Inv => ProbeSound
  BY ProbeIsFaithful DEF ProbeSound
<1> QED
  BY <1>1, <1>2, <1>3, PTL DEF Spec

-----------------------------------------------------------------------------
(* Access plans.                                                              *)

\* Plan m asks for all that plan p asks for.
Includes(m, p) ==
    p.scalars \subseteq m.scalars /\ p.full \subseteq m.full /\ \A f \in Objects : p.keys[f] \subseteq m.keys[f]

(* A merged plan asks for all that its parts ask for.                          *)
LEMMA MergedIncludes ==
  ASSUME NEW plans, NEW p \in plans
  PROVE  Includes(mergeRequestAccessPlans(plans), p)
<1> DEFINE m == mergeRequestAccessPlans(plans)
<1>1. /\ m.scalars = UNION {q.scalars : q \in plans} /\ m.full = UNION {q.full : q \in plans}
      /\ \A f \in Objects : m.keys[f] = UNION {q.keys[f] : q \in plans}
  BY DEF mergeRequestAccessPlans, Plan
<1> HIDE DEF m
<1> QED
  BY <1>1 DEF Includes, m

(* The full plan.                                                            *)
LEMMA FullIs ==
  /\ FullPlan.scalars = Scalars /\ FullPlan.full = Objects
  /\ \A f \in Objects : Selected(FullPlan, f) = Keys
  BY DEF FullPlan, Plan, Selected

(* What is left of the values of a key.                                        *)
LEMMA OnlyAt ==
  ASSUME NEW S, NEW values, NEW k \in Keys
  PROVE  Only(S, values)[k] = IF k \in S THEN values[k] ELSE <<>>
  BY DEF Only

(* A key that a plan asks for is there, in the envelope and in the object, with *)
(* the values it would have if everything were sent.                           *)
LEMMA KeyIsKept ==
  ASSUME NEW m, NEW f \in Objects, NEW k \in Keys, k \in Selected(m, f), NEW r
  PROVE  /\ ObjectOf(f, Sent(m, r), m)[k] = ObjectOf(f, Sent(FullPlan, r), FullPlan)[k]
         /\ f = "headers" => ensureHeaderLookup(Sent(m, r))[k] = ensureHeaderLookup(Sent(FullPlan, r))[k]
<1> DEFINE d == Sent(m, r)
           e == Sent(FullPlan, r)
           At(values) == IF k \in DANGEROUS_KEYS THEN <<>> ELSE values[k]
<1>1. f = "params" \/ f = "query" \/ f = "headers"
  BY DEF Objects
<1>2. k \in Selected(FullPlan, f)
  BY FullIs
<1>3. /\ d.params = r.params /\ d.headers = Only(Selected(m, "headers"), r.headers)
      /\ d.query = Only(IF NeedsQuery(m) THEN Keys ELSE {}, r.query)
      /\ e.params = r.params /\ e.headers = Only(Selected(FullPlan, "headers"), r.headers)
      /\ e.query = Only(IF NeedsQuery(FullPlan) THEN Keys ELSE {}, r.query)
  BY DEF Sent
<1>4. ASSUME NEW values, NEW S, k \in S PROVE Materialized(values, S)[k] = At(values)
  BY <1>4, OnlyAt DEF Materialized
<1> HIDE DEF d, e, At
<1>5. CASE f = "params"
  <2>1. ObjectOf(f, d, m) = Materialized(r.params, Selected(m, f))
        /\ ObjectOf(f, e, FullPlan) = Materialized(r.params, Selected(FullPlan, f))
    BY <1>3, <1>5 DEF ObjectOf, materializeParamObject
  <2> QED
    BY <1>2, <1>4, <1>5, <2>1 DEF d, e
<1>6. CASE f = "query"
  <2>1. ObjectOf(f, d, m) = Materialized(d.query, Selected(m, f))
        /\ ObjectOf(f, e, FullPlan) = Materialized(e.query, Selected(FullPlan, f))
    BY <1>6 DEF ObjectOf, parseQuery
  <2>2. NeedsQuery(m) /\ NeedsQuery(FullPlan)
    BY <1>2, <1>6 DEF NeedsQuery
  <2>3. d.query = Only(Keys, r.query) /\ e.query = Only(Keys, r.query)
    BY <1>3, <2>2
  <2>4. ObjectOf(f, d, m)[k] = ObjectOf(f, e, FullPlan)[k]
    BY <1>2, <1>4, <2>1, <2>3
  <2> QED
    BY <1>6, <2>4 DEF d, e
<1>7. CASE f = "headers"
  <2>1. d.headers[k] = r.headers[k] /\ e.headers[k] = r.headers[k]
    BY <1>2, <1>3, <1>7, OnlyAt
  <2>2. ASSUME NEW x PROVE ensureHeaderLookup(x)[k] = LastOf(At(x.headers))
    <3>1. ensureHeaderLookup(x)[k] = LastOf(Materialized(x.headers, Keys)[k])
      BY DEF ensureHeaderLookup
    <3> QED
      BY <3>1, <1>4
  <2>3. At(d.headers) = At(e.headers)
    BY <2>1 DEF At
  <2>4. ensureHeaderLookup(d)[k] = ensureHeaderLookup(e)[k]
    BY <2>2, <2>3
  <2>5. ASSUME NEW x, NEW p, k \in Selected(p, f) PROVE ObjectOf(f, x, p)[k] = ensureHeaderLookup(x)[k]
    <3>1. ObjectOf(f, x, p) = HeadersOf(x, p)
      BY <1>7 DEF ObjectOf
    <3> QED
      BY <3>1, <2>5, <1>7 DEF HeadersOf
  <2>6. ObjectOf(f, d, m)[k] = ObjectOf(f, e, FullPlan)[k]
    BY <1>2, <2>4, <2>5
  <2> QED
    BY <2>4, <2>6 DEF d, e
<1> QED
  BY <1>1, <1>5, <1>6, <1>7

(* A scalar, or an object, that a plan asks for is the one of the request.     *)
LEMMA ScalarIsKept ==
  ASSUME NEW m, NEW f \in Scalars, f \in m.scalars, NEW r
  PROVE  Facts(f, Sent(m, r), m) = Facts(f, Sent(FullPlan, r), FullPlan)
<1>1. f \notin Objects /\ f \in FullPlan.scalars
  BY FullIs DEF Scalars, Objects
<1>2. f = "path" => Sent(m, r).path = r.path /\ Sent(FullPlan, r).path = r.path
  BY <1>1 DEF Sent
<1>3. f = "url" => Sent(m, r).url = r.url /\ Sent(FullPlan, r).url = r.url
  BY <1>1 DEF Sent
<1>4. CASE f = "path"
  BY <1>1, <1>2, <1>4 DEF Facts
<1>5. CASE f = "url"
  BY <1>1, <1>3, <1>5 DEF Facts
<1>6. CASE f # "path" /\ f # "url"
  BY <1>1, <1>6 DEF Facts
<1> QED
  BY <1>4, <1>5, <1>6

LEMMA ObjectIsKept ==
  ASSUME NEW m, NEW f \in Objects, f \in m.full, NEW r
  PROVE  Facts(f, Sent(m, r), m) = Facts(f, Sent(FullPlan, r), FullPlan)
<1>1. \A k \in Keys : ObjectOf(f, Sent(m, r), m)[k] = ObjectOf(f, Sent(FullPlan, r), FullPlan)[k]
  <2>1. \A k \in Keys : k \in Selected(m, f)
    BY DEF Selected
  <2> QED
    BY <2>1, KeyIsKept
<1>2. ASSUME NEW d, NEW p PROVE Facts(f, d, p) = {<<f, k, ObjectOf(f, d, p)[k]>> : k \in Keys}
  <2>1. f # "path" /\ f # "url"
    BY DEF Objects
  <2> QED
    BY <2>1 DEF Facts
<1>3. {<<f, k, ObjectOf(f, Sent(m, r), m)[k]>> : k \in Keys}
        = {<<f, k, ObjectOf(f, Sent(FullPlan, r), FullPlan)[k]>> : k \in Keys}
  BY <1>1, Zenon
<1> QED
  BY <1>2, <1>3

(* A use gets from a plan that includes what it asks for what it would get if   *)
(* everything were sent.                                                      *)
LEMMA UseIsServed ==
  ASSUME NEW m, NEW u \in Uses, u.how # "helper", NEW r,
         \/ Includes(m, FullPlan)
         \/ u.how # "rest" /\ Includes(m, Marks(u))
  PROVE  Gets(u, m, r) = Gets(u, FullPlan, r)
<1>1. \/ u.how = "read" /\ u.field \in Scalars \cup {"ip", "body"}
      \/ u.how = "read" /\ u.field \in Objects /\ u.key \in Keys
      \/ u.how \in {"whole", "unpack"} /\ u.field \in Objects
      \/ u.how = "unpack" /\ u.field \in Scalars
      \/ u.how = "call" /\ u.field = "headers" /\ u.key \in Keys
      \/ u.how = "callAny" /\ u.field = "headers"
      \/ u.how = "any" \/ u.how = "rest"
  BY DEF Uses, Use, Scalars, Objects
<1>2. \A f \in Scalars \cup {"ip", "body"} : f \notin Objects
  BY DEF Scalars, Objects
<1>3. Includes(m, FullPlan) => Scalars \subseteq m.scalars /\ Objects \subseteq m.full
  BY FullIs DEF Includes
<1>4. ASSUME NEW f \in Objects, f \in m.full PROVE \A k \in Keys : k \in Selected(m, f)
  BY <1>4 DEF Selected
<1>5. CASE u.how = "read" /\ u.field \in Scalars \cup {"ip", "body"}
  <2>1. \A p : Gets(u, p, r) = Facts(u.field, Sent(p, r), p)
    BY <1>2, <1>5 DEF Gets
  <2>2. CASE u.field \in {"ip", "body"}
    <3>1. \A d, p : Facts(u.field, d, p) = {}
      BY <1>2, <2>2 DEF Facts
    <3> QED
      BY <2>1, <3>1
  <2>3. CASE u.field \in Scalars
    <3>1. Marks(u) = Plan({u.field}, {}, NoKeys)
      BY <1>2, <1>5, <2>3 DEF Marks
    <3>2. u.field \in m.scalars
      BY <1>3, <1>5, <2>3, <3>1 DEF Includes, Plan
    <3> QED
      BY <2>1, <2>3, <3>2, ScalarIsKept
  <2> QED
    BY <1>5, <2>2, <2>3
<1>6. CASE u.how = "read" /\ u.field \in Objects /\ u.key \in Keys
  <2>1. \A p : Gets(u, p, r) = {ObjectOf(u.field, Sent(p, r), p)[u.key]}
    BY <1>6 DEF Gets
  <2>2. u.key \in Selected(m, u.field)
    <3>1. CASE Includes(m, FullPlan)
      BY <1>3, <1>4, <1>6, <3>1
    <3>2. CASE Includes(m, Marks(u))
      <4>1. Marks(u) = Plan({}, {}, [NoKeys EXCEPT ![u.field] = {u.key}])
        BY <1>2, <1>6 DEF Marks
      <4>2. Marks(u).keys[u.field] = {u.key}
        BY <1>6, <4>1 DEF Plan, NoKeys
      <4>3. u.key \in m.keys[u.field]
        BY <1>6, <3>2, <4>2 DEF Includes
      <4> QED
        BY <1>6, <4>3 DEF Selected
    <3> QED
      BY <1>6, <3>1, <3>2
  <2> QED
    BY <1>6, <2>1, <2>2, KeyIsKept
<1>7. CASE u.how \in {"whole", "unpack"} /\ u.field \in Objects
  <2>1. \A p : Gets(u, p, r) = Facts(u.field, Sent(p, r), p)
    BY <1>7 DEF Gets
  <2>2. Marks(u) = Plan({}, {u.field}, NoKeys)
    BY <1>2, <1>7 DEF Marks
  <2>3. u.field \in m.full
    BY <1>3, <1>7, <2>2 DEF Includes, Plan
  <2> QED
    BY <1>7, <2>1, <2>3, ObjectIsKept
<1>8. CASE u.how = "unpack" /\ u.field \in Scalars
  <2>1. \A p : Gets(u, p, r) = Facts(u.field, Sent(p, r), p)
    BY <1>8 DEF Gets
  <2>2. Marks(u) = Plan({u.field}, {}, NoKeys)
    BY <1>2, <1>8 DEF Marks
  <2>3. u.field \in m.scalars
    BY <1>3, <1>8, <2>2 DEF Includes, Plan
  <2> QED
    BY <1>8, <2>1, <2>3, ScalarIsKept
<1>9. CASE u.how = "call" /\ u.field = "headers" /\ u.key \in Keys
  <2>0. "headers" \in Objects
    BY DEF Objects
  <2>1. \A p : Gets(u, p, r) = {ensureHeaderLookup(Sent(p, r))[u.key]}
    BY <1>9 DEF Gets
  <2>2. u.key \in Selected(m, "headers")
    <3>1. CASE Includes(m, FullPlan)
      BY <1>3, <1>4, <1>9, <2>0, <3>1
    <3>2. CASE Includes(m, Marks(u))
      <4>1. Marks(u) = Plan({}, {}, [NoKeys EXCEPT !["headers"] = {u.key}])
        BY <1>9 DEF Marks
      <4>2. Marks(u).keys["headers"] = {u.key}
        BY <2>0, <4>1 DEF Plan, NoKeys
      <4>3. u.key \in m.keys["headers"]
        BY <2>0, <3>2, <4>2 DEF Includes
      <4> QED
        BY <1>9, <4>3 DEF Selected
    <3> QED
      BY <1>9, <3>1, <3>2
  <2> QED
    BY <1>9, <2>0, <2>1, <2>2, KeyIsKept
<1>10. CASE u.how = "callAny" /\ u.field = "headers"
  <2>0. "headers" \in Objects
    BY DEF Objects
  <2>1. \A p : Gets(u, p, r) = {<<k, ensureHeaderLookup(Sent(p, r))[k]>> : k \in Keys}
    BY <1>10 DEF Gets
  <2>2. Marks(u) = Plan({}, {"headers"}, NoKeys)
    BY <1>10 DEF Marks
  <2>3. "headers" \in m.full
    BY <1>3, <1>10, <2>0, <2>2 DEF Includes, Plan
  <2>4. \A k \in Keys : ensureHeaderLookup(Sent(m, r))[k] = ensureHeaderLookup(Sent(FullPlan, r))[k]
    BY <1>4, <2>0, <2>3, KeyIsKept
  <2>5. {<<k, ensureHeaderLookup(Sent(m, r))[k]>> : k \in Keys}
          = {<<k, ensureHeaderLookup(Sent(FullPlan, r))[k]>> : k \in Keys}
    BY <2>4, Zenon
  <2> QED
    BY <2>1, <2>5
<1>11. CASE u.how = "any" \/ u.how = "rest"
  <2>1. \A p : Gets(u, p, r) = UNION {Facts(f, Sent(p, r), p) : f \in Objects \cup Scalars}
    BY <1>11 DEF Gets
  <2>2. Includes(m, FullPlan)
    BY <1>11 DEF Marks
  <2>3. \A f \in Objects \cup Scalars : Facts(f, Sent(m, r), m) = Facts(f, Sent(FullPlan, r), FullPlan)
    BY <1>3, <2>2, ScalarIsKept, ObjectIsKept
  <2>4. {Facts(f, Sent(m, r), m) : f \in Objects \cup Scalars}
          = {Facts(f, Sent(FullPlan, r), FullPlan) : f \in Objects \cup Scalars}
    BY <2>3, Zenon
  <2> QED
    BY <2>1, <2>4
<1> QED
  BY <1>1, <1>5, <1>6, <1>7, <1>8, <1>9, <1>10, <1>11

(* Inclusion is transitive.                                                   *)
LEMMA IncludesTrans ==
  ASSUME NEW a, NEW b, NEW c, Includes(a, b), Includes(b, c)
  PROVE  Includes(a, c)
  BY DEF Includes

(* Whatever functions a chain has, one that the analysis follows gets what it    *)
(* reads.                                                                     *)
LEMMA ChainIsServed ==
  ASSUME NEW plans, NEW fn, fn.uses \subseteq Uses, Followed(fn), analyzeRequestAccess(fn) \in plans, NEW r
  PROVE  Covers(fn, mergeRequestAccessPlans(plans), r)
<1> DEFINE m == mergeRequestAccessPlans(plans)
<1>1. Includes(m, analyzeRequestAccess(fn))
  BY MergedIncludes
<1> HIDE DEF m
<1> SUFFICES ASSUME NEW u \in fn.uses PROVE Gets(u, m, r) = Gets(u, FullPlan, r)
  BY DEF Covers, m
<1>2. u \in Uses /\ u.how # "helper" /\ (u.how = "rest" => fn.form = "shorthand")
  BY DEF Followed
<1>3. CASE fn.form = "function" /\ fn.param # "pattern"
  <2>1. analyzeRequestAccess(fn) = mergeRequestAccessPlans({Marks(v) : v \in fn.uses})
    BY <1>3 DEF analyzeRequestAccess
  <2>2. Includes(m, Marks(u))
    <3>1. Includes(mergeRequestAccessPlans({Marks(v) : v \in fn.uses}), Marks(u))
      BY MergedIncludes
    <3> QED
      BY <1>1, <2>1, <3>1, IncludesTrans
  <2> QED
    BY <1>2, <1>3, <2>2, UseIsServed
<1>4. CASE fn.form = "shorthand" /\ fn.param = "req"
  <2>1. analyzeRequestAccess(fn) = mergeRequestAccessPlans({RegexMarks(v) : v \in fn.uses})
    BY <1>4 DEF analyzeRequestAccess
  <2>2. Includes(m, RegexMarks(u))
    <3>1. Includes(mergeRequestAccessPlans({RegexMarks(v) : v \in fn.uses}), RegexMarks(u))
      BY MergedIncludes
    <3> QED
      BY <1>1, <2>1, <3>1, IncludesTrans
  <2> QED
    BY <1>2, <2>2, UseIsServed DEF RegexMarks
<1> QED
  BY <1>3, <1>4 DEF Followed

(* Whatever functions, requests and keys there are: a function that the analysis *)
(* follows gets of every request what it would get if all of it were sent, also  *)
(* when the plan of its route is merged from several functions (bridge.js:108-    *)
(* 460, lib.rs:2009-2120).                                                     *)
THEOREM PlansCoverUses == Spec => []PlanCovers
<1> DEFINE Inv == mode = "plan" => given \in [chain : Chains, of : Sample]
<1>1. Init => Inv
  BY DEF Init
<1>2. Inv /\ [Next]_vars => Inv'
  BY DEF Next, vars
<1>3. Inv => PlanCovers
  <2> SUFFICES ASSUME Inv, mode = "plan", NEW fn \in {given.chain.handler, given.chain.other}, Followed(fn)
               PROVE  Covers(fn, MergedPlan(given.chain), given.of)
    BY DEF PlanCovers
  <2>1. given.chain \in Chains
    OBVIOUS
  <2>2. fn.uses \subseteq Uses
    BY <2>1, BridgeAssumption
  <2> DEFINE P == {analyzeRequestAccess(given.chain.handler), analyzeRequestAccess(given.chain.other)}
  <2>3. analyzeRequestAccess(fn) \in P
    OBVIOUS
  <2> HIDE DEF P
  <2>4. Covers(fn, mergeRequestAccessPlans(P), given.of)
    BY <2>2, <2>3, ChainIsServed
  <2> QED
    BY <2>4 DEF MergedPlan, P
<1> QED
  BY <1>1, <1>2, <1>3, PTL DEF Spec

-----------------------------------------------------------------------------
(* A set of naturals that holds 0 and with each its successor holds all.        *)
LEMMA NatSet ==
  ASSUME NEW T \in SUBSET Nat, 0 \in T, \A n \in T : n + 1 \in T
  PROVE  T = Nat
<1> SUFFICES ASSUME Nat \ T # {} PROVE FALSE
  OBVIOUS
<1>1. PICK x \in Nat \ T : \A y \in Nat \ T : ~ (<<y, x>> \in OpToRel(<, Nat))
  BY WFMin, NatLessThanWellFounded
<1>2. \A y \in Nat \ T : ~(y < x)
  BY <1>1 DEF OpToRel
<1>3. x # 0 /\ x \in Nat
  OBVIOUS
<1>4. x - 1 \in Nat /\ x - 1 < x /\ (x - 1) + 1 = x
  BY <1>3
<1>5. x - 1 \in T
  BY <1>2, <1>4
<1>6. (x - 1) + 1 \in T
  BY <1>5
<1> QED
  BY <1>4, <1>6

\* n steps from a, one after the other.
Iterations(A, a, n, step) == {f \in [0..n -> A] : f[0] = a /\ \A i \in 1..n : f[i] = step[i][f[i - 1]]}

(* Steps can be made one after the other, any number of them.                 *)
LEMMA Iterates ==
  ASSUME NEW A, NEW a \in A, NEW n \in Nat, NEW step \in [1..n -> [A -> A]]
  PROVE  Iterations(A, a, n, step) # {}
<1> DEFINE Good(m) == \E f \in [0..m -> A] : f[0] = a /\ \A i \in 1..m : f[i] = step[i][f[i - 1]]
           T == {m \in Nat : m <= n => Good(m)}
<1>1. 0 \in T
  <2> DEFINE f == [i \in 0..0 |-> a]
  <2>1. f \in [0..0 -> A] /\ f[0] = a
    OBVIOUS
  <2>2. Good(0)
    <3>1. \A i \in 1..0 : f[i] = step[i][f[i - 1]]
      OBVIOUS
    <3> HIDE DEF f
    <3> QED
      BY <2>1, <3>1
  <2> QED
    BY <2>2
<1>2. ASSUME NEW m \in T PROVE m + 1 \in T
  <2>0. m \in Nat /\ (m + 1 <= n => Good(m))
    OBVIOUS
  <2> SUFFICES ASSUME m + 1 <= n PROVE Good(m + 1)
    <3> HIDE DEF Good
    <3> QED
      BY <2>0
  <2>1. PICK f \in [0..m -> A] : f[0] = a /\ \A i \in 1..m : f[i] = step[i][f[i - 1]]
    BY <2>0
  <2> DEFINE g == [i \in 0..(m + 1) |-> IF i = m + 1 THEN step[m + 1][f[m]] ELSE f[i]]
  <2>2. m \in 0..m /\ f[m] \in A /\ \A i \in 0..m : g[i] = f[i]
    BY <2>0
  <2>3. g \in [0..(m + 1) -> A]
    <3>1. m + 1 \in 1..n
      BY <2>0
    <3>2. step[m + 1][f[m]] \in A
      BY <2>2, <3>1
    <3> QED
      BY <2>0, <2>2, <3>2
  <2>4. g[0] = a /\ \A i \in 1..(m + 1) : g[i] = step[i][g[i - 1]]
    <3>1. g[0] = a
      BY <2>1, <2>2
    <3>2. \A i \in 1..m : i - 1 \in 0..m /\ g[i - 1] = f[i - 1] /\ g[i] = f[i]
      BY <2>0, <2>2
    <3>3. g[m + 1] = step[m + 1][f[m]] /\ g[(m + 1) - 1] = f[m]
      BY <2>0, <2>2
    <3>4. \A i \in 1..(m + 1) : i \in 1..m \/ i = m + 1
      BY <2>0
    <3> HIDE DEF g
    <3> QED
      BY <2>1, <3>1, <3>2, <3>3, <3>4
  <2> HIDE DEF g
  <2> QED
    BY <2>3, <2>4
<1>3. T = Nat
  <2> HIDE DEF T
  <2>1. T \subseteq Nat
    BY DEF T
  <2> QED
    BY <1>1, <1>2, <2>1, NatSet
<1>4. Good(n)
  <2>1. n \in T
    BY <1>3
  <2> QED
    BY <2>1
<1> QED
  BY <1>4 DEF Iterations

-----------------------------------------------------------------------------
(* Fields *)

(* As far as c goes, f stands in it behind the p-th byte.                       *)
Has(c, p, f) == \A j \in 1..Len(f) : p + j <= Len(c) => c[p + j] = f[j]

LEMMA ConcatText ==
  ASSUME NEW f \in Text, NEW g \in Text
  PROVE  f \o g \in Text /\ Len(f \o g) = Len(f) + Len(g) /\ Len(f) \in Nat /\ Len(g) \in Nat
BY ConcatProperties, LenProperties DEF Text

LEMMA HasConcat ==
  ASSUME NEW c, NEW p, NEW f, NEW g, p \in Nat, f \in Text, g \in Text, Has(c, p, f \o g)
  PROVE  Has(c, p, f) /\ Has(c, p + Len(f), g) /\ f \o g \in Text /\ Len(f \o g) = Len(f) + Len(g)
<1>1. /\ f \o g \in Text /\ Len(f \o g) = Len(f) + Len(g) /\ Len(f) \in Nat /\ Len(g) \in Nat
      /\ \A j \in 1..(Len(f) + Len(g)) : (f \o g)[j] = IF j <= Len(f) THEN f[j] ELSE g[j - Len(f)]
  BY ConcatProperties, LenProperties DEF Text
<1>2. Has(c, p, f)
  <2> SUFFICES ASSUME NEW j \in 1..Len(f), p + j <= Len(c) PROVE c[p + j] = f[j]
    BY DEF Has
  <2>1. j \in 1..(Len(f) + Len(g)) /\ j <= Len(f)
    BY <1>1
  <2> QED
    BY <1>1, <2>1 DEF Has
<1>3. Has(c, p + Len(f), g)
  <2> SUFFICES ASSUME NEW j \in 1..Len(g), p + Len(f) + j <= Len(c) PROVE c[p + Len(f) + j] = g[j]
    BY DEF Has
  <2> DEFINE k == Len(f) + j
  <2>1. k \in 1..(Len(f) + Len(g)) /\ ~(k <= Len(f)) /\ k - Len(f) = j /\ p + k = p + Len(f) + j
    BY <1>1
  <2>2. (f \o g)[k] = g[j]
    BY <1>1, <2>1
  <2> HIDE DEF k
  <2>3. c[p + k] = (f \o g)[k]
    BY <1>1, <2>1 DEF Has
  <2> QED
    BY <2>1, <2>2, <2>3
<1> QED
  BY <1>1, <1>2, <1>3

LEMMA ReadsBytes ==
  ASSUME NEW c, NEW p, NEW f, c \in Text, p \in Nat, f \in Text, Has(c, p, f), fits(c, p, Len(f))
  PROVE  readBytes(c, p, Len(f)) = f
<1>1. Len(c) \in Nat /\ Len(f) \in Nat /\ p + Len(f) <= Len(c)
  BY LenProperties DEF Text, fits
<1> DEFINE s == SubSeq(c, p + 1, p + Len(f))
<1>2. s \in Text /\ Len(s) = Len(f) /\ \A j \in 1..Len(f) : s[j] = c[p + 1 + j - 1]
  <2>1. \A i \in (p + 1)..(p + Len(f)) : c[i] \in 0..U8
    <3> SUFFICES ASSUME NEW i \in (p + 1)..(p + Len(f)) PROVE c[i] \in 0..U8
      OBVIOUS
    <3>1. i \in 1..Len(c)
      BY <1>1
    <3> QED
      BY <3>1, ElementOfSeq DEF Text
  <2>2. /\ SubSeq(c, p + 1, p + Len(f)) \in Seq(0..U8)
        /\ Len(SubSeq(c, p + 1, p + Len(f))) = IF p + 1 <= p + Len(f) THEN p + Len(f) - (p + 1) + 1 ELSE 0
        /\ \A i \in 1..(p + Len(f) - (p + 1) + 1) : SubSeq(c, p + 1, p + Len(f))[i] = c[p + 1 + i - 1]
    BY <1>1, <2>1, SubSeqProperties DEF Text
  <2> QED
    BY <1>1, <2>2 DEF Text
<1>3. \A j \in 1..Len(f) : s[j] = f[j]
  <2> SUFFICES ASSUME NEW j \in 1..Len(f) PROVE s[j] = f[j]
    OBVIOUS
  <2>1. p + 1 + j - 1 = p + j /\ p + j <= Len(c)
    BY <1>1
  <2> QED
    BY <1>2, <2>1 DEF Has
<1> HIDE DEF s
<1>4. s = f
  BY <1>1, <1>2, <1>3, SeqEqual DEF Text
<1> QED
  BY <1>4 DEF s, readBytes

(* Numbers of two and of four bytes *)

LEMMA ByteIs ==
  /\ Byte \in Nat /\ Byte > 2 /\ U8 = Byte - 1 /\ 0..U8 = 0..(Byte - 1)
  /\ Byte * Byte \in Nat /\ Byte * Byte > Byte
<1>1. Byte \in Nat /\ Byte > 2
  BY EnvelopeAssumption DEF BRIDGE_VERSION
<1>2. Byte * Byte \in Nat /\ Byte * Byte > Byte
  BY <1>1
<1> QED
  BY <1>1, <1>2 DEF U8

(* A number is its lowest digit and the rest of it. *)
LEMMA DigitOf ==
  ASSUME NEW d \in Nat, d > 0, NEW v \in Nat
  PROVE  /\ v % d \in 0..(d - 1) /\ v \div d \in Nat /\ v = (v % d) + d * (v \div d)
         /\ \A n \in Nat : v < d * n => v \div d < n
         /\ v < d => v \div d = 0 /\ v % d = v
<1>1. v % d \in 0..(d - 1) /\ v \div d \in Nat /\ v = (v % d) + d * (v \div d)
  OBVIOUS
<1> DEFINE q == v \div d
           r == v % d
<1>2. q \in Nat /\ r \in Nat /\ r < d /\ v = r + d * q
  BY <1>1
<1> HIDE DEF q, r
<1>3. \A n \in Nat : v < d * n => q < n
  <2> SUFFICES ASSUME NEW n \in Nat, v < d * n, n <= q PROVE FALSE
    BY <1>2
  <2>1. d * n <= d * q
    BY <1>2
  <2> QED
    BY <1>2, <2>1
<1>4. v < d => q = 0 /\ r = v
  <2> SUFFICES ASSUME v < d, q >= 1 PROVE FALSE
    BY <1>2
  <2>1. d * q >= d
    BY <1>2
  <2> QED
    BY <1>2, <2>1
<1> QED
  BY <1>1, <1>3, <1>4 DEF q, r

(* There is one rest. *)
LEMMA RestOf ==
  ASSUME NEW d \in Nat, d > 0, NEW v \in Nat, NEW x \in 0..(d - 1), NEW q \in Nat, v = x + d * q
  PROVE  v % d = x
<1>1. v % d \in 0..(d - 1) /\ v \div d \in Nat /\ v = (v % d) + d * (v \div d)
  BY DigitOf
<1>2. q < v \div d => FALSE
  <2> SUFFICES ASSUME q + 1 <= v \div d PROVE FALSE
    BY <1>1
  <2>1. d * (q + 1) <= d * (v \div d)
    BY <1>1
  <2>2. d * (q + 1) = d * q + d
    OBVIOUS
  <2> QED
    BY <1>1, <2>1, <2>2
<1>3. v \div d < q => FALSE
  <2> SUFFICES ASSUME (v \div d) + 1 <= q PROVE FALSE
    BY <1>1
  <2>1. d * ((v \div d) + 1) <= d * q
    BY <1>1
  <2>2. d * ((v \div d) + 1) = d * (v \div d) + d
    BY <1>1
  <2> QED
    BY <1>1, <2>1, <2>2
<1>4. v \div d = q
  BY <1>1, <1>2, <1>3
<1> DEFINE y == d * q
<1>5. v = (v % d) + y /\ v = x + y /\ y \in Nat
  BY <1>1, <1>4
<1> HIDE DEF y
<1> QED
  BY <1>1, <1>5

LEMMA U16Is ==
  ASSUME NEW v \in Nat
  PROVE  /\ writeU16(v) \in Text /\ Len(writeU16(v)) = 2
         /\ writeU16(v)[1] \in Nat /\ writeU16(v)[2] \in Nat
         /\ writeU16(v)[1] + Byte * writeU16(v)[2] = v % (Byte * Byte)
<1> DEFINE q == v \div Byte
           r == v % Byte
           q2 == q \div Byte
           r2 == q % Byte
<1>1. r \in 0..(Byte - 1) /\ q \in Nat /\ v = r + Byte * q
  BY ByteIs, DigitOf
<1> HIDE DEF q
<1>2. r2 \in 0..(Byte - 1) /\ q2 \in Nat /\ q = r2 + Byte * q2
  BY <1>1, ByteIs, DigitOf
<1>3. writeU16(v) = <<r, r2>>
  BY DEF writeU16, q
<1> HIDE DEF r, r2, q2
<1>4. v = (r + Byte * r2) + (Byte * Byte) * q2
  BY <1>1, <1>2, ByteIs
<1>5. r + Byte * r2 \in 0..(Byte * Byte - 1)
  <2>1. Byte * r2 <= Byte * (Byte - 1)
    BY <1>2, ByteIs
  <2>2. Byte * (Byte - 1) = Byte * Byte - Byte
    BY ByteIs
  <2>3. Byte * r2 \in Nat
    BY <1>2, ByteIs
  <2> QED
    BY <1>1, <2>1, <2>2, <2>3, ByteIs
<1>6. v % (Byte * Byte) = r + Byte * r2
  <2> DEFINE w == Byte * Byte
             x == r + Byte * r2
  <2>1. w \in Nat /\ w > 0 /\ x \in 0..(w - 1) /\ v = x + w * q2 /\ q2 \in Nat
    BY <1>2, <1>4, <1>5, ByteIs
  <2> HIDE DEF w, x
  <2>2. v % w = x
    BY <2>1, RestOf
  <2> QED
    BY <2>2 DEF w, x
<1>7. writeU16(v) \in Text /\ Len(writeU16(v)) = 2 /\ writeU16(v)[1] = r /\ writeU16(v)[2] = r2
  <2>1. r \in 0..U8 /\ r2 \in 0..U8
    BY <1>1, <1>2, ByteIs
  <2> QED
    BY <1>3, <2>1 DEF Text
<1> QED
  BY <1>1, <1>2, <1>6, <1>7

LEMMA WideIs ==
  /\ U16 + 1 = Byte * Byte /\ U16 \in Nat /\ U8 <= U16
  /\ U32 + 1 = (U16 + 1) * (U16 + 1) /\ U32 \in Nat /\ U16 <= U32
  /\ (U32 + 1) * (U32 + 1) \in Nat
<1> DEFINE w == Byte * Byte
<1>1. w \in Nat /\ w > 1 /\ U16 = w - 1 /\ U8 <= w - 1
  BY ByteIs DEF U16
<1>2. U32 = w * w - 1
  BY DEF U32
<1> HIDE DEF w
<1>3. w * w \in Nat /\ w * w >= w
  BY <1>1
<1> DEFINE x == w * w
<1>4. x \in Nat /\ x >= w /\ U32 = x - 1
  BY <1>2, <1>3
<1>5. (U16 + 1) * (U16 + 1) = x
  BY <1>1
<1> HIDE DEF x
<1>6. U32 + 1 = x /\ U32 \in Nat /\ U16 <= U32
  BY <1>1, <1>4
<1> QED
  BY <1>1, <1>4, <1>5, <1>6 DEF w

LEMMA U32Is ==
  ASSUME NEW v \in Nat
  PROVE  /\ writeU32(v) \in Text /\ Len(writeU32(v)) = 4
         /\ writeU32(v) = writeU16(v) \o writeU16(v \div (Byte * Byte))
<1>1. v \div (Byte * Byte) \in Nat
  BY ByteIs, DigitOf
<1>2. writeU16(v) \in Text /\ Len(writeU16(v)) = 2
  BY U16Is
<1>3. writeU16(v \div (Byte * Byte)) \in Text /\ Len(writeU16(v \div (Byte * Byte))) = 2
  BY <1>1, U16Is
<1> DEFINE a == writeU16(v)
           b == writeU16(v \div (Byte * Byte))
<1>4. writeU32(v) = a \o b
  BY DEF writeU32
<1>5. a \in Text /\ b \in Text /\ Len(a) = 2 /\ Len(b) = 2
  BY <1>2, <1>3
<1> HIDE DEF a, b
<1>6. a \o b \in Text /\ Len(a \o b) = 4
  <2>1. a \o b \in Text /\ Len(a \o b) = Len(a) + Len(b)
    BY ONLY <1>5, ConcatText
  <2> QED
    BY <1>5, <2>1
<1>7. writeU32(v) \in Text /\ Len(writeU32(v)) = 4
  BY <1>4, <1>6
<1> QED
  BY <1>7 DEF writeU32

LEMMA ReadsU8 ==
  ASSUME NEW c, NEW p \in Nat, NEW v, Has(c, p, <<v>>), Len(c) \in Nat, fits(c, p, 1)
  PROVE  readU8(c, p) = v
<1>1. p + 1 <= Len(c)
  BY DEF fits
<1>2. c[p + 1] = <<v>>[1]
  BY <1>1 DEF Has
<1> QED
  BY <1>2 DEF readU8

(* What is read where a number was written is its lower half; all of it if it fits. *)
LEMMA ReadsLow ==
  ASSUME NEW c, NEW p, NEW v, p \in Nat, v \in Nat, Has(c, p, writeU16(v)), Len(c) \in Nat,
         fits(c, p, 2)
  PROVE  readU16(c, p) = v % (Byte * Byte)
<1>1. p + 1 <= Len(c) /\ p + 2 <= Len(c)
  BY DEF fits
<1>2. Len(writeU16(v)) = 2
  BY U16Is
<1>3. c[p + 1] = writeU16(v)[1] /\ c[p + 2] = writeU16(v)[2]
  BY <1>1, <1>2 DEF Has
<1> QED
  BY <1>3, U16Is DEF readU16

LEMMA ReadsU16 ==
  ASSUME NEW c, NEW p, NEW v, p \in Nat, v \in 0..U16, Has(c, p, writeU16(v)), Len(c) \in Nat,
         fits(c, p, 2)
  PROVE  readU16(c, p) = v
<1>1. v \in Nat /\ v < Byte * Byte /\ Byte * Byte \in Nat /\ Byte * Byte > 0
  BY ByteIs, WideIs
<1>2. v % (Byte * Byte) = v
  BY <1>1, DigitOf
<1> QED
  BY <1>1, <1>2, ReadsLow

LEMMA ReadsU32 ==
  ASSUME NEW c, NEW p, NEW v, p \in Nat, v \in Nat, Has(c, p, writeU32(v)), Len(c) \in Nat,
         fits(c, p, 4)
  PROVE  readU32(c, p) = v % (U32 + 1) /\ (v <= U32 => readU32(c, p) = v)
<1> DEFINE w == Byte * Byte
           q == v \div w
<1>1. w \in Nat /\ w > 0 /\ U32 + 1 = w * w
  BY ByteIs, WideIs
<1>2. v % w \in 0..(w - 1) /\ q \in Nat /\ v = (v % w) + w * q
  BY <1>1, DigitOf
<1>3. q % w \in 0..(w - 1) /\ q \div w \in Nat /\ q = (q % w) + w * (q \div w)
  BY <1>1, <1>2, DigitOf
<1>4. writeU16(v) \in Text /\ writeU16(q) \in Text /\ writeU32(v) = writeU16(v) \o writeU16(q)
      /\ Len(writeU16(v)) = 2
  BY <1>2, U16Is, U32Is
<1>5. Has(c, p, writeU16(v)) /\ Has(c, p + 2, writeU16(q))
  <2> DEFINE f == writeU16(v)
             g == writeU16(q)
  <2>1. f \in Text /\ g \in Text /\ Has(c, p, f \o g) /\ Len(f) = 2
    BY <1>4
  <2> HIDE DEF f, g
  <2>2. Has(c, p, f) /\ Has(c, p + Len(f), g)
    BY <2>1, HasConcat
  <2> QED
    BY <2>1, <2>2 DEF f, g
<1>6. fits(c, p, 2) /\ fits(c, p + 2, 2) /\ p + 2 \in Nat
  BY DEF fits
<1>7. readU16(c, p) = v % w /\ readU16(c, p + 2) = q % w
  BY <1>2, <1>5, <1>6, ReadsLow
<1>8. readU32(c, p) = (v % w) + w * (q % w)
  BY <1>7 DEF readU32
<1> HIDE DEF q, w
<1> DEFINE r == v % w
           r2 == q % w
           q2 == q \div w
<1>9. v = (r + w * r2) + (w * w) * q2 /\ r + w * r2 \in 0..(w * w - 1)
  <2>1. r \in 0..(w - 1) /\ r2 \in 0..(w - 1) /\ q2 \in Nat /\ v = r + w * q /\ q = r2 + w * q2
    BY <1>2, <1>3
  <2> HIDE DEF r, r2, q2
  <2>2. v = (r + w * r2) + (w * w) * q2
    BY <1>1, <2>1
  <2>3. w * r2 <= w * (w - 1) /\ w * (w - 1) = w * w - w /\ w * r2 \in Nat
    BY <1>1, <2>1
  <2> QED
    BY <1>1, <2>1, <2>2, <2>3
<1> DEFINE x == r + w * r2
           d == w * w
<1>10. d \in Nat /\ d > 0 /\ x \in 0..(d - 1) /\ v = x + d * q2 /\ q2 \in Nat
  BY <1>1, <1>3, <1>9
<1>11. readU32(c, p) = x /\ U32 + 1 = d
  BY <1>1, <1>8
<1> HIDE DEF x, d, q2, r, r2
<1>12. v % d = x
  BY <1>10, RestOf
<1>13. v <= U32 => v % d = v
  <2> SUFFICES ASSUME v <= U32 PROVE v % d = v
    OBVIOUS
  <2>1. v < d
    BY <1>11, WideIs
  <2> QED
    BY <2>1, <1>10, DigitOf
<1> QED
  BY <1>11, <1>12, <1>13

-----------------------------------------------------------------------------
(* Sequences of fields *)

(* The parts are put together one after the other. *)
LEMMA FlatSteps ==
  ASSUME NEW n \in Nat, n > 0, NEW parts \in [1..n -> Text]
  PROVE  \E f \in [1..n -> Text] :
            /\ FlattenSeq(parts) = f[n] /\ f[1] = parts[1]
            /\ \A i \in 2..n : f[i] = f[i - 1] \o parts[i]
<1> DEFINE step == [i \in 1..(n - 1) |-> [s \in Text |-> s \o parts[i + 1]]]
<1>1. step \in [1..(n - 1) -> [Text -> Text]]
  <2>1. \A i \in 1..(n - 1) : i + 1 \in 1..n
    OBVIOUS
  <2>2. \A i \in 1..(n - 1), s \in Text : s \o parts[i + 1] \in Text
    BY <2>1, ConcatText
  <2> QED
    BY <2>2
<1>2. n - 1 \in Nat /\ parts[1] \in Text
  OBVIOUS
<1> HIDE DEF step
<1>3. PICK g \in [0..(n - 1) -> Text] :
         g[0] = parts[1] /\ \A i \in 1..(n - 1) : g[i] = step[i][g[i - 1]]
  <2> DEFINE k == n - 1
             a == parts[1]
  <2>1. k \in Nat /\ a \in Text /\ step \in [1..k -> [Text -> Text]]
    BY <1>1, <1>2
  <2> HIDE DEF k, a
  <2>2. Iterations(Text, a, k, step) # {}
    BY ONLY <2>1, Iterates
  <2> QED
    BY <2>2 DEF k, a, Iterations
<1> DEFINE f == [i \in 1..n |-> g[i - 1]]
<1>4. f \in [1..n -> Text] /\ f[1] = parts[1]
  <2>1. \A i \in 1..n : i - 1 \in 0..(n - 1)
    OBVIOUS
  <2> QED
    BY <1>3, <2>1
<1>5. ASSUME NEW i \in 2..n PROVE f[i] = f[i - 1] \o parts[i]
  <2>1. i - 1 \in 1..(n - 1) /\ i - 1 \in 1..n /\ (i - 1) - 1 \in 0..(n - 1) /\ (i - 1) + 1 = i
    OBVIOUS
  <2>2. g[i - 1] = step[i - 1][g[(i - 1) - 1]] /\ g[(i - 1) - 1] \in Text
    BY <1>3, <2>1
  <2>3. f[i] = g[i - 1] /\ f[i - 1] = g[(i - 1) - 1]
    BY <2>1
  <2> HIDE DEF f
  <2>4. \A s \in Text : step[i - 1][s] = s \o parts[i]
    BY <2>1 DEF step
  <2> QED
    BY <2>2, <2>3, <2>4
<1> HIDE DEF f
<1> DEFINE Is(h) == h = [i \in 1..n |-> IF i = 1 THEN parts[i] ELSE h[i - 1] \o parts[i]]
<1>6. Is(f)
  <2> DEFINE h == [i \in 1..n |-> IF i = 1 THEN parts[i] ELSE f[i - 1] \o parts[i]]
  <2>1. \A i \in 1..n : f[i] = h[i]
    <3> SUFFICES ASSUME NEW i \in 1..n PROVE f[i] = h[i]
      OBVIOUS
    <3>1. CASE i = 1
      BY <1>4, <3>1
    <3>2. CASE i # 1
      <4>1. i \in 2..n
        BY <3>2
      <4>2. h[i] = f[i - 1] \o parts[i]
        BY <3>2
      <4> HIDE DEF h
      <4> QED
        BY <1>5, <4>1, <4>2
    <3> QED
      BY <3>1, <3>2
  <2>2. DOMAIN f = 1..n /\ DOMAIN h = 1..n /\ f = [i \in 1..n |-> f[i]] /\ h = [i \in 1..n |-> h[i]]
    BY <1>4
  <2> HIDE DEF h
  <2>3. f = h
    BY <2>1, <2>2
  <2> QED
    BY <2>3 DEF h
<1> DEFINE c == CHOOSE h : Is(h)
<1>7. Is(c)
  <2> HIDE DEF Is
  <2> QED
    BY <1>6
<1>8. FlattenSeq(parts) = c[n]
  <2>1. Len(parts) = n /\ n # 0
    OBVIOUS
  <2> QED
    BY <2>1 DEF FlattenSeq
<1>9. c[1] = parts[1] /\ \A i \in 2..n : c[i] = c[i - 1] \o parts[i]
  <2> DEFINE h == [i \in 1..n |-> IF i = 1 THEN parts[i] ELSE c[i - 1] \o parts[i]]
  <2> HIDE DEF c
  <2>1. c = h
    BY <1>7
  <2>2. h[1] = parts[1] /\ \A i \in 2..n : h[i] = c[i - 1] \o parts[i]
    <3>1. 1 \in 1..n /\ h[1] = parts[1]
      OBVIOUS
    <3>2. ASSUME NEW i \in 2..n PROVE h[i] = c[i - 1] \o parts[i]
      <4>1. i \in 1..n /\ i # 1
        OBVIOUS
      <4> QED
        BY <4>1
    <3> QED
      BY <3>1, <3>2
  <2> HIDE DEF h
  <2> QED
    BY <2>1, <2>2
<1>10. DOMAIN c = 1..n
  <2> HIDE DEF c
  <2> QED
    BY <1>7
<1> HIDE DEF c
<1> DEFINE T == {m \in Nat : m + 1 <= n => c[m + 1] = f[m + 1]}
<1>11. 0 \in T
  BY <1>4, <1>9
<1>12. ASSUME NEW m \in T PROVE m + 1 \in T
  <2> SUFFICES ASSUME m + 2 <= n PROVE c[m + 2] = f[m + 2]
    OBVIOUS
  <2>1. m + 2 \in 2..n /\ (m + 2) - 1 = m + 1 /\ c[m + 1] = f[m + 1]
    OBVIOUS
  <2> HIDE DEF T
  <2> QED
    BY <1>5, <1>9, <2>1
<1>13. T = Nat
  <2> HIDE DEF T
  <2>1. T \subseteq Nat
    BY DEF T
  <2> QED
    BY <1>11, <1>12, <2>1, NatSet
<1>14. c[n] = f[n]
  <2>1. n - 1 \in T /\ (n - 1) + 1 = n
    BY <1>2, <1>13
  <2> QED
    BY <2>1
<1> QED
  BY <1>4, <1>5, <1>8, <1>14

\* f[i] is what the first i of the n parts are together.
Joined(f, n, parts) == f \in [0..n -> Text] /\ f[0] = <<>> /\ \A i \in 1..n : f[i] = f[i - 1] \o parts[i]

LEMMA FlatIs ==
  ASSUME NEW n \in Nat, NEW parts \in [1..n -> Text]
  PROVE  \E f : Joined(f, n, parts) /\ FlattenSeq(parts) = f[n]
<1>1. CASE n = 0
  <2> DEFINE f == [i \in 0..0 |-> <<>>]
  <2>1. FlattenSeq(parts) = <<>>
    <3>1. Len(parts) = 0
      BY <1>1
    <3> QED
      BY <3>1 DEF FlattenSeq
  <2>2. <<>> \in Text
    BY DEF Text
  <2>3. Joined(f, n, parts) /\ f[n] = <<>>
    BY <1>1, <2>2 DEF Joined
  <2> QED
    BY <2>1, <2>3
<1>2. CASE n > 0
  <2>1. PICK g \in [1..n -> Text] :
            /\ FlattenSeq(parts) = g[n] /\ g[1] = parts[1]
            /\ \A i \in 2..n : g[i] = g[i - 1] \o parts[i]
    BY <1>2, FlatSteps
  <2> DEFINE f == [i \in 0..n |-> IF i = 0 THEN <<>> ELSE g[i]]
  <2>2. <<>> \in Text /\ \A t \in Text : <<>> \o t = t
    BY EmptySeq, ConcatEmptySeq DEF Text
  <2>3. f \in [0..n -> Text] /\ f[0] = <<>> /\ f[n] = g[n]
    <3>1. \A i \in 0..n : i # 0 => i \in 1..n
      OBVIOUS
    <3> QED
      BY <1>2, <2>1, <2>2, <3>1
  <2>4. ASSUME NEW i \in 1..n PROVE f[i] = f[i - 1] \o parts[i]
    <3>1. f[i] = g[i] /\ parts[i] \in Text
      OBVIOUS
    <3>2. CASE i = 1
      <4>1. f[i - 1] = <<>> /\ g[i] = parts[i]
        BY <1>2, <2>1, <3>2
      <4> HIDE DEF f
      <4> QED
        BY <2>2, <3>1, <4>1
    <3>3. CASE i # 1
      <4>1. i \in 2..n /\ i - 1 \in 0..n /\ i - 1 # 0 
        BY <3>3
      <4>2. f[i - 1] = g[i - 1]
        BY <4>1
      <4> HIDE DEF f
      <4> QED
        BY <2>1, <3>1, <4>1, <4>2
    <3> QED
      BY <3>2, <3>3
  <2> HIDE DEF f
  <2> QED
    BY <2>1, <2>3, <2>4 DEF Joined
<1> QED
  BY <1>1, <1>2

LEMMA JoinedStep ==
  ASSUME NEW n \in Nat, NEW parts \in [1..n -> Text], NEW f, Joined(f, n, parts), NEW i \in 1..n
  PROVE  /\ i - 1 \in 0..n /\ f[i - 1] \in Text /\ parts[i] \in Text
         /\ f[i] = f[i - 1] \o parts[i] /\ f[i] \in Text
         /\ Len(f[i - 1]) \in Nat /\ Len(parts[i]) \in Nat /\ Len(f[i]) = Len(f[i - 1]) + Len(parts[i])
<1>1. i - 1 \in 0..n /\ i \in 0..n
  OBVIOUS
<1>2. f[i - 1] \in Text /\ parts[i] \in Text /\ f[i] \in Text /\ f[i] = f[i - 1] \o parts[i]
  BY <1>1 DEF Joined
<1> QED
  BY <1>1, <1>2, ConcatText

LEMMA JoinedHas ==
  ASSUME NEW n \in Nat, NEW parts \in [1..n -> Text], NEW f, Joined(f, n, parts),
         NEW c, NEW p \in Nat, Has(c, p, f[n])
  PROVE  /\ \A i \in 0..n : Has(c, p, f[i])
         /\ \A i \in 1..n : Has(c, p + Len(f[i - 1]), parts[i])
<1> DEFINE T == {m \in Nat : m <= n => Has(c, p, f[n - m])}
<1>1. 0 \in T
  OBVIOUS
<1>2. ASSUME NEW m \in T PROVE m + 1 \in T
  <2>0. m \in Nat /\ (m <= n => Has(c, p, f[n - m]))
    OBVIOUS
  <2> SUFFICES ASSUME m + 1 <= n PROVE Has(c, p, f[n - (m + 1)])
    BY <2>0
  <2> DEFINE i == n - m
  <2>1. i \in 1..n /\ i - 1 = n - (m + 1) /\ Has(c, p, f[i])
    BY <2>0
  <2> HIDE DEF i
  <2>2. f[i - 1] \in Text /\ parts[i] \in Text /\ f[i] = f[i - 1] \o parts[i]
    BY <2>1, JoinedStep
  <2>3. Has(c, p, f[i - 1])
    BY <2>1, <2>2, HasConcat
  <2> QED
    BY <2>1, <2>3
<1>3. T = Nat
  <2> HIDE DEF T
  <2>1. T \subseteq Nat
    BY DEF T
  <2> QED
    BY <1>1, <1>2, <2>1, NatSet
<1>4. ASSUME NEW i \in 0..n PROVE Has(c, p, f[i])
  <2>1. n - i \in Nat /\ n - (n - i) = i /\ n - i <= n
    OBVIOUS
  <2>2. n - i \in T
    <3> HIDE DEF T
    <3> QED
      BY <1>3, <2>1
  <2>3. n - i <= n => Has(c, p, f[n - (n - i)])
    BY <2>2
  <2> QED
    BY <2>1, <2>3
<1>5. ASSUME NEW i \in 1..n PROVE Has(c, p + Len(f[i - 1]), parts[i])
  <2>1. i \in 0..n
    OBVIOUS
  <2>2. f[i - 1] \in Text /\ parts[i] \in Text /\ f[i] = f[i - 1] \o parts[i]
    BY JoinedStep
  <2>3. Has(c, p, f[i - 1] \o parts[i])
    BY <1>4, <2>1, <2>2
  <2> QED
    BY <2>2, <2>3, HasConcat
<1> QED
  BY <1>4, <1>5

-----------------------------------------------------------------------------
(* What is read of a sequence of fields *)

\* A reader somewhere in the bytes, with what it has read so far, elements of R.
Readers(R) == [ok : BOOLEAN, at : Nat, read : Seq(R)]

LEMMA ReadsInside ==
  ASSUME NEW c \in Text, NEW p \in Nat, NEW n \in Nat, fits(c, p, n)
  PROVE  readBytes(c, p, n) \in Text /\ \A k \in 1..n : c[p + k] \in 0..U8
<1>1. Len(c) \in Nat /\ p + n <= Len(c)
  BY LenProperties DEF Text, fits
<1>2. \A i \in 1..Len(c) : c[i] \in 0..U8
  BY ElementOfSeq DEF Text
<1>3. \A i \in (p + 1)..(p + n) : c[i] \in 0..U8
  BY <1>1, <1>2
<1>4. readBytes(c, p, n) \in Text
  BY <1>1, <1>3, SubSeqProperties DEF Text, readBytes
<1>5. \A k \in 1..n : p + k \in 1..Len(c)
  BY <1>1
<1> QED
  BY <1>2, <1>4, <1>5

LEMMA ReadPairType ==
  ASSUME NEW c \in Text, NEW s \in Readers(Text \X Text)
  PROVE  readPair(c, s) \in Readers(Text \X Text)
<1> DEFINE name == readU8(c, s.at)
           value == readU16(c, s.at + 1)
<1>0. s.ok \in BOOLEAN /\ s.at \in Nat /\ s.read \in Seq(Text \X Text)
  BY DEF Readers
<1>1. CASE ~s.ok \/ ~fits(c, s.at, 3) \/ ~fits(c, s.at, 3 + name + value)
  <2>1. readPair(c, s) = [s EXCEPT !.ok = FALSE]
    BY <1>1 DEF readPair
  <2> QED
    BY <2>1 DEF Readers
<1>2. CASE s.ok /\ fits(c, s.at, 3) /\ fits(c, s.at, 3 + name + value)
  <2>1. name \in Nat /\ value \in Nat
    <3>1. c[s.at + 1] \in 0..U8 /\ c[s.at + 2] \in 0..U8 /\ c[s.at + 3] \in 0..U8
      BY <1>0, <1>2, ReadsInside
    <3>2. c[s.at + 1] \in Nat /\ c[s.at + 2] \in Nat /\ c[s.at + 3] \in Nat /\ Byte \in Nat
      BY <3>1, ByteIs
    <3>3. s.at + 1 + 1 = s.at + 2 /\ s.at + 1 + 2 = s.at + 3
      BY <1>0
    <3> QED
      BY <3>2, <3>3 DEF readU8, readU16
  <2>2. readPair(c, s) = [ok |-> TRUE, at |-> s.at + 3 + name + value,
              read |-> Append(s.read, <<readBytes(c, s.at + 3, name),
                                        readBytes(c, s.at + 3 + name, value)>>)]
    BY <1>2 DEF readPair
  <2> HIDE DEF name, value
  <2>3. fits(c, s.at + 3, name) /\ fits(c, s.at + 3 + name, value) /\ s.at + 3 \in Nat /\ s.at + 3 + name \in Nat
    <3> DEFINE q == s.at
    <3>1. Len(c) \in Nat
      BY LenProperties DEF Text
    <3>2. q \in Nat /\ q + (3 + name + value) <= Len(c)
      BY <1>0, <1>2 DEF fits
    <3> HIDE DEF q
    <3>3. q + 3 \in Nat /\ q + 3 + name \in Nat /\ q + 3 + name <= Len(c) /\ q + 3 + name + value <= Len(c)
      BY <2>1, <3>1, <3>2
    <3> QED
      BY <3>3 DEF fits, q
  <2>4. readBytes(c, s.at + 3, name) \in Text /\ readBytes(c, s.at + 3 + name, value) \in Text
    BY <2>1, <2>3, ReadsInside
  <2>5. Append(s.read, <<readBytes(c, s.at + 3, name), readBytes(c, s.at + 3 + name, value)>>) \in Seq(Text \X Text)
    BY <1>0, <2>4, AppendProperties
  <2>6. s.at + 3 + name + value \in Nat
    BY <1>0, <2>1
  <2> QED
    BY <2>2, <2>5, <2>6 DEF Readers
<1> QED
  BY <1>1, <1>2

LEMMA ReadTextType ==
  ASSUME NEW c \in Text, NEW s \in Readers(Text)
  PROVE  readText(c, s) \in Readers(Text)
<1> DEFINE value == readU16(c, s.at)
<1>0. s.ok \in BOOLEAN /\ s.at \in Nat /\ s.read \in Seq(Text)
  BY DEF Readers
<1>1. CASE ~s.ok \/ ~fits(c, s.at, 2) \/ ~fits(c, s.at, 2 + value)
  <2>1. readText(c, s) = [s EXCEPT !.ok = FALSE]
    BY <1>1 DEF readText
  <2> QED
    BY <2>1 DEF Readers
<1>2. CASE s.ok /\ fits(c, s.at, 2) /\ fits(c, s.at, 2 + value)
  <2>1. value \in Nat
    <3>1. c[s.at + 1] \in 0..U8 /\ c[s.at + 2] \in 0..U8
      BY <1>0, <1>2, ReadsInside
    <3>2. c[s.at + 1] \in Nat /\ c[s.at + 2] \in Nat /\ Byte \in Nat
      BY <3>1, ByteIs
    <3> QED
      BY <3>2 DEF readU16
  <2>2. readText(c, s) = [ok |-> TRUE, at |-> s.at + 2 + value,
                          read |-> Append(s.read, readBytes(c, s.at + 2, value))]
    BY <1>2 DEF readText
  <2> HIDE DEF value
  <2>3. fits(c, s.at + 2, value) /\ s.at + 2 \in Nat
    <3>1. Len(c) \in Nat
      BY LenProperties DEF Text
    <3> QED
      BY <1>0, <1>2, <2>1, <3>1 DEF fits
  <2>4. readBytes(c, s.at + 2, value) \in Text
    BY <2>1, <2>3, ReadsInside
  <2>5. Append(s.read, readBytes(c, s.at + 2, value)) \in Seq(Text)
    BY <1>0, <2>4, AppendProperties
  <2>6. s.at + 2 + value \in Nat
    BY <1>0, <2>1
  <2> QED
    BY <2>2, <2>5, <2>6 DEF Readers
<1> QED
  BY <1>1, <1>2

LEMMA ReadPairsIs ==
  ASSUME NEW c \in Text, NEW p \in Nat, NEW n \in Nat
  PROVE  \E h : /\ readPairs(c, p, n) = h[n] /\ h[0] = Start(p)
               /\ \A i \in 1..n : h[i] = readPair(c, h[i - 1])
<1> DEFINE A == Readers(Text \X Text)
           a == Start(p)
           step == [i \in 1..n |-> [s \in A |-> readPair(c, s)]]
<1>1. a \in A
  BY EmptySeq DEF Start, Readers
<1>2. step \in [1..n -> [A -> A]]
  <2>1. \A s \in A : readPair(c, s) \in A
    BY ReadPairType
  <2> HIDE DEF A
  <2> QED
    BY <2>1
<1>3. \A i \in 1..n, s \in A : step[i][s] = readPair(c, s)
  OBVIOUS
<1> HIDE DEF A, a, step
<1>4. PICK f \in [0..n -> A] : f[0] = a /\ \A i \in 1..n : f[i] = step[i][f[i - 1]]
  <2>1. Iterations(A, a, n, step) # {}
    BY ONLY <1>1, <1>2, n \in Nat, Iterates
  <2> QED
    BY <2>1 DEF Iterations
<1>5. ASSUME NEW i \in 1..n PROVE f[i] = readPair(c, f[i - 1])
  <2>1. i - 1 \in 0..n
    OBVIOUS
  <2>2. f[i - 1] \in A
    BY <2>1
  <2> QED
    BY <1>3, <1>4, <2>2
<1> DEFINE Is(h) == h = [i \in 0..n |-> IF i = 0 THEN Start(p) ELSE readPair(c, h[i - 1])]
<1>6. Is(f)
  <2> DEFINE h == [i \in 0..n |-> IF i = 0 THEN Start(p) ELSE readPair(c, f[i - 1])]
  <2>1. ASSUME NEW i \in 0..n PROVE f[i] = h[i]
    <3>1. CASE i = 0
      BY <1>4, <3>1 DEF a
    <3>2. CASE i # 0
      <4>1. i \in 1..n
        BY <3>2
      <4>2. h[i] = readPair(c, f[i - 1])
        BY <3>2
      <4> HIDE DEF h
      <4> QED
        BY <1>5, <4>1, <4>2
    <3> QED
      BY <3>1, <3>2
  <2>2. DOMAIN f = 0..n /\ DOMAIN h = 0..n /\ f = [i \in 0..n |-> f[i]] /\ h = [i \in 0..n |-> h[i]]
    OBVIOUS
  <2> HIDE DEF h
  <2>3. f = h
    BY <2>1, <2>2
  <2> QED
    BY <2>3 DEF h
<1> DEFINE h == CHOOSE h : Is(h)
<1>7. Is(h)
  <2> HIDE DEF Is
  <2> QED
    BY <1>6
<1>8. readPairs(c, p, n) = h[n]
  BY DEF readPairs
<1>9. h[0] = Start(p) /\ \A i \in 1..n : h[i] = readPair(c, h[i - 1])
  <2> DEFINE g == [i \in 0..n |-> IF i = 0 THEN Start(p) ELSE readPair(c, h[i - 1])]
  <2> HIDE DEF h
  <2>1. h = g
    BY <1>7
  <2>2. g[0] = Start(p)
    OBVIOUS
  <2>3. ASSUME NEW i \in 1..n PROVE g[i] = readPair(c, h[i - 1])
    <3>1. i \in 0..n /\ i # 0
      OBVIOUS
    <3> QED
      BY <3>1
  <2> HIDE DEF g
  <2> QED
    BY <2>1, <2>2, <2>3
<1> HIDE DEF h
<1> QED
  BY <1>8, <1>9

LEMMA ReadTextsIs ==
  ASSUME NEW c \in Text, NEW p \in Nat, NEW n \in Nat
  PROVE  \E h : /\ readTexts(c, p, n) = h[n] /\ h[0] = Start(p)
               /\ \A i \in 1..n : h[i] = readText(c, h[i - 1])
<1> DEFINE A == Readers(Text)
           a == Start(p)
           step == [i \in 1..n |-> [s \in A |-> readText(c, s)]]
<1>1. a \in A
  BY EmptySeq DEF Start, Readers
<1>2. step \in [1..n -> [A -> A]]
  <2>1. \A s \in A : readText(c, s) \in A
    BY ReadTextType
  <2> HIDE DEF A
  <2> QED
    BY <2>1
<1>3. \A i \in 1..n, s \in A : step[i][s] = readText(c, s)
  OBVIOUS
<1> HIDE DEF A, a, step
<1>4. PICK f \in [0..n -> A] : f[0] = a /\ \A i \in 1..n : f[i] = step[i][f[i - 1]]
  <2>1. Iterations(A, a, n, step) # {}
    BY ONLY <1>1, <1>2, n \in Nat, Iterates
  <2> QED
    BY <2>1 DEF Iterations
<1>5. ASSUME NEW i \in 1..n PROVE f[i] = readText(c, f[i - 1])
  <2>1. i - 1 \in 0..n
    OBVIOUS
  <2>2. f[i - 1] \in A
    BY <2>1
  <2> QED
    BY <1>3, <1>4, <2>2
<1> DEFINE Is(h) == h = [i \in 0..n |-> IF i = 0 THEN Start(p) ELSE readText(c, h[i - 1])]
<1>6. Is(f)
  <2> DEFINE h == [i \in 0..n |-> IF i = 0 THEN Start(p) ELSE readText(c, f[i - 1])]
  <2>1. ASSUME NEW i \in 0..n PROVE f[i] = h[i]
    <3>1. CASE i = 0
      BY <1>4, <3>1 DEF a
    <3>2. CASE i # 0
      <4>1. i \in 1..n
        BY <3>2
      <4>2. h[i] = readText(c, f[i - 1])
        BY <3>2
      <4> HIDE DEF h
      <4> QED
        BY <1>5, <4>1, <4>2
    <3> QED
      BY <3>1, <3>2
  <2>2. DOMAIN f = 0..n /\ DOMAIN h = 0..n /\ f = [i \in 0..n |-> f[i]] /\ h = [i \in 0..n |-> h[i]]
    OBVIOUS
  <2> HIDE DEF h
  <2>3. f = h
    BY <2>1, <2>2
  <2> QED
    BY <2>3 DEF h
<1> DEFINE h == CHOOSE h : Is(h)
<1>7. Is(h)
  <2> HIDE DEF Is
  <2> QED
    BY <1>6
<1>8. readTexts(c, p, n) = h[n]
  BY DEF readTexts
<1>9. h[0] = Start(p) /\ \A i \in 1..n : h[i] = readText(c, h[i - 1])
  <2> DEFINE g == [i \in 0..n |-> IF i = 0 THEN Start(p) ELSE readText(c, h[i - 1])]
  <2> HIDE DEF h
  <2>1. h = g
    BY <1>7
  <2>2. g[0] = Start(p)
    OBVIOUS
  <2>3. ASSUME NEW i \in 1..n PROVE g[i] = readText(c, h[i - 1])
    <3>1. i \in 0..n /\ i # 0
      OBVIOUS
    <3> QED
      BY <3>1
  <2> HIDE DEF g
  <2> QED
    BY <2>1, <2>2, <2>3
<1> HIDE DEF h
<1> QED
  BY <1>8, <1>9

LEMMA FailedReader ==
  ASSUME NEW q, NEW seen
  PROVE  [[ok |-> TRUE, at |-> q, read |-> seen] EXCEPT !.ok = FALSE] = [ok |-> FALSE, at |-> q, read |-> seen]
<1> DEFINE e == [[ok |-> TRUE, at |-> q, read |-> seen] EXCEPT !.ok = FALSE]
<1>1. e \in [ok : {FALSE}, at : {q}, read : {seen}]
  OBVIOUS
<1> HIDE DEF e
<1>2. e = [ok |-> FALSE, at |-> q, read |-> seen]
  BY <1>1
<1> QED
  BY <1>2 DEF e

\* Reader r comes out at the end of w with v read, or it has failed.
Advanced(r, c, q, w, seen, v) ==
  r = IF q + Len(w) <= Len(c)
      THEN [ok |-> TRUE, at |-> q + Len(w), read |-> Append(seen, v)]
      ELSE [ok |-> FALSE, at |-> q, read |-> seen]

(* What writePair wrote, readPair reads, if all of it is there. *)
LEMMA PairStep ==
  ASSUME NEW c, NEW q, NEW h, NEW seen, c \in Text, q \in Nat, h \in Text \X Text, FitsPair(h),
         Has(c, q, writePair(h))
  PROVE  /\ writePair(h) \in Text /\ Len(writePair(h)) \in Nat
         /\ Advanced(readPair(c, [ok |-> TRUE, at |-> q, read |-> seen]), c, q, writePair(h), seen, h)
<1> DEFINE a == h[1]
           b == h[2]
           na == Len(a)
           nb == Len(b)
           s == [ok |-> TRUE, at |-> q, read |-> seen]
<1>1. a \in Text /\ b \in Text /\ na \in Nat /\ nb \in Nat /\ Len(c) \in Nat /\ na <= U8 /\ nb <= U16 /\ h = <<a, b>>
  BY LenProperties DEF Text, FitsPair
<1>2. na % Byte = na
  <2>1. na < Byte /\ Byte \in Nat /\ Byte > 0
    BY <1>1, ByteIs
  <2> QED
    BY <1>1, <2>1, DigitOf
<1>3. <<na % Byte>> \in Text /\ Len(<<na % Byte>>) = 1
  <2>1. na \in 0..U8
    BY <1>1, ByteIs
  <2> QED
    BY <1>2, <2>1 DEF Text
<1> DEFINE x == <<na % Byte>>
           y == writeU16(nb)
<1>4. writePair(h) = x \o y \o a \o b
  BY DEF writePair
<1>5. x \in Text /\ Len(x) = 1 /\ y \in Text /\ Len(y) = 2
  BY <1>1, <1>3, U16Is
<1>5a. x = <<na>>
  BY <1>2
<1>6. s.ok = TRUE /\ s.at = q /\ [s EXCEPT !.ok = FALSE] = [ok |-> FALSE, at |-> q, read |-> seen] /\ s.read = seen
  BY FailedReader
<1>7. readPair(c, s) =
        IF ~fits(c, q, 3) \/ ~fits(c, q, 3 + readU8(c, q) + readU16(c, q + 1))
        THEN [ok |-> FALSE, at |-> q, read |-> seen]
        ELSE [ok |-> TRUE, at |-> q + 3 + readU8(c, q) + readU16(c, q + 1),
              read |-> Append(seen, <<readBytes(c, q + 3, readU8(c, q)),
                                      readBytes(c, q + 3 + readU8(c, q), readU16(c, q + 1))>>)]
  BY <1>6 DEF readPair
<1> HIDE DEF x, y, s, a, b
<1>8. x \o y \in Text /\ Len(x \o y) = 3
  <2>1. x \o y \in Text /\ Len(x \o y) = Len(x) + Len(y)
    BY ONLY <1>5, ConcatText
  <2> QED
    BY <1>5, <2>1
<1>9. x \o y \o a \in Text /\ Len(x \o y \o a) = 3 + na
  BY <1>1, <1>8, ConcatText
<1>10. x \o y \o a \o b \in Text /\ Len(x \o y \o a \o b) = 3 + na + nb
  BY <1>1, <1>9, ConcatText
<1>10a. writePair(h) \in Text /\ Len(writePair(h)) = 3 + na + nb /\ Len(writePair(h)) \in Nat
  <2>1. writePair(h) \in Text /\ Len(writePair(h)) = 3 + na + nb
    BY ONLY <1>4, <1>10
  <2> QED
    BY <1>1, <2>1
<1>11. Has(c, q, x \o y \o a) /\ Has(c, q + (3 + na), b)
  <2> DEFINE f == x \o y \o a
  <2>1. f \in Text /\ Len(f) = 3 + na /\ Has(c, q, f \o b)
    BY <1>4, <1>9
  <2> HIDE DEF f
  <2>2. Has(c, q, f) /\ Has(c, q + Len(f), b)
    BY <1>1, <2>1, HasConcat
  <2> QED
    BY <2>1, <2>2 DEF f
<1>12. Has(c, q, x \o y) /\ Has(c, q + 3, a)
  <2> DEFINE f == x \o y
  <2>1. f \in Text /\ Len(f) = 3 /\ Has(c, q, f \o a)
    BY <1>8, <1>11
  <2> HIDE DEF f
  <2>2. Has(c, q, f) /\ Has(c, q + Len(f), a)
    BY <1>1, <2>1, HasConcat
  <2> QED
    BY <2>1, <2>2 DEF f
<1>13. Has(c, q, x) /\ Has(c, q + 1, y)
  <2>1. Has(c, q, x) /\ Has(c, q + Len(x), y)
    BY <1>5, <1>12, HasConcat
  <2> QED
    BY <1>5, <2>1
<1>14. CASE ~fits(c, q, 3)
  <2>1. ~(q + (3 + na + nb) <= Len(c))
    BY <1>1, <1>14 DEF fits
  <2>2. readPair(c, s) = [ok |-> FALSE, at |-> q, read |-> seen]
    BY <1>7, <1>14
  <2> QED
    BY <1>1, <1>10a, <2>1, <2>2 DEF s, Advanced
<1>15. CASE fits(c, q, 3)
  <2>1. fits(c, q, 1) /\ fits(c, q + 1, 2) /\ q + 1 \in Nat /\ q + 3 \in Nat /\ q + 3 + na \in Nat
    BY <1>1, <1>15 DEF fits
  <2>2. readU8(c, q) = na
    BY <1>1, <1>5a, <1>13, <2>1, ReadsU8
  <2>3. readU16(c, q + 1) = nb
    <3>1. nb \in 0..U16
      BY <1>1, WideIs
    <3>2. Has(c, q + 1, writeU16(nb))
      BY <1>13 DEF y
    <3> HIDE DEF nb
    <3> QED
      BY <1>1, <2>1, <3>1, <3>2, ReadsU16
  <2>4. CASE q + (3 + na + nb) <= Len(c)
    <3>1. fits(c, q, 3 + na + nb) /\ fits(c, q + 3, na) /\ fits(c, q + 3 + na, nb) /\ Has(c, q + 3 + na, b)
      <4>1. q + (3 + na) = q + 3 + na
        BY <1>1
      <4> QED
        BY <1>1, <1>11, <2>4, <4>1 DEF fits
    <3>2. readBytes(c, q + 3, na) = a
      BY <1>1, <1>12, <2>1, <3>1, ReadsBytes
    <3>3. readBytes(c, q + 3 + na, nb) = b
      BY <1>1, <2>1, <3>1, ReadsBytes
    <3>4. readPair(c, s) = [ok |-> TRUE, at |-> q + 3 + na + nb, read |-> Append(seen, <<a, b>>)]
      BY <1>7, <1>15, <2>2, <2>3, <3>1, <3>2, <3>3
    <3>5. q + 3 + na + nb = q + Len(writePair(h))
      BY <1>1, <1>10a
    <3>6. readPair(c, s) = [ok |-> TRUE, at |-> q + Len(writePair(h)), read |-> Append(seen, h)]
      BY <1>1, <3>4, <3>5
    <3>7. q + Len(writePair(h)) <= Len(c)
      BY <1>10a, <2>4
    <3> QED
      BY <1>10a, <3>6, <3>7 DEF s, Advanced
  <2>5. CASE ~(q + (3 + na + nb) <= Len(c))
    <3>1. ~fits(c, q, 3 + na + nb)
      BY <2>5 DEF fits
    <3>2. readPair(c, s) = [ok |-> FALSE, at |-> q, read |-> seen]
      BY <1>7, <2>2, <2>3, <3>1
    <3>3. ~(q + Len(writePair(h)) <= Len(c))
      BY <1>10a, <2>5
    <3> QED
      BY <1>10a, <3>2, <3>3 DEF s, Advanced
  <2> QED
    BY <2>4, <2>5
<1> QED
  BY <1>14, <1>15

LEMMA TextStep ==
  ASSUME NEW c, NEW q, NEW a, NEW seen, c \in Text, q \in Nat, a \in Text, Len(a) <= U16,
         Has(c, q, writeText(a))
  PROVE  /\ writeText(a) \in Text /\ Len(writeText(a)) \in Nat
         /\ Advanced(readText(c, [ok |-> TRUE, at |-> q, read |-> seen]), c, q, writeText(a), seen, a)
<1> DEFINE n == Len(a)
           x == writeU16(n)
           s == [ok |-> TRUE, at |-> q, read |-> seen]
<1>1. n \in Nat /\ Len(c) \in Nat /\ n <= U16
  BY LenProperties DEF Text
<1>2. writeText(a) = x \o a /\ x \in Text /\ Len(x) = 2
  BY <1>1, U16Is DEF writeText
<1>3. s.ok = TRUE /\ s.at = q /\ [s EXCEPT !.ok = FALSE] = [ok |-> FALSE, at |-> q, read |-> seen] /\ s.read = seen
  BY FailedReader
<1>4. readText(c, s) =
        IF ~fits(c, q, 2) \/ ~fits(c, q, 2 + readU16(c, q))
        THEN [ok |-> FALSE, at |-> q, read |-> seen]
        ELSE [ok |-> TRUE, at |-> q + 2 + readU16(c, q),
              read |-> Append(seen, readBytes(c, q + 2, readU16(c, q)))]
  BY <1>3 DEF readText
<1> HIDE DEF x, s
<1>5. x \o a \in Text /\ Len(x \o a) = 2 + n
  BY <1>2, ConcatText
<1>5a. writeText(a) \in Text /\ Len(writeText(a)) = 2 + n /\ Len(writeText(a)) \in Nat
  BY <1>1, <1>2, <1>5
<1>6. Has(c, q, x) /\ Has(c, q + 2, a)
  <2>1. Has(c, q, x \o a)
    BY <1>2
  <2>2. Has(c, q, x) /\ Has(c, q + Len(x), a)
    BY <1>2, <2>1, HasConcat
  <2> QED
    BY <1>2, <2>2
<1>7. CASE ~fits(c, q, 2)
  <2>1. ~(q + (2 + n) <= Len(c))
    BY <1>1, <1>7 DEF fits
  <2>2. readText(c, s) = [ok |-> FALSE, at |-> q, read |-> seen]
    BY <1>4, <1>7
  <2> QED
    BY <1>1, <1>5a, <2>1, <2>2 DEF s, Advanced
<1>8. CASE fits(c, q, 2)
  <2>1. readU16(c, q) = n
    <3>1. n \in 0..U16
      BY <1>1, WideIs
    <3>2. Has(c, q, writeU16(n))
      BY <1>6 DEF x
    <3> HIDE DEF n
    <3> QED
      BY <1>1, <1>8, <3>1, <3>2, ReadsU16
  <2>2. CASE q + (2 + n) <= Len(c)
    <3>1. fits(c, q, 2 + n) /\ fits(c, q + 2, n) /\ q + 2 \in Nat
      BY <1>1, <2>2 DEF fits
    <3>2. readBytes(c, q + 2, n) = a
      BY <1>6, <3>1, ReadsBytes
    <3>3. readText(c, s) = [ok |-> TRUE, at |-> q + 2 + n, read |-> Append(seen, a)]
      BY <1>4, <1>8, <2>1, <3>1, <3>2
    <3>4. q + 2 + n = q + Len(writeText(a))
      BY <1>1, <1>5a
    <3>5. readText(c, s) = [ok |-> TRUE, at |-> q + Len(writeText(a)), read |-> Append(seen, a)]
      BY <3>3, <3>4
    <3>6. q + Len(writeText(a)) <= Len(c)
      BY <1>5a, <2>2
    <3> QED
      BY <1>5a, <3>5, <3>6 DEF s, Advanced
  <2>3. CASE ~(q + (2 + n) <= Len(c))
    <3>1. ~fits(c, q, 2 + n)
      BY <2>3 DEF fits
    <3>2. readText(c, s) = [ok |-> FALSE, at |-> q, read |-> seen]
      BY <1>4, <2>1, <3>1
    <3>3. ~(q + Len(writeText(a)) <= Len(c))
      BY <1>5a, <2>3
    <3> QED
      BY <1>5a, <3>2, <3>3 DEF s, Advanced
  <2> QED
    BY <2>2, <2>3
<1> QED
  BY <1>7, <1>8

LEMMA StaysFailed ==
  ASSUME NEW q, NEW seen
  PROVE  [[ok |-> FALSE, at |-> q, read |-> seen] EXCEPT !.ok = FALSE] = [ok |-> FALSE, at |-> q, read |-> seen]
<1> DEFINE e == [[ok |-> FALSE, at |-> q, read |-> seen] EXCEPT !.ok = FALSE]
<1>1. e \in [ok : {FALSE}, at : {q}, read : {seen}]
  OBVIOUS
<1> HIDE DEF e
<1>2. e = [ok |-> FALSE, at |-> q, read |-> seen]
  BY <1>1
<1> QED
  BY <1>2 DEF e

LEMMA WritePairType ==
  ASSUME NEW h \in Text \X Text
  PROVE  writePair(h) \in Text
<1> DEFINE a == h[1]
           b == h[2]
           x == <<Len(a) % Byte>>
           y == writeU16(Len(b))
<1>1. a \in Text /\ b \in Text /\ Len(a) \in Nat /\ Len(b) \in Nat
  BY LenProperties DEF Text
<1>2. x \in Text
  <2>1. Len(a) % Byte \in 0..U8
    BY <1>1, ByteIs, DigitOf
  <2> HIDE DEF a
  <2> QED
    BY <2>1 DEF Text
<1>3. y \in Text
  BY <1>1, U16Is
<1>4. writePair(h) = x \o y \o a \o b
  BY DEF writePair
<1>5. a \in Text /\ b \in Text
  BY <1>1
<1> HIDE DEF a, b, x, y
<1>6. x \o y \in Text
  BY ONLY <1>2, <1>3, ConcatText
<1>7. x \o y \o a \in Text
  BY ONLY <1>5, <1>6, ConcatText
<1>8. x \o y \o a \o b \in Text
  BY ONLY <1>5, <1>7, ConcatText
<1> QED
  BY <1>4, <1>8

LEMMA WriteTextType ==
  ASSUME NEW a \in Text
  PROVE  writeText(a) \in Text
<1> DEFINE x == writeU16(Len(a))
<1>1. Len(a) \in Nat
  BY LenProperties DEF Text
<1>2. x \in Text
  BY <1>1, U16Is
<1> HIDE DEF x
<1>3. x \o a \in Text
  BY <1>2, ConcatText
<1> QED
  BY <1>3 DEF writeText, x

LEMMA PairsWalk ==
  ASSUME NEW c \in Text, NEW p \in Nat, p <= Len(c), NEW vals \in Seq((Text \X Text)),
         \A i \in 1..Len(vals) : FitsPair(vals[i]), Has(c, p, writePairs(vals))
  PROVE  /\ writePairs(vals) \in Text /\ Len(writePairs(vals)) \in Nat
         /\ readPairs(c, p, Len(vals)).ok <=> p + Len(writePairs(vals)) <= Len(c)
         /\ readPairs(c, p, Len(vals)).ok =>
              /\ readPairs(c, p, Len(vals)).at = p + Len(writePairs(vals))
              /\ readPairs(c, p, Len(vals)).read = vals
<1> DEFINE n == Len(vals)
           parts == [i \in 1..n |-> writePair(vals[i])]
<1>1. n \in Nat /\ Len(c) \in Nat /\ \A i \in 1..n : vals[i] \in (Text \X Text)
  BY LenProperties, ElementOfSeq DEF Text
<1>2. parts \in [1..n -> Text]
  <2>1. \A i \in 1..n : writePair(vals[i]) \in Text
    BY <1>1, WritePairType
  <2> QED
    BY <2>1
<1>3. \A i \in 1..n : parts[i] = writePair(vals[i])
  OBVIOUS
<1>4. writePairs(vals) = FlattenSeq(parts)
  BY DEF writePairs
<1> HIDE DEF parts, n
<1>5. PICK f : Joined(f, n, parts) /\ FlattenSeq(parts) = f[n]
  BY <1>1, <1>2, FlatIs
<1>6. /\ \A i \in 0..n : Has(c, p, f[i])
      /\ \A i \in 1..n : Has(c, p + Len(f[i - 1]), parts[i])
  <2>1. Has(c, p, f[n])
    BY <1>4, <1>5
  <2> QED
    BY <1>1, <1>2, <1>5, <2>1, JoinedHas
<1>7. \A i \in 0..n : f[i] \in Text /\ Len(f[i]) \in Nat
  <2>1. \A i \in 0..n : f[i] \in Text
    BY <1>5 DEF Joined
  <2> QED
    BY <2>1, LenProperties DEF Text
<1>8. PICK h : /\ readPairs(c, p, n) = h[n] /\ h[0] = Start(p)
               /\ \A i \in 1..n : h[i] = readPair(c, h[i - 1])
  BY <1>1, ReadPairsIs
<1> DEFINE Good(i) ==
             IF p + Len(f[i]) <= Len(c)
             THEN h[i] = [ok |-> TRUE, at |-> p + Len(f[i]), read |-> SubSeq(vals, 1, i)]
             ELSE \E q, seen : h[i] = [ok |-> FALSE, at |-> q, read |-> seen]
<1>9. Good(0)
  <2>1. f[0] = <<>> /\ Len(f[0]) = 0
    <3>1. f[0] = <<>>
      BY <1>5 DEF Joined
    <3> QED
      BY <3>1, EmptySeq
  <2>2. p + Len(f[0]) = p
    BY <2>1
  <2>3. SubSeq(vals, 1, 0) = <<>>
    BY SubSeqEmpty
  <2> QED
    BY <1>8, <2>2, <2>3 DEF Start
<1>10. ASSUME NEW i \in 1..n, Good(i - 1) PROVE Good(i)
  <2> DEFINE q == p + Len(f[i - 1])
             w == parts[i]
             seen == SubSeq(vals, 1, i - 1)
             v == vals[i]
  <2>1. /\ i - 1 \in 0..n /\ Len(f[i - 1]) \in Nat /\ Len(w) \in Nat
        /\ Len(f[i]) = Len(f[i - 1]) + Len(w)
    BY <1>1, <1>2, <1>5, JoinedStep
  <2>2. q \in Nat /\ q + Len(w) = p + Len(f[i]) /\ q <= q + Len(w)
    <3> HIDE DEF w
    <3> QED
      BY <2>1
  <2>3. h[i] = readPair(c, h[i - 1])
    BY <1>8
  <2>4. v \in (Text \X Text) /\ FitsPair(v) /\ w = writePair(v)
    BY <1>1, <1>3 DEF n
  <2>5. Has(c, q, writePair(v))
    BY <1>6, <2>4
  <2>6. Append(seen, v) = SubSeq(vals, 1, i)
    <3>1. 1 \in 1..Len(vals) /\ i \in 1..Len(vals)
      BY <1>1 DEF n
    <3>2. SubSeq(vals, 1, i) = seen \o <<v>>
      BY <3>1, SubSeqRecursiveSecond
    <3>3. seen \in Seq((Text \X Text))
      <4>1. \A j \in 1..(i - 1) : vals[j] \in (Text \X Text)
        BY <1>1
      <4> QED
        BY <4>1, SubSeqProperties
    <3> HIDE DEF seen, v
    <3>4. Append(seen, v) = seen \o <<v>>
      BY <2>4, <3>3, AppendIsConcat
    <3> QED
      BY <3>2, <3>4
  <2>7. CASE q <= Len(c)
    <3>1. h[i - 1] = [ok |-> TRUE, at |-> q, read |-> seen]
      BY <1>10, <2>7
    <3> HIDE DEF q, w, seen, v
    <3>2. Advanced(readPair(c, [ok |-> TRUE, at |-> q, read |-> seen]), c, q, writePair(v), seen, v)
      <4>1. c \in Text /\ q \in Nat /\ v \in (Text \X Text) /\ FitsPair(v) /\ Has(c, q, writePair(v))
        BY <2>2, <2>4, <2>5
      <4> QED
        BY ONLY <4>1, PairStep
    <3>3. q + Len(writePair(v)) = p + Len(f[i])
      BY <2>2, <2>4
    <3>4. CASE p + Len(f[i]) <= Len(c)
      <4>1. h[i] = [ok |-> TRUE, at |-> p + Len(f[i]), read |-> SubSeq(vals, 1, i)]
        BY <2>3, <2>6, <3>1, <3>2, <3>3, <3>4 DEF Advanced
      <4> QED
        BY <3>4, <4>1
    <3>5. CASE ~(p + Len(f[i]) <= Len(c))
      <4>1. h[i] = [ok |-> FALSE, at |-> q, read |-> seen]
        BY <2>3, <3>1, <3>2, <3>3, <3>5 DEF Advanced
      <4> QED
        BY <3>5, <4>1
    <3> QED
      BY <3>4, <3>5
  <2>8. CASE ~(q <= Len(c))
    <3>1. PICK q2, seen2 : h[i - 1] = [ok |-> FALSE, at |-> q2, read |-> seen2]
      BY <1>10, <2>8
    <3> DEFINE s == [ok |-> FALSE, at |-> q2, read |-> seen2]
    <3>2. ~s.ok /\ [s EXCEPT !.ok = FALSE] = s
      BY StaysFailed
    <3> HIDE DEF s
    <3>3. readPair(c, s) = s
      BY <3>2 DEF readPair
    <3>4. h[i] = [ok |-> FALSE, at |-> q2, read |-> seen2]
      BY <2>3, <3>1, <3>3 DEF s
    <3>5. ~(p + Len(f[i]) <= Len(c))
      <4> HIDE DEF q, w
      <4> QED
        BY <1>1, <2>1, <2>2, <2>8
    <3> QED
      BY <3>4, <3>5
  <2> QED
    BY <2>7, <2>8
<1> DEFINE T == {m \in Nat : m <= n => Good(m)}
<1>11. T = Nat
  <2> HIDE DEF Good
  <2>1. 0 \in T
    BY <1>9
  <2>2. ASSUME NEW m \in T PROVE m + 1 \in T
    <3>1. m \in Nat /\ (m <= n => Good(m))
      OBVIOUS
    <3>2. ASSUME m + 1 <= n PROVE Good(m + 1)
      <4>1. m + 1 \in 1..n /\ (m + 1) - 1 = m /\ m <= n
        BY <1>1, <3>1, <3>2
      <4>2. Good((m + 1) - 1)
        BY <3>1, <4>1
      <4> QED
        BY <1>10, <4>1, <4>2
    <3> QED
      BY <3>1, <3>2
  <2> HIDE DEF T
  <2>3. T \subseteq Nat
    BY DEF T
  <2> QED
    BY <2>1, <2>2, <2>3, NatSet
<1>12. Good(n)
  <2> HIDE DEF Good
  <2>1. n \in T
    BY <1>1, <1>11
  <2> QED
    BY <1>1, <2>1
<1>13. SubSeq(vals, 1, n) = vals
  BY SubSeqFull DEF n
<1> DEFINE r == readPairs(c, p, n)
           len == Len(f[n])
<1>14. writePairs(vals) = f[n] /\ n \in 0..n
  BY <1>1, <1>4, <1>5
<1>15. writePairs(vals) \in Text /\ Len(writePairs(vals)) = len /\ len \in Nat
  BY <1>7, <1>14
<1>16. IF p + len <= Len(c)
       THEN r = [ok |-> TRUE, at |-> p + len, read |-> vals]
       ELSE \E q, seen : r = [ok |-> FALSE, at |-> q, read |-> seen]
  BY <1>8, <1>12, <1>13
<1> HIDE DEF r, len
<1>17. (r.ok <=> p + len <= Len(c)) /\ (r.ok => r.at = p + len /\ r.read = vals)
  BY <1>16
<1> QED
  BY <1>15, <1>17 DEF r, n

LEMMA TextsWalk ==
  ASSUME NEW c \in Text, NEW p \in Nat, p <= Len(c), NEW vals \in Seq(Text),
         \A i \in 1..Len(vals) : Len(vals[i]) <= U16, Has(c, p, writeTexts(vals))
  PROVE  /\ writeTexts(vals) \in Text /\ Len(writeTexts(vals)) \in Nat
         /\ readTexts(c, p, Len(vals)).ok <=> p + Len(writeTexts(vals)) <= Len(c)
         /\ readTexts(c, p, Len(vals)).ok =>
              /\ readTexts(c, p, Len(vals)).at = p + Len(writeTexts(vals))
              /\ readTexts(c, p, Len(vals)).read = vals
<1> DEFINE n == Len(vals)
           parts == [i \in 1..n |-> writeText(vals[i])]
<1>1. n \in Nat /\ Len(c) \in Nat /\ \A i \in 1..n : vals[i] \in Text
  BY LenProperties, ElementOfSeq DEF Text
<1>2. parts \in [1..n -> Text]
  <2>1. \A i \in 1..n : writeText(vals[i]) \in Text
    BY <1>1, WriteTextType
  <2> QED
    BY <2>1
<1>3. \A i \in 1..n : parts[i] = writeText(vals[i])
  OBVIOUS
<1>4. writeTexts(vals) = FlattenSeq(parts)
  BY DEF writeTexts
<1> HIDE DEF parts, n
<1>5. PICK f : Joined(f, n, parts) /\ FlattenSeq(parts) = f[n]
  BY <1>1, <1>2, FlatIs
<1>6. /\ \A i \in 0..n : Has(c, p, f[i])
      /\ \A i \in 1..n : Has(c, p + Len(f[i - 1]), parts[i])
  <2>1. Has(c, p, f[n])
    BY <1>4, <1>5
  <2> QED
    BY <1>1, <1>2, <1>5, <2>1, JoinedHas
<1>7. \A i \in 0..n : f[i] \in Text /\ Len(f[i]) \in Nat
  <2>1. \A i \in 0..n : f[i] \in Text
    BY <1>5 DEF Joined
  <2> QED
    BY <2>1, LenProperties DEF Text
<1>8. PICK h : /\ readTexts(c, p, n) = h[n] /\ h[0] = Start(p)
               /\ \A i \in 1..n : h[i] = readText(c, h[i - 1])
  BY <1>1, ReadTextsIs
<1> DEFINE Good(i) ==
             IF p + Len(f[i]) <= Len(c)
             THEN h[i] = [ok |-> TRUE, at |-> p + Len(f[i]), read |-> SubSeq(vals, 1, i)]
             ELSE \E q, seen : h[i] = [ok |-> FALSE, at |-> q, read |-> seen]
<1>9. Good(0)
  <2>1. f[0] = <<>> /\ Len(f[0]) = 0
    <3>1. f[0] = <<>>
      BY <1>5 DEF Joined
    <3> QED
      BY <3>1, EmptySeq
  <2>2. p + Len(f[0]) = p
    BY <2>1
  <2>3. SubSeq(vals, 1, 0) = <<>>
    BY SubSeqEmpty
  <2> QED
    BY <1>8, <2>2, <2>3 DEF Start
<1>10. ASSUME NEW i \in 1..n, Good(i - 1) PROVE Good(i)
  <2> DEFINE q == p + Len(f[i - 1])
             w == parts[i]
             seen == SubSeq(vals, 1, i - 1)
             v == vals[i]
  <2>1. /\ i - 1 \in 0..n /\ Len(f[i - 1]) \in Nat /\ Len(w) \in Nat
        /\ Len(f[i]) = Len(f[i - 1]) + Len(w)
    BY <1>1, <1>2, <1>5, JoinedStep
  <2>2. q \in Nat /\ q + Len(w) = p + Len(f[i]) /\ q <= q + Len(w)
    <3> HIDE DEF w
    <3> QED
      BY <2>1
  <2>3. h[i] = readText(c, h[i - 1])
    BY <1>8
  <2>4. v \in Text /\ Len(v) <= U16 /\ w = writeText(v)
    BY <1>1, <1>3 DEF n
  <2>5. Has(c, q, writeText(v))
    BY <1>6, <2>4
  <2>6. Append(seen, v) = SubSeq(vals, 1, i)
    <3>1. 1 \in 1..Len(vals) /\ i \in 1..Len(vals)
      BY <1>1 DEF n
    <3>2. SubSeq(vals, 1, i) = seen \o <<v>>
      BY <3>1, SubSeqRecursiveSecond
    <3>3. seen \in Seq(Text)
      <4>1. \A j \in 1..(i - 1) : vals[j] \in Text
        BY <1>1
      <4> QED
        BY <4>1, SubSeqProperties
    <3> HIDE DEF seen, v
    <3>4. Append(seen, v) = seen \o <<v>>
      BY <2>4, <3>3, AppendIsConcat
    <3> QED
      BY <3>2, <3>4
  <2>7. CASE q <= Len(c)
    <3>1. h[i - 1] = [ok |-> TRUE, at |-> q, read |-> seen]
      BY <1>10, <2>7
    <3> HIDE DEF q, w, seen, v
    <3>2. Advanced(readText(c, [ok |-> TRUE, at |-> q, read |-> seen]), c, q, writeText(v), seen, v)
      <4>1. c \in Text /\ q \in Nat /\ v \in Text /\ Len(v) <= U16 /\ Has(c, q, writeText(v))
        BY <2>2, <2>4, <2>5
      <4> QED
        BY ONLY <4>1, TextStep
    <3>3. q + Len(writeText(v)) = p + Len(f[i])
      BY <2>2, <2>4
    <3>4. CASE p + Len(f[i]) <= Len(c)
      <4>1. h[i] = [ok |-> TRUE, at |-> p + Len(f[i]), read |-> SubSeq(vals, 1, i)]
        BY <2>3, <2>6, <3>1, <3>2, <3>3, <3>4 DEF Advanced
      <4> QED
        BY <3>4, <4>1
    <3>5. CASE ~(p + Len(f[i]) <= Len(c))
      <4>1. h[i] = [ok |-> FALSE, at |-> q, read |-> seen]
        BY <2>3, <3>1, <3>2, <3>3, <3>5 DEF Advanced
      <4> QED
        BY <3>5, <4>1
    <3> QED
      BY <3>4, <3>5
  <2>8. CASE ~(q <= Len(c))
    <3>1. PICK q2, seen2 : h[i - 1] = [ok |-> FALSE, at |-> q2, read |-> seen2]
      BY <1>10, <2>8
    <3> DEFINE s == [ok |-> FALSE, at |-> q2, read |-> seen2]
    <3>2. ~s.ok /\ [s EXCEPT !.ok = FALSE] = s
      BY StaysFailed
    <3> HIDE DEF s
    <3>3. readText(c, s) = s
      BY <3>2 DEF readText
    <3>4. h[i] = [ok |-> FALSE, at |-> q2, read |-> seen2]
      BY <2>3, <3>1, <3>3 DEF s
    <3>5. ~(p + Len(f[i]) <= Len(c))
      <4> HIDE DEF q, w
      <4> QED
        BY <1>1, <2>1, <2>2, <2>8
    <3> QED
      BY <3>4, <3>5
  <2> QED
    BY <2>7, <2>8
<1> DEFINE T == {m \in Nat : m <= n => Good(m)}
<1>11. T = Nat
  <2> HIDE DEF Good
  <2>1. 0 \in T
    BY <1>9
  <2>2. ASSUME NEW m \in T PROVE m + 1 \in T
    <3>1. m \in Nat /\ (m <= n => Good(m))
      OBVIOUS
    <3>2. ASSUME m + 1 <= n PROVE Good(m + 1)
      <4>1. m + 1 \in 1..n /\ (m + 1) - 1 = m /\ m <= n
        BY <1>1, <3>1, <3>2
      <4>2. Good((m + 1) - 1)
        BY <3>1, <4>1
      <4> QED
        BY <1>10, <4>1, <4>2
    <3> QED
      BY <3>1, <3>2
  <2> HIDE DEF T
  <2>3. T \subseteq Nat
    BY DEF T
  <2> QED
    BY <2>1, <2>2, <2>3, NatSet
<1>12. Good(n)
  <2> HIDE DEF Good
  <2>1. n \in T
    BY <1>1, <1>11
  <2> QED
    BY <1>1, <2>1
<1>13. SubSeq(vals, 1, n) = vals
  BY SubSeqFull DEF n
<1> DEFINE r == readTexts(c, p, n)
           len == Len(f[n])
<1>14. writeTexts(vals) = f[n] /\ n \in 0..n
  BY <1>1, <1>4, <1>5
<1>15. writeTexts(vals) \in Text /\ Len(writeTexts(vals)) = len /\ len \in Nat
  BY <1>7, <1>14
<1>16. IF p + len <= Len(c)
       THEN r = [ok |-> TRUE, at |-> p + len, read |-> vals]
       ELSE \E q, seen : r = [ok |-> FALSE, at |-> q, read |-> seen]
  BY <1>8, <1>12, <1>13
<1> HIDE DEF r, len
<1>17. (r.ok <=> p + len <= Len(c)) /\ (r.ok => r.at = p + len /\ r.read = vals)
  BY <1>16
<1> QED
  BY <1>15, <1>17 DEF r, n

-----------------------------------------------------------------------------
(* Whole envelopes *)

LEMMA FiveFields ==
  ASSUME NEW c, NEW p, NEW f1, NEW f2, NEW f3, NEW f4, NEW f5, p \in Nat, f1 \in Text,
         f2 \in Text, f3 \in Text, f4 \in Text, f5 \in Text,
         Has(c, p, f1 \o f2 \o f3 \o f4 \o f5)
  PROVE  /\ f1 \o f2 \o f3 \o f4 \o f5 \in Text
         /\ Len(f1 \o f2 \o f3 \o f4 \o f5) = Len(f1) + Len(f2) + Len(f3) + Len(f4) + Len(f5)
         /\ Has(c, p, f1) /\ Has(c, p + Len(f1), f2) /\ Has(c, p + (Len(f1) + Len(f2)), f3)
         /\ Has(c, p + (Len(f1) + Len(f2) + Len(f3)), f4)
         /\ Has(c, p + (Len(f1) + Len(f2) + Len(f3) + Len(f4)), f5)
<1> DEFINE g2 == f1 \o f2
           g3 == g2 \o f3
           g4 == g3 \o f4
           g5 == g4 \o f5
<1>1. g2 \in Text /\ Len(g2) = Len(f1) + Len(f2)
  BY ConcatText
<1>2. g3 \in Text /\ Len(g3) = Len(f1) + Len(f2) + Len(f3)
  <2> HIDE DEF g2
  <2>1. g2 \o f3 \in Text /\ Len(g2 \o f3) = Len(g2) + Len(f3)
    BY <1>1, ConcatText
  <2> QED
    BY <1>1, <2>1
<1>3. g4 \in Text /\ Len(g4) = Len(f1) + Len(f2) + Len(f3) + Len(f4)
  <2> HIDE DEF g3
  <2>1. g3 \o f4 \in Text /\ Len(g3 \o f4) = Len(g3) + Len(f4)
    BY <1>2, ConcatText
  <2> QED
    BY <1>2, <2>1
<1>4. g5 \in Text /\ Len(g5) = Len(f1) + Len(f2) + Len(f3) + Len(f4) + Len(f5)
  <2> HIDE DEF g4
  <2>1. g4 \o f5 \in Text /\ Len(g4 \o f5) = Len(g4) + Len(f5)
    BY <1>3, ConcatText
  <2> QED
    BY <1>3, <2>1
<1>5. Has(c, p, g4) /\ Has(c, p + Len(g4), f5)
  <2>1. Has(c, p, g4 \o f5)
    OBVIOUS
  <2> HIDE DEF g4
  <2> QED
    BY <1>3, <2>1, HasConcat
<1>6. Has(c, p, g3) /\ Has(c, p + Len(g3), f4)
  <2>1. Has(c, p, g3 \o f4)
    BY <1>5
  <2> HIDE DEF g3
  <2> QED
    BY <1>2, <2>1, HasConcat
<1>7. Has(c, p, g2) /\ Has(c, p + Len(g2), f3)
  <2>1. Has(c, p, g2 \o f3)
    BY <1>6
  <2> HIDE DEF g2
  <2> QED
    BY <1>1, <2>1, HasConcat
<1>8. Has(c, p, f1) /\ Has(c, p + Len(f1), f2)
  BY <1>7, HasConcat
<1>9. Has(c, p + (Len(f1) + Len(f2)), f3)
  <2> HIDE DEF g2
  <2> QED
    BY <1>1, <1>7
<1>10. Has(c, p + (Len(f1) + Len(f2) + Len(f3)), f4)
  <2> HIDE DEF g3
  <2> QED
    BY <1>2, <1>6
<1>11. Has(c, p + (Len(f1) + Len(f2) + Len(f3) + Len(f4)), f5)
  <2> HIDE DEF g4
  <2> QED
    BY <1>3, <1>5
<1> QED
  BY <1>4, <1>8, <1>9, <1>10, <1>11

LEMMA SixFields ==
  ASSUME NEW c, NEW p, NEW f1, NEW f2, NEW f3, NEW f4, NEW f5, NEW f6, p \in Nat, f1 \in Text,
         f2 \in Text, f3 \in Text, f4 \in Text, f5 \in Text, f6 \in Text,
         Has(c, p, f1 \o f2 \o f3 \o f4 \o f5 \o f6)
  PROVE  /\ f1 \o f2 \o f3 \o f4 \o f5 \o f6 \in Text
         /\ Len(f1 \o f2 \o f3 \o f4 \o f5 \o f6) = Len(f1) + Len(f2) + Len(f3) + Len(f4) + Len(f5) + Len(f6)
         /\ Has(c, p, f1) /\ Has(c, p + Len(f1), f2) /\ Has(c, p + (Len(f1) + Len(f2)), f3)
         /\ Has(c, p + (Len(f1) + Len(f2) + Len(f3)), f4)
         /\ Has(c, p + (Len(f1) + Len(f2) + Len(f3) + Len(f4)), f5)
         /\ Has(c, p + (Len(f1) + Len(f2) + Len(f3) + Len(f4) + Len(f5)), f6)
<1> DEFINE g2 == f1 \o f2

<1>1. g2 \in Text /\ Len(g2) = Len(f1) + Len(f2)
  BY ConcatText
<1>2. Has(c, p, g2 \o f3 \o f4 \o f5 \o f6)
  OBVIOUS
<1> HIDE DEF g2
<1>3. /\ g2 \o f3 \o f4 \o f5 \o f6 \in Text
      /\ Len(g2 \o f3 \o f4 \o f5 \o f6) = Len(g2) + Len(f3) + Len(f4) + Len(f5) + Len(f6)
      /\ Has(c, p, g2) /\ Has(c, p + Len(g2), f3) /\ Has(c, p + (Len(g2) + Len(f3)), f4)
      /\ Has(c, p + (Len(g2) + Len(f3) + Len(f4)), f5)
      /\ Has(c, p + (Len(g2) + Len(f3) + Len(f4) + Len(f5)), f6)
  <2>1. g2 \in Text /\ f3 \in Text /\ f4 \in Text /\ f5 \in Text /\ f6 \in Text /\ p \in Nat
    BY <1>1
  <2> QED
    BY ONLY <1>2, <2>1, FiveFields
<1>4. Has(c, p, f1) /\ Has(c, p + Len(f1), f2)
  BY <1>3, HasConcat DEF g2
<1>5. /\ Has(c, p + (Len(f1) + Len(f2)), f3)
      /\ Has(c, p + (Len(f1) + Len(f2) + Len(f3)), f4)
      /\ Has(c, p + (Len(f1) + Len(f2) + Len(f3) + Len(f4)), f5)
      /\ Has(c, p + (Len(f1) + Len(f2) + Len(f3) + Len(f4) + Len(f5)), f6)
  BY <1>1, <1>3
<1>6. /\ f1 \o f2 \o f3 \o f4 \o f5 \o f6 \in Text
      /\ Len(f1 \o f2 \o f3 \o f4 \o f5 \o f6) = Len(f1) + Len(f2) + Len(f3) + Len(f4) + Len(f5) + Len(f6)
  <2>1. Len(g2 \o f3 \o f4 \o f5 \o f6) = Len(f1) + Len(f2) + Len(f3) + Len(f4) + Len(f5) + Len(f6)
    BY <1>1, <1>3
  <2> QED
    BY <1>3, <2>1 DEF g2
<1> QED
  BY <1>4, <1>5, <1>6

LEMMA HasAll ==
  ASSUME NEW c \in Text
  PROVE  Has(c, 0, c) /\ Len(c) \in Nat
BY LenProperties DEF Text, Has

LEMMA TwoBytes ==
  ASSUME NEW t \in (0..U8) \X (0..U8)
  PROVE  t \in Text /\ Len(t) = 2
<1>1. t = <<t[1], t[2]>> /\ t[1] \in 0..U8 /\ t[2] \in 0..U8
  OBVIOUS
<1> DEFINE a == t[1]
           b == t[2]
<1>2. t = <<a, b>> /\ a \in 0..U8 /\ b \in 0..U8
  BY <1>1
<1> HIDE DEF a, b
<1>3. <<a, b>> \in Text /\ Len(<<a, b>>) = 2
  BY <1>2 DEF Text
<1> QED
  BY <1>2, <1>3

LEMMA WritesType ==
  /\ \A h \in Pairs : writePairs(h) \in Text /\ Len(writePairs(h)) \in Nat
  /\ \A t \in Seq(Text) : writeTexts(t) \in Text /\ Len(writeTexts(t)) \in Nat
<1>1. ASSUME NEW h \in Pairs PROVE writePairs(h) \in Text /\ Len(writePairs(h)) \in Nat
  <2> DEFINE n == Len(h)
             parts == [i \in 1..n |-> writePair(h[i])]
  <2>1. n \in Nat /\ \A i \in 1..n : h[i] \in Text \X Text
    BY LenProperties, ElementOfSeq DEF Pairs
  <2>2. parts \in [1..n -> Text]
    <3>1. \A i \in 1..n : writePair(h[i]) \in Text
      BY <2>1, WritePairType
    <3> QED
      BY <3>1
  <2>3. writePairs(h) = FlattenSeq(parts)
    BY DEF writePairs
  <2> HIDE DEF parts, n
  <2>4. PICK f : Joined(f, n, parts) /\ FlattenSeq(parts) = f[n]
    BY <2>1, <2>2, FlatIs
  <2>5. f[n] \in Text
    BY <2>1, <2>4 DEF Joined
  <2> QED
    BY <2>3, <2>4, <2>5, LenProperties DEF Text
<1>2. ASSUME NEW h \in Seq(Text) PROVE writeTexts(h) \in Text /\ Len(writeTexts(h)) \in Nat
  <2> DEFINE n == Len(h)
             parts == [i \in 1..n |-> writeText(h[i])]
  <2>1. n \in Nat /\ \A i \in 1..n : h[i] \in Text
    BY LenProperties, ElementOfSeq
  <2>2. parts \in [1..n -> Text]
    <3>1. \A i \in 1..n : writeText(h[i]) \in Text
      BY <2>1, WriteTextType
    <3> QED
      BY <3>1
  <2>3. writeTexts(h) = FlattenSeq(parts)
    BY DEF writeTexts
  <2> HIDE DEF parts, n
  <2>4. PICK f : Joined(f, n, parts) /\ FlattenSeq(parts) = f[n]
    BY <2>1, <2>2, FlatIs
  <2>5. f[n] \in Text
    BY <2>1, <2>4 DEF Joined
  <2> QED
    BY <2>3, <2>4, <2>5, LenProperties DEF Text
<1> QED
  BY <1>1, <1>2

(* The trailer is found where it was written, and only there. *)
LEMMA TrailerRead ==
  ASSUME NEW nc \in {<<>>} \cup ((0..U32) \X (0..U32)),
         NEW t, t = IF nc = <<>> THEN <<>> ELSE Magic \o writeU32(nc[1]) \o writeU32(nc[2]),
         NEW c \in Text, NEW p \in Nat, Has(c, p, t), Len(c) = p + Len(t)
  PROVE  extract_ncache_trailer(c, p) = nc
<1>1. CASE nc = <<>>
  <2>1. Len(t) = 0
    BY <1>1, EmptySeq
  <2>2. ~fits(c, p, 10)
    BY <2>1 DEF fits
  <2> QED
    BY <1>1, <2>2 DEF extract_ncache_trailer
<1>2. CASE nc # <<>>
  <2> DEFINE a == nc[1]
             b == nc[2]
             x == writeU32(a)
             y == writeU32(b)
  <2>1. nc = <<a, b>> /\ a \in 0..U32 /\ b \in 0..U32
    BY <1>2
  <2>2. a \in Nat /\ b \in Nat /\ a <= U32 /\ b <= U32
    BY <2>1, WideIs
  <2>3. x \in Text /\ Len(x) = 4 /\ y \in Text /\ Len(y) = 4
    <3> HIDE DEF a, b
    <3> QED
      BY <2>2, U32Is
  <2>4. Magic \in Text /\ Len(Magic) = 2
    BY TwoBytes, EnvelopeAssumption
  <2>5. t = Magic \o x \o y
    BY <1>2
  <2>6. Has(c, p, writeU32(a)) <=> Has(c, p, x)
    OBVIOUS
  <2> HIDE DEF x, y
  <2> DEFINE m == Magic \o x
  <2>7. m \in Text /\ Len(m) = 6
    <3>1. Magic \o x \in Text /\ Len(Magic \o x) = Len(Magic) + Len(x)
      BY ONLY <2>3, <2>4, ConcatText
    <3> QED
      BY <2>3, <2>4, <3>1
  <2>8. Has(c, p, m \o y)
    BY <2>5
  <2> HIDE DEF m
  <2>9. Has(c, p, m) /\ Has(c, p + Len(m), y) /\ Len(m \o y) = Len(m) + Len(y)
    <3>1. y \in Text
      BY <2>3
    <3>2. m \in Text
      BY <2>7
    <3> QED
      BY <2>8, <3>1, <3>2, HasConcat
  <2>10. Len(c) = p + 10
    BY <2>3, <2>5, <2>7, <2>9 DEF m
  <2>11. Has(c, p, Magic) /\ Has(c, p + 2, x)
    <3>1. Has(c, p, Magic \o x)
      BY <2>9 DEF m
    <3>2. Has(c, p, Magic) /\ Has(c, p + Len(Magic), x)
      BY <2>3, <2>4, <3>1, HasConcat
    <3> QED
      BY <2>4, <3>2
  <2>12. Has(c, p + 6, y)
    BY <2>7, <2>9
  <2>13. /\ fits(c, p, 10) /\ fits(c, p, 2) /\ fits(c, p + 2, 4) /\ fits(c, p + 6, 4) /\ Len(c) \in Nat
         /\ p + 2 \in Nat /\ p + 6 \in Nat
    BY <2>10 DEF fits
  <2>14. readBytes(c, p, 2) = Magic
    BY <2>4, <2>11, <2>13, ReadsBytes
  <2> HIDE DEF a, b
  <2>15. readU32(c, p + 2) = a
    BY <2>2, <2>11, <2>13, ReadsU32 DEF x
  <2>16. readU32(c, p + 6) = b
    BY <2>2, <2>12, <2>13, ReadsU32 DEF y
  <2> QED
    BY <2>1, <2>13, <2>14, <2>15, <2>16 DEF extract_ncache_trailer
<1> QED
  BY <1>1, <1>2

(* A response is read as it was written. *)
LEMMA ResponseReads ==
  ASSUME NEW s \in ResponseMessages, encodeResponseEnvelope(s).ok, PlainStatus(s.status)
  PROVE  LET d == ReadResponse(encodeResponseEnvelope(s).bytes)
         IN  /\ d.ok /\ d.streamId = -1 /\ d.status = s.status
             /\ d.headers = s.headers /\ d.body = s.body /\ d.ncache = s.ncache
<1> DEFINE c == encodeResponseEnvelope(s).bytes
           hs == s.headers
           body == s.body
           nh == Len(hs)
           nb == Len(body)
           t == IF s.ncache = <<>> THEN <<>> ELSE Magic \o writeU32(s.ncache[1]) \o writeU32(s.ncache[2])
           f1 == writeU16(s.status)
           f2 == writeU16(nh)
           f3 == writeU32(nb)
           f4 == writePairs(hs)
<1>1. /\ s.status \in Nat /\ hs \in Pairs /\ nh <= U16 /\ body \in Text /\ nb <= U32
      /\ s.ncache \in {<<>>} \cup ((0..U32) \X (0..U32))
  BY DEF ResponseMessages
<1>2. nh \in Nat /\ nb \in Nat
  BY <1>1, LenProperties DEF Pairs, Text
<1>3. /\ \A i \in 1..nh : FitsPair(hs[i])
      /\ c = f1 \o f2 \o f3 \o f4 \o body \o t
  <2>1. ~(\E i \in 1..Len(s.headers) : ~FitsPair(s.headers[i]))
    BY DEF encodeResponseEnvelope, Refused
  <2> QED
    BY <2>1 DEF encodeResponseEnvelope
<1>4. s.status <= U16 /\ s.status \in 0..U16 /\ f1 # Sentinel
  BY <1>1, WideIs DEF PlainStatus
<1>5. f1 \in Text /\ Len(f1) = 2
  BY <1>1, U16Is
<1>6. f2 \in Text /\ Len(f2) = 2
  BY <1>2, U16Is
<1>7. f3 \in Text /\ Len(f3) = 4
  BY <1>2, U32Is
<1>8. f4 \in Text /\ Len(f4) \in Nat
  BY <1>1, WritesType
<1>9. t \in Text /\ Len(t) \in Nat
  <2>1. <<>> \in Text
    BY EmptySeq DEF Text
  <2>2. CASE s.ncache # <<>>
    <3> DEFINE x == writeU32(s.ncache[1])
               y == writeU32(s.ncache[2])
    <3>1. s.ncache[1] \in Nat /\ s.ncache[2] \in Nat
      BY <1>1, <2>2, WideIs
    <3>2. x \in Text /\ y \in Text /\ Magic \in Text
      BY <3>1, U32Is, TwoBytes, EnvelopeAssumption
    <3>3. t = Magic \o x \o y
      BY <2>2
    <3> HIDE DEF x, y
    <3>4. Magic \o x \in Text
      BY ONLY <3>2, ConcatText
    <3>5. Magic \o x \o y \in Text
      BY ONLY <3>2, <3>4, ConcatText
    <3>6. t \in Text
      BY <3>3, <3>5
    <3> HIDE DEF t
    <3> QED
      BY <3>6, LenProperties DEF Text
  <2>3. CASE s.ncache = <<>>
    <3>1. t = <<>>
      BY <2>3
    <3> HIDE DEF t
    <3> QED
      BY <2>1, <3>1, LenProperties DEF Text
  <2> QED
    BY <2>2, <2>3
<1>10. t = IF s.ncache = <<>> THEN <<>> ELSE Magic \o writeU32(s.ncache[1]) \o writeU32(s.ncache[2])
  OBVIOUS
<1>11. ReadResponse(c) =
         IF Len(c) >= 14 /\ readBytes(c, 0, 2) = Sentinel
         THEN [ok |-> TRUE, streamId |-> readU32(c, 2) + (U32 + 1) * readU32(c, 6),
               status |-> readU16(c, 10), headers |-> readPairs(c, 14, readU16(c, 12)).read,
               body |-> <<>>, ncache |-> <<>>]
         ELSE IF ~fits(c, 0, 8) THEN Refused
         ELSE IF \/ ~readPairs(c, 8, readU16(c, 2)).ok
                 \/ ~fits(c, readPairs(c, 8, readU16(c, 2)).at, readU32(c, 4)) THEN Refused
         ELSE [ok |-> TRUE, streamId |-> -1, status |-> readU16(c, 0),
               headers |-> readPairs(c, 8, readU16(c, 2)).read,
               body |-> readBytes(c, readPairs(c, 8, readU16(c, 2)).at, readU32(c, 4)),
               ncache |-> extract_ncache_trailer(c, readPairs(c, 8, readU16(c, 2)).at + readU32(c, 4))]
  BY DEF ReadResponse
<1> HIDE DEF c, f1, f2, f3, f4, t
<1>12. /\ c \in Text /\ Len(c) = 2 + 2 + 4 + Len(f4) + nb + Len(t)
       /\ Has(c, 0, f1) /\ Has(c, 2, f2) /\ Has(c, 4, f3) /\ Has(c, 8, f4)
       /\ Has(c, 8 + Len(f4), body) /\ Has(c, 8 + Len(f4) + nb, t)
  <2> DEFINE b == f1 \o f2 \o f3 \o f4 \o body \o t
  <2>1. b \in Text
    <3>1. f1 \o f2 \in Text
      BY ONLY <1>5, <1>6, ConcatText
    <3>2. f1 \o f2 \o f3 \in Text
      BY ONLY <1>7, <3>1, ConcatText
    <3>3. f1 \o f2 \o f3 \o f4 \in Text
      BY ONLY <1>8, <3>2, ConcatText
    <3>4. f1 \o f2 \o f3 \o f4 \o body \in Text
      BY ONLY <1>1, <3>3, ConcatText
    <3> QED
      BY ONLY <1>9, <3>4, ConcatText
  <2>2. Has(b, 0, b)
    BY <2>1, HasAll
  <2>3. Has(c, 0, f1 \o f2 \o f3 \o f4 \o body \o t)
    BY <1>3, <2>2
  <2>3a. /\ f1 \in Text /\ f2 \in Text /\ f3 \in Text /\ f4 \in Text /\ body \in Text /\ t \in Text
         /\ 0 \in Nat /\ b = f1 \o f2 \o f3 \o f4 \o body \o t
    BY <1>1, <1>5, <1>6, <1>7, <1>8, <1>9
  <2> HIDE DEF body, b
  <2>4. /\ Has(c, 0, f1) /\ Has(c, 0 + Len(f1), f2) /\ Has(c, 0 + (Len(f1) + Len(f2)), f3)
        /\ Has(c, 0 + (Len(f1) + Len(f2) + Len(f3)), f4)
        /\ Has(c, 0 + (Len(f1) + Len(f2) + Len(f3) + Len(f4)), body)
        /\ Has(c, 0 + (Len(f1) + Len(f2) + Len(f3) + Len(f4) + Len(body)), t)
        /\ Len(b) = Len(f1) + Len(f2) + Len(f3) + Len(f4) + Len(body) + Len(t)
    BY ONLY <2>3, <2>3a, SixFields
  <2>5. c = b
    BY <1>3 DEF b
  <2>6. c \in Text /\ Len(c) = Len(f1) + Len(f2) + Len(f3) + Len(f4) + Len(body) + Len(t)
    BY <2>1, <2>4, <2>5
  <2> QED
    BY <1>2, <1>5, <1>6, <1>7, <1>8, <1>9, <2>4, <2>6
<1> DEFINE p == 8 + Len(f4)
<1>13. /\ Len(c) \in Nat /\ fits(c, 0, 2) /\ fits(c, 2, 2) /\ fits(c, 4, 4) /\ fits(c, 0, 8) /\ 8 <= Len(c)
       /\ p \in Nat /\ fits(c, p, nb) /\ p + nb \in Nat /\ Len(c) = p + nb + Len(t) /\ p <= Len(c)
  <2> HIDE DEF nb
  <2>1. Len(c) = 2 + 2 + 4 + Len(f4) + nb + Len(t)
    BY <1>12
  <2>2. p \in Nat /\ p + nb \in Nat /\ Len(c) = p + nb + Len(t) /\ Len(c) \in Nat
    BY <1>2, <1>8, <1>9, <2>1
  <2>3. p <= Len(c) /\ p + nb <= Len(c) /\ 8 <= Len(c)
    BY <1>2, <1>8, <1>9, <2>2
  <2> HIDE DEF p
  <2> QED
    BY <2>2, <2>3 DEF fits
<1>14. readU16(c, 0) = s.status
  BY <1>4, <1>12, <1>13, ReadsU16 DEF f1
<1>15. readU16(c, 2) = nh
  <2>1. nh \in 0..U16 /\ Has(c, 2, writeU16(nh))
    BY <1>1, <1>2, <1>12, WideIs DEF f2
  <2> HIDE DEF nh
  <2> QED
    BY <1>13, <2>1, ReadsU16
<1>16. readU32(c, 4) = nb
  <2>1. nb \in Nat /\ nb <= U32 /\ Has(c, 4, writeU32(nb))
    BY <1>1, <1>2, <1>12 DEF f3
  <2> HIDE DEF nb
  <2> QED
    BY <1>13, <2>1, ReadsU32
<1>17. readBytes(c, 0, 2) = f1
  BY <1>5, <1>12, <1>13, ReadsBytes
<1>18. readPairs(c, 8, nh).ok /\ readPairs(c, 8, nh).at = p /\ readPairs(c, 8, nh).read = hs
  <2>1. Has(c, 8, writePairs(hs)) /\ Len(f4) = Len(writePairs(hs))
    BY <1>12 DEF f4
  <2>2. hs \in Seq(Text \X Text)
    BY <1>1 DEF Pairs
  <2> HIDE DEF hs
  <2>3. /\ readPairs(c, 8, Len(hs)).ok <=> 8 + Len(writePairs(hs)) <= Len(c)
        /\ readPairs(c, 8, Len(hs)).ok =>
              /\ readPairs(c, 8, Len(hs)).at = 8 + Len(writePairs(hs))
              /\ readPairs(c, 8, Len(hs)).read = hs
    <3>1. /\ c \in Text /\ 8 \in Nat /\ 8 <= Len(c) /\ hs \in Seq(Text \X Text)
          /\ \A i \in 1..Len(hs) : FitsPair(hs[i])
          /\ Has(c, 8, writePairs(hs))
      BY <1>3, <1>12, <1>13, <2>1, <2>2
    <3> QED
      BY ONLY <3>1, PairsWalk
  <2> QED
    BY <1>13, <2>1, <2>3
<1>19. readBytes(c, p, nb) = body
  BY <1>1, <1>12, <1>13, ReadsBytes
<1>20. extract_ncache_trailer(c, p + nb) = s.ncache
  <2> DEFINE q == p + nb
             nc == s.ncache
  <2>1. q \in Nat /\ Has(c, q, t) /\ Len(c) = q + Len(t)
    BY <1>12, <1>13
  <2>2. nc \in {<<>>} \cup ((0..U32) \X (0..U32))
    BY <1>1
  <2>3. t = IF nc = <<>> THEN <<>> ELSE Magic \o writeU32(nc[1]) \o writeU32(nc[2])
    BY <1>10
  <2> HIDE DEF q, nc
  <2>4. extract_ncache_trailer(c, q) = nc
    <3>1. c \in Text
      BY <1>12
    <3> QED
      BY ONLY <2>1, <2>2, <2>3, <3>1, TrailerRead
  <2> QED
    BY <2>4 DEF q, nc
<1> HIDE DEF p, nh, nb, hs, body
<1>21. ReadResponse(c) = [ok |-> TRUE, streamId |-> -1, status |-> s.status, headers |-> hs,
                          body |-> body, ncache |-> s.ncache]
  BY <1>4, <1>11, <1>13, <1>14, <1>15, <1>16, <1>17, <1>18, <1>19, <1>20
<1> QED
  BY <1>21 DEF c, hs, body

(* A stream start is read as it was written, its id out of two halves. *)
LEMMA StreamReads ==
  ASSUME NEW s \in StreamMessages, s.status <= U16, \A i \in 1..Len(s.headers) : FitsPair(s.headers[i])
  PROVE  LET d == ReadResponse(encodeStreamStartEnvelope(s.streamId, s))
         IN  d.ok /\ d.streamId = s.streamId /\ d.status = s.status /\ d.headers = s.headers
<1> DEFINE c == encodeStreamStartEnvelope(s.streamId, s)
           hs == s.headers
           nh == Len(hs)
           id == s.streamId
           high == id \div (U32 + 1)
           f2 == writeU32(id)
           f3 == writeU32(high)
           f4 == writeU16(s.status)
           f5 == writeU16(nh)
           f6 == writePairs(hs)
<1>1. /\ s.status \in Nat /\ hs \in Pairs /\ nh <= U16
      /\ id \in 0..((U32 + 1) * (U32 + 1) - 1)
  BY DEF StreamMessages
<1>2. nh \in Nat /\ nh \in 0..U16 /\ s.status \in 0..U16
  <2>1. nh \in Nat
    BY <1>1, LenProperties DEF Pairs
  <2> HIDE DEF nh
  <2> QED
    BY <1>1, <2>1, WideIs
<1>3. id \in Nat /\ high \in Nat /\ high <= U32 /\ (id % (U32 + 1)) + (U32 + 1) * high = id
  <2> DEFINE d == U32 + 1
             e == d * d
  <2>1. d \in Nat /\ d > 0 /\ e \in Nat /\ id \in 0..(e - 1)
    BY <1>1, WideIs
  <2> HIDE DEF e
  <2>2. id \in Nat /\ id < e
    BY <2>1
  <2> HIDE DEF d, id
  <2>3. id \div d \in Nat /\ id = (id % d) + d * (id \div d) /\ (id < d * d => id \div d < d)
    BY <2>1, <2>2, DigitOf
  <2>4. id \div d < d
    BY <2>2, <2>3 DEF e
  <2>5. high = id \div d
    BY DEF d
  <2> HIDE DEF high
  <2>6. high \in Nat /\ high < d /\ (id % d) + d * high = id
    BY <2>3, <2>4, <2>5
  <2>7. high <= U32
    BY <2>6, WideIs DEF d
  <2> QED
    BY <2>2, <2>6, <2>7 DEF d
<1>4. c = Sentinel \o f2 \o f3 \o f4 \o f5 \o f6
  BY DEF encodeStreamStartEnvelope
<1>5. Sentinel \in Text /\ Len(Sentinel) = 2
  BY TwoBytes, EnvelopeAssumption
<1>6. f2 \in Text /\ Len(f2) = 4
  <2> HIDE DEF id
  <2> QED
    BY <1>3, U32Is
<1>7. f3 \in Text /\ Len(f3) = 4
  <2> HIDE DEF high
  <2> QED
    BY <1>3, U32Is
<1>8. f4 \in Text /\ Len(f4) = 2
  BY <1>1, U16Is
<1>9. f5 \in Text /\ Len(f5) = 2
  BY <1>2, U16Is
<1>10. f6 \in Text /\ Len(f6) \in Nat
  BY <1>1, WritesType
<1>11. ReadResponse(c) =
         IF Len(c) >= 14 /\ readBytes(c, 0, 2) = Sentinel
         THEN [ok |-> TRUE, streamId |-> readU32(c, 2) + (U32 + 1) * readU32(c, 6),
               status |-> readU16(c, 10), headers |-> readPairs(c, 14, readU16(c, 12)).read,
               body |-> <<>>, ncache |-> <<>>]
         ELSE IF ~fits(c, 0, 8) THEN Refused
         ELSE IF \/ ~readPairs(c, 8, readU16(c, 2)).ok
                 \/ ~fits(c, readPairs(c, 8, readU16(c, 2)).at, readU32(c, 4)) THEN Refused
         ELSE [ok |-> TRUE, streamId |-> -1, status |-> readU16(c, 0),
               headers |-> readPairs(c, 8, readU16(c, 2)).read,
               body |-> readBytes(c, readPairs(c, 8, readU16(c, 2)).at, readU32(c, 4)),
               ncache |-> extract_ncache_trailer(c, readPairs(c, 8, readU16(c, 2)).at + readU32(c, 4))]
  BY DEF ReadResponse
<1> HIDE DEF c, f2, f3, f4, f5, f6, high
<1>12. /\ c \in Text /\ Len(c) = 14 + Len(f6)
       /\ Has(c, 0, Sentinel) /\ Has(c, 2, f2) /\ Has(c, 6, f3) /\ Has(c, 10, f4)
       /\ Has(c, 12, f5) /\ Has(c, 14, f6)
  <2> DEFINE b == Sentinel \o f2 \o f3 \o f4 \o f5 \o f6
  <2>1. b \in Text
    <3>1. Sentinel \o f2 \in Text
      BY ONLY <1>5, <1>6, ConcatText
    <3>2. Sentinel \o f2 \o f3 \in Text
      BY ONLY <1>7, <3>1, ConcatText
    <3>3. Sentinel \o f2 \o f3 \o f4 \in Text
      BY ONLY <1>8, <3>2, ConcatText
    <3>4. Sentinel \o f2 \o f3 \o f4 \o f5 \in Text
      BY ONLY <1>9, <3>3, ConcatText
    <3> QED
      BY ONLY <1>10, <3>4, ConcatText
  <2>2. Has(b, 0, b)
    BY <2>1, HasAll
  <2>3. Has(c, 0, Sentinel \o f2 \o f3 \o f4 \o f5 \o f6)
    BY <1>4, <2>2
  <2>3a. /\ f2 \in Text /\ f3 \in Text /\ f4 \in Text /\ f5 \in Text /\ f6 \in Text /\ Sentinel \in Text
         /\ 0 \in Nat /\ b = Sentinel \o f2 \o f3 \o f4 \o f5 \o f6
    BY <1>5, <1>6, <1>7, <1>8, <1>9, <1>10
  <2> HIDE DEF b
  <2>4. /\ Has(c, 0, Sentinel) /\ Has(c, 0 + Len(Sentinel), f2) /\ Has(c, 0 + (Len(Sentinel) + Len(f2)), f3)
        /\ Has(c, 0 + (Len(Sentinel) + Len(f2) + Len(f3)), f4)
        /\ Has(c, 0 + (Len(Sentinel) + Len(f2) + Len(f3) + Len(f4)), f5)
        /\ Has(c, 0 + (Len(Sentinel) + Len(f2) + Len(f3) + Len(f4) + Len(f5)), f6)
        /\ Len(b) = Len(Sentinel) + Len(f2) + Len(f3) + Len(f4) + Len(f5) + Len(f6)
    BY ONLY <2>3, <2>3a, SixFields
  <2>5. c = b
    BY <1>4 DEF b
  <2>6. c \in Text /\ Len(c) = Len(Sentinel) + Len(f2) + Len(f3) + Len(f4) + Len(f5) + Len(f6)
    BY <2>1, <2>4, <2>5
  <2> QED
    BY <1>5, <1>6, <1>7, <1>8, <1>9, <1>10, <2>4, <2>6
<1>13. /\ Len(c) \in Nat /\ fits(c, 0, 2) /\ fits(c, 2, 4) /\ fits(c, 6, 4) /\ fits(c, 10, 2) /\ fits(c, 12, 2)
       /\ Len(c) >= 14
  BY <1>10, <1>12 DEF fits
<1>14. readBytes(c, 0, 2) = Sentinel
  BY <1>5, <1>12, <1>13, ReadsBytes
<1>15. readU32(c, 2) = id % (U32 + 1)
  <2>1. Has(c, 2, writeU32(id))
    BY <1>12 DEF f2
  <2> HIDE DEF id
  <2> QED
    BY <1>3, <1>13, <2>1, ReadsU32
<1>16. readU32(c, 6) = high
  <2>1. Has(c, 6, writeU32(high))
    BY <1>12 DEF f3
  <2> QED
    BY <1>3, <1>13, <2>1, ReadsU32
<1>17. readU16(c, 10) = s.status
  BY <1>2, <1>12, <1>13, ReadsU16 DEF f4
<1>18. readU16(c, 12) = nh
  <2>1. nh \in 0..U16 /\ Has(c, 12, writeU16(nh))
    BY <1>2, <1>12 DEF f5
  <2> HIDE DEF nh
  <2> QED
    BY <1>13, <2>1, ReadsU16
<1>19. readPairs(c, 14, nh).read = hs
  <2>1. Has(c, 14, writePairs(hs)) /\ Len(f6) = Len(writePairs(hs)) /\ 14 + Len(writePairs(hs)) <= Len(c)
    BY <1>12, <1>13 DEF f6
  <2>2. hs \in Seq(Text \X Text) /\ \A i \in 1..Len(hs) : FitsPair(hs[i])
    BY <1>1 DEF Pairs
  <2> HIDE DEF hs
  <2>3. /\ readPairs(c, 14, Len(hs)).ok <=> 14 + Len(writePairs(hs)) <= Len(c)
        /\ readPairs(c, 14, Len(hs)).ok => readPairs(c, 14, Len(hs)).read = hs
    <3>1. /\ c \in Text /\ 14 \in Nat /\ 14 <= Len(c) /\ hs \in Seq(Text \X Text)
          /\ \A i \in 1..Len(hs) : FitsPair(hs[i])
          /\ Has(c, 14, writePairs(hs))
      BY <1>12, <1>13, <2>1, <2>2
    <3> QED
      BY ONLY <3>1, PairsWalk
  <2> QED
    BY <2>1, <2>3
<1> HIDE DEF nh, hs, id
<1>20. ReadResponse(c) = [ok |-> TRUE, streamId |-> id, status |-> s.status, headers |-> hs,
                          body |-> <<>>, ncache |-> <<>>]
  BY <1>3, <1>11, <1>13, <1>14, <1>15, <1>16, <1>17, <1>18, <1>19
<1> QED
  BY <1>20 DEF c, hs, id

LEMMA SixTexts ==
  ASSUME NEW f1, NEW f2, NEW f3, NEW f4, NEW f5, NEW f6, f1 \in Text, f2 \in Text, f3 \in Text,
         f4 \in Text, f5 \in Text, f6 \in Text
  PROVE  f1 \o f2 \o f3 \o f4 \o f5 \in Text /\ f1 \o f2 \o f3 \o f4 \o f5 \o f6 \in Text
<1>1. f1 \o f2 \in Text
  BY ConcatText
<1>2. f1 \o f2 \o f3 \in Text
  BY ONLY <1>1, f3 \in Text, ConcatText
<1>3. f1 \o f2 \o f3 \o f4 \in Text
  BY ONLY <1>2, f4 \in Text, ConcatText
<1>4. f1 \o f2 \o f3 \o f4 \o f5 \in Text
  BY ONLY <1>3, f5 \in Text, ConcatText
<1>5. f1 \o f2 \o f3 \o f4 \o f5 \o f6 \in Text
  BY ONLY <1>4, f6 \in Text, ConcatText
<1> QED
  BY <1>4, <1>5

\* The fields of a request one after the other.
Request(f1, f2, f3, f4, f5, f6, f7, f8, f9, f10, f11, f12, f13, f14, f15) ==
  f1 \o f2 \o f3 \o f4 \o f5 \o f6 \o f7 \o f8 \o f9 \o f10 \o f11 \o f12 \o f13 \o f14 \o f15

(* Where the fields of a request lie. *)
LEMMA RequestFields ==
  ASSUME NEW c, NEW f1, NEW f2, NEW f3, NEW f4, NEW f5, NEW f6, NEW f7, NEW f8, NEW f9, NEW f10,
         NEW f11, NEW f12, NEW f13, NEW f14, NEW f15,
         f1 \in Text, f2 \in Text, f3 \in Text, f4 \in Text, f5 \in Text, f6 \in Text, f7 \in Text,
         f8 \in Text, f9 \in Text, f10 \in Text, f11 \in Text, f12 \in Text, f13 \in Text, f14 \in Text,
         f15 \in Text,
         Len(f1) = 2, Len(f2) = 2, Len(f3) = 4, Len(f4) = 4, Len(f5) = 2, Len(f6) = 2,
         Len(f7) = 2, Len(f8) = 4, Len(f9) = 2,
         Has(c, 0, Request(f1, f2, f3, f4, f5, f6, f7, f8, f9, f10, f11, f12, f13, f14, f15))
  PROVE  /\ Len(Request(f1, f2, f3, f4, f5, f6, f7, f8, f9, f10, f11, f12, f13, f14, f15))
              = 24 + Len(f10) + Len(f11) + Len(f12) + Len(f13) + Len(f14) + Len(f15)
         /\ Has(c, 0, f1) /\ Has(c, 2, f2) /\ Has(c, 4, f3) /\ Has(c, 8, f4) /\ Has(c, 12, f5)
         /\ Has(c, 14, f6) /\ Has(c, 16, f7) /\ Has(c, 18, f8) /\ Has(c, 22, f9)
         /\ Has(c, 24, f10) /\ Has(c, 24 + Len(f10), f11) /\ Has(c, 24 + Len(f10) + Len(f11), f12)
         /\ Has(c, 24 + Len(f10) + Len(f11) + Len(f12), f13)
         /\ Has(c, 24 + Len(f10) + Len(f11) + Len(f12) + Len(f13), f14)
         /\ Has(c, 24 + Len(f10) + Len(f11) + Len(f12) + Len(f13) + Len(f14), f15)
<1> DEFINE g6 == f1 \o f2 \o f3 \o f4 \o f5 \o f6
           g10 == g6 \o f7 \o f8 \o f9 \o f10
           b == Request(f1, f2, f3, f4, f5, f6, f7, f8, f9, f10, f11, f12, f13, f14, f15)
<1>0. /\ Len(f10) \in Nat /\ Len(f11) \in Nat /\ Len(f12) \in Nat /\ Len(f13) \in Nat /\ Len(f14) \in Nat
      /\ Len(f15) \in Nat /\ 0 \in Nat
  BY LenProperties DEF Text
<1>1. g6 \in Text
  BY SixTexts
<1>2. g10 \in Text
  <2> HIDE DEF g6
  <2> QED
    BY <1>1, SixTexts
<1>3. Has(c, 0, g10 \o f11 \o f12 \o f13 \o f14 \o f15) /\ b = g10 \o f11 \o f12 \o f13 \o f14 \o f15
  BY DEF Request
<1> HIDE DEF g10, b
<1>4. /\ Len(b) = Len(g10) + Len(f11) + Len(f12) + Len(f13) + Len(f14) + Len(f15)
      /\ Has(c, 0, g10) /\ Has(c, 0 + Len(g10), f11) /\ Has(c, 0 + (Len(g10) + Len(f11)), f12)
      /\ Has(c, 0 + (Len(g10) + Len(f11) + Len(f12)), f13)
      /\ Has(c, 0 + (Len(g10) + Len(f11) + Len(f12) + Len(f13)), f14)
      /\ Has(c, 0 + (Len(g10) + Len(f11) + Len(f12) + Len(f13) + Len(f14)), f15)
  BY ONLY <1>0, <1>2, <1>3, f11 \in Text, f12 \in Text, f13 \in Text, f14 \in Text, f15 \in Text, SixFields
<1>5. Has(c, 0, g6 \o f7 \o f8 \o f9 \o f10) /\ g10 = g6 \o f7 \o f8 \o f9 \o f10
  BY <1>4 DEF g10
<1> HIDE DEF g6
<1>6. /\ Len(g10) = Len(g6) + Len(f7) + Len(f8) + Len(f9) + Len(f10)
      /\ Has(c, 0, g6) /\ Has(c, 0 + Len(g6), f7) /\ Has(c, 0 + (Len(g6) + Len(f7)), f8)
      /\ Has(c, 0 + (Len(g6) + Len(f7) + Len(f8)), f9)
      /\ Has(c, 0 + (Len(g6) + Len(f7) + Len(f8) + Len(f9)), f10)
  BY ONLY <1>0, <1>1, <1>5, f7 \in Text, f8 \in Text, f9 \in Text, f10 \in Text, FiveFields
<1>7. Has(c, 0, f1 \o f2 \o f3 \o f4 \o f5 \o f6) /\ g6 = f1 \o f2 \o f3 \o f4 \o f5 \o f6
  BY <1>6 DEF g6
<1>8. /\ Len(g6) = Len(f1) + Len(f2) + Len(f3) + Len(f4) + Len(f5) + Len(f6)
      /\ Has(c, 0, f1) /\ Has(c, 0 + Len(f1), f2) /\ Has(c, 0 + (Len(f1) + Len(f2)), f3)
      /\ Has(c, 0 + (Len(f1) + Len(f2) + Len(f3)), f4)
      /\ Has(c, 0 + (Len(f1) + Len(f2) + Len(f3) + Len(f4)), f5)
      /\ Has(c, 0 + (Len(f1) + Len(f2) + Len(f3) + Len(f4) + Len(f5)), f6)
  BY ONLY <1>0, <1>7, f1 \in Text, f2 \in Text, f3 \in Text, f4 \in Text, f5 \in Text, f6 \in Text, SixFields
<1>9. Len(g6) = 16 /\ Len(g10) = 24 + Len(f10)
  BY <1>0, <1>6, <1>8
<1>10. /\ Has(c, 0, f1) /\ Has(c, 2, f2) /\ Has(c, 4, f3) /\ Has(c, 8, f4) /\ Has(c, 12, f5) /\ Has(c, 14, f6)
  BY <1>8
<1>11. /\ Has(c, 16, f7) /\ Has(c, 18, f8) /\ Has(c, 22, f9) /\ Has(c, 24, f10)
  BY <1>6, <1>9
<1>12. /\ Has(c, 24 + Len(f10), f11) /\ Has(c, 24 + Len(f10) + Len(f11), f12)
       /\ Has(c, 24 + Len(f10) + Len(f11) + Len(f12), f13)
       /\ Has(c, 24 + Len(f10) + Len(f11) + Len(f12) + Len(f13), f14)
       /\ Has(c, 24 + Len(f10) + Len(f11) + Len(f12) + Len(f13) + Len(f14), f15)
       /\ Len(b) = 24 + Len(f10) + Len(f11) + Len(f12) + Len(f13) + Len(f14) + Len(f15)
  BY <1>0, <1>4, <1>9
<1> QED
  BY <1>10, <1>11, <1>12 DEF b

(* A request of which the first bytes are there is read as it was written if all of  *)
(* them are and its method is known, and refused otherwise.                   *)
LEMMA RequestReads ==
  ASSUME NEW r \in RequestMessages, build_dispatch_envelope(r).ok,
         NEW c \in Text, Has(c, 0, build_dispatch_envelope(r).bytes)
  PROVE  /\ build_dispatch_envelope(r).bytes \in Text /\ FixedPart <= Len(build_dispatch_envelope(r).bytes)
         /\ LET d == decodeRequestEnvelope(c)
            IN  /\ d.ok <=> /\ Len(build_dispatch_envelope(r).bytes) <= Len(c)
                            /\ r.method \in METHOD_CODES \cup {0}
                /\ d.ok => /\ d.url = r.url /\ d.path = r.path /\ d.ip = r.ip
                           /\ d.params = r.params /\ d.headers = r.headers /\ d.body = r.body
                           /\ d.method = r.method /\ d.flags = r.flags /\ d.handlerId = r.handlerId
<1> DEFINE b == build_dispatch_envelope(r).bytes
           url == r.url
           path == r.path
           ip == r.ip
           params == r.params
           headers == r.headers
           body == r.body
           nu == Len(url)
           np == Len(path)
           ni == Len(ip)
           nt == Len(params)
           nh == Len(headers)
           nb == Len(body)
           f1 == <<BRIDGE_VERSION, r.method>>
           f2 == writeU16(r.flags)
           f3 == writeU32(r.handlerId)
           f4 == writeU32(nu)
           f5 == writeU16(np)
           f6 == writeU16(nt)
           f7 == writeU16(nh)
           f8 == writeU32(nb)
           f9 == writeU16(ni)
           texts == writeTexts(params)
           pairs == writePairs(headers)
           known == r.method \in METHOD_CODES \cup {0}
<1>1. /\ r.method \in 0..U8 /\ r.flags \in 0..U16 /\ r.handlerId \in 0..U32 /\ url \in Text /\ path \in Text
      /\ ip \in Text /\ params \in Seq(Text) /\ headers \in Pairs /\ body \in Text /\ nb <= U32
  BY DEF RequestMessages
<1>2. nu \in Nat /\ np \in Nat /\ ni \in Nat /\ nt \in Nat /\ nh \in Nat /\ nb \in Nat /\ Len(c) \in Nat
  BY <1>1, LenProperties DEF Text, Pairs
<1>3. /\ nu <= U32 /\ np <= U16 /\ ni <= U16 /\ nt <= U16 /\ nh <= U16
      /\ \A i \in 1..nt : Len(params[i]) <= U16
      /\ \A i \in 1..nh : FitsPair(headers[i])
      /\ b = f1 \o f2 \o f3 \o f4 \o f5 \o f6 \o f7 \o f8 \o f9 \o url \o path \o ip \o texts \o pairs \o body
  <2>1. ~ \/ Len(r.url) > U32 \/ Len(r.path) > U16 \/ Len(r.ip) > U16
          \/ Len(r.params) > U16 \/ Len(r.headers) > U16
          \/ \E i \in 1..Len(r.params) : Len(r.params[i]) > U16
          \/ \E i \in 1..Len(r.headers) : ~FitsPair(r.headers[i])
    BY DEF build_dispatch_envelope, Refused
  <2>2. b = f1 \o f2 \o f3 \o f4 \o f5 \o f6 \o f7 \o f8 \o f9 \o url \o path \o ip \o texts \o pairs \o body
    BY <2>1 DEF build_dispatch_envelope
  <2>3. \A i \in 1..nt : Len(params[i]) \in Nat
    <3>1. \A i \in 1..nt : params[i] \in Text
      BY <1>1, ElementOfSeq
    <3> QED
      BY <3>1, LenProperties DEF Text
  <2>4. nu <= U32 /\ np <= U16 /\ ni <= U16 /\ nt <= U16 /\ nh <= U16
    BY <1>2, <2>1, WideIs
  <2>5. ASSUME NEW i \in 1..nt PROVE Len(params[i]) <= U16
    <3>1. ~(Len(params[i]) > U16)
      BY <2>1
    <3> QED
      BY <2>3, <3>1, WideIs
  <2>6. \A i \in 1..nh : FitsPair(headers[i])
    BY <2>1
  <2> QED
    BY <2>2, <2>4, <2>5, <2>6
<1>4. /\ f1 \in Text /\ Len(f1) = 2 /\ f2 \in Text /\ Len(f2) = 2 /\ f3 \in Text /\ Len(f3) = 4
      /\ f4 \in Text /\ Len(f4) = 4 /\ f5 \in Text /\ Len(f5) = 2 /\ f6 \in Text /\ Len(f6) = 2
      /\ f7 \in Text /\ Len(f7) = 2 /\ f8 \in Text /\ Len(f8) = 4 /\ f9 \in Text /\ Len(f9) = 2
  <2>1. f1 \in Text /\ Len(f1) = 2
    <3>1. BRIDGE_VERSION \in 0..U8
      BY ByteIs DEF BRIDGE_VERSION
    <3> QED
      BY <1>1, <3>1 DEF Text
  <2>2. r.flags \in Nat /\ r.handlerId \in Nat
    BY <1>1, WideIs
  <2> HIDE DEF f1, nu, np, ni, nt, nh, nb
  <2> QED
    BY <1>2, <2>1, <2>2, U16Is, U32Is
<1>5. texts \in Text /\ Len(texts) \in Nat /\ pairs \in Text /\ Len(pairs) \in Nat
  BY <1>1, WritesType
<1>6. f1[1] = BRIDGE_VERSION /\ f1[2] = r.method
  OBVIOUS
<1> DEFINE at == 24 + nu + np + ni
<1>7. decodeRequestEnvelope(c) =
        IF ~fits(c, 0, 24) THEN Refused
        ELSE IF readU8(c, 0) # BRIDGE_VERSION \/ readU8(c, 1) \notin METHOD_CODES \cup {0} THEN Refused
        ELSE IF ~fits(c, 0, 24 + readU32(c, 8) + readU16(c, 12) + readU16(c, 22)) THEN Refused
        ELSE LET ts == readTexts(c, 24 + readU32(c, 8) + readU16(c, 12) + readU16(c, 22), readU16(c, 14))
                 hs == readPairs(c, ts.at, readU16(c, 16))
             IN  IF ~ts.ok \/ ~hs.ok \/ ~fits(c, hs.at, readU32(c, 18)) THEN Refused
                 ELSE [ok |-> TRUE, method |-> readU8(c, 1), flags |-> readU16(c, 2),
                       handlerId |-> readU32(c, 4), url |-> readBytes(c, 24, readU32(c, 8)),
                       path |-> readBytes(c, 24 + readU32(c, 8), readU16(c, 12)),
                       ip |-> readBytes(c, 24 + readU32(c, 8) + readU16(c, 12), readU16(c, 22)),
                       params |-> ts.read, headers |-> hs.read, body |-> readBytes(c, hs.at, readU32(c, 18))]
  BY DEF decodeRequestEnvelope, FixedPart
<1>8. Has(c, 0, b)
  OBVIOUS
<1>9. ~Refused.ok
  BY DEF Refused
<1>10. (known <=> r.method \in METHOD_CODES \cup {0}) /\ known \in BOOLEAN
  OBVIOUS
<1> HIDE DEF b, f1, f2, f3, f4, f5, f6, f7, f8, f9, texts, pairs, known
<1>11. /\ Len(b) = 24 + nu + np + ni + Len(texts) + Len(pairs) + nb
       /\ Has(c, 0, f1) /\ Has(c, 2, f2) /\ Has(c, 4, f3) /\ Has(c, 8, f4) /\ Has(c, 12, f5)
       /\ Has(c, 14, f6) /\ Has(c, 16, f7) /\ Has(c, 18, f8) /\ Has(c, 22, f9)
       /\ Has(c, 24, url) /\ Has(c, 24 + nu, path) /\ Has(c, 24 + nu + np, ip)
       /\ Has(c, at, texts) /\ Has(c, at + Len(texts), pairs) /\ Has(c, at + Len(texts) + Len(pairs), body)
  <2>1. url \in Text /\ path \in Text /\ ip \in Text /\ body \in Text
    BY <1>1
  <2>2. b = Request(f1, f2, f3, f4, f5, f6, f7, f8, f9, url, path, ip, texts, pairs, body)
    BY <1>3 DEF Request
  <2>3. Has(c, 0, Request(f1, f2, f3, f4, f5, f6, f7, f8, f9, url, path, ip, texts, pairs, body))
    BY <1>8, <2>2
  <2> HIDE DEF url, path, ip, body
  <2>4. /\ Len(Request(f1, f2, f3, f4, f5, f6, f7, f8, f9, url, path, ip, texts, pairs, body))
             = 24 + nu + np + ni + Len(texts) + Len(pairs) + nb
        /\ Has(c, 0, f1) /\ Has(c, 2, f2) /\ Has(c, 4, f3) /\ Has(c, 8, f4) /\ Has(c, 12, f5)
        /\ Has(c, 14, f6) /\ Has(c, 16, f7) /\ Has(c, 18, f8) /\ Has(c, 22, f9)
        /\ Has(c, 24, url) /\ Has(c, 24 + nu, path) /\ Has(c, 24 + nu + np, ip)
        /\ Has(c, at, texts) /\ Has(c, at + Len(texts), pairs) /\ Has(c, at + Len(texts) + Len(pairs), body)
    BY ONLY <1>4, <1>5, <2>1, <2>3, RequestFields
  <2> QED
    BY <2>2, <2>4
<1>12. b \in Text
  <2>1. url \in Text /\ path \in Text /\ ip \in Text /\ body \in Text
    BY <1>1
  <2> DEFINE g6 == f1 \o f2 \o f3 \o f4 \o f5 \o f6
             g10 == g6 \o f7 \o f8 \o f9 \o url
             g15 == g10 \o path \o ip \o texts \o pairs \o body
  <2> HIDE DEF url, path, ip, body
  <2>2. g6 \in Text
    BY ONLY <1>4, SixTexts
  <2>3. b = g15
    BY <1>3
  <2> HIDE DEF g6
  <2>4. g10 \in Text
    BY ONLY <1>4, <2>1, <2>2, SixTexts
  <2> HIDE DEF g10
  <2>5. g15 \in Text
    BY ONLY <1>5, <2>1, <2>4, SixTexts
  <2> QED
    BY <2>3, <2>5
<1> DEFINE d == decodeRequestEnvelope(c)
           total == Len(b)
<1>13. /\ at \in Nat /\ total = at + Len(texts) + Len(pairs) + nb /\ total \in Nat /\ 24 <= at /\ at <= total
       /\ 24 + nu \in Nat /\ 24 + nu + np \in Nat /\ 24 <= total
  <2> DEFINE nx == Len(texts)
             ny == Len(pairs)
  <2>1. /\ nx \in Nat /\ ny \in Nat /\ nu \in Nat /\ np \in Nat /\ ni \in Nat /\ nb \in Nat
        /\ total = 24 + nu + np + ni + nx + ny + nb
    BY <1>2, <1>5, <1>11
  <2> HIDE DEF nu, np, ni, nb, nx, ny, total
  <2>2. at \in Nat /\ 24 <= at /\ 24 + nu \in Nat /\ 24 + nu + np \in Nat
    BY <2>1
  <2>3. total = at + nx + ny + nb
    BY <2>1
  <2> HIDE DEF at
  <2>4. total \in Nat /\ at <= total /\ 24 <= total
    BY <2>1, <2>2, <2>3
  <2> QED
    BY <2>2, <2>3, <2>4 DEF nx, ny
<1>13a. b \in Text /\ FixedPart <= Len(b)
  BY <1>12, <1>13 DEF FixedPart
<1>14. CASE ~fits(c, 0, 24)
  <2>1. ~(total <= Len(c))
    <3>1. total \in Nat /\ 24 <= total /\ Len(c) \in Nat
      BY <1>2, <1>13
    <3> HIDE DEF total
    <3> QED
      BY <1>14, <3>1 DEF fits
  <2>2. ~d.ok
    BY <1>7, <1>9, <1>14
  <2> QED
    BY <1>13a, <2>1, <2>2 DEF b
<1>15. CASE fits(c, 0, 24)
  <2>1. 24 <= Len(c)
    BY <1>2, <1>15 DEF fits
  <2>2. /\ fits(c, 2, 2) /\ fits(c, 4, 4) /\ fits(c, 8, 4) /\ fits(c, 12, 2) /\ fits(c, 14, 2)
        /\ fits(c, 16, 2) /\ fits(c, 18, 4) /\ fits(c, 22, 2)
    BY <1>2, <2>1 DEF fits
  <2>3. readU8(c, 0) = BRIDGE_VERSION /\ readU8(c, 1) = r.method
    <3>1. c[0 + 1] = f1[1] /\ c[0 + 2] = f1[2]
      BY <1>4, <1>11, <2>1 DEF Has
    <3> QED
      BY <1>6, <3>1 DEF readU8
  <2>4. readU16(c, 2) = r.flags
    BY <1>1, <1>2, <1>11, <2>2, ReadsU16 DEF f2
  <2>5. readU32(c, 4) = r.handlerId
    <3> DEFINE id == r.handlerId
    <3>1. id \in Nat /\ id <= U32
      BY <1>1, WideIs
    <3>2. Has(c, 4, writeU32(id)) /\ Len(c) \in Nat /\ fits(c, 4, 4) /\ 4 \in Nat
      BY <1>2, <1>11, <2>2 DEF f3
    <3> HIDE DEF id
    <3>3. readU32(c, 4) = id
      BY ONLY <3>1, <3>2, ReadsU32
    <3> QED
      BY <3>3 DEF id
  <2>6. readU32(c, 8) = nu
    <3>1. Has(c, 8, writeU32(nu)) /\ nu \in Nat /\ nu <= U32
      BY <1>2, <1>3, <1>11 DEF f4
    <3> HIDE DEF nu
    <3> QED
      BY <1>2, <2>2, <3>1, ReadsU32
  <2>7. readU16(c, 12) = np
    <3>1. Has(c, 12, writeU16(np))
      BY <1>11 DEF f5
    <3>2. np \in Nat /\ np <= U16
      BY <1>2, <1>3
    <3> HIDE DEF np
    <3>3. np \in 0..U16
      BY <3>2, WideIs
    <3> QED
      BY <1>2, <2>2, <3>1, <3>3, ReadsU16
  <2>8. readU16(c, 14) = nt
    <3>1. Has(c, 14, writeU16(nt))
      BY <1>11 DEF f6
    <3>2. nt \in Nat /\ nt <= U16
      BY <1>2, <1>3
    <3> HIDE DEF nt
    <3>3. nt \in 0..U16
      BY <3>2, WideIs
    <3> QED
      BY <1>2, <2>2, <3>1, <3>3, ReadsU16
  <2>9. readU16(c, 16) = nh
    <3>1. Has(c, 16, writeU16(nh))
      BY <1>11 DEF f7
    <3>2. nh \in Nat /\ nh <= U16
      BY <1>2, <1>3
    <3> HIDE DEF nh
    <3>3. nh \in 0..U16
      BY <3>2, WideIs
    <3> QED
      BY <1>2, <2>2, <3>1, <3>3, ReadsU16
  <2>10. readU32(c, 18) = nb
    <3>1. Has(c, 18, writeU32(nb)) /\ nb \in Nat /\ nb <= U32
      BY <1>1, <1>2, <1>11 DEF f8
    <3> HIDE DEF nb
    <3> QED
      BY <1>2, <2>2, <3>1, ReadsU32
  <2>11. readU16(c, 22) = ni
    <3>1. Has(c, 22, writeU16(ni))
      BY <1>11 DEF f9
    <3>2. ni \in Nat /\ ni <= U16
      BY <1>2, <1>3
    <3> HIDE DEF ni
    <3>3. ni \in 0..U16
      BY <3>2, WideIs
    <3> QED
      BY <1>2, <2>2, <3>1, <3>3, ReadsU16
  <2> DEFINE ts == readTexts(c, at, nt)
             hs == readPairs(c, ts.at, nh)
  <2>12. d = IF ~known \/ ~fits(c, 0, at) \/ ~ts.ok \/ ~hs.ok \/ ~fits(c, hs.at, nb) THEN Refused
             ELSE [ok |-> TRUE, method |-> r.method, flags |-> r.flags, handlerId |-> r.handlerId,
                   url |-> readBytes(c, 24, nu), path |-> readBytes(c, 24 + nu, np),
                   ip |-> readBytes(c, 24 + nu + np, ni),
                   params |-> ts.read, headers |-> hs.read, body |-> readBytes(c, hs.at, nb)]
    <3> HIDE DEF nu, np, ni, nt, nh, nb
    <3> DEFINE m == [ok |-> TRUE, method |-> r.method, flags |-> r.flags, handlerId |-> r.handlerId,
                     url |-> readBytes(c, 24, nu), path |-> readBytes(c, 24 + nu, np),
                     ip |-> readBytes(c, 24 + nu + np, ni),
                     params |-> ts.read, headers |-> hs.read, body |-> readBytes(c, hs.at, nb)]
    <3>0. 24 + readU32(c, 8) + readU16(c, 12) + readU16(c, 22) = at
      BY <2>6, <2>7, <2>11
    <3> HIDE DEF at
    <3>1. decodeRequestEnvelope(c) =
            IF ~fits(c, 0, 24) THEN Refused
            ELSE IF BRIDGE_VERSION # BRIDGE_VERSION \/ r.method \notin METHOD_CODES \cup {0} THEN Refused
            ELSE IF ~fits(c, 0, at) THEN Refused
            ELSE IF ~ts.ok \/ ~hs.ok \/ ~fits(c, hs.at, nb) THEN Refused
            ELSE m
      <4> DEFINE x == readTexts(c, 24 + readU32(c, 8) + readU16(c, 12) + readU16(c, 22), readU16(c, 14))
                 y == readPairs(c, x.at, readU16(c, 16))
      <4>1. decodeRequestEnvelope(c) =
              IF ~fits(c, 0, 24) THEN Refused
              ELSE IF readU8(c, 0) # BRIDGE_VERSION \/ readU8(c, 1) \notin METHOD_CODES \cup {0} THEN Refused
              ELSE IF ~fits(c, 0, 24 + readU32(c, 8) + readU16(c, 12) + readU16(c, 22)) THEN Refused
              ELSE IF ~x.ok \/ ~y.ok \/ ~fits(c, y.at, readU32(c, 18)) THEN Refused
              ELSE [ok |-> TRUE, method |-> readU8(c, 1), flags |-> readU16(c, 2),
                    handlerId |-> readU32(c, 4), url |-> readBytes(c, 24, readU32(c, 8)),
                    path |-> readBytes(c, 24 + readU32(c, 8), readU16(c, 12)),
                    ip |-> readBytes(c, 24 + readU32(c, 8) + readU16(c, 12), readU16(c, 22)),
                    params |-> x.read, headers |-> y.read, body |-> readBytes(c, y.at, readU32(c, 18))]
        BY <1>7
      <4>2. x = ts
        BY <2>8, <3>0
      <4> HIDE DEF x, ts
      <4>3. y = hs
        BY <2>9, <4>2
      <4> HIDE DEF y, hs
      <4> QED
        BY <2>3, <2>4, <2>5, <2>6, <2>7, <2>10, <2>11, <3>0, <4>1, <4>2, <4>3
    <3> HIDE DEF ts, hs, m
    <3>2. d = IF ~known \/ ~fits(c, 0, at) \/ ~ts.ok \/ ~hs.ok \/ ~fits(c, hs.at, nb) THEN Refused ELSE m
      BY <1>10, <1>15, <3>1
    <3> QED
      BY <3>2 DEF m
  <2> HIDE DEF d, nu, np, ni, nb, at, total
  <2>13. CASE ~fits(c, 0, at)
    <3>1. ~(total <= Len(c))
      BY <1>2, <1>13, <2>13 DEF fits
    <3>2. ~d.ok
      BY <1>9, <2>12, <2>13
    <3> QED
      BY <1>13a, <3>1, <3>2 DEF b, d, total
  <2>14. CASE fits(c, 0, at)
    <3>1. at <= Len(c)
      BY <1>2, <1>13, <2>14 DEF fits
    <3>2. (ts.ok <=> at + Len(texts) <= Len(c)) /\ (ts.ok => ts.at = at + Len(texts) /\ ts.read = params)
      <4>1. Has(c, at, writeTexts(params)) /\ \A i \in 1..Len(params) : Len(params[i]) <= U16
        BY <1>3, <1>11 DEF texts, at
      <4>2. params \in Seq(Text)
        BY <1>1
      <4> HIDE DEF params
      <4> QED
        BY <1>13, <3>1, <4>1, <4>2, TextsWalk DEF texts
    <3> DEFINE pa == at + Len(texts)
    <3>3. ts.ok => (hs.ok <=> pa + Len(pairs) <= Len(c)) /\ (hs.ok => hs.at = pa + Len(pairs) /\ hs.read = headers)
      <4> SUFFICES ASSUME ts.ok
                   PROVE  (hs.ok <=> pa + Len(pairs) <= Len(c)) /\ (hs.ok => hs.at = pa + Len(pairs) /\ hs.read = headers)
        OBVIOUS
      <4>1. Has(c, pa, writePairs(headers)) /\ \A i \in 1..Len(headers) : FitsPair(headers[i])
        BY <1>3, <1>11 DEF pairs, at
      <4>2. headers \in Seq(Text \X Text) /\ pa \in Nat /\ pa <= Len(c) /\ ts.at = pa
        BY <1>1, <1>5, <1>13, <3>2 DEF Pairs
      <4> HIDE DEF headers, pa, ts
      <4> QED
        BY <4>1, <4>2, PairsWalk DEF pairs
    <3> HIDE DEF ts, hs, nt, nh
    <3>4. CASE ts.ok /\ hs.ok /\ fits(c, hs.at, nb)
      <4>1. hs.at = at + Len(texts) + Len(pairs) /\ ts.read = params /\ hs.read = headers
        BY <3>2, <3>3, <3>4
      <4>2. total <= Len(c)
        BY <1>13, <3>4, <4>1 DEF fits
      <4>3. /\ fits(c, 24, nu) /\ fits(c, 24 + nu, np) /\ fits(c, 24 + nu + np, ni)
        <5> USE DEF at
        <5> QED
          BY <1>2, <3>1 DEF fits
      <4>4. readBytes(c, 24, nu) = url
        <5>1. url \in Text /\ Has(c, 24, url) /\ fits(c, 24, Len(url)) /\ 24 \in Nat /\ c \in Text
          BY <1>1, <1>11, <1>13, <4>3 DEF nu
        <5> HIDE DEF url
        <5>2. readBytes(c, 24, Len(url)) = url
          BY ONLY <5>1, ReadsBytes
        <5> QED
          BY <5>2 DEF nu
      <4>5. readBytes(c, 24 + nu, np) = path
        <5>1. path \in Text /\ Has(c, 24 + nu, path) /\ fits(c, 24 + nu, Len(path)) /\ 24 + nu \in Nat /\ c \in Text
          BY <1>1, <1>11, <1>13, <4>3 DEF np
        <5> HIDE DEF path
        <5>2. readBytes(c, 24 + nu, Len(path)) = path
          BY ONLY <5>1, ReadsBytes
        <5> QED
          BY <5>2 DEF np
      <4>6. readBytes(c, 24 + nu + np, ni) = ip
        <5>1. ip \in Text /\ Has(c, 24 + nu + np, ip) /\ fits(c, 24 + nu + np, Len(ip)) /\ 24 + nu + np \in Nat /\ c \in Text
          BY <1>1, <1>11, <1>13, <4>3 DEF ni
        <5> HIDE DEF ip
        <5>2. readBytes(c, 24 + nu + np, Len(ip)) = ip
          BY ONLY <5>1, ReadsBytes
        <5> QED
          BY <5>2 DEF ni
      <4>7. readBytes(c, hs.at, nb) = body
        <5> DEFINE q == at + Len(texts) + Len(pairs)
        <5>0. Has(c, q, body) /\ q \in Nat /\ hs.at = q
          <6>1. q \in Nat
            BY <1>5, <1>13
          <6>2. Has(c, q, body)
            BY <1>11 DEF at
          <6> QED
            BY <4>1, <6>1, <6>2
        <5> HIDE DEF q
        <5>1. Has(c, hs.at, body) /\ hs.at \in Nat
          BY <5>0
        <5> QED
          BY <1>1, <3>4, <5>1, ReadsBytes DEF nb
      <4>8. CASE known
        <5>1. d = [ok |-> TRUE, method |-> r.method, flags |-> r.flags, handlerId |-> r.handlerId,
                   url |-> url, path |-> path, ip |-> ip, params |-> params, headers |-> headers, body |-> body]
          BY <2>12, <2>14, <3>4, <4>1, <4>4, <4>5, <4>6, <4>7, <4>8
        <5>2. /\ d.ok /\ d.url = url /\ d.path = path /\ d.ip = ip /\ d.params = params /\ d.headers = headers
              /\ d.body = body /\ d.method = r.method /\ d.flags = r.flags /\ d.handlerId = r.handlerId
          BY <5>1
        <5> QED
          BY <1>10, <1>13a, <4>2, <4>8, <5>2 DEF b, d, total
      <4>9. CASE ~known
        <5>1. ~d.ok
          BY <1>9, <2>12, <4>9
        <5> QED
          BY <1>10, <1>13a, <4>9, <5>1 DEF b, d
      <4> QED
        BY <4>8, <4>9
    <3>5. CASE ~(ts.ok /\ hs.ok /\ fits(c, hs.at, nb))
      <4>1. ~(total <= Len(c))
        <5> SUFFICES ASSUME total <= Len(c) PROVE FALSE
          OBVIOUS
        <5>1. at + Len(texts) <= Len(c) /\ pa + Len(pairs) <= Len(c)
          BY <1>2, <1>5, <1>13
        <5>2. ts.ok /\ hs.ok /\ hs.at = pa + Len(pairs)
          BY <3>2, <3>3, <5>1
        <5>3. fits(c, hs.at, nb)
          BY <1>13, <5>2 DEF fits
        <5> QED
          BY <3>5, <5>2, <5>3
      <4>2. ~d.ok
        BY <1>9, <2>12, <3>5
      <4> QED
        BY <1>13a, <4>1, <4>2 DEF b, d, total
    <3> QED
      BY <3>4, <3>5
  <2> QED
    BY <2>13, <2>14
<1> QED
  BY <1>14, <1>15

LEMMA PrefixOf ==
  ASSUME NEW b \in Text, NEW k \in 0..(Len(b) - 1)
  PROVE  /\ SubSeq(b, 1, k) \in Text /\ Len(SubSeq(b, 1, k)) = k /\ k < Len(b) /\ Has(SubSeq(b, 1, k), 0, b)
<1> DEFINE s == SubSeq(b, 1, k)
<1>1. Len(b) \in Nat /\ k \in Nat /\ k < Len(b)
  BY LenProperties DEF Text
<1>2. \A i \in 1..k : b[i] \in 0..U8
  <2>1. \A i \in 1..Len(b) : b[i] \in 0..U8
    BY ElementOfSeq DEF Text
  <2> QED
    BY <1>1, <2>1
<1>3. /\ SubSeq(b, 1, k) \in Seq(0..U8)
      /\ Len(SubSeq(b, 1, k)) = IF 1 <= k THEN k - 1 + 1 ELSE 0
      /\ \A i \in 1..(k - 1 + 1) : SubSeq(b, 1, k)[i] = b[1 + i - 1]
  BY <1>1, <1>2, SubSeqProperties
<1>4. s \in Text /\ Len(s) = k /\ \A i \in 1..k : s[i] = b[i]
  BY <1>1, <1>3 DEF Text
<1> HIDE DEF s
<1>5. Has(s, 0, b)
  <2> SUFFICES ASSUME NEW j \in 1..Len(b), 0 + j <= Len(s) PROVE s[0 + j] = b[j]
    BY DEF Has
  <2>1. 0 + j = j /\ j \in 1..k
    BY <1>1, <1>4
  <2> QED
    BY <1>4, <2>1
<1> QED
  BY <1>1, <1>4, <1>5 DEF s

LEMMA OtherVersion ==
  ASSUME NEW b \in Text, b # <<>>
  PROVE  ~decodeRequestEnvelope([b EXCEPT ![1] = 1]).ok
<1> DEFINE c == [b EXCEPT ![1] = 1]
<1>1. 1 \in 1..Len(b) /\ b \in Seq(0..U8)
  BY EmptySeq, LenProperties DEF Text
<1>2. c[1] = 1
  BY <1>1, LenProperties
<1> HIDE DEF c
<1>3. readU8(c, 0) = 1
  BY <1>2 DEF readU8
<1>4. readU8(c, 0) # BRIDGE_VERSION
  BY <1>3 DEF BRIDGE_VERSION
<1>5. decodeRequestEnvelope(c) = Refused
  BY <1>4 DEF decodeRequestEnvelope
<1> QED
  BY <1>5 DEF Refused, c

(* Whatever bytes there are, how many values each has and what is encoded: both *)
(* sides of the bridge read what the other one wrote, or refuse it; and no      *)
(* prefix of a request is taken for one (bridge.js:782-1043, lib.rs:2009-2076,  *)
(* 2483-2779).                                                               *)
THEOREM CodecsAlwaysAgree == Spec => []CodecsAgree
<1> DEFINE Inv == mode = "codec" => given \in Messages
<1>1. Init => Inv
  BY DEF Init
<1>2. Inv /\ [Next]_vars => Inv'
  BY DEF Next, vars
<1>3. Inv => CodecsAgree
  <2> SUFFICES ASSUME mode = "codec", given \in Messages PROVE CodecsAgree
    BY DEF CodecsAgree, RequestCodec, ResponseCodec
  <2>1. given \in RequestMessages \cup ResponseMessages \cup StreamMessages
    BY EnvelopeAssumption
  <2>2. /\ given.kind = "request" => given \in RequestMessages
        /\ given.kind = "response" => given \in ResponseMessages
        /\ given.kind = "stream" => given \in StreamMessages
    <3>1. \A m \in RequestMessages : m.kind = "request"
      BY DEF RequestMessages
    <3>2. \A m \in ResponseMessages : m.kind = "response"
      BY DEF ResponseMessages
    <3>3. \A m \in StreamMessages : m.kind = "stream"
      BY DEF StreamMessages
    <3> QED
      BY <2>1, <3>1, <3>2, <3>3
  <2>3. RequestCodec
    <3> DEFINE e == build_dispatch_envelope(given)
               b == e.bytes
    <3> SUFFICES ASSUME given \in RequestMessages, e.ok
                 PROVE  LET d == decodeRequestEnvelope(b)
                        IN  /\ d.ok <=> given.method \in METHOD_CODES \cup {0}
                            /\ d.ok => /\ d.url = given.url /\ d.path = given.path /\ d.ip = given.ip
                                       /\ d.params = given.params /\ d.headers = given.headers /\ d.body = given.body
                                       /\ d.method = given.method /\ d.flags = given.flags /\ d.handlerId = given.handlerId
                            /\ \A k \in 0..Len(b) - 1 : ~decodeRequestEnvelope(SubSeq(b, 1, k)).ok
                            /\ ~decodeRequestEnvelope([b EXCEPT ![1] = 1]).ok
      BY <2>2 DEF RequestCodec
    <3>1. b \in Text /\ FixedPart <= Len(b)
      <4>1. Has(<<>>, 0, b) /\ <<>> \in Text
        BY EmptySeq DEF Has, Text
      <4> QED
        BY <4>1, RequestReads
    <3>2. Has(b, 0, b) /\ Len(b) \in Nat /\ Len(b) <= Len(b)
      <4> HIDE DEF b
      <4> QED
        BY <3>1, HasAll
    <3>3. LET d == decodeRequestEnvelope(b)
          IN  /\ d.ok <=> given.method \in METHOD_CODES \cup {0}
              /\ d.ok => /\ d.url = given.url /\ d.path = given.path /\ d.ip = given.ip
                         /\ d.params = given.params /\ d.headers = given.headers /\ d.body = given.body
                         /\ d.method = given.method /\ d.flags = given.flags /\ d.handlerId = given.handlerId
      BY <3>1, <3>2, RequestReads
    <3>4. ASSUME NEW k \in 0..Len(b) - 1 PROVE ~decodeRequestEnvelope(SubSeq(b, 1, k)).ok
      <4> DEFINE c == SubSeq(b, 1, k)
      <4>1. c \in Text /\ Len(c) = k /\ k < Len(b) /\ Has(c, 0, b) /\ k \in Nat
        <5> HIDE DEF b
        <5> QED
          BY <3>1, <3>2, PrefixOf
      <4> HIDE DEF c
      <4>2. ~(Len(b) <= Len(c))
        <5> HIDE DEF b
        <5> QED
          BY <3>2, <4>1
      <4>3. ~decodeRequestEnvelope(c).ok
        BY <4>1, <4>2, RequestReads
      <4> QED
        BY <4>3 DEF c
    <3>5. ~decodeRequestEnvelope([b EXCEPT ![1] = 1]).ok
      <4>1. b # <<>>
        <5> HIDE DEF b
        <5> QED
          BY <3>1, EmptySeq DEF FixedPart
      <4> HIDE DEF b
      <4> QED
        BY <3>1, <4>1, OtherVersion
    <3> HIDE DEF b, e
    <3> QED
      BY <3>3, <3>4, <3>5
  <2>4. ResponseCodec
    BY <2>2, ResponseReads, StreamReads DEF ResponseCodec
  <2> QED
    BY <2>3, <2>4 DEF CodecsAgree
<1> QED
  BY <1>1, <1>2, <1>3, PTL DEF Spec
=============================================================================
