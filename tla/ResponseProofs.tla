---------------------------- MODULE ResponseProofs ----------------------------
(***************************************************************************)
(* What the JS thread answers with: the response objects and states of its    *)
(* dispatches, and the bodies it streams through a channel to the worker.      *)
(*                                                                         *)
(* For every finite set of requests, every pool limit and however often user  *)
(* code awaits: response objects and states serve one dispatch at a time, and *)
(* user code that leaves a finished response alone never reaches another      *)
(* request's response.  For every set of streams and chunks, every capacity    *)
(* and every placement of streams in shards: a body is what was written, and   *)
(* complete when it ends.                                                    *)
(***************************************************************************)
EXTENDS Dispatcher, StreamBridge, FiniteSetTheorems, SequenceTheorems, TLAPS

Stages == {"callMw", "callHandler", "mwWait", "handlerWait", "finalize", "error", "errorWait"}
Data == [finished : BOOLEAN, streaming : BOOLEAN, by : SUBSET Requests]
Users == {r \in Requests : InUse(r)}
Started == {r \in Requests : pc[r] # "new"}

(* A pool of things numbered 1..n, of which the users hold one each.  Objects  *)
(* and states are pooled in the same way.                                     *)
Disciplined(pool, held, n, users) ==
    /\ n \in Nat /\ pool \in Seq(1..n) /\ IsInjective(pool) /\ Len(pool) <= RESPONSE_POOL_MAX
    /\ \A r \in users : held[r] \in 1..n /\ held[r] \notin ToSet(pool)
    /\ \A r1, r2 \in users : r1 # r2 => held[r1] # held[r2]

\* What createResponseEnvelope takes, and what it leaves.
Popped(pool, n) == IF pool # <<>> THEN Last(pool) ELSE n + 1
Rest(pool) == IF pool # <<>> THEN Front(pool) ELSE pool
Grown(x, n) == IF x > n THEN x ELSE n

LEMMA FrontOf ==
  ASSUME NEW S, NEW s \in Seq(S), s # <<>>
  PROVE  /\ Front(s) \in Seq(S) /\ Len(s) \in Nat \ {0} /\ Len(Front(s)) = Len(s) - 1
         /\ \A i \in 1..Len(s) - 1 : Front(s)[i] = s[i]
         /\ Last(s) = s[Len(s)]
<1>1. Len(s) \in Nat \ {0}
  BY EmptySeq
<1>2. \A i \in 1..Len(s) - 1 : s[i] \in S
  BY <1>1
<1> DEFINE m == Len(s) - 1
<1>3. m \in Nat /\ 1 \in Int /\ m \in Int /\ m - 1 + 1 = m
  BY <1>1
<1>4. /\ SubSeq(s, 1, m) \in Seq(S)
      /\ Len(SubSeq(s, 1, m)) = IF 1 <= m THEN m - 1 + 1 ELSE 0
      /\ \A i \in 1..m - 1 + 1 : SubSeq(s, 1, m)[i] = s[1 + i - 1]
  <2> HIDE DEF m
  <2> QED
    BY <1>2, <1>3, SubSeqProperties DEF m
<1>5. \A i \in 1..m : SubSeq(s, 1, m)[i] = s[i]
  <2> HIDE DEF m
  <2> QED
    BY <1>3, <1>4
<1> QED
  BY <1>1, <1>3, <1>4, <1>5 DEF Front, Last

LEMMA Elements ==
  ASSUME NEW S, NEW s \in Seq(S)
  PROVE  /\ \A x : x \in ToSet(s) <=> \E i \in 1..Len(s) : s[i] = x
         /\ IsInjective(s) <=> \A i, j \in 1..Len(s) : s[i] = s[j] => i = j
<1>1. DOMAIN s = 1..Len(s)
  BY LenProperties
<1> QED
  BY <1>1 DEF ToSet, IsInjective

LEMMA TakeOne ==
  ASSUME NEW pool, NEW n, NEW users \in SUBSET Requests, NEW S, NEW held \in [Requests -> S],
         NEW r \in Requests, r \notin users, Disciplined(pool, held, n, users)
  PROVE  /\ Popped(pool, n) \in 1..Grown(Popped(pool, n), n)
         /\ Grown(Popped(pool, n), n) \in {n, n + 1}
         /\ Disciplined(Rest(pool), [held EXCEPT ![r] = Popped(pool, n)],
                        Grown(Popped(pool, n), n), users \cup {r})
<1> DEFINE x == Popped(pool, n)  N == Grown(x, n)  h == [held EXCEPT ![r] = x]
<1>0. n \in Nat /\ pool \in Seq(1..n) /\ Len(pool) \in Nat /\ Len(pool) <= RESPONSE_POOL_MAX
  BY DEF Disciplined
<1>1. CASE pool = <<>>
  <2>1. x = n + 1 /\ N = n + 1 /\ Rest(pool) = <<>>
    BY <1>0, <1>1 DEF Popped, Grown, Rest
  <2>2. /\ <<>> \in Seq(1..n + 1) /\ IsInjective(<<>>) /\ Len(<<>>) = 0 /\ ToSet(<<>>) = {}
    BY DEF IsInjective, ToSet
  <2>3. \A q \in users \cup {r} : h[q] = (IF q = r THEN n + 1 ELSE held[q]) /\ h[q] \in 1..n + 1
    BY <1>0, <2>1 DEF Disciplined
  <2>4. \A q \in users : held[q] # n + 1
    BY <1>0 DEF Disciplined
  <2> HIDE DEF h, x, N
  <2>5. Disciplined(<<>>, h, n + 1, users \cup {r})
    BY <1>0, <2>2, <2>3, <2>4, DispatcherAssumption DEF Disciplined
  <2> QED
    BY <1>0, <2>1, <2>5 DEF h, x, N
<1>2. CASE pool # <<>>
  <2>1. /\ Front(pool) \in Seq(1..n) /\ Len(pool) \in Nat \ {0} /\ Len(Front(pool)) = Len(pool) - 1
        /\ \A i \in 1..Len(pool) - 1 : Front(pool)[i] = pool[i]
        /\ Last(pool) = pool[Len(pool)]
    BY <1>0, <1>2, FrontOf
  <2>2. x = Last(pool) /\ x \in 1..n /\ N = n /\ Rest(pool) = Front(pool) /\ x \in ToSet(pool)
    BY <1>0, <1>2, <2>1 DEF Popped, Grown, Rest, ToSet
  <2>3. \A i \in 1..Len(Front(pool)) : i \in 1..Len(pool) /\ i # Len(pool) /\ Front(pool)[i] = pool[i]
    BY <2>1
  <2>4. \A i, j \in 1..Len(pool) : pool[i] = pool[j] => i = j
    BY <1>0, Elements DEF Disciplined
  <2>5. IsInjective(Front(pool))
    <3>1. \A i, j \in 1..Len(Front(pool)) : Front(pool)[i] = Front(pool)[j] => i = j
      BY <2>3, <2>4
    <3> QED
      BY <2>1, <3>1, Elements
  <2>6. ToSet(Front(pool)) \subseteq ToSet(pool) /\ x \notin ToSet(Front(pool))
    <3>1. \A i \in 1..Len(pool) : pool[i] \in ToSet(pool)
      BY <1>0, Elements
    <3>2. Len(pool) \in 1..Len(pool) /\ x = pool[Len(pool)]
      BY <2>1, <2>2
    <3>3. \A i \in 1..Len(Front(pool)) : Front(pool)[i] # x /\ Front(pool)[i] \in ToSet(pool)
      <4> HIDE DEF x
      <4> QED
        BY <2>3, <2>4, <3>1, <3>2
    <3> QED
      BY <2>1, <3>3, Elements
  <2>7. \A q \in users \cup {r} : h[q] = IF q = r THEN x ELSE held[q]
    OBVIOUS
  <2> HIDE DEF h, x, N
  <2>8. Disciplined(Front(pool), h, n, users \cup {r})
    BY <1>0, <2>1, <2>2, <2>5, <2>6, <2>7, DispatcherAssumption DEF Disciplined
  <2> QED
    BY <1>0, <2>2, <2>8 DEF h, x, N
<1> QED
  BY <1>1, <1>2

LEMMA GiveBack ==
  ASSUME NEW pool, NEW n, NEW users, NEW held, NEW r \in users, Disciplined(pool, held, n, users)
  PROVE  Disciplined(Pushed(pool, held[r]), held, n, users \ {r})
<1> DEFINE x == held[r]
<1>0. /\ n \in Nat /\ pool \in Seq(1..n) /\ Len(pool) \in Nat /\ Len(pool) <= RESPONSE_POOL_MAX
      /\ x \in 1..n /\ x \notin ToSet(pool)
      /\ \A q \in users \ {r} : held[q] # x /\ held[q] \in 1..n /\ held[q] \notin ToSet(pool)
  BY DEF Disciplined
<1> HIDE DEF x
<1>1. CASE Len(pool) < RESPONSE_POOL_MAX
  <2> DEFINE p == Append(pool, x)
  <2>1. /\ p \in Seq(1..n) /\ Len(p) = Len(pool) + 1 /\ p[Len(pool) + 1] = x
        /\ \A i \in 1..Len(pool) : p[i] = pool[i]
    BY <1>0
  <2>2. \A i \in 1..Len(pool) : pool[i] # x
    BY <1>0, Elements
  <2> HIDE DEF p
  <2>3. ToSet(p) \subseteq ToSet(pool) \cup {x}
    <3>1. \A i \in 1..Len(p) : p[i] = x \/ p[i] \in ToSet(pool)
      BY <1>0, <2>1, Elements
    <3> QED
      BY <2>1, <3>1, Elements
  <2>4. IsInjective(p)
    <3>1. \A i, j \in 1..Len(pool) : pool[i] = pool[j] => i = j
      BY <1>0, Elements DEF Disciplined
    <3>2. \A i, j \in 1..Len(p) : p[i] = p[j] => i = j
      BY <1>0, <2>1, <2>2, <3>1, SMTT(30)
    <3> QED
      BY <2>1, <3>2, Elements
  <2>5. Disciplined(p, held, n, users \ {r})
    BY <1>0, <1>1, <2>1, <2>3, <2>4, DispatcherAssumption DEF Disciplined
  <2> QED
    BY <1>1, <2>5 DEF p, x, Pushed
<1>2. CASE ~(Len(pool) < RESPONSE_POOL_MAX)
  BY <1>2 DEF Disciplined, Pushed
<1> QED
  BY <1>1, <1>2

-----------------------------------------------------------------------------
(* The inductive invariant: the pools and their users, then everything else.   *)

\* Only as many objects and states are created as dispatches have begun.
PoolInv ==
    /\ pc \in [Requests -> Stages \cup {"new", "done"}]
    /\ obj \in [Requests -> Ids \cup {NULL}] /\ st \in [Requests -> Ids \cup {NULL}]
    /\ stateOf \in [Ids -> Ids \cup {NULL}]
    /\ allocated = [obj |-> allocated.obj, st |-> allocated.st]
    /\ allocated.obj <= Cardinality(Started) /\ allocated.st <= Cardinality(Started)
    /\ Disciplined(responseObjectPool, obj, allocated.obj, Users)
    /\ Disciplined(responseStatePool, st, allocated.st, Users)
    /\ \A r \in Users : stateOf[obj[r]] = st[r]

\* Code that is pending belongs to a request that was given an object.
RestInv ==
    /\ turn \in Requests \cup {NULL}
    /\ code \in [Requests -> {"none", "running"}]
    /\ fuel \in [Requests -> 0..MaxAwaits]
    /\ data \in [Ids -> Data]
    /\ sent \in [Requests -> SUBSET Requests]
    /\ \A r \in Requests : code[r] = "running" => obj[r] \in Ids

IInv == PoolInv /\ RestInv

LEMMA Counting ==
  /\ Cardinality(Requests) \in Nat
  /\ \A T \in SUBSET Requests : Cardinality(T) \in Nat /\ Cardinality(T) <= Cardinality(Requests)
  /\ \A T \in SUBSET Requests, r \in Requests :
        r \notin T => Cardinality(T \cup {r}) = Cardinality(T) + 1
<1>1. IsFiniteSet(Requests)
  BY DispatcherAssumption
<1>2. ASSUME NEW T \in SUBSET Requests
      PROVE  IsFiniteSet(T) /\ Cardinality(T) \in Nat /\ Cardinality(T) <= Cardinality(Requests)
  BY <1>1, FS_Subset, FS_CardinalityType
<1>3. ASSUME NEW T \in SUBSET Requests, NEW r \in Requests, r \notin T
      PROVE  Cardinality(T \cup {r}) = Cardinality(T) + 1
  BY <1>2, <1>3, FS_AddElement
<1> QED
  BY <1>1, <1>2, <1>3, FS_CardinalityType

LEMMA PoolFacts ==
  ASSUME PoolInv
  PROVE  /\ allocated.obj \in Nat /\ allocated.st \in Nat
         /\ 1..allocated.obj \subseteq Ids /\ 1..allocated.st \subseteq Ids
         /\ \A r \in Users : obj[r] \in Ids /\ st[r] \in Ids /\ stateOf[obj[r]] = st[r]
         /\ \A r1, r2 \in Users : r1 # r2 => obj[r1] # obj[r2] /\ st[r1] # st[r2]
<1>1. Started \in SUBSET Requests
  BY DEF Started
<1>2. /\ allocated.obj \in Nat /\ allocated.st \in Nat
      /\ allocated.obj <= Cardinality(Requests) /\ allocated.st <= Cardinality(Requests)
  BY <1>1, Counting DEF PoolInv, Disciplined
<1>3. 1..allocated.obj \subseteq Ids /\ 1..allocated.st \subseteq Ids
  BY <1>2, Counting DEF Ids
<1> QED
  BY <1>2, <1>3 DEF PoolInv, Disciplined

(* createResponseEnvelope, at the beginning of a dispatch.                     *)
LEMMA AcquireStep ==
  ASSUME PoolInv, NEW r \in Requests, pc[r] = "new", NEW stage \in Stages,
         acquire(r), pc' = [pc EXCEPT ![r] = stage]
  PROVE  /\ PoolInv' /\ Users' = Users \cup {r} /\ r \notin Users
         /\ obj'[r] \in Ids /\ st'[r] \in Ids /\ data' = Cleared(st'[r])
         /\ \A q \in Requests : q # r => obj'[q] = obj[q] /\ st'[q] = st[q]
<1> DEFINE o == Popped(responseObjectPool, allocated.obj)
           s == Popped(responseStatePool, allocated.st)
           no == Grown(o, allocated.obj)
           ns == Grown(s, allocated.st)
<1>1. /\ obj' = [obj EXCEPT ![r] = o] /\ st' = [st EXCEPT ![r] = s]
      /\ stateOf' = [stateOf EXCEPT ![o] = s] /\ data' = Cleared(s)
      /\ allocated' = [obj |-> no, st |-> ns]
      /\ responseObjectPool' = Rest(responseObjectPool)
      /\ responseStatePool' = Rest(responseStatePool)
  BY DEF acquire, Popped, Grown, Rest
<1>2. /\ Users \in SUBSET Requests /\ r \notin Users /\ Users' = Users \cup {r}
      /\ Started \in SUBSET Requests /\ r \notin Started /\ Started' = Started \cup {r}
  BY DEF PoolInv, Users, Started, InUse, Stages
<1>3. Cardinality(Started') = Cardinality(Started) + 1 /\ Cardinality(Started) \in Nat
      /\ Cardinality(Started') <= Cardinality(Requests)
  BY <1>2, Counting
<1>4. /\ o \in 1..no /\ no \in {allocated.obj, allocated.obj + 1}
      /\ Disciplined(Rest(responseObjectPool), [obj EXCEPT ![r] = o], no, Users \cup {r})
  BY <1>2, TakeOne DEF PoolInv
<1>5. /\ s \in 1..ns /\ ns \in {allocated.st, allocated.st + 1}
      /\ Disciplined(Rest(responseStatePool), [st EXCEPT ![r] = s], ns, Users \cup {r})
  BY <1>2, TakeOne DEF PoolInv
<1> HIDE DEF o, s, no, ns
<1>6. allocated'.obj = no /\ allocated'.st = ns
  BY <1>1
<1>7. allocated.obj \in Nat /\ allocated.st \in Nat
  BY PoolFacts
<1>8. no <= Cardinality(Started') /\ ns <= Cardinality(Started') /\ no \in Nat /\ ns \in Nat
  BY <1>3, <1>4, <1>5, <1>7 DEF PoolInv
<1>9. o \in Ids /\ s \in Ids
  BY <1>3, <1>4, <1>5, <1>8, Counting DEF Ids
<1>10. /\ pc' \in [Requests -> Stages \cup {"new", "done"}]
       /\ obj' \in [Requests -> Ids \cup {NULL}] /\ st' \in [Requests -> Ids \cup {NULL}]
       /\ stateOf' \in [Ids -> Ids \cup {NULL}]
       /\ obj'[r] = o /\ st'[r] = s
       /\ \A q \in Requests : q # r => obj'[q] = obj[q] /\ st'[q] = st[q]
  BY <1>1, <1>9 DEF PoolInv
<1>11. \A q \in Users' : stateOf'[obj'[q]] = st'[q]
  <2>1. stateOf'[o] = s /\ \A i \in Ids : i # o => stateOf'[i] = stateOf[i]
    BY <1>1, <1>9 DEF PoolInv
  <2>2. \A q \in Users : obj'[q] # obj'[r]
    BY <1>1, <1>2, <1>4 DEF Disciplined
  <2>3. \A q \in Users : q \in Requests /\ q # r /\ obj[q] \in Ids /\ stateOf[obj[q]] = st[q]
    BY <1>2, PoolFacts
  <2> QED
    BY <1>2, <1>10, <2>1, <2>2, <2>3
<1>12. PoolInv'
  BY <1>1, <1>2, <1>4, <1>5, <1>6, <1>8, <1>10, <1>11 DEF PoolInv
<1> QED
  BY <1>1, <1>2, <1>9, <1>10, <1>12

(* release(), at the end of a dispatch whose response is not streamed.         *)
LEMMA ReleaseStep ==
  ASSUME PoolInv, NEW r \in Users, release(r), pc' = [pc EXCEPT ![r] = "done"]
  PROVE  PoolInv' /\ Users' = Users \ {r} /\ obj' = obj /\ st' = st /\ data' = data
<1>1. /\ obj' = obj /\ st' = st /\ allocated' = allocated /\ data' = data
      /\ stateOf' = [stateOf EXCEPT ![obj[r]] = NULL]
      /\ responseObjectPool' = Pushed(responseObjectPool, obj[r])
      /\ responseStatePool' = Pushed(responseStatePool, st[r])
  BY DEF release
<1>2. Users' = Users \ {r} /\ Started' = Started /\ r \in Requests
  BY DEF PoolInv, Users, Started, InUse
<1>3. /\ Disciplined(Pushed(responseObjectPool, obj[r]), obj, allocated.obj, Users \ {r})
      /\ Disciplined(Pushed(responseStatePool, st[r]), st, allocated.st, Users \ {r})
  BY GiveBack DEF PoolInv
<1>4. /\ pc' \in [Requests -> Stages \cup {"new", "done"}]
      /\ stateOf' \in [Ids -> Ids \cup {NULL}]
  BY <1>1, <1>2 DEF PoolInv
<1>5. \A q \in Users \ {r} : stateOf'[obj[q]] = st[q]
  BY <1>1, PoolFacts DEF PoolInv
<1>6. PoolInv'
  BY <1>1, <1>2, <1>3, <1>4, <1>5 DEF PoolInv
<1> QED
  BY <1>1, <1>2, <1>6

(* A step that leaves the pools alone; a dispatch whose response is streamed    *)
(* ends without giving anything back.                                         *)
LEMMA KeepStep ==
  ASSUME PoolInv, UNCHANGED poolVars, NEW r \in Requests, NEW to \in Stages \cup {"done"},
         pc[r] = "new" => to = "done", pc[r] = "done" => to = "done",
         pc' = [pc EXCEPT ![r] = to]
  PROVE  PoolInv' /\ Users' \subseteq Users /\ obj' = obj /\ st' = st
<1>1. /\ obj' = obj /\ st' = st /\ allocated' = allocated /\ stateOf' = stateOf
      /\ responseObjectPool' = responseObjectPool /\ responseStatePool' = responseStatePool
  BY DEF poolVars
<1>2. /\ Users' \subseteq Users /\ Started \subseteq Started'
      /\ Started \in SUBSET Requests /\ Started' \in SUBSET Requests
      /\ Started' = Started \/ Started' = Started \cup {r}
  BY DEF PoolInv, Users, Started, InUse, Stages
<1>3. Cardinality(Started) <= Cardinality(Started')
      /\ Cardinality(Started) \in Nat /\ Cardinality(Started') \in Nat
  <2>1. CASE Started' = Started
    BY <1>2, <2>1, Counting
  <2>2. CASE r \notin Started /\ Started' = Started \cup {r}
    BY <1>2, <2>2, Counting
  <2> QED
    BY <1>2, <2>1, <2>2
<1>4. pc' \in [Requests -> Stages \cup {"new", "done"}]
  BY DEF PoolInv
<1>5. /\ Disciplined(responseObjectPool, obj, allocated.obj, Users')
      /\ Disciplined(responseStatePool, st, allocated.st, Users')
  BY <1>2 DEF PoolInv, Disciplined
<1>6. allocated.obj <= Cardinality(Started') /\ allocated.st <= Cardinality(Started')
  BY <1>3, PoolFacts DEF PoolInv
<1>7. PoolInv'
  BY <1>1, <1>2, <1>4, <1>5, <1>6 DEF PoolInv
<1> QED
  BY <1>1, <1>2, <1>7

-----------------------------------------------------------------------------
(* What a response carries.                                                   *)

\* Until it is answered, a request's state was written by its own code only.
OwnInv ==
    /\ \A r \in Users : data[st[r]].by \subseteq {r}
    /\ \A r \in Requests : sent[r] \subseteq {r}

\* A step keeps the invariant, and the responses apart if finished ones are left alone.
Kept == IInv' /\ (~LateUse /\ OwnInv => OwnInv')

(* User code changes at most the state its object refers to, and adds itself   *)
(* to the writers of it.                                                      *)
LEMMA TouchStep ==
  ASSUME IInv, NEW r \in Requests, obj[r] \in Ids, NEW write \in Writes, Touch(r, write)
  PROVE  /\ data' \in [Ids -> Data]
         /\ write = "none" => data' = data
         /\ \A i \in Ids : i # stateOf[obj[r]] => data'[i] = data[i]
         /\ \A i \in Ids : data'[i].by \subseteq data[i].by \cup {r}
<1> DEFINE s == stateOf[obj[r]]
<1>1. CASE write = "none" \/ s = NULL
  BY <1>1 DEF Touch, IInv, RestInv
<1>2. CASE ~(write = "none" \/ s = NULL)
  <2>1. s \in Ids
    BY <1>2 DEF IInv, PoolInv
  <2>2. data' = [data EXCEPT ![s] = Written(data[s], r, write)]
    BY <1>2 DEF Touch
  <2>3. data \in [Ids -> Data] /\ data[s] \in Data
    BY <2>1 DEF IInv, RestInv
  <2> HIDE DEF s
  <2>4. Written(data[s], r, write) \in Data /\ Written(data[s], r, write).by \subseteq data[s].by \cup {r}
    <3>1. CASE write = "none"
      BY <3>1, <2>3 DEF Written
    <3>2. CASE write = "set"
      BY <3>2, <2>3 DEF Written, Data
    <3>3. CASE write \in {"finish", "stream"}
      BY <3>3, <2>3 DEF Written, Data
    <3> QED
      BY <3>1, <3>2, <3>3 DEF Writes
  <2> QED
    BY <1>2, <2>1, <2>2, <2>3, <2>4 DEF s
<1> QED
  BY <1>1, <1>2

(* A step of r's code that leaves the pools alone keeps the responses apart:    *)
(* it writes its own state, or nothing.                                       *)
LEMMA CodeStep ==
  ASSUME IInv, PoolInv', NEW r \in Requests, obj[r] \in Ids, NEW write \in Writes, Touch(r, write),
         obj' = obj, st' = st, sent' = sent, Users' \subseteq Users,
         turn' \in Requests \cup {NULL}, code' \in [Requests -> {"none", "running"}],
         fuel' \in [Requests -> 0..MaxAwaits],
         \A q \in Requests : q # r => code'[q] = code[q],
         r \notin Users /\ ~LateUse => write = "none"
  PROVE  Kept
<1>1. /\ data' \in [Ids -> Data]
      /\ write = "none" => data' = data
      /\ \A i \in Ids : i # stateOf[obj[r]] => data'[i] = data[i]
      /\ \A i \in Ids : data'[i].by \subseteq data[i].by \cup {r}
  BY TouchStep
<1>2. IInv'
  BY <1>1 DEF IInv, RestInv
<1>3. ASSUME ~LateUse, OwnInv PROVE OwnInv'
  <2>1. \A q \in Users' : data'[st[q]].by \subseteq {q}
    <3>1. CASE r \in Users
      BY <1>1, <1>3, <3>1, PoolFacts DEF IInv, OwnInv
    <3>2. CASE r \notin Users
      BY <1>1, <1>3, <3>2 DEF OwnInv
    <3> QED
      BY <3>1, <3>2
  <2> QED
    BY <1>3, <2>1 DEF OwnInv
<1> QED
  BY <1>2, <1>3 DEF Kept

(* A dispatch that begins with a cleared state.                                *)
LEMMA BeginStep ==
  ASSUME IInv, NEW r \in Requests, pc[r] = "new", NEW stage \in Stages, acquire(r),
         pc' = [pc EXCEPT ![r] = stage], turn' = r, UNCHANGED <<code, fuel, sent>>
  PROVE  Kept
<1>1. /\ PoolInv' /\ Users' = Users \cup {r} /\ r \notin Users
      /\ obj'[r] \in Ids /\ st'[r] \in Ids /\ data' = Cleared(st'[r])
      /\ \A q \in Requests : q # r => obj'[q] = obj[q] /\ st'[q] = st[q]
  BY AcquireStep DEF IInv
<1>2. FreshData \in Data /\ FreshData.by = {}
  BY DEF FreshData, Data
<1>3. /\ data' \in [Ids -> Data] /\ data'[st'[r]].by = {}
      /\ \A i \in Ids : i # st'[r] => data'[i] = data[i]
  BY <1>1, <1>2 DEF Cleared, IInv, RestInv
<1>4. IInv'
  BY <1>1, <1>3 DEF IInv, RestInv
<1>5. ASSUME OwnInv PROVE OwnInv'
  <2>1. \A q \in Users : q \in Requests /\ st'[q] = st[q] /\ st[q] \in Ids /\ st'[q] # st'[r]
    <3>1. \A q \in Users : q \in Users' /\ q \in Requests /\ q # r /\ st[q] \in Ids
      BY <1>1, PoolFacts DEF IInv, Users
    <3>2. \A q \in Users' : q # r => st'[q] # st'[r]
      BY <1>1 DEF PoolInv, Disciplined
    <3> QED
      BY <1>1, <3>1, <3>2
  <2>2. \A q \in Users' : data'[st'[q]].by \subseteq {q}
    BY <1>1, <1>3, <1>5, <2>1 DEF OwnInv
  <2> QED
    BY <1>5, <2>2 DEF OwnInv
<1> QED
  BY <1>4, <1>5 DEF Kept

(* A dispatch that ends, with an answer of its own writing.                    *)
LEMMA EndStep ==
  ASSUME IInv, PoolInv', NEW r \in Requests, Users' \subseteq Users, obj' = obj, st' = st, data' = data,
         turn' \in Requests \cup {NULL}, fuel' = fuel,
         code' = code \/ code' = [code EXCEPT ![r] = "none"],
         NEW by \in SUBSET Requests, sent' = [sent EXCEPT ![r] = by],
         OwnInv => by \subseteq {r}
  PROVE  Kept
<1>1. IInv'
  BY DEF IInv, RestInv
<1>2. OwnInv => OwnInv'
  BY DEF OwnInv, IInv, RestInv
<1> QED
  BY <1>1, <1>2 DEF Kept

-----------------------------------------------------------------------------
(* One step per action.                                                       *)

LEMMA InitInv == Init => IInv /\ OwnInv
<1> SUFFICES ASSUME Init PROVE IInv /\ OwnInv
  OBVIOUS
<1>1. Users = {} /\ Started = {}
  BY DEF Init, Users, Started, InUse
<1>2. Cardinality({}) = 0
  BY FS_EmptySet
<1>3. /\ allocated.obj = 0 /\ allocated.st = 0 /\ allocated = [obj |-> 0, st |-> 0]
      /\ responseObjectPool = <<>> /\ responseStatePool = <<>>
  BY DEF Init
<1>4. <<>> \in Seq(1..0) /\ IsInjective(<<>>) /\ Len(<<>>) = 0
  BY DEF IsInjective
<1>5. Disciplined(<<>>, obj, 0, {}) /\ Disciplined(<<>>, st, 0, {})
  BY <1>4, DispatcherAssumption DEF Disciplined
<1>6. PoolInv
  BY <1>1, <1>2, <1>3, <1>5 DEF Init, PoolInv
<1>7. FreshData \in Data
  BY DEF FreshData, Data
<1>8. \A r \in Requests : code[r] # "running"
  BY DEF Init
<1>9. RestInv
  BY <1>7, <1>8, DispatcherAssumption DEF Init, RestInv
<1> QED
  BY <1>1, <1>6, <1>9 DEF Init, IInv, OwnInv

LEMMA BeginKept == ASSUME IInv, NEW r \in Requests, Begin(r) \/ BeginNotFound(r) PROVE Kept
<1>1. PICK stage \in Stages : pc' = [pc EXCEPT ![r] = stage]
  BY DEF Begin, BeginNotFound, Stages
<1> QED
  BY <1>1, BeginStep DEF Begin, BeginNotFound

LEMMA RejectedKept == ASSUME IInv, NEW r \in Requests, BeginRejected(r) PROVE Kept
<1>1. /\ pc[r] = "new" /\ pc' = [pc EXCEPT ![r] = "done"]
      /\ UNCHANGED <<turn, code, fuel, data, poolVars, sent>>
  BY DEF BeginRejected
<1>2. PoolInv' /\ Users' \subseteq Users /\ obj' = obj /\ st' = st
  BY <1>1, KeepStep DEF IInv
<1> QED
  BY <1>1, <1>2 DEF Kept, IInv, RestInv, OwnInv

LEMMA CallKept == ASSUME IInv, NEW r \in Requests, Call(r) PROVE Kept
<1>1. PICK write \in Writes, ends \in {"return", "await", "throw", "reject"} :
        /\ Touch(r, write)
        /\ pc' = [pc EXCEPT ![r] = AfterCall(r, pc[r], ends, data')]
        /\ code' = [code EXCEPT ![r] = IF ends = "await" THEN "running" ELSE "none"]
        /\ turn' = IF pc'[r] \in {"mwWait", "handlerWait"} THEN NULL ELSE r
  BY DEF Call
<1>2. pc[r] \in Stages /\ r \in Users /\ UNCHANGED <<fuel, poolVars, sent>>
  BY DEF Call, Stages, Users, InUse
<1>3. AfterCall(r, pc[r], ends, data') \in Stages
  BY <1>1 DEF AfterCall, Stages
<1>4. PoolInv' /\ Users' \subseteq Users /\ obj' = obj /\ st' = st
  <2> HIDE DEF Stages
  <2>1. pc[r] # "new" /\ pc[r] # "done"
    BY DEF Call
  <2> QED
    BY <1>1, <1>2, <1>3, <2>1, KeepStep DEF IInv
<1>5. obj[r] \in Ids
  BY <1>2, PoolFacts DEF IInv
<1>6. turn' \in Requests \cup {NULL} /\ code' \in [Requests -> {"none", "running"}]
      /\ fuel' \in [Requests -> 0..MaxAwaits] /\ sent' = sent
      /\ \A q \in Requests : q # r => code'[q] = code[q]
  BY <1>1, <1>2 DEF IInv, RestInv
<1> QED
  BY <1>1, <1>2, <1>4, <1>5, <1>6, CodeStep

LEMMA ResumeKept == ASSUME IInv, NEW r \in Requests, Resume(r) PROVE Kept
<1>1. PICK write \in Writes, ends \in {"return", "await", "reject"} :
        /\ ~Awaited(r) /\ ~LateUse => write = "none"
        /\ ends = "await" => fuel[r] > 0
        /\ Touch(r, write)
        /\ LET outcome == IF Throws(r, write) THEN "reject" ELSE ends IN
           /\ fuel' = [fuel EXCEPT ![r] = IF outcome = "await" THEN fuel[r] - 1 ELSE fuel[r]]
           /\ code' = [code EXCEPT ![r] = IF outcome = "await" THEN "running" ELSE "none"]
           /\ IF Awaited(r) /\ outcome # "await"
              THEN /\ pc' = [pc EXCEPT ![r] = AfterAwait(r, outcome, data')]
                   /\ turn' = r
              ELSE UNCHANGED <<pc, turn>>
  BY DEF Resume
<1>2. code[r] = "running" /\ turn = NULL /\ UNCHANGED <<poolVars, sent>>
  BY DEF Resume
<1>3. obj[r] \in Ids /\ sent' = sent
  BY <1>2 DEF IInv, RestInv
<1>4. PoolInv' /\ Users' \subseteq Users /\ obj' = obj /\ st' = st
  <2>1. CASE UNCHANGED pc
    BY <1>2, <2>1 DEF IInv, PoolInv, poolVars, Users, Started, InUse, Disciplined
  <2>2. CASE ~UNCHANGED pc
    <3>1. PICK outcome : pc' = [pc EXCEPT ![r] = AfterAwait(r, outcome, data')]
      BY <1>1, <2>2
    <3>2. Awaited(r)
      BY <1>1, <2>2
    <3>3. AfterAwait(r, outcome, data') \in Stages /\ pc[r] # "new" /\ pc[r] # "done"
      BY <3>2 DEF AfterAwait, Stages, Awaited
    <3> QED
      BY <1>2, <3>1, <3>3, KeepStep DEF IInv
  <2> QED
    BY <2>1, <2>2
<1>5. fuel[r] \in 0..MaxAwaits /\ MaxAwaits \in Nat /\ fuel \in [Requests -> 0..MaxAwaits]
  BY DispatcherAssumption DEF IInv, RestInv
<1>6. fuel' \in [Requests -> 0..MaxAwaits]
  BY <1>1, <1>5
<1>7. turn' \in Requests \cup {NULL} /\ code' \in [Requests -> {"none", "running"}]
      /\ \A q \in Requests : q # r => code'[q] = code[q]
  BY <1>1, <1>2 DEF IInv, RestInv
<1>8. r \notin Users => ~Awaited(r)
  BY DEF Awaited, Users, InUse
<1> QED
  BY <1>1, <1>3, <1>4, <1>6, <1>7, <1>8, CodeStep

LEMMA FinalizeKept == ASSUME IInv, NEW r \in Requests, Finalize(r) PROVE Kept
<1> DEFINE by == data[st[r]].by
<1>1. /\ pc[r] = "finalize" /\ sent' = [sent EXCEPT ![r] = by] /\ turn' = NULL
      /\ pc' = [pc EXCEPT ![r] = "done"] /\ code' = code /\ fuel' = fuel
      /\ (UNCHANGED <<poolVars, data>>) \/ release(r)
  BY DEF Finalize
<1>2. r \in Users /\ st[r] \in Ids
  BY <1>1, PoolFacts DEF Users, InUse, IInv
<1>3. by \in SUBSET Requests /\ (OwnInv => by \subseteq {r})
  BY <1>2 DEF IInv, RestInv, Data, OwnInv
<1>4. PoolInv' /\ Users' \subseteq Users /\ obj' = obj /\ st' = st /\ data' = data
  <2>1. CASE UNCHANGED <<poolVars, data>>
    BY <1>1, <2>1, KeepStep DEF IInv
  <2>2. CASE release(r)
    BY <1>1, <1>2, <2>2, ReleaseStep DEF IInv
  <2> QED
    BY <1>1, <2>1, <2>2
<1> HIDE DEF by
<1> QED
  BY <1>1, <1>3, <1>4, EndStep

(* Both ways in which finalizeError ends the dispatch.                         *)
LEMMA ErrorEndKept ==
  ASSUME IInv, NEW r \in Requests, ErrorFinal(r) \/ ErrorHandlerFails(r)
  PROVE  Kept
<1>1. PICK failed \in BOOLEAN : ErrorDone(r, data, failed)
  BY DEF ErrorFinal, ErrorHandlerFails
<1> DEFINE by == IF data[st[r]].finished /\ ~failed THEN data[st[r]].by ELSE {}
<1>2. /\ sent' = [sent EXCEPT ![r] = by] /\ turn' = NULL
      /\ pc' = [pc EXCEPT ![r] = "done"]
  BY <1>1 DEF ErrorDone
<1>3. /\ r \in Users /\ release(r) /\ fuel' = fuel
      /\ code' = code \/ code' = [code EXCEPT ![r] = "none"]
  BY DEF ErrorFinal, ErrorHandlerFails, Users, InUse
<1>4. st[r] \in Ids
  BY <1>3, PoolFacts DEF IInv
<1>5. by \in SUBSET Requests /\ (OwnInv => by \subseteq {r})
  BY <1>3, <1>4 DEF IInv, RestInv, Data, OwnInv
<1>6. PoolInv' /\ Users' \subseteq Users /\ obj' = obj /\ st' = st /\ data' = data
  BY <1>2, <1>3, ReleaseStep DEF IInv
<1> HIDE DEF by
<1> QED
  BY <1>2, <1>3, <1>5, <1>6, EndStep

LEMMA ErrorCodeKept ==
  ASSUME IInv, NEW r \in Requests, ErrorCall(r) \/ ErrorResume(r)
  PROVE  Kept
<1>1. PICK write \in Writes : Touch(r, write)
  BY DEF ErrorCall, ErrorResume
<1>2. /\ pc[r] \in {"error", "errorWait"} /\ UNCHANGED <<fuel, poolVars, sent>>
      /\ turn' \in {r, NULL}
  BY DEF ErrorCall, ErrorResume
<1>3. PICK c \in {"none", "running"} : code' = [code EXCEPT ![r] = c]
  <2>1. CASE ErrorCall(r)
    BY <2>1 DEF ErrorCall
  <2>2. CASE ErrorResume(r)
    BY <2>2 DEF ErrorResume
  <2> QED
    BY <2>1, <2>2
<1>4. PICK to \in {"error", "errorWait"} : pc' = [pc EXCEPT ![r] = to]
  <2>1. CASE ErrorCall(r)
    BY <2>1 DEF ErrorCall
  <2>2. CASE ErrorResume(r)
    BY <2>2 DEF ErrorResume
  <2> QED
    BY <2>1, <2>2
<1>5. PoolInv' /\ Users' \subseteq Users /\ obj' = obj /\ st' = st
  <2>1. to \in Stages /\ pc[r] # "new" /\ pc[r] # "done"
    BY <1>2 DEF Stages
  <2> QED
    BY <1>2, <1>4, <2>1, KeepStep DEF IInv
<1>6. r \in Users /\ obj[r] \in Ids
  BY <1>2, PoolFacts DEF IInv, Users, InUse
<1>7. turn' \in Requests \cup {NULL} /\ code' \in [Requests -> {"none", "running"}]
      /\ fuel' \in [Requests -> 0..MaxAwaits] /\ sent' = sent
      /\ \A q \in Requests : q # r => code'[q] = code[q]
  BY <1>2, <1>3 DEF IInv, RestInv
<1> QED
  BY <1>1, <1>5, <1>6, <1>7, CodeStep

LEMMA StepKept == IInv /\ [Next]_vars => Kept
<1> SUFFICES ASSUME IInv, [Next]_vars PROVE Kept
  OBVIOUS
<1>1. ASSUME NEW r \in Requests, Dispatch(r) \/ Resume(r) PROVE Kept
  BY <1>1, BeginKept, RejectedKept, CallKept, ResumeKept, FinalizeKept, ErrorEndKept,
     ErrorCodeKept DEF Dispatch
<1>2. CASE UNCHANGED vars
  <2>1. PoolInv'
    BY <1>2 DEF vars, poolVars, IInv, PoolInv, Users, Started, InUse, Disciplined
  <2>2. RestInv'
    BY <1>2 DEF vars, poolVars, IInv, RestInv
  <2>3. OwnInv => OwnInv'
    BY <1>2 DEF vars, poolVars, OwnInv, Users, InUse
  <2> QED
    BY <2>1, <2>2, <2>3 DEF Kept, IInv
<1> QED
  BY <1>1, <1>2 DEF Next

-----------------------------------------------------------------------------

(* createDispatcher (index.js:243-291, 517-544, 714-905) keeps its pools within *)
(* RESPONSE_POOL_MAX and never hands an object or a state to two dispatches in  *)
(* progress, nor pools one that is in use, whatever user code does, late uses   *)
(* of a finished response included.                                            *)
THEOREM PoolsStayExclusive == Spec => []PoolsExclusive
<1>1. IInv /\ [Next]_vars => IInv'
  BY StepKept DEF Kept
<1>2. IInv => PoolsExclusive
  <2> SUFFICES ASSUME IInv PROVE PoolsExclusive
    OBVIOUS
  <2>1. TypeOK
    BY DEF IInv, PoolInv, RestInv, TypeOK, Disciplined, Stages, Data
  <2>2. \A r \in Requests : InUse(r) <=> r \in Users
    BY DEF Users
  <2>3. Exclusive
    BY <2>2 DEF IInv, PoolInv, Disciplined, Exclusive
  <2> QED
    BY <2>1, <2>3 DEF PoolsExclusive
<1> QED
  BY InitInv, <1>1, <1>2, PTL DEF Spec

(* A response carries nothing that another request's code wrote (index.js:267  *)
(* "prevent cross-request data leakage"), provided that user code leaves its    *)
(* response alone once it has finished it; with late uses it does not hold.     *)
THEOREM ResponsesAreOwn == ASSUME ~LateUse PROVE Spec => []OwnResponse
<1>1. IInv /\ OwnInv /\ [Next]_vars => IInv' /\ OwnInv'
  BY StepKept DEF Kept
<1>2. OwnInv => OwnResponse
  BY DEF OwnInv, OwnResponse
<1> QED
  BY InitInv, <1>1, <1>2, PTL DEF Spec

-----------------------------------------------------------------------------
(* Streamed bodies                                                            *)

Items == Chunks \cup {End}

(* The chunks in q are, in order, those that a holds behind its first k. *)
Carries(q, a, k) ==
    \E f \in [k + 1..Len(a) -> 1..Len(q)] :
        /\ \A i, j \in k + 1..Len(a) : i < j => f[i] < f[j]
        /\ \A j \in 1..Len(q) : q[j] \in Payloads <=> \E i \in k + 1..Len(a) : f[i] = j
        /\ \A i \in k + 1..Len(a) : a[i] = q[f[i]]

(* What has reached the client, what its worker holds and what is queued are  *)
(* the chunks that were accepted, until the worker stops piping.              *)
Piped(s) ==
    /\ Len(delivered[s]) <= Len(accepted[s])
    /\ \A i \in 1..Len(delivered[s]) : delivered[s][i] = accepted[s][i]
    /\ worker[s] \in {"dispatch", "insert", "header", "recv", "final"} =>
            Carries(chan[s], accepted[s], Len(delivered[s]))
    /\ worker[s] = "chunk" =>
            /\ Len(delivered[s]) < Len(accepted[s])
            /\ writing[s] = accepted[s][Len(delivered[s]) + 1]
            /\ Carries(chan[s], accepted[s], Len(delivered[s]) + 1)
    /\ terminated[s] => delivered[s] = accepted[s]

(* End is the last message, sent once, by an end() that found the stream.     *)
Closed(s) ==
    /\ handler[s] \in {"idle", "created"} => worker[s] = "dispatch"
    /\ s \in registry => worker[s] \notin {"dispatch", "insert"} /\ ended[s] # "sent"
    /\ worker[s] \in {"dispatch", "insert"} => ended[s] # "sent"
    /\ \A i \in 1..Len(chan[s]) : chan[s][i] = End => i = Len(chan[s]) /\ ended[s] = "sent"
    /\ worker[s] = "final" => ended[s] = "sent" /\ chan[s] = <<>>
    /\ terminated[s] => ended[s] = "sent" /\ worker[s] \in {"remove", "done"}

(* The send JS is blocked in: a write keeps its stream registered, an end has *)
(* taken the sender and is the first.                                         *)
WriteBlocked == /\ blocked \in [op : {"write"}, stream : Streams, msg : Chunks]
                /\ blocked.stream \in registry /\ writes < MaxWrites
EndBlocked ==
    /\ blocked \in [op : {"end"}, stream : Streams, msg : {End}]
    /\ ended[blocked.stream] = "sent"
    /\ worker[blocked.stream] # "final" /\ ~terminated[blocked.stream]
    /\ \A i \in 1..Len(chan[blocked.stream]) : chan[blocked.stream][i] # End
SendsAreValid == blocked = NotBlocked \/ WriteBlocked \/ EndBlocked

StreamInv == StreamTypeOK /\ (\A s \in Streams : Piped(s) /\ Closed(s)) /\ SendsAreValid

-----------------------------------------------------------------------------
(* Queues                                                                     *)

(* A chunk that is queued is one more to come. *)
LEMMA CarriesChunk ==
  ASSUME NEW q \in Seq(Items), NEW a \in Seq(Payloads), NEW k \in Nat, k <= Len(a), NEW c \in Payloads,
         Carries(q, a, k)
  PROVE  Carries(Append(q, c), Append(a, c), k)
<1> DEFINE b == Append(a, c)
           r == Append(q, c)
<1>1. /\ Len(b) = Len(a) + 1 /\ \A i \in 1..Len(a) : b[i] = a[i]
      /\ b[Len(a) + 1] = c /\ Len(a) \in Nat
  OBVIOUS
<1>2. /\ Len(r) = Len(q) + 1 /\ \A i \in 1..Len(q) : r[i] = q[i]
      /\ r[Len(q) + 1] = c /\ Len(q) \in Nat
  BY DEF Items, Chunks
<1> HIDE DEF b, r
<1>3. PICK f \in [k + 1..Len(a) -> 1..Len(q)] :
          /\ \A i, j \in k + 1..Len(a) : i < j => f[i] < f[j]
          /\ \A j \in 1..Len(q) : q[j] \in Payloads <=> \E i \in k + 1..Len(a) : f[i] = j
          /\ \A i \in k + 1..Len(a) : a[i] = q[f[i]]
  BY DEF Carries
<1> DEFINE g == [i \in k + 1..Len(b) |-> IF i = Len(b) THEN Len(r) ELSE f[i]]
<1>4. g[Len(b)] = Len(r) /\ \A i \in k + 1..Len(a) : g[i] = f[i] /\ g[i] \in 1..Len(q)
  BY <1>1, <1>3
<1>5. g \in [k + 1..Len(b) -> 1..Len(r)]
  BY <1>1, <1>2, <1>3
<1> HIDE DEF g
<1>6. \A i, j \in k + 1..Len(b) : i < j => g[i] < g[j]
  <2> TAKE i \in k + 1..Len(b), j \in k + 1..Len(b)
  <2> HAVE i < j
  <2>1. i \in k + 1..Len(a)
    BY <1>1
  <2>2. CASE j = Len(b)
    BY <1>2, <1>4, <2>1, <2>2
  <2>3. CASE j \in k + 1..Len(a)
    BY <1>3, <1>4, <2>1, <2>3
  <2> QED
    BY <1>1, <2>2, <2>3
<1>7. ASSUME NEW j \in 1..Len(r) PROVE r[j] \in Payloads <=> \E i \in k + 1..Len(b) : g[i] = j
  <2>1. CASE j = Len(r)
    BY <1>1, <1>2, <1>4, <2>1
  <2>2. CASE j \in 1..Len(q)
    <3>1. r[j] \in Payloads <=> \E i \in k + 1..Len(a) : f[i] = j
      BY <1>2, <1>3, <2>2
    <3>2. g[Len(b)] # j
      BY <1>2, <1>4, <2>2
    <3>3. \A i \in k + 1..Len(b) : i = Len(b) \/ i \in k + 1..Len(a)
      BY <1>1
    <3>4. \A i \in k + 1..Len(a) : i \in k + 1..Len(b)
      BY <1>1
    <3> QED
      BY <1>4, <3>1, <3>2, <3>3, <3>4
  <2> QED
    BY <1>2, <2>1, <2>2
<1>8. ASSUME NEW i \in k + 1..Len(b) PROVE b[i] = r[g[i]]
  <2>1. CASE i = Len(b)
    BY <1>1, <1>2, <1>4, <2>1
  <2>2. CASE i \in k + 1..Len(a)
    BY <1>1, <1>2, <1>3, <1>4, <2>2
  <2> QED
    BY <1>1, <2>1, <2>2
<1> QED
  BY <1>5, <1>6, <1>7, <1>8 DEF Carries, b, r

(* An empty chunk or End adds nothing to come. *)
LEMMA CarriesOther ==
  ASSUME NEW q \in Seq(Items), NEW a \in Seq(Payloads), NEW k \in Nat, NEW m \in Items \ Payloads,
         Carries(q, a, k)
  PROVE  Carries(Append(q, m), a, k)
<1> DEFINE r == Append(q, m)
<1>2. /\ Len(r) = Len(q) + 1 /\ \A i \in 1..Len(q) : r[i] = q[i]
      /\ r[Len(q) + 1] = m /\ Len(q) \in Nat
  OBVIOUS
<1> HIDE DEF r
<1>3. PICK f \in [k + 1..Len(a) -> 1..Len(q)] :
          /\ \A i, j \in k + 1..Len(a) : i < j => f[i] < f[j]
          /\ \A j \in 1..Len(q) : q[j] \in Payloads <=> \E i \in k + 1..Len(a) : f[i] = j
          /\ \A i \in k + 1..Len(a) : a[i] = q[f[i]]
  BY DEF Carries
<1>4. f \in [k + 1..Len(a) -> 1..Len(r)]
  BY <1>2, <1>3
<1>5. ASSUME NEW j \in 1..Len(r) PROVE r[j] \in Payloads <=> \E i \in k + 1..Len(a) : f[i] = j
  <2>1. CASE j = Len(r)
    <3>1. r[j] \notin Payloads
      BY <1>2, <2>1
    <3>2. \A i \in k + 1..Len(a) : f[i] \in 1..Len(q) /\ f[i] # j
      BY <1>2, <1>3, <2>1
    <3> QED
      BY <3>1, <3>2
  <2>2. CASE j \in 1..Len(q)
    BY <1>2, <1>3, <2>2
  <2> QED
    BY <1>2, <2>1, <2>2
<1>6. \A i \in k + 1..Len(a) : a[i] = r[f[i]]
  BY <1>2, <1>3
<1> QED
  BY <1>3, <1>4, <1>5, <1>6 DEF Carries, r

(* Taking what is not a chunk leaves what is to come. *)
LEMMA TakeOther ==
  ASSUME NEW q \in Seq(Items), NEW a \in Seq(Payloads), NEW k \in Nat, q # <<>>, Head(q) \notin Payloads,
         Carries(q, a, k)
  PROVE  Carries(Tail(q), a, k)
<1> DEFINE r == Tail(q)
<1>2. /\ Len(q) \in Nat \ {0} /\ Len(r) = Len(q) - 1 /\ \A i \in 1..Len(r) : r[i] = q[i + 1]
      /\ q[1] = Head(q)
  OBVIOUS
<1> HIDE DEF r
<1>3. PICK f \in [k + 1..Len(a) -> 1..Len(q)] :
          /\ \A i, j \in k + 1..Len(a) : i < j => f[i] < f[j]
          /\ \A j \in 1..Len(q) : q[j] \in Payloads <=> \E i \in k + 1..Len(a) : f[i] = j
          /\ \A i \in k + 1..Len(a) : a[i] = q[f[i]]
  BY DEF Carries
<1>4. \A i \in k + 1..Len(a) : f[i] \in 2..Len(q)
  BY <1>2, <1>3
<1> DEFINE g == [i \in k + 1..Len(a) |-> f[i] - 1]
<1>5. g \in [k + 1..Len(a) -> 1..Len(r)] /\ \A i \in k + 1..Len(a) : g[i] = f[i] - 1
  BY <1>2, <1>4
<1> HIDE DEF g
<1>6. \A i, j \in k + 1..Len(a) : i < j => g[i] < g[j]
  BY <1>3, <1>4, <1>5
<1>7. ASSUME NEW j \in 1..Len(r) PROVE r[j] \in Payloads <=> \E i \in k + 1..Len(a) : g[i] = j
  <2>1. j + 1 \in 1..Len(q) /\ r[j] = q[j + 1]
    BY <1>2
  <2>2. r[j] \in Payloads <=> \E i \in k + 1..Len(a) : f[i] = j + 1
    BY <1>3, <2>1
  <2>3. \A i \in k + 1..Len(a) : f[i] = j + 1 <=> g[i] = j
    BY <1>4, <1>5
  <2> QED
    BY <2>2, <2>3
<1>8. \A i \in k + 1..Len(a) : a[i] = r[g[i]]
  BY <1>2, <1>3, <1>4, <1>5
<1> QED
  BY <1>5, <1>6, <1>7, <1>8 DEF Carries, r

(* A chunk that is taken is the next of what was accepted. *)
LEMMA TakeChunk ==
  ASSUME NEW q \in Seq(Items), NEW a \in Seq(Payloads), NEW k \in Nat, q # <<>>, Head(q) \in Payloads,
         Carries(q, a, k)
  PROVE  k < Len(a) /\ Head(q) = a[k + 1] /\ Carries(Tail(q), a, k + 1)
<1> DEFINE r == Tail(q)
<1>2. /\ Len(q) \in Nat \ {0} /\ Len(r) = Len(q) - 1 /\ \A i \in 1..Len(r) : r[i] = q[i + 1]
      /\ q[1] = Head(q) /\ Len(a) \in Nat
  OBVIOUS
<1> HIDE DEF r
<1>3. PICK f \in [k + 1..Len(a) -> 1..Len(q)] :
          /\ \A i, j \in k + 1..Len(a) : i < j => f[i] < f[j]
          /\ \A j \in 1..Len(q) : q[j] \in Payloads <=> \E i \in k + 1..Len(a) : f[i] = j
          /\ \A i \in k + 1..Len(a) : a[i] = q[f[i]]
  BY DEF Carries
<1>4. PICK first \in k + 1..Len(a) : f[first] = 1
  BY <1>2, <1>3
<1>5. first = k + 1
  <2>1. k + 1 \in k + 1..Len(a) /\ k + 1 <= first /\ first \in Nat
    BY <1>2
  <2>2. f[k + 1] \in 1..Len(q)
    BY <1>3, <2>1
  <2>3. k + 1 < first => f[k + 1] < f[first]
    BY <1>3, <2>1
  <2> QED
    BY <1>2, <1>4, <2>1, <2>2, <2>3
<1>6. k < Len(a) /\ Head(q) = a[k + 1] /\ f[k + 1] = 1
  <2>1. a[first] = q[f[first]]
    BY <1>3
  <2> QED
    BY <1>2, <1>4, <1>5, <2>1
<1> DEFINE n == k + 1
<1>7. n = k + 1 /\ n \in Nat
  OBVIOUS
<1> HIDE DEF n
<1>8. \A i \in n + 1..Len(a) : i \in k + 1..Len(a) /\ k + 1 \in k + 1..Len(a) /\ k + 1 < i
  BY <1>2, <1>7
<1>9. \A i \in n + 1..Len(a) : f[i] \in 2..Len(q)
  <2> TAKE i \in n + 1..Len(a)
  <2>1. f[i] \in 1..Len(q) /\ f[k + 1] < f[i]
    BY <1>3, <1>8
  <2> QED
    BY <1>2, <1>6, <2>1
<1> DEFINE g == [i \in n + 1..Len(a) |-> f[i] - 1]
<1>10. g \in [n + 1..Len(a) -> 1..Len(r)] /\ \A i \in n + 1..Len(a) : g[i] = f[i] - 1
  BY <1>2, <1>9
<1> HIDE DEF g
<1>11. \A i, j \in n + 1..Len(a) : i < j => g[i] < g[j]
  BY <1>3, <1>8, <1>9, <1>10
<1>12. ASSUME NEW j \in 1..Len(r) PROVE r[j] \in Payloads <=> \E i \in n + 1..Len(a) : g[i] = j
  <2>1. j + 1 \in 1..Len(q) /\ r[j] = q[j + 1] /\ j + 1 # 1
    BY <1>2
  <2>2. r[j] \in Payloads <=> \E i \in k + 1..Len(a) : f[i] = j + 1
    BY <1>3, <2>1
  <2>3. \A i \in k + 1..Len(a) : i = k + 1 \/ i \in n + 1..Len(a)
    BY <1>7
  <2>4. \A i \in n + 1..Len(a) : f[i] = j + 1 <=> g[i] = j
    BY <1>9, <1>10
  <2>5. (\E i \in k + 1..Len(a) : f[i] = j + 1) <=> \E i \in n + 1..Len(a) : f[i] = j + 1
    BY <1>6, <1>8, <2>1, <2>3
  <2> QED
    BY <2>2, <2>4, <2>5
<1>13. ASSUME NEW i \in n + 1..Len(a) PROVE a[i] = r[g[i]]
  <2>1. a[i] = q[f[i]]
    BY <1>3, <1>8
  <2>2. g[i] \in 1..Len(r) /\ g[i] + 1 = f[i]
    BY <1>9, <1>10
  <2> QED
    BY <1>2, <2>1, <2>2
<1>14. Carries(r, a, n)
  BY <1>10, <1>11, <1>12, <1>13 DEF Carries
<1> QED
  BY <1>6, <1>7, <1>14 DEF r

(* An empty queue carries nothing. *)
LEMMA NothingQueued ==
  /\ Carries(<<>>, <<>>, 0)
  /\ \A a \in Seq(Payloads), k \in Nat : Carries(<<>>, a, k) /\ k <= Len(a) => k = Len(a)
<1>1. Carries(<<>>, <<>>, 0)
  <2>1. [i \in 0 + 1..Len(<<>>) |-> 0] \in [0 + 1..Len(<<>>) -> 1..Len(<<>>)]
    OBVIOUS
  <2>2. \A i \in 0 + 1..Len(<<>>) : FALSE
    OBVIOUS
  <2>3. \A i \in 1..Len(<<>>) : FALSE
    OBVIOUS
  <2> QED
    BY <2>1, <2>2, <2>3 DEF Carries
<1>2. ASSUME NEW a \in Seq(Payloads), NEW k \in Nat, Carries(<<>>, a, k), k < Len(a) PROVE FALSE
  <2>1. PICK f \in [k + 1..Len(a) -> 1..Len(<<>>)] : TRUE
    BY <1>2 DEF Carries
  <2>2. k + 1 \in k + 1..Len(a) /\ Len(<<>>) = 0
    BY <1>2
  <2>3. f[k + 1] \in 1..0
    BY <2>1, <2>2
  <2> QED
    BY <2>3
<1>3. ASSUME NEW a \in Seq(Payloads), NEW k \in Nat, Carries(<<>>, a, k), k <= Len(a) PROVE k = Len(a)
  BY <1>2, <1>3
<1> QED
  BY <1>1, <1>3
-----------------------------------------------------------------------------
(* Steps                                                                      *)

(* A stream that a step does not concern. *)
LEMMA StreamUnaffected ==
  ASSUME NEW t \in Streams, Piped(t), Closed(t),
         chan'[t] = chan[t], accepted'[t] = accepted[t], delivered'[t] = delivered[t],
         worker'[t] = worker[t], writing'[t] = writing[t], terminated'[t] = terminated[t],
         ended'[t] = ended[t], handler'[t] = handler[t], t \in registry' <=> t \in registry
  PROVE  Piped(t)' /\ Closed(t)'
<1>1. Piped(t)'
  BY DEF Piped
<1>2. Closed(t)'
  BY DEF Closed
<1> QED
  BY <1>1, <1>2

(* The types of one stream's values. *)
LEMMA StreamTypes ==
  ASSUME StreamTypeOK, NEW t \in Streams
  PROVE  /\ chan[t] \in Seq(Items) /\ Len(chan[t]) \in 0..Capacity /\ Len(chan[t]) \in Nat
         /\ accepted[t] \in Seq(Payloads) /\ Len(accepted[t]) \in Nat
         /\ delivered[t] \in Seq(Payloads) /\ Len(delivered[t]) \in Nat
         /\ Capacity \in Nat \ {0}
  BY StreamAssumption DEF StreamTypeOK, Items

(* Queues and what was accepted after a message is put behind the others. *)
LEMMA PutTypes ==
  ASSUME StreamTypeOK, NEW s \in Streams, NEW m \in Items, HasRoom(s),
         chan' = [chan EXCEPT ![s] = Append(@, m)]
  PROVE  /\ chan' \in [Streams -> Seq(Chunks \cup {End})] /\ \A t \in Streams : Len(chan'[t]) <= Capacity
         /\ \A t \in Streams : t # s => chan'[t] = chan[t]
         /\ chan'[s] = Append(chan[s], m) /\ Len(chan'[s]) = Len(chan[s]) + 1
         /\ chan'[s][Len(chan[s]) + 1] = m /\ \A i \in 1..Len(chan[s]) : chan'[s][i] = chan[s][i]
<1>1. chan'[s] = Append(chan[s], m) /\ \A t \in Streams : t # s => chan'[t] = chan[t]
  BY DEF StreamTypeOK
<1>2. /\ Append(chan[s], m) \in Seq(Items) /\ Len(Append(chan[s], m)) = Len(chan[s]) + 1
      /\ Append(chan[s], m)[Len(chan[s]) + 1] = m
      /\ \A i \in 1..Len(chan[s]) : Append(chan[s], m)[i] = chan[s][i]
  BY StreamTypes
<1>3. chan' \in [Streams -> Seq(Chunks \cup {End})]
  BY <1>2 DEF StreamTypeOK, Items
<1>4. Len(chan[s]) + 1 <= Capacity
  BY StreamTypes DEF HasRoom
<1> QED
  BY <1>1, <1>2, <1>3, <1>4 DEF StreamTypeOK

(* A chunk that stream_write put into the channel. *)
LEMMA PutChunk ==
  ASSUME StreamTypeOK, NEW s \in Streams, NEW c \in Chunks, HasRoom(s), Piped(s), Closed(s),
         s \in registry, Accepts(s, c), writes < MaxWrites,
         chan' = [chan EXCEPT ![s] = Append(@, c)],
         UNCHANGED <<handler, ended, registry, worker, client>>, UNCHANGED wireVars
  PROVE  StreamTypeOK' /\ Piped(s)' /\ Closed(s)' /\ \A t \in Streams : t # s => accepted'[t] = accepted[t]
<1> USE DEF wireVars
<1>1. /\ accepted'[s] = (IF c = Empty THEN accepted[s] ELSE Append(accepted[s], c))
      /\ \A t \in Streams : t # s => accepted'[t] = accepted[t]
      /\ accepted' \in [Streams -> Seq(Payloads)]
  <2>1. c # Empty => c \in Payloads
    BY DEF Chunks
  <2>2. c # Empty => Append(accepted[s], c) \in Seq(Payloads)
    BY <2>1, StreamTypes
  <2> QED
    BY <2>2 DEF Accepts, StreamTypeOK
<1>2. c \in Items
  BY DEF Items
<1>3. writes' \in 0..MaxWrites
  BY StreamAssumption DEF StreamTypeOK, Accepts
<1>4. StreamTypeOK'
  BY <1>1, <1>2, <1>3, PutTypes DEF StreamTypeOK
<1>5. /\ Len(accepted[s]) <= Len(accepted'[s])
      /\ \A i \in 1..Len(accepted[s]) : accepted'[s][i] = accepted[s][i]
  <2>1. CASE c = Empty
    BY <1>1, <2>1, StreamTypes
  <2>2. CASE c # Empty
    <3>1. accepted'[s] = Append(accepted[s], c)
      BY <1>1, <2>2
    <3> QED
      BY <3>1, StreamTypes
  <2> QED
    BY <2>1, <2>2
<1>6. ASSUME NEW k \in Nat, k <= Len(accepted[s]), Carries(chan[s], accepted[s], k)
      PROVE  Carries(chan'[s], accepted'[s], k)
  <2>1. CASE c = Empty
    <3>1. c \in Items \ Payloads
      BY <1>2, <2>1, StreamAssumption
    <3> QED
      BY <1>1, <1>6, <2>1, <3>1, CarriesOther, StreamTypes, PutTypes, <1>2
  <2>2. CASE c # Empty
    <3>1. c \in Payloads
      BY <2>2 DEF Chunks
    <3>2. chan[s] \in Seq(Items) /\ accepted[s] \in Seq(Payloads)
      BY StreamTypes
    <3>3. Carries(Append(chan[s], c), Append(accepted[s], c), k)
      BY <1>6, <3>1, <3>2, CarriesChunk
    <3>4. chan'[s] = Append(chan[s], c) /\ accepted'[s] = Append(accepted[s], c)
      BY <1>1, <1>2, <2>2, PutTypes
    <3> QED
      BY <3>3, <3>4
  <2> QED
    BY <2>1, <2>2
<1>7. ~terminated[s]
  BY DEF Closed
<1>8. Piped(s)'
  <2>1. /\ Len(delivered'[s]) <= Len(accepted'[s])
        /\ \A i \in 1..Len(delivered'[s]) : delivered'[s][i] = accepted'[s][i]
    BY <1>1, <1>4, <1>5, StreamTypes DEF Piped
  <2>2. worker'[s] \in {"dispatch", "insert", "header", "recv", "final"} =>
            Carries(chan'[s], accepted'[s], Len(delivered'[s]))
    BY <1>6, StreamTypes DEF Piped
  <2>3. worker'[s] = "chunk" =>
            /\ Len(delivered'[s]) < Len(accepted'[s])
            /\ writing'[s] = accepted'[s][Len(delivered'[s]) + 1]
            /\ Carries(chan'[s], accepted'[s], Len(delivered'[s]) + 1)
    <3>1. HAVE worker'[s] = "chunk"
    <3>2. /\ Len(delivered[s]) < Len(accepted[s]) /\ writing[s] = accepted[s][Len(delivered[s]) + 1]
          /\ Carries(chan[s], accepted[s], Len(delivered[s]) + 1)
      BY <3>1 DEF Piped
    <3>3. Len(delivered[s]) + 1 \in 1..Len(accepted[s]) /\ Len(delivered[s]) + 1 \in Nat
      BY <3>2, StreamTypes
    <3>4. Carries(chan'[s], accepted'[s], Len(delivered[s]) + 1)
      BY <1>6, <3>2, <3>3
    <3>5. Len(accepted'[s]) \in Nat
      BY <1>4, StreamTypes, <1>1
    <3> QED
      BY <1>5, <3>2, <3>3, <3>4, <3>5, StreamTypes
  <2> QED
    BY <1>7, <2>1, <2>2, <2>3 DEF Piped
<1>9. Closed(s)'
  <2>1. c # End
    BY StreamAssumption
  <2>2. \A i \in 1..Len(chan'[s]) : i = Len(chan[s]) + 1 \/ i \in 1..Len(chan[s])
    BY <1>2, PutTypes, StreamTypes
  <2>3. \A i \in 1..Len(chan[s]) : chan[s][i] # End
    BY DEF Closed
  <2>4. \A i \in 1..Len(chan'[s]) : chan'[s][i] # End
    BY <1>2, <2>1, <2>2, <2>3, PutTypes
  <2> QED
    BY <2>4 DEF Closed
<1> QED
  BY <1>1, <1>4, <1>8, <1>9

(* The End that stream_end put into the channel. *)
LEMMA PutEnd ==
  ASSUME StreamTypeOK, NEW s \in Streams, HasRoom(s), Piped(s), Closed(s), ~terminated[s],
         worker[s] \notin {"dispatch", "insert", "final"}, ended'[s] = "sent", s \notin registry',
         \A i \in 1..Len(chan[s]) : chan[s][i] # End,
         chan' = [chan EXCEPT ![s] = Append(@, End)],
         UNCHANGED <<handler, worker, accepted>>, UNCHANGED wireVars
  PROVE  Piped(s)' /\ Closed(s)'
<1> USE DEF wireVars
<1>1. End \in Items \ Payloads
  BY StreamAssumption DEF Items, Chunks
<1>2. ASSUME NEW k \in Nat, Carries(chan[s], accepted[s], k)
      PROVE  Carries(chan'[s], accepted'[s], k)
  BY <1>1, <1>2, CarriesOther, StreamTypes, PutTypes
<1>3. Piped(s)'
  BY <1>2, StreamTypes DEF Piped
<1>4. Closed(s)'
  <2>1. \A i \in 1..Len(chan'[s]) : i = Len(chan'[s]) \/ i \in 1..Len(chan[s])
    BY <1>1, PutTypes, StreamTypes
  <2>2. \A i \in 1..Len(chan[s]) : chan'[s][i] # End
    BY <1>1, PutTypes
  <2> QED
    BY <2>1, <2>2 DEF Closed
<1> QED
  BY <1>3, <1>4

(* What the JS thread does. *)
LEMMA JsStep ==
  ASSUME StreamInv, NEW s \in Streams, Js(s)
  PROVE  StreamInv'
<1> USE DEF wireVars
<1>0. StreamTypeOK /\ SendsAreValid /\ Piped(s) /\ Closed(s)
  BY DEF StreamInv
<1>1. CASE JsCreate(s)
  <2>1. StreamTypeOK'
    BY <1>0, <1>1 DEF JsCreate, StreamTypeOK
  <2>2. Piped(s)' /\ Closed(s)'
    BY <1>0, <1>1 DEF JsCreate, StreamTypeOK, Piped, Closed
  <2>3. \A t \in Streams \ {s} : Piped(t)' /\ Closed(t)'
    BY <1>1, StreamUnaffected DEF StreamInv, StreamTypeOK, JsCreate
  <2> QED
    BY <1>0, <1>1, <2>1, <2>2, <2>3 DEF StreamInv, JsCreate, JsFree, SendsAreValid
<1>2. CASE JsReturn(s)
  <2>1. StreamTypeOK'
    BY <1>0, <1>2 DEF JsReturn, StreamTypeOK
  <2>2. Piped(s)' /\ Closed(s)'
    BY <1>0, <1>2 DEF JsReturn, StreamTypeOK, Piped, Closed
  <2>3. \A t \in Streams \ {s} : Piped(t)' /\ Closed(t)'
    BY <1>2, StreamUnaffected DEF StreamInv, StreamTypeOK, JsReturn
  <2> QED
    BY <1>0, <1>2, <2>1, <2>2, <2>3 DEF StreamInv, JsReturn, JsFree, SendsAreValid
<1>3. CASE JsWriteTooEarly(s)
  <2>1. StreamTypeOK'
    BY <1>0, <1>3 DEF JsWriteTooEarly, StreamTypeOK
  <2>2. Piped(s)' /\ Closed(s)'
    BY <1>0, <1>3 DEF JsWriteTooEarly, StreamTypeOK, Piped, Closed
  <2>3. \A t \in Streams \ {s} : Piped(t)' /\ Closed(t)'
    BY <1>3, StreamUnaffected DEF StreamInv, StreamTypeOK, JsWriteTooEarly
  <2> QED
    BY <1>0, <1>3, <2>1, <2>2, <2>3 DEF StreamInv, JsWriteTooEarly, JsFree, SendsAreValid
<1>4. CASE UNCHANGED streamVars
  <2>1. StreamTypeOK'
    BY <1>0, <1>4 DEF streamVars, StreamTypeOK
  <2>2. \A t \in Streams : Piped(t)' /\ Closed(t)'
    BY <1>4, StreamUnaffected DEF StreamInv, streamVars
  <2>3. SendsAreValid'
    BY <1>0, <1>4 DEF streamVars, SendsAreValid, WriteBlocked, EndBlocked
  <2> QED
    BY <2>1, <2>2, <2>3 DEF StreamInv
<1>5. ASSUME NEW c \in Chunks, JsWrite(s, c) PROVE StreamInv'
  <2>1. StreamTypeOK' /\ Piped(s)' /\ Closed(s)' /\ \A t \in Streams : t # s => accepted'[t] = accepted[t]
    BY <1>0, <1>5, PutChunk DEF JsWrite, MayWrite
  <2>2. \A t \in Streams : t # s => chan'[t] = chan[t]
    BY <1>0, <1>5 DEF StreamTypeOK, JsWrite
  <2>3. \A t \in Streams \ {s} : Piped(t)' /\ Closed(t)'
    BY <1>5, <2>1, <2>2, StreamUnaffected DEF StreamInv, JsWrite
  <2> QED
    BY <1>0, <1>5, <2>1, <2>3 DEF StreamInv, JsWrite, MayWrite, JsFree, SendsAreValid
<1>6. ASSUME NEW c \in Chunks, JsWriteBlocks(s, c) PROVE StreamInv'
  <2>1. StreamTypeOK'
    BY <1>0, <1>6 DEF JsWriteBlocks, StreamTypeOK
  <2>2. \A t \in Streams : Piped(t)' /\ Closed(t)'
    BY <1>6, StreamUnaffected DEF StreamInv, JsWriteBlocks
  <2>3. WriteBlocked'
    BY <1>6 DEF JsWriteBlocks, MayWrite, WriteBlocked
  <2> QED
    BY <2>1, <2>2, <2>3 DEF StreamInv, SendsAreValid
<1>7. CASE JsEndLost(s)
  <2>1. StreamTypeOK'
    BY <1>0, <1>7 DEF JsEndLost, StreamTypeOK
  <2>2. Piped(s)' /\ Closed(s)'
    BY <1>0, <1>7 DEF JsEndLost, MayEnd, StreamTypeOK, Piped, Closed
  <2>3. \A t \in Streams \ {s} : Piped(t)' /\ Closed(t)'
    BY <1>7, StreamUnaffected DEF StreamInv, StreamTypeOK, JsEndLost
  <2> QED
    BY <1>0, <1>7, <2>1, <2>2, <2>3 DEF StreamInv, JsEndLost, MayEnd, JsFree, SendsAreValid
<1>8. CASE JsEnd(s)
  <2>1. /\ ended'[s] = "sent" /\ s \notin registry' /\ ended' \in [Streams -> {"no", "sent", "lost"}]
        /\ \A t \in Streams \ {s} : ended'[t] = ended[t] /\ (t \in registry' <=> t \in registry)
        /\ registry' \subseteq Streams
    BY <1>0, <1>8 DEF JsEnd, StreamTypeOK
  <2>2. /\ ~terminated[s] /\ worker[s] \notin {"dispatch", "insert", "final"}
        /\ \A i \in 1..Len(chan[s]) : chan[s][i] # End
    BY <1>0, <1>8 DEF JsEnd, MayEnd, Closed
  <2>3. CASE ReceiverAlive(s) /\ HasRoom(s)
    <3>1. chan' = [chan EXCEPT ![s] = Append(@, End)] /\ UNCHANGED blocked
      BY <1>8, <2>3 DEF JsEnd
    <3>2. Piped(s)' /\ Closed(s)'
      BY <1>0, <1>8, <2>1, <2>2, <2>3, <3>1, PutEnd DEF JsEnd
    <3>3. End \in Items
      BY DEF Items
    <3>4. StreamTypeOK'
      BY <1>0, <1>8, <2>1, <2>3, <3>1, <3>3, PutTypes DEF JsEnd, StreamTypeOK
    <3>5. \A t \in Streams \ {s} : Piped(t)' /\ Closed(t)'
      BY <1>0, <1>8, <2>1, <2>3, <3>1, <3>3, PutTypes, StreamUnaffected DEF StreamInv, JsEnd
    <3> QED
      BY <1>0, <1>8, <3>1, <3>2, <3>4, <3>5 DEF StreamInv, JsEnd, MayEnd, JsFree, SendsAreValid
  <2>4. CASE ~(ReceiverAlive(s) /\ HasRoom(s))
    <3>1. UNCHANGED chan
      BY <1>0, <1>8, <2>4 DEF JsEnd, StreamTypeOK
    <3>2. Piped(s)' /\ Closed(s)'
      BY <1>0, <1>8, <2>1, <2>2, <3>1 DEF JsEnd, Piped, Closed
    <3>3. StreamTypeOK'
      BY <1>0, <1>8, <2>1, <3>1 DEF JsEnd, StreamTypeOK
    <3>4. \A t \in Streams \ {s} : Piped(t)' /\ Closed(t)'
      BY <1>8, <2>1, <3>1, StreamUnaffected DEF StreamInv, JsEnd
    <3>5. SendsAreValid'
      <4>1. CASE ReceiverAlive(s)
        <5>1. blocked' = [op |-> "end", stream |-> s, msg |-> End]
          BY <1>8, <2>4, <4>1 DEF JsEnd
        <5>2. EndBlocked'
          BY <1>8, <2>1, <2>2, <3>1, <5>1 DEF EndBlocked, JsEnd
        <5> QED
          BY <5>2 DEF SendsAreValid
      <4>2. CASE ~ReceiverAlive(s)
        BY <1>8, <4>2 DEF JsEnd, MayEnd, JsFree, SendsAreValid
      <4> QED
        BY <4>1, <4>2
    <3> QED
      BY <3>2, <3>3, <3>4, <3>5 DEF StreamInv
  <2> QED
    BY <2>3, <2>4
<1>9. CASE JsUnblock(s)
  <2>1. SendsAreValid'
    BY <1>9 DEF JsUnblock, SendsAreValid
  <2>2. CASE ~ReceiverAlive(s)
    <3>1. StreamTypeOK'
      BY <1>0, <1>9, <2>2 DEF JsUnblock, StreamTypeOK
    <3>2. \A t \in Streams : Piped(t)' /\ Closed(t)'
      BY <1>9, <2>2, StreamUnaffected DEF StreamInv, JsUnblock
    <3> QED
      BY <2>1, <3>1, <3>2 DEF StreamInv
  <2>3. CASE ReceiverAlive(s) /\ blocked.op = "write"
    <3>1. WriteBlocked
      BY <1>0, <1>9, <2>3 DEF JsUnblock, JsFree, SendsAreValid, EndBlocked
    <3>2. blocked.msg \in Chunks /\ s \in registry
      BY <1>9, <3>1 DEF WriteBlocked, JsUnblock
    <3>3. HasRoom(s) /\ chan' = [chan EXCEPT ![s] = Append(@, blocked.msg)] /\ Accepts(s, blocked.msg)
      BY <1>9, <2>3 DEF JsUnblock
    <3>4. writes < MaxWrites
      BY <3>1 DEF WriteBlocked
    <3>5. StreamTypeOK' /\ Piped(s)' /\ Closed(s)' /\ \A t \in Streams : t # s => accepted'[t] = accepted[t]
      BY <1>0, <1>9, <3>2, <3>3, <3>4, PutChunk DEF JsUnblock
    <3>6. \A t \in Streams \ {s} : Piped(t)' /\ Closed(t)'
      BY <1>0, <1>9, <3>3, <3>5, StreamUnaffected DEF StreamInv, StreamTypeOK, JsUnblock
    <3> QED
      BY <2>1, <3>5, <3>6 DEF StreamInv
  <2>4. CASE ReceiverAlive(s) /\ blocked.op # "write"
    <3>1. EndBlocked
      BY <1>0, <1>9, <2>4 DEF JsUnblock, JsFree, SendsAreValid, WriteBlocked
    <3>2. /\ blocked.msg = End /\ ended[s] = "sent" /\ worker[s] # "final" /\ ~terminated[s]
          /\ \A i \in 1..Len(chan[s]) : chan[s][i] # End
      BY <1>9, <3>1 DEF EndBlocked, JsUnblock
    <3>3. s \notin registry /\ worker[s] \notin {"dispatch", "insert", "final"}
      BY <1>0, <3>2 DEF Closed
    <3>4. HasRoom(s) /\ chan' = [chan EXCEPT ![s] = Append(@, End)]
      BY <1>9, <2>4, <3>2 DEF JsUnblock
    <3>5. UNCHANGED <<handler, ended, registry, worker, accepted, writes, client>>
      BY <1>9, <2>4 DEF JsUnblock
    <3>6. Piped(s)' /\ Closed(s)'
      BY <1>0, <1>9, <3>2, <3>3, <3>4, <3>5, PutEnd DEF JsUnblock
    <3>7. End \in Items
      BY DEF Items
    <3>8. StreamTypeOK'
      BY <1>0, <1>9, <3>4, <3>5, <3>7, PutTypes DEF JsUnblock, StreamTypeOK
    <3>9. \A t \in Streams \ {s} : Piped(t)' /\ Closed(t)'
      BY <1>0, <1>9, <3>4, <3>5, <3>7, PutTypes, StreamUnaffected DEF StreamInv, JsUnblock
    <3> QED
      BY <2>1, <3>6, <3>8, <3>9 DEF StreamInv
  <2> QED
    BY <2>2, <2>3, <2>4
<1> QED
  BY <1>1, <1>2, <1>3, <1>4, <1>5, <1>6, <1>7, <1>8, <1>9 DEF Js, JsWriteRefused

(* What the worker of a stream does. *)
LEMMA WorkerStep ==
  ASSUME StreamInv, NEW s \in Streams, Worker(s)
  PROVE  StreamInv'
<1> USE DEF wireVars, jsVars
<1>0. StreamTypeOK /\ SendsAreValid /\ Piped(s) /\ Closed(s)
  BY DEF StreamInv
<1>1. CASE WorkerInsert(s)
  <2>1. StreamTypeOK' /\ worker'[s] = "header" /\ s \in registry'
    BY <1>0, <1>1 DEF WorkerInsert, StreamTypeOK
  <2>2. Piped(s)' /\ Closed(s)'
    BY <1>0, <1>1, <2>1 DEF WorkerInsert, Piped, Closed
  <2>3. \A t \in Streams \ {s} : Piped(t)' /\ Closed(t)'
    BY <1>0, <1>1, StreamUnaffected DEF StreamInv, StreamTypeOK, WorkerInsert
  <2>4. SendsAreValid'
    BY <1>0, <1>1 DEF WorkerInsert, StreamTypeOK, SendsAreValid, WriteBlocked, EndBlocked
  <2> QED
    BY <2>1, <2>2, <2>3, <2>4 DEF StreamInv
<1>2. CASE WorkerHeader(s)
  <2>1. StreamTypeOK' /\ worker'[s] \in {"recv", "done"}
    BY <1>0, <1>2 DEF WorkerHeader, StreamTypeOK
  <2>2. Piped(s)' /\ Closed(s)'
    BY <1>0, <1>2, <2>1 DEF WorkerHeader, Piped, Closed
  <2>3. \A t \in Streams \ {s} : Piped(t)' /\ Closed(t)'
    BY <1>0, <1>2, StreamUnaffected DEF StreamInv, StreamTypeOK, WorkerHeader
  <2>4. SendsAreValid'
    BY <1>0, <1>2, <2>1 DEF WorkerHeader, StreamTypeOK, SendsAreValid, WriteBlocked, EndBlocked
  <2> QED
    BY <2>1, <2>2, <2>3, <2>4 DEF StreamInv
<1>3. CASE WorkerRecv(s)
  <2> DEFINE q == chan[s]
             m == Head(chan[s])
  <2>1. /\ worker[s] = "recv" /\ q # <<>> /\ chan'[s] = Tail(q)
        /\ worker'[s] = (CASE m = End -> "final" [] m = Empty -> "recv" [] OTHER -> "chunk")
        /\ writing'[s] = (IF m \in Payloads THEN m ELSE Empty)
        /\ UNCHANGED <<handler, ended, registry, blocked, accepted, writes, delivered, terminated, client>>
    BY <1>0, <1>3 DEF WorkerRecv, StreamTypeOK
  <2>2. /\ m \in Items /\ Tail(q) \in Seq(Items) /\ Len(q) \in Nat \ {0}
        /\ Len(Tail(q)) = Len(q) - 1 /\ m = q[1] /\ \A i \in 1..Len(Tail(q)) : Tail(q)[i] = q[i + 1]
    BY <1>0, <2>1, StreamTypes
  <2>3. \/ m = End /\ worker'[s] = "final" /\ m \notin Payloads
        \/ m = Empty /\ worker'[s] = "recv" /\ m \notin Payloads
        \/ m \in Payloads /\ worker'[s] = "chunk" /\ writing'[s] = m
    BY <2>1, <2>2, StreamAssumption DEF Items, Chunks
  <2>4. StreamTypeOK'
    <3>1. chan' \in [Streams -> Seq(Chunks \cup {End})] /\ \A t \in Streams : t # s => chan'[t] = chan[t]
      BY <1>0, <1>3, <2>2 DEF WorkerRecv, StreamTypeOK, Items
    <3>2. \A t \in Streams : Len(chan'[t]) <= Capacity
      BY <1>0, <2>1, <2>2, <3>1, StreamTypes
    <3>3. worker' \in [Streams -> {"dispatch", "insert", "header", "recv", "chunk",
                                   "final", "remove", "done"}]
      BY <1>0, <1>3, <2>3 DEF WorkerRecv, StreamTypeOK
    <3>4. writing' \in [Streams -> Chunks]
      BY <1>0, <1>3 DEF WorkerRecv, StreamTypeOK, Chunks
    <3> QED
      BY <1>0, <2>1, <3>1, <3>2, <3>3, <3>4 DEF StreamTypeOK
  <2>5. Carries(q, accepted[s], Len(delivered[s])) /\ ~terminated[s]
    BY <1>0, <2>1 DEF Piped, Closed
  <2>6. Piped(s)'
    <3>1. CASE m \in Payloads
      <4>1. /\ Len(delivered[s]) < Len(accepted[s]) /\ m = accepted[s][Len(delivered[s]) + 1]
            /\ Carries(Tail(q), accepted[s], Len(delivered[s]) + 1)
        BY <1>0, <2>1, <2>5, <3>1, TakeChunk, StreamTypes
      <4>2. worker'[s] = "chunk" /\ writing'[s] = m
        BY <2>3, <3>1, StreamAssumption DEF Chunks
      <4> QED
        BY <1>0, <2>1, <2>5, <4>1, <4>2 DEF Piped
    <3>2. CASE m \notin Payloads
      <4>1. Carries(Tail(q), accepted[s], Len(delivered[s]))
        BY <1>0, <2>1, <2>5, <3>2, TakeOther, StreamTypes
      <4>2. worker'[s] \in {"final", "recv"}
        BY <2>3, <3>2
      <4> QED
        BY <1>0, <2>1, <2>5, <4>1, <4>2 DEF Piped
    <3> QED
      BY <3>1, <3>2
  <2>7. Closed(s)'
    <3>1. \A i \in 1..Len(Tail(q)) : Tail(q)[i] = End => i + 1 = Len(q) /\ ended[s] = "sent"
      BY <1>0, <2>2 DEF Closed
    <3>2. \A i \in 1..Len(chan'[s]) : chan'[s][i] = End => i = Len(chan'[s]) /\ ended'[s] = "sent"
      BY <2>1, <2>2, <3>1
    <3>3. m = End => ended[s] = "sent" /\ Tail(q) = <<>>
      <4> SUFFICES ASSUME m = End PROVE ended[s] = "sent" /\ Tail(q) = <<>>
        OBVIOUS
      <4>1. 1 \in 1..Len(q) /\ q[1] = End
        BY <2>2
      <4>2. 1 = Len(q) /\ ended[s] = "sent"
        BY <1>0, <4>1 DEF Closed
      <4>3. Len(Tail(q)) = 0
        BY <2>2, <4>2
      <4>4. \A x \in Seq(Items) : Len(x) = 0 => x = <<>>
        OBVIOUS
      <4> QED
        BY <2>2, <4>2, <4>3, <4>4
    <3>4. worker'[s] = "final" => m = End
      BY <2>3
    <3>5. worker'[s] \notin {"dispatch", "insert"}
      BY <2>3
    <3> QED
      BY <1>0, <2>1, <2>5, <3>2, <3>3, <3>4, <3>5 DEF Closed
  <2>8. \A t \in Streams \ {s} : Piped(t)' /\ Closed(t)'
    BY <1>0, <1>3, StreamUnaffected DEF StreamInv, StreamTypeOK, WorkerRecv
  <2>9. SendsAreValid'
    <3>1. WriteBlocked => WriteBlocked'
      BY <2>1 DEF WriteBlocked
    <3>2. ASSUME EndBlocked PROVE EndBlocked'
      <4>1. CASE blocked.stream = s
        <5>1. m # End /\ \A i \in 1..Len(Tail(q)) : Tail(q)[i] # End
          BY <2>2, <3>2, <4>1 DEF EndBlocked
        <5>2. worker'[s] # "final"
          BY <2>3, <5>1
        <5> QED
          BY <2>1, <3>2, <4>1, <5>1, <5>2 DEF EndBlocked
      <4>2. CASE blocked.stream # s
        <5>1. \A t \in Streams : t # s => chan'[t] = chan[t] /\ worker'[t] = worker[t]
          BY <1>0, <1>3 DEF WorkerRecv, StreamTypeOK
        <5> QED
          BY <2>1, <3>2, <4>2, <5>1 DEF EndBlocked
      <4> QED
        BY <4>1, <4>2
    <3> QED
      BY <1>0, <2>1, <3>1, <3>2 DEF SendsAreValid
  <2> QED
    BY <2>4, <2>6, <2>7, <2>8, <2>9 DEF StreamInv
<1>4. CASE WorkerChunk(s)
  <2>1. /\ worker[s] = "chunk" /\ ~terminated[s]
        /\ Len(delivered[s]) < Len(accepted[s]) /\ writing[s] = accepted[s][Len(delivered[s]) + 1]
        /\ Carries(chan[s], accepted[s], Len(delivered[s]) + 1)
    BY <1>0, <1>4 DEF WorkerChunk, Piped, Closed
  <2>2. writing[s] \in Payloads
    BY <1>0, <2>1, StreamTypes
  <2>3. writing' \in [Streams -> Chunks]
    BY <1>0, <1>4 DEF WorkerChunk, StreamTypeOK, Chunks
  <2>4. CASE client[s] = "up"
    <3>1. /\ delivered'[s] = Append(delivered[s], writing[s]) /\ worker'[s] = "recv"
          /\ UNCHANGED <<handler, ended, registry, chan, blocked, accepted, writes, terminated, client>>
      BY <1>0, <1>4, <2>4 DEF WorkerChunk, StreamTypeOK
    <3>2. /\ Append(delivered[s], writing[s]) \in Seq(Payloads)
          /\ Len(delivered'[s]) = Len(delivered[s]) + 1
          /\ \A i \in 1..Len(delivered'[s]) : \/ i = Len(delivered[s]) + 1 /\ delivered'[s][i] = writing[s]
                                              \/ i \in 1..Len(delivered[s]) /\ delivered'[s][i] = delivered[s][i]
      BY <1>0, <2>2, <3>1, StreamTypes
    <3>3. StreamTypeOK'
      <4>1. delivered' \in [Streams -> Seq(Payloads)] /\ UNCHANGED client
        BY <1>0, <1>4, <2>4, <3>1, <3>2 DEF WorkerChunk, StreamTypeOK
      <4>2. worker' \in [Streams -> {"dispatch", "insert", "header", "recv", "chunk",
                                     "final", "remove", "done"}]
        <5>1. worker' = [worker EXCEPT ![s] = "recv"]
          BY <1>4, <2>4 DEF WorkerChunk
        <5> QED
          BY <1>0, <5>1 DEF StreamTypeOK
      <4> QED
        BY <1>0, <2>3, <3>1, <4>1, <4>2 DEF StreamTypeOK
    <3>4. Piped(s)'
      BY <1>0, <2>1, <3>1, <3>2, StreamTypes DEF Piped
    <3>5. Closed(s)'
      BY <1>0, <2>1, <3>1 DEF Closed
    <3>6. \A t \in Streams \ {s} : Piped(t)' /\ Closed(t)'
      BY <1>0, <1>4, <2>4, StreamUnaffected DEF StreamInv, StreamTypeOK, WorkerChunk
    <3>7. SendsAreValid'
      BY <1>0, <1>4, <2>4, <3>1 DEF WorkerChunk, StreamTypeOK, SendsAreValid, WriteBlocked, EndBlocked
    <3> QED
      BY <3>3, <3>4, <3>5, <3>6, <3>7 DEF StreamInv
  <2>5. CASE client[s] # "up"
    <3>1. /\ worker'[s] = "remove"
          /\ UNCHANGED <<handler, ended, registry, chan, blocked, accepted, writes, delivered, terminated, client>>
      BY <1>0, <1>4, <2>5 DEF WorkerChunk, StreamTypeOK
    <3>2. StreamTypeOK'
      <4>1. worker' \in [Streams -> {"dispatch", "insert", "header", "recv", "chunk",
                                     "final", "remove", "done"}]
        <5>1. worker' = [worker EXCEPT ![s] = "remove"]
          BY <1>4, <2>5 DEF WorkerChunk
        <5> QED
          BY <1>0, <5>1 DEF StreamTypeOK
      <4> QED
        BY <1>0, <2>3, <3>1, <4>1 DEF StreamTypeOK
    <3>3. Piped(s)' /\ Closed(s)'
      BY <1>0, <2>1, <3>1 DEF Piped, Closed
    <3>4. \A t \in Streams \ {s} : Piped(t)' /\ Closed(t)'
      BY <1>0, <1>4, <2>5, StreamUnaffected DEF StreamInv, StreamTypeOK, WorkerChunk
    <3>5. SendsAreValid'
      BY <1>0, <1>4, <2>5, <3>1 DEF WorkerChunk, StreamTypeOK, SendsAreValid, WriteBlocked, EndBlocked
    <3> QED
      BY <3>2, <3>3, <3>4, <3>5 DEF StreamInv
  <2> QED
    BY <2>4, <2>5
<1>5. CASE WorkerFinal(s)
  <2>1. /\ worker[s] = "final" /\ chan[s] = <<>> /\ ended[s] = "sent"
        /\ Carries(chan[s], accepted[s], Len(delivered[s]))
    BY <1>0, <1>5 DEF WorkerFinal, Piped, Closed
  <2>2. Len(delivered[s]) = Len(accepted[s])
    BY <1>0, <2>1, NothingQueued, StreamTypes DEF Piped
  <2>3. delivered[s] = accepted[s]
    BY <1>0, <2>2, StreamTypes DEF Piped
  <2>4. StreamTypeOK' /\ worker'[s] = "remove"
    BY <1>0, <1>5 DEF WorkerFinal, StreamTypeOK
  <2>5. Piped(s)' /\ Closed(s)'
    BY <1>0, <1>5, <2>1, <2>3, <2>4 DEF WorkerFinal, Piped, Closed
  <2>6. \A t \in Streams \ {s} : Piped(t)' /\ Closed(t)'
    BY <1>0, <1>5, StreamUnaffected DEF StreamInv, StreamTypeOK, WorkerFinal
  <2>7. SendsAreValid'
    BY <1>0, <1>5, <2>1 DEF WorkerFinal, StreamTypeOK, SendsAreValid, WriteBlocked, EndBlocked
  <2> QED
    BY <2>4, <2>5, <2>6, <2>7 DEF StreamInv
<1>6. CASE WorkerRemove(s)
  <2>1. /\ worker[s] = "remove" /\ worker'[s] = "done" /\ chan'[s] = <<>>
        /\ s \notin registry' /\ Len(<<>>) = 0
    BY <1>0, <1>6 DEF WorkerRemove, StreamTypeOK
  <2>2. StreamTypeOK'
    BY <1>0, <1>6, StreamAssumption DEF WorkerRemove, StreamTypeOK
  <2>3. Piped(s)' /\ Closed(s)'
    BY <1>0, <1>6, <2>1 DEF WorkerRemove, Piped, Closed
  <2>4. \A t \in Streams \ {s} : Piped(t)' /\ Closed(t)'
    BY <1>0, <1>6, StreamUnaffected DEF StreamInv, StreamTypeOK, WorkerRemove
  <2>5. SendsAreValid'
    <3>1. WriteBlocked => WriteBlocked'
      BY <1>6 DEF WorkerRemove, ShardFree, WriteBlocked
    <3>2. EndBlocked => EndBlocked'
      BY <1>0, <1>6, <2>1 DEF WorkerRemove, StreamTypeOK, EndBlocked
    <3> QED
      BY <1>0, <1>6, <3>1, <3>2 DEF WorkerRemove, SendsAreValid
  <2> QED
    BY <2>2, <2>3, <2>4, <2>5 DEF StreamInv
<1> QED
  BY <1>1, <1>2, <1>3, <1>4, <1>5, <1>6 DEF Worker

(* Initially nothing is written and no worker has an answer to pipe.          *)
LEMMA StreamInitInv == StreamInit => StreamInv
<1> SUFFICES ASSUME StreamInit PROVE StreamInv
  OBVIOUS
<1>1. StreamTypeOK
  BY StreamAssumption DEF StreamInit, StreamTypeOK, Chunks
<1>2. ASSUME NEW s \in Streams PROVE Piped(s) /\ Closed(s)
  <2>1. Len(<<>>) = 0
    OBVIOUS
  <2> QED
    BY <2>1, NothingQueued DEF StreamInit, Piped, Closed
<1> QED
  BY <1>1, <1>2 DEF StreamInit, StreamInv, SendsAreValid

(* Every step of JS, of a worker or of a client keeps the inductive           *)
(* invariant.                                                                *)
LEMMA StreamStep == StreamInv /\ [StreamNext]_streamVars => StreamInv'
<1> SUFFICES ASSUME StreamInv, [StreamNext]_streamVars PROVE StreamInv'
  OBVIOUS
<1>1. ASSUME NEW s \in Streams, ClientGone(s) PROVE StreamInv'
  <2>1. StreamTypeOK'
    BY <1>1 DEF StreamInv, ClientGone, jsVars, wireVars, StreamTypeOK
  <2>2. \A t \in Streams : Piped(t)' /\ Closed(t)'
    BY <1>1, StreamUnaffected DEF StreamInv, ClientGone, jsVars, wireVars
  <2>3. SendsAreValid'
    BY <1>1 DEF StreamInv, ClientGone, jsVars, wireVars, SendsAreValid, WriteBlocked, EndBlocked
  <2> QED
    BY <2>1, <2>2, <2>3 DEF StreamInv
<1>2. CASE UNCHANGED streamVars
  <2>1. StreamTypeOK'
    BY <1>2 DEF StreamInv, streamVars, StreamTypeOK
  <2>2. \A t \in Streams : Piped(t)' /\ Closed(t)'
    BY <1>2, StreamUnaffected DEF StreamInv, streamVars
  <2>3. SendsAreValid'
    BY <1>2 DEF StreamInv, streamVars, SendsAreValid, WriteBlocked, EndBlocked
  <2> QED
    BY <2>1, <2>2, <2>3 DEF StreamInv
<1> QED
  BY <1>1, <1>2, JsStep, WorkerStep DEF StreamNext

(* What a client got is a prefix of what was written, all of it once the last  *)
(* chunk marker is out.                                                      *)
LEMMA BodyFollows == StreamInv => BodyKept
<1> SUFFICES ASSUME StreamInv PROVE BodyKept
  OBVIOUS
<1>1. ASSUME NEW s \in Streams PROVE IsPrefix(delivered[s], accepted[s])
  <2>1. /\ delivered[s] \in Seq(Payloads) /\ accepted[s] \in Seq(Payloads)
        /\ Len(delivered[s]) <= Len(accepted[s])
        /\ \A i \in 1..Len(delivered[s]) : delivered[s][i] = accepted[s][i]
    BY StreamTypes DEF StreamInv, Piped
  <2>2. SubSeq(delivered[s], 1, Len(delivered[s])) = SubSeq(accepted[s], 1, Len(delivered[s]))
    BY <2>1
  <2> QED
    BY <2>1, <2>2 DEF IsPrefix
<1> QED
  BY <1>1 DEF StreamInv, Piped, BodyKept, DeliveredInOrder, TerminatedIsComplete

(* Whatever the order of writes, blocked sends, end() and the worker, a client  *)
(* gets the non-empty chunks that stream_write accepted, in their order and    *)
(* none twice, and a body whose terminating chunk was sent is complete         *)
(* (lib.rs:546-571, 2781-2811).                                              *)
THEOREM BodiesAreKept == StreamSpec => []BodyKept
<1>1. StreamSpec => []StreamInv
  BY StreamInitInv, StreamStep, PTL DEF StreamSpec
<1> QED
  BY <1>1, BodyFollows, PTL

=============================================================================
