------------------------------ MODULE StoreProofs ------------------------------
(***************************************************************************)
(* The native stores a worker answers from.                                    *)
(*                                                                         *)
(* Sessions, for every number of clients, overlapping requests, fields, ids    *)
(* and ticks, and for every limit: a session holds only what its own client    *)
(* wrote, and the shard and its entries stay within their limits.              *)
(*                                                                         *)
(* Responses, for every set of keys and limits: the cache answers with the     *)
(* latest response of the key until it reuses a node it left on the free list. *)
(*                                                                         *)
(* Rate windows, for every set of keys, windows and costs, and every limit: no *)
(* window is granted more than its policy, and a refused client is told a time *)
(* after which it is served.  The sums they speak of are cardinalities, so that *)
(* no recursion, and no induction over a queue, is needed.                     *)
(***************************************************************************)
EXTENDS SessionStore, RouteCache, RateLimit, FiniteSetTheorems, SequenceTheorems,
        WellFoundedInduction, TLAPS

Entry == [present : {TRUE}, data : [Fields -> Clients \cup {None}],
          last_accessed : Nat, expires_at : Nat]
Handled == [phase : {"handling"}, client : Clients, is_new : BOOLEAN, rust_id : Ids, js_id : Ids,
            destroyed : BOOLEAN, set : SUBSET Fields]

\* The ids a request of client c may name: its cookie's, and those that were
\* generated on either side for its requests in progress.
Names(r, c, i) == req[r].phase = "handling" /\ req[r].client = c /\ i \in {req[r].rust_id, req[r].js_id}
Holds(c, i) == cookie[c] = i \/ \E r \in Requests : Names(r, c, i)

\* An entry within its size that expires max_age after its last access.
Good(e) ==
    /\ e \in Entry
    /\ Size(e.data) <= max_data_size
    /\ e.expires_at = e.last_accessed + max_age /\ e.last_accessed <= now

-----------------------------------------------------------------------------
(* The inductive invariant.                                                   *)

Types ==
    /\ cookie \in [Clients -> Nat] /\ req \in [Requests -> {NoRequest} \cup Handled]
    /\ generated \in 0..MaxIds /\ now \in 0..MaxNow

ShardInv ==
    /\ shard \in [Ids -> {Absent} \cup Entry]
    /\ \A i \in Ids : shard[i].present => Good(shard[i])
    /\ ShardBounded

\* What is held or stored was generated.
Known ==
    /\ \A i \in Ids : shard[i].present => i <= generated
    /\ \A c \in Clients : cookie[c] <= generated
    /\ \A r \in Requests : req[r].phase = "handling" =>
            req[r].rust_id <= generated /\ req[r].js_id <= generated

\* No two clients hold the same id, and an id's entry is of its holder's writing.
OneHolder ==
    \A i \in Ids, c \in Clients : Holds(c, i) =>
        /\ \A d \in Clients : Holds(d, i) => d = c
        /\ shard[i].present => \A f \in Fields : shard[i].data[f] \in {c, None}

IInv == Types /\ ShardInv /\ Known /\ OneHolder

-----------------------------------------------------------------------------
(* Entries, and the number of them.                                           *)

LEMMA Constants ==
  /\ max_per_shard \in Nat \ {0} /\ max_age \in Nat \ {0}
  /\ max_data_size \in Nat /\ MaxIds \in Nat /\ MaxNow \in Nat
  /\ \A d : Size(d) \in Nat
<1>1. \A d : {f \in Fields : d[f] # None} \in SUBSET Fields
  OBVIOUS
<1>2. \A T \in SUBSET Fields : Cardinality(T) \in Nat
  BY SessionAssumption, FS_Subset, FS_CardinalityType
<1> QED
  BY <1>1, <1>2, SessionAssumption DEF Size

LEMMA CountingStored ==
  ASSUME NEW T \in SUBSET Ids, NEW i \in Ids
  PROVE  /\ Cardinality(T) \in Nat
         /\ i \notin T => Cardinality(T \cup {i}) = Cardinality(T) + 1
         /\ i \in T => Cardinality(T \ {i}) = Cardinality(T) - 1
         /\ \A U \in SUBSET T : Cardinality(U) \in Nat /\ Cardinality(U) <= Cardinality(T)
<1>1. IsFiniteSet(Ids)
  BY Constants, FS_Interval DEF Ids
<1>2. IsFiniteSet(T)
  BY <1>1, FS_Subset
<1> QED
  BY <1>2, FS_Subset, FS_CardinalityType, FS_AddElement, FS_RemoveElement

LEMMA TouchedEntry ==
  ASSUME NEW e \in Entry, now \in Nat
  PROVE  /\ touched(e) \in Entry /\ touched(e).data = e.data
         /\ touched(e).last_accessed = now /\ touched(e).expires_at = now + max_age
  BY Constants DEF touched, Entry

LEMMA MergedEntry ==
  ASSUME NEW e \in Entry, now \in Nat, NEW mutations \in SUBSET Fields, NEW deleted \in SUBSET Fields,
         NEW who \in Clients
  PROVE  LET m == merge(e, mutations, deleted, who)
         IN  /\ m \in Entry /\ m.last_accessed = now /\ m.expires_at = now + max_age
             /\ \A f \in Fields : m.data[f] \in {who, None, e.data[f]}
<1> DEFINE d == [f \in Fields |->
              IF f \in mutations THEN who ELSE IF f \in deleted THEN None ELSE e.data[f]]
           t == touched(e)
           m == merge(e, mutations, deleted, who)
<1>1. t \in Entry /\ t.last_accessed = now /\ t.expires_at = now + max_age
  BY TouchedEntry
<1>2. m = [t EXCEPT !.data = d]
  BY DEF merge
<1>3. e.data \in [Fields -> Clients \cup {None}]
  BY DEF Entry
<1>4. d \in [Fields -> Clients \cup {None}] /\ \A f \in Fields : d[f] \in {who, None, e.data[f]}
  BY <1>3
<1> HIDE DEF d, t, m
<1>5. m \in Entry /\ m.data = d /\ m.last_accessed = t.last_accessed /\ m.expires_at = t.expires_at
  BY <1>1, <1>2, <1>4 DEF Entry
<1>6. m \in Entry /\ m.last_accessed = now /\ m.expires_at = now + max_age
      /\ \A f \in Fields : m.data[f] \in {who, None, e.data[f]}
  BY <1>1, <1>4, <1>5
<1> QED
  BY <1>6 DEF m

LEMMA NewEntry ==
  ASSUME now \in Nat
  PROVE  new_entry \in Entry /\ \A f \in Fields : new_entry.data[f] = None
<1>1. Empty \in [Fields -> Clients \cup {None}] /\ \A f \in Fields : Empty[f] = None
  BY DEF Empty
<1>2. new_entry.data = Empty
  BY DEF new_entry
<1>3. new_entry \in Entry
  <2> HIDE DEF Empty
  <2> QED
    BY <1>1, Constants DEF new_entry, Entry
<1> QED
  BY <1>1, <1>2, <1>3

LEMMA AbsentOrEntry ==
  ASSUME NEW e \in {Absent} \cup Entry
  PROVE  (e.present <=> e \in Entry) /\ e.present \in BOOLEAN /\ (~e.present => e = Absent) /\ ~Absent.present
<1>1. ~Absent.present /\ Absent.present = FALSE
  BY DEF Absent
<1>2. \A x \in Entry : x.present = TRUE
  BY DEF Entry
<1>3. Absent \notin Entry
  BY <1>1, <1>2
<1>4. CASE e = Absent
  BY <1>1, <1>3, <1>4
<1>5. CASE e \in Entry
  BY <1>1, <1>2, <1>5
<1> QED
  BY <1>4, <1>5

(* A call of the store that leaves at most entry i changed: as a step of the   *)
(* map, what each call below amounts to.                                      *)
OnlyChanges(i, who) ==
    /\ ShardInv'
    /\ \A j \in Ids : shard'[j].present => j = i \/ (shard[j].present /\ shard'[j] = shard[j])
    /\ shard'[i].present => \A f \in Fields :
            \/ shard'[i].data[f] \in {who, None}
            \/ shard[i].present /\ shard'[i].data[f] = shard[i].data[f]

LEMMA ShardFacts ==
  ASSUME Types, ShardInv
  PROVE  /\ now \in Nat
         /\ \A i \in Ids : shard[i] \in {Absent} \cup Entry /\ (shard[i].present => shard[i] \in Entry)
         /\ Stored(shard) \in SUBSET Ids
  BY Constants, AbsentOrEntry DEF Types, ShardInv, Stored

(* upsert, with the eviction of the least recently used entry of a full shard. *)
LEMMA UpsertStep ==
  ASSUME Types, ShardInv, NEW i \in Ids, NEW mutations \in SUBSET Fields,
         NEW deleted \in SUBSET Fields, NEW who \in Clients, upsert(i, mutations, deleted, who),
         now' = now
  PROVE  OnlyChanges(i, who)
<1> DEFINE old == IF shard[i].present THEN shard[i] ELSE new_entry
           merged == merge(old, mutations, deleted, who)
<1>1. old \in Entry /\ \A f \in Fields : old.data[f] = None
                                        \/ (shard[i].present /\ old.data[f] = shard[i].data[f])
  BY ShardFacts, NewEntry
<1> HIDE DEF old
<1>2. /\ merged \in Entry /\ merged.last_accessed = now /\ merged.expires_at = now + max_age
      /\ \A f \in Fields : merged.data[f] \in {who, None, old.data[f]}
  BY <1>1, ShardFacts, MergedEntry
<1> HIDE DEF merged
<1>3. CASE Size(merged.data) > max_data_size
  <2>1. shard' = shard
    BY <1>3 DEF upsert, merged, old
  <2>2. ShardInv'
    BY <2>1 DEF ShardInv, ShardBounded, Stored, Good
  <2> QED
    BY <2>1, <2>2 DEF OnlyChanges
<1>4. CASE ~(Size(merged.data) > max_data_size)
  <2>1. PICK m : evict(shard, i, m) /\ shard' = [m EXCEPT ![i] = merged]
    BY <1>4 DEF upsert, merged, old
  <2>2. Size(merged.data) <= max_data_size
    BY <1>4, Constants
  <2>3. \/ m = shard /\ (shard[i].present \/ Cardinality(Stored(shard)) < max_per_shard)
        \/ /\ ~shard[i].present
           /\ \E lru \in Stored(shard) : m = [shard EXCEPT ![lru] = Absent]
    BY <2>1 DEF evict
  <2>4. m \in [Ids -> {Absent} \cup Entry] /\ \A j \in Ids : m[j].present => shard[j].present /\ m[j] = shard[j]
    BY <2>3, ShardFacts, AbsentOrEntry DEF ShardInv, Stored
  <2>5. /\ shard' \in [Ids -> {Absent} \cup Entry] /\ shard'[i] = merged
        /\ \A j \in Ids : j # i => shard'[j] = m[j]
    BY <1>2, <2>1, <2>4
  <2>6. merged.present
    BY <1>2 DEF Entry
  <2>7. \A j \in Ids : shard'[j].present => Good(shard'[j])
    BY <1>2, <2>2, <2>4, <2>5, ShardFacts DEF ShardInv, Good
  <2>8. Cardinality(Stored(shard')) <= max_per_shard
    <3>1. Stored(shard) \in SUBSET Ids /\ Cardinality(Stored(shard)) \in Nat
          /\ Cardinality(Stored(shard)) <= max_per_shard /\ max_per_shard \in Nat
      BY ShardFacts, CountingStored, Constants DEF ShardInv, ShardBounded
    <3>2. CASE m = shard /\ shard[i].present
      <4>1. Stored(shard') = Stored(shard)
        BY <2>5, <2>6, <3>2 DEF Stored
      <4> QED
        BY <3>1, <4>1
    <3>3. CASE m = shard /\ ~shard[i].present /\ Cardinality(Stored(shard)) < max_per_shard
      <4>1. Stored(shard') = Stored(shard) \cup {i} /\ i \notin Stored(shard)
        BY <2>5, <2>6, <3>3 DEF Stored
      <4>2. Cardinality(Stored(shard')) = Cardinality(Stored(shard)) + 1
        BY <3>1, <4>1, CountingStored
      <4> QED
        BY <3>1, <3>3, <4>2
    <3>4. CASE ~shard[i].present /\ \E lru \in Stored(shard) : m = [shard EXCEPT ![lru] = Absent]
      <4>1. PICK lru \in Stored(shard) : m = [shard EXCEPT ![lru] = Absent]
        BY <3>4
      <4>2. lru \in Ids /\ lru # i
        BY <3>4 DEF Stored
      <4>3. m[lru] = Absent /\ \A j \in Ids : j # lru => m[j] = shard[j]
        BY <4>1, <4>2 DEF ShardInv
      <4>4. ~Absent.present
        BY DEF Absent
      <4>5. Stored(shard') = (Stored(shard) \ {lru}) \cup {i} /\ i \notin Stored(shard) \ {lru}
        BY <2>5, <2>6, <3>4, <4>2, <4>3, <4>4 DEF Stored
      <4>6. Cardinality(Stored(shard) \ {lru}) = Cardinality(Stored(shard)) - 1
        BY <3>1, <4>2, CountingStored
      <4>7. Stored(shard) \ {lru} \in SUBSET Ids
        BY <3>1
      <4>8. Cardinality(Stored(shard')) = Cardinality(Stored(shard) \ {lru}) + 1
        BY <4>5, <4>7, CountingStored
      <4> QED
        BY <3>1, <4>6, <4>8
    <3> QED
      BY <2>3, <3>2, <3>3, <3>4
  <2>9. ShardInv'
    <3>1. \A j \in Ids : (shard[j].present => Good(shard[j]))'
      BY <2>7 DEF Good
    <3> QED
      BY <2>5, <2>8, <3>1 DEF ShardInv, ShardBounded
  <2>10. \A j \in Ids : shard'[j].present => j = i \/ (shard[j].present /\ shard'[j] = shard[j])
    BY <2>4, <2>5
  <2>11. \A f \in Fields : shard'[i].data[f] \in {who, None}
                           \/ (shard[i].present /\ shard'[i].data[f] = shard[i].data[f])
    BY <1>1, <1>2, <2>5
  <2> QED
    BY <2>9, <2>10, <2>11 DEF OnlyChanges
<1> QED
  BY <1>3, <1>4

\* get and destroy: the entry is dropped or touched.
LEMMA DropStep ==
  ASSUME Types, ShardInv, NEW i \in Ids, now' = now, NEW e, e = Absent \/ e = shard[i] \/ e = touched(shard[i]),
         e # Absent => shard[i].present,
         shard' = [shard EXCEPT ![i] = e]
  PROVE  OnlyChanges(i, None)
<1>1. e # Absent => /\ e \in Entry /\ Good(e) /\ e.data = shard[i].data
  BY ShardFacts, TouchedEntry, Constants DEF ShardInv, Good
<1>2. /\ shard' \in [Ids -> {Absent} \cup Entry] /\ shard'[i] = e
      /\ \A j \in Ids : j # i => shard'[j] = shard[j]
  BY <1>1 DEF ShardInv
<1>3. ~Absent.present
  BY DEF Absent
<1>4. \A j \in Ids : shard'[j].present => Good(shard'[j])
  BY <1>1, <1>2, <1>3 DEF ShardInv
<1>5. Stored(shard') \in SUBSET Stored(shard)
  BY <1>1, <1>2, <1>3 DEF Stored
<1>6. Cardinality(Stored(shard')) <= Cardinality(Stored(shard))
      /\ Cardinality(Stored(shard')) \in Nat /\ Cardinality(Stored(shard)) \in Nat
  BY <1>5, ShardFacts, CountingStored
<1>7. Cardinality(Stored(shard')) <= max_per_shard
  BY <1>6, Constants DEF ShardInv, ShardBounded
<1>8. ShardInv'
  <2>1. \A j \in Ids : (shard[j].present => Good(shard[j]))'
    BY <1>4 DEF Good
  <2> QED
    BY <1>2, <1>7, <2>1 DEF ShardInv, ShardBounded
<1> QED
  BY <1>1, <1>2, <1>3, <1>8 DEF OnlyChanges

-----------------------------------------------------------------------------
(* Who holds an id.                                                           *)

\* Nobody comes to hold an id that he did not hold, and a client writes into
\* an id that it holds.
LEMMA HoldersStep ==
  ASSUME Types, Known, OneHolder, NEW i \in Ids, i <= generated, NEW who, OnlyChanges(i, who),
         who = None \/ (who \in Clients /\ Holds(who, i)),
         generated' = generated, Types',
         \A j \in Ids, c \in Clients : Holds(c, j)' => Holds(c, j)
  PROVE  OneHolder' /\ \A j \in Ids : shard'[j].present => j <= generated
<1>1. \A j \in Ids : shard'[j].present => j <= generated
  BY DEF OnlyChanges, Known
<1>2. ASSUME NEW j \in Ids, NEW c \in Clients, Holds(c, j)'
      PROVE  /\ \A d \in Clients : Holds(d, j)' => d = c
             /\ shard'[j].present => \A f \in Fields : shard'[j].data[f] \in {c, None}
  <2>1. Holds(c, j)
    BY <1>2
  <2>2. \A d \in Clients : Holds(d, j) => d = c
    BY <2>1 DEF OneHolder
  <2>3. shard[j].present => \A f \in Fields : shard[j].data[f] \in {c, None}
    BY <2>1 DEF OneHolder
  <2>4. j = i => who \in {c, None}
    BY <2>2
  <2>5. shard'[j].present => \A f \in Fields : shard'[j].data[f] \in {c, None}
    BY <2>3, <2>4 DEF OnlyChanges
  <2> QED
    BY <1>2, <2>2, <2>5
<1>3. OneHolder'
  BY <1>2 DEF OneHolder
<1> QED
  BY <1>1, <1>3

\* A request in progress names ids that were generated, and its client holds them.
LEMMA InProgress ==
  ASSUME Types, Known, NEW r \in Requests, req[r].phase = "handling"
  PROVE  /\ req[r] \in Handled /\ req[r].client \in Clients
         /\ req[r].js_id \in Ids /\ req[r].js_id <= generated /\ Holds(req[r].client, req[r].js_id)
         /\ req[r].rust_id \in Ids /\ req[r].rust_id <= generated /\ Holds(req[r].client, req[r].rust_id)
<1>1. req[r] \in Handled
  <2>1. NoRequest.phase = "none"
    BY DEF NoRequest
  <2> QED
    BY <2>1 DEF Types
<1>2. req[r].client \in Clients /\ req[r].js_id \in Ids /\ req[r].rust_id \in Ids
  BY <1>1 DEF Handled
<1> QED
  BY <1>1, <1>2 DEF Known, Holds, Names

\* A request goes on with the ids it has, or is over; cookies keep to held ids.
LEMMA RequestStep ==
  ASSUME Types, Known, NEW r \in Requests, req[r].phase = "handling",
         NEW q \in {NoRequest} \cup Handled, req' = [req EXCEPT ![r] = q],
         \/ q = NoRequest
         \/ q.client = req[r].client /\ q.rust_id = req[r].rust_id /\ q.js_id = req[r].js_id,
         \/ cookie' = cookie
         \/ cookie' = [cookie EXCEPT ![req[r].client] = req[r].rust_id],
         generated' = generated, now' = now
  PROVE  /\ Types'
         /\ \A c \in Clients : cookie'[c] <= generated
         /\ \A p \in Requests : req'[p].phase = "handling" =>
                req'[p].rust_id <= generated /\ req'[p].js_id <= generated
         /\ \A j \in Ids, c \in Clients : Holds(c, j)' => Holds(c, j)
<1>1. /\ req[r] \in Handled /\ req[r].client \in Clients
      /\ req[r].js_id \in Ids /\ req[r].js_id <= generated
      /\ req[r].rust_id \in Ids /\ req[r].rust_id <= generated /\ Holds(req[r].client, req[r].rust_id)
  BY InProgress
<1>2. NoRequest.phase # "handling"
  BY DEF NoRequest
<1>3. /\ req' \in [Requests -> {NoRequest} \cup Handled] /\ req'[r] = q
      /\ \A p \in Requests : p # r => req'[p] = req[p]
  BY DEF Types
<1>4. req[r].rust_id \in Nat
  BY <1>1 DEF Ids
<1>5. /\ cookie' \in [Clients -> Nat]
      /\ \A c \in Clients : cookie'[c] = cookie[c] \/ (c = req[r].client /\ cookie'[c] = req[r].rust_id)
  BY <1>1, <1>4 DEF Types
<1>6. Types'
  BY <1>3, <1>5 DEF Types
<1>7. \A c \in Clients : cookie'[c] <= generated
  BY <1>1, <1>5 DEF Known
<1>8. \A p \in Requests : req'[p].phase = "handling" =>
                req'[p].rust_id <= generated /\ req'[p].js_id <= generated
  BY <1>1, <1>2, <1>3 DEF Known
<1>9. ASSUME NEW j \in Ids, NEW c \in Clients, Holds(c, j)' PROVE Holds(c, j)
  <2>1. CASE cookie'[c] = j
    BY <1>1, <1>5, <2>1 DEF Holds
  <2>2. CASE \E p \in Requests : Names(p, c, j)'
    <3>1. PICK p \in Requests : Names(p, c, j)'
      BY <2>2
    <3>2. Names(p, c, j)
      BY <1>2, <1>3, <3>1 DEF Names
    <3> QED
      BY <3>2 DEF Holds
  <2> QED
    BY <1>9, <2>1, <2>2 DEF Holds
<1> QED
  BY <1>6, <1>7, <1>8, <1>9

\* Both at once.
LEMMA CallStep ==
  ASSUME IInv, NEW r \in Requests, req[r].phase = "handling",
         NEW i \in {req[r].js_id, req[r].rust_id}, NEW who \in {req[r].client, None},
         OnlyChanges(i, who),
         NEW q \in {NoRequest} \cup Handled, req' = [req EXCEPT ![r] = q],
         \/ q = NoRequest
         \/ q.client = req[r].client /\ q.rust_id = req[r].rust_id /\ q.js_id = req[r].js_id,
         \/ cookie' = cookie
         \/ cookie' = [cookie EXCEPT ![req[r].client] = req[r].rust_id],
         generated' = generated, now' = now
  PROVE  IInv'
<1>1. /\ Types'
      /\ \A c \in Clients : cookie'[c] <= generated
      /\ \A p \in Requests : req'[p].phase = "handling" =>
             req'[p].rust_id <= generated /\ req'[p].js_id <= generated
      /\ \A j \in Ids, c \in Clients : Holds(c, j)' => Holds(c, j)
  BY RequestStep DEF IInv
<1>2. i \in Ids /\ i <= generated /\ req[r].client \in Clients /\ Holds(req[r].client, i)
  BY InProgress DEF IInv
<1>3. OneHolder' /\ \A j \in Ids : shard'[j].present => j <= generated
  BY <1>1, <1>2, HoldersStep DEF IInv
<1>4. Known'
  BY <1>1, <1>3 DEF Known
<1> QED
  BY <1>1, <1>3, <1>4 DEF IInv, OnlyChanges

-----------------------------------------------------------------------------
(* One step per action.                                                       *)

LEMMA InitInv == Init => IInv
<1> SUFFICES ASSUME Init PROVE IInv
  OBVIOUS
<1>1. \A i \in Ids : ~shard[i].present /\ shard[i] = Absent
  BY DEF Init, Absent
<1>2. \A r \in Requests : req[r].phase # "handling" /\ req[r] = NoRequest
  BY DEF Init, NoRequest
<1>3. Types
  BY <1>2, Constants DEF Init, Types, NoId
<1>4. Stored(shard) = {}
  BY <1>1 DEF Stored
<1>5. ShardBounded
  BY <1>4, FS_EmptySet, Constants DEF ShardBounded
<1>6. ShardInv
  BY <1>1, <1>5 DEF Init, ShardInv
<1>7. Known
  BY <1>1, <1>2 DEF Init, Known, NoId
<1>8. \A i \in Ids, c \in Clients : ~Holds(c, i)
  BY <1>2 DEF Init, Holds, Names, Ids, NoId
<1>9. OneHolder
  BY <1>8 DEF OneHolder
<1> QED
  BY <1>3, <1>6, <1>7, <1>9 DEF IInv

(* Ids that are generated now are in nobody's hands and name no entry.         *)
LEMMA ArriveKeeps == ASSUME IInv, NEW r \in Requests, NEW c \in Clients, Arrive(r, c) PROVE IInv'
<1> DEFINE fresh == cookie[c] = NoId
           rust == IF fresh THEN generated + 1 ELSE cookie[c]
           jsid == IF fresh THEN generated + 2 ELSE cookie[c]
           q == [phase |-> "handling", client |-> c, is_new |-> fresh, rust_id |-> rust,
                 js_id |-> jsid, destroyed |-> FALSE, set |-> {}]
<1>1. /\ fresh => generated + 2 <= MaxIds
      /\ req' = [req EXCEPT ![r] = q] /\ generated' = IF fresh THEN generated + 2 ELSE generated
      /\ UNCHANGED <<shard, cookie, now>>
  BY DEF Arrive, generate_id
<1>2. generated \in Nat /\ generated <= MaxIds /\ MaxIds \in Nat /\ cookie[c] \in Nat /\ cookie[c] <= generated
  BY Constants DEF IInv, Types, Known
<1>3. rust \in Ids /\ jsid \in Ids /\ generated' \in 0..MaxIds /\ rust <= generated' /\ jsid <= generated'
      /\ generated <= generated'
  BY <1>1, <1>2 DEF Ids, NoId
<1>4. q \in Handled /\ q.phase = "handling" /\ q.client = c /\ q.rust_id = rust /\ q.js_id = jsid
  <2> HIDE DEF rust, jsid, fresh
  <2>1. (cookie[c] = NoId) \in BOOLEAN
    OBVIOUS
  <2> QED
    BY <1>3, <2>1 DEF Handled, fresh
<1>5. fresh => rust > generated /\ jsid > generated
  BY <1>2
<1>6. ~fresh => Holds(c, rust) /\ Holds(c, jsid)
  BY DEF Holds
<1> HIDE DEF q, rust, jsid, fresh
<1>7. /\ req' \in [Requests -> {NoRequest} \cup Handled] /\ req'[r] = q
      /\ \A p \in Requests : p # r => req'[p] = req[p]
  BY <1>1, <1>4 DEF IInv, Types
<1>8. Types'
  BY <1>1, <1>3, <1>7 DEF IInv, Types
<1>9. ShardInv'
  BY <1>1 DEF IInv, ShardInv, ShardBounded, Stored, Good
<1>10. /\ \A i \in Ids : shard[i].present => i \in Nat /\ i <= generated
       /\ \A d \in Clients : cookie[d] \in Nat /\ cookie[d] <= generated
       /\ \A p \in Requests : req[p].phase = "handling" =>
              /\ req[p].rust_id \in Nat /\ req[p].js_id \in Nat
              /\ req[p].rust_id <= generated /\ req[p].js_id <= generated
  BY InProgress DEF IInv, Known, Types, Ids
<1>11. Known'
  <2>1. \A n \in Nat : n <= generated => n <= generated'
    BY <1>1, <1>2
  <2>2. \A i \in Ids : shard'[i].present => i <= generated'
    BY <1>1, <1>10, <2>1
  <2>3. \A d \in Clients : cookie'[d] <= generated'
    BY <1>1, <1>10, <2>1
  <2>4. \A p \in Requests : req'[p].phase = "handling" =>
            req'[p].rust_id <= generated' /\ req'[p].js_id <= generated'
    BY <1>3, <1>4, <1>7, <1>10, <2>1
  <2> QED
    BY <2>2, <2>3, <2>4 DEF Known
<1>12. \A i \in Ids, d \in Clients : Holds(d, i) => i <= generated
  BY <1>10 DEF Holds, Names
<1>13. \A i \in Ids, d \in Clients : Holds(d, i)' => Holds(d, i) \/ (d = c /\ i \in {rust, jsid})
  <2> SUFFICES ASSUME NEW i \in Ids, NEW d \in Clients, Holds(d, i)'
               PROVE  Holds(d, i) \/ (d = c /\ i \in {rust, jsid})
    OBVIOUS
  <2>1. CASE cookie'[d] = i
    BY <1>1, <2>1 DEF Holds
  <2>2. CASE \E p \in Requests : Names(p, d, i)'
    <3>1. PICK p \in Requests : Names(p, d, i)'
      BY <2>2
    <3>2. CASE p = r
      BY <1>4, <1>7, <3>1, <3>2 DEF Names
    <3>3. CASE p # r
      BY <1>7, <3>1, <3>3 DEF Names, Holds
    <3> QED
      BY <3>2, <3>3
  <2> QED
    BY <2>1, <2>2 DEF Holds
<1>14. OneHolder'
  <2> SUFFICES ASSUME NEW i \in Ids, NEW d \in Clients, Holds(d, i)'
               PROVE  /\ \A e \in Clients : Holds(e, i)' => e = d
                      /\ shard'[i].present => \A f \in Fields : shard'[i].data[f] \in {d, None}
    BY DEF OneHolder
  <2>1. CASE fresh
    <3>1. i \in {rust, jsid} => ~(i <= generated)
      BY <1>2, <1>3, <1>5, <2>1 DEF Ids
    <3>2. CASE i \in {rust, jsid}
      <4>1. \A e \in Clients : ~Holds(e, i)
        BY <1>12, <3>1, <3>2
      <4>2. ~shard[i].present
        BY <1>10, <3>1, <3>2
      <4> QED
        BY <1>1, <1>13, <4>1, <4>2
    <3>3. CASE i \notin {rust, jsid}
      <4>1. Holds(d, i) /\ \A e \in Clients : Holds(e, i)' => Holds(e, i)
        BY <1>13, <3>3
      <4> QED
        BY <1>1, <4>1 DEF IInv, OneHolder
    <3> QED
      BY <3>2, <3>3
  <2>2. CASE ~fresh
    <3>1. \A e \in Clients : Holds(e, i)' => Holds(e, i)
      BY <1>6, <1>13, <2>2
    <3> QED
      BY <1>1, <3>1 DEF IInv, OneHolder
  <2> QED
    BY <2>1, <2>2
<1> QED
  BY <1>8, <1>9, <1>11, <1>14 DEF IInv

LEMMA GetKeeps == ASSUME IInv, NEW r \in Requests, SessionGet(r) PROVE IInv'
<1> DEFINE i == req[r].js_id
<1>1. /\ req[r].phase = "handling" /\ shard' = get(shard, i)
      /\ UNCHANGED <<cookie, req, generated, now>>
  BY DEF SessionGet, Usable
<1>2. req[r] \in Handled /\ i \in Ids
  BY <1>1, InProgress DEF IInv
<1> DEFINE e == IF ~shard[i].present THEN shard[i]
                ELSE IF is_expired(shard[i]) THEN Absent ELSE touched(shard[i])
<1>3. shard' = [shard EXCEPT ![i] = e]
  BY <1>1, <1>2 DEF get, IInv, ShardInv
<1>4. (e = Absent \/ e = shard[i] \/ e = touched(shard[i])) /\ (e # Absent => shard[i].present)
  BY <1>2, AbsentOrEntry DEF IInv, ShardInv
<1>5. OnlyChanges(i, None)
  <2> HIDE DEF e, i
  <2> QED
    BY <1>1, <1>2, <1>3, <1>4, DropStep DEF IInv
<1>6. req' = [req EXCEPT ![r] = req[r]]
  BY <1>1 DEF IInv, Types
<1> QED
  BY <1>1, <1>2, <1>5, <1>6, CallStep

LEMMA DestroyKeeps == ASSUME IInv, NEW r \in Requests, SessionDestroy(r) PROVE IInv'
<1> DEFINE i == req[r].js_id
           q == [req[r] EXCEPT !.destroyed = TRUE, !.set = {}]
<1>1. /\ req[r].phase = "handling" /\ shard' = [shard EXCEPT ![i] = Absent]
      /\ req' = [req EXCEPT ![r] = q] /\ UNCHANGED <<cookie, generated, now>>
  BY DEF SessionDestroy, Usable
<1>2. req[r] \in Handled /\ i \in Ids
  BY <1>1, InProgress DEF IInv
<1>3. q \in Handled /\ q.client = req[r].client /\ q.rust_id = req[r].rust_id /\ q.js_id = req[r].js_id
  BY <1>2 DEF Handled
<1>4. OnlyChanges(i, None)
  BY <1>1, <1>2, DropStep DEF IInv
<1> HIDE DEF q
<1> QED
  BY <1>1, <1>3, <1>4, CallStep

LEMMA WriteKeeps ==
  ASSUME IInv, NEW r \in Requests, NEW f \in Fields, SessionSet(r, f) \/ SessionDelete(r, f)
  PROVE  IInv'
<1> DEFINE i == req[r].js_id  who == req[r].client
<1>1. PICK mutations \in SUBSET Fields, deleted \in SUBSET Fields : upsert(i, mutations, deleted, who)
  BY DEF SessionSet, SessionDelete
<1>2. req[r].phase = "handling" /\ UNCHANGED <<cookie, generated, now>>
  BY DEF SessionSet, SessionDelete, Usable
<1>3. req[r] \in Handled /\ i \in Ids /\ who \in Clients
  BY <1>2, InProgress DEF IInv
<1>4. PICK set \in SUBSET Fields : req' = [req EXCEPT ![r].set = set]
  <2>1. req[r].set \in SUBSET Fields
    BY <1>3 DEF Handled
  <2>2. CASE SessionSet(r, f)
    <3> DEFINE s == IF shard'[i].present /\ shard'[i].data[f] # None
                    THEN req[r].set \cup {f} ELSE req[r].set
    <3>1. req' = [req EXCEPT ![r].set = s] /\ s \in SUBSET Fields
      BY <2>1, <2>2 DEF SessionSet
    <3> QED
      BY <3>1
  <2>3. CASE SessionDelete(r, f)
    <3>1. req' = [req EXCEPT ![r].set = req[r].set \ {f}]
      BY <2>3 DEF SessionDelete
    <3> QED
      BY <2>1, <3>1
  <2> QED
    BY <2>2, <2>3
<1> DEFINE q == [req[r] EXCEPT !.set = set]
<1>5. q \in Handled /\ q.client = req[r].client /\ q.rust_id = req[r].rust_id /\ q.js_id = req[r].js_id
  BY <1>3 DEF Handled
<1>6. req' = [req EXCEPT ![r] = q]
  BY <1>4
<1>7. OnlyChanges(i, who)
  BY <1>1, <1>2, <1>3, UpsertStep DEF IInv
<1> HIDE DEF q
<1> QED
  BY <1>2, <1>5, <1>6, <1>7, CallStep

(* For a new session the empty entry and the cookie get the id that Rust        *)
(* generated, which no other client holds.                                    *)
LEMMA RespondKeeps == ASSUME IInv, NEW r \in Requests, Respond(r) PROVE IInv'
<1> DEFINE i == req[r].rust_id  who == req[r].client
<1>1. req[r].phase = "handling" /\ req' = [req EXCEPT ![r] = NoRequest] /\ UNCHANGED <<generated, now>>
  BY DEF Respond
<1>2. i \in Ids /\ who \in Clients
  BY <1>1, InProgress DEF IInv
<1>3. OnlyChanges(i, who) /\ (cookie' = cookie \/ cookie' = [cookie EXCEPT ![who] = i])
  <2>1. CASE req[r].is_new
    <3>1. upsert(i, {}, {}, who) /\ cookie' = [cookie EXCEPT ![who] = i]
      BY <2>1 DEF Respond
    <3> QED
      BY <1>1, <1>2, <3>1, UpsertStep DEF IInv
  <2>2. CASE ~req[r].is_new
    <3>1. UNCHANGED <<shard, cookie>>
      BY <2>2 DEF Respond
    <3>2. ShardInv'
      BY <1>1, <3>1 DEF IInv, ShardInv, ShardBounded, Stored, Good
    <3> QED
      BY <3>1, <3>2 DEF OnlyChanges
  <2> QED
    BY <2>1, <2>2
<1> QED
  BY <1>1, <1>3, CallStep

\* Nothing that the invariant is about changes, but the clock.
LEMMA ClockKeeps ==
  ASSUME IInv, UNCHANGED <<shard, cookie, req, generated>>, now' \in {now, now + 1}, now' <= MaxNow
  PROVE  IInv'
<1>1. now \in Nat /\ now' \in 0..MaxNow
  BY Constants DEF IInv, Types
<1>2. Types'
  BY <1>1 DEF IInv, Types
<1>3. ShardInv'
  <2>1. \A i \in Ids : shard[i].present => Good(shard[i])'
    <3> SUFFICES ASSUME NEW i \in Ids, shard[i].present PROVE Good(shard[i])'
      OBVIOUS
    <3>1. shard[i] \in Entry /\ shard[i].last_accessed \in Nat
      BY ShardFacts DEF IInv, Entry
    <3> QED
      BY <1>1, <3>1 DEF IInv, ShardInv, Good
  <2> QED
    BY <2>1 DEF IInv, ShardInv, ShardBounded, Stored
<1>4. Known' /\ OneHolder'
  BY DEF IInv, Known, OneHolder, Holds, Names
<1> QED
  BY <1>2, <1>3, <1>4 DEF IInv

LEMMA StepInv == IInv /\ [Next]_vars => IInv'
<1> SUFFICES ASSUME IInv, [Next]_vars PROVE IInv'
  OBVIOUS
<1>1. now \in Nat /\ now <= MaxNow
  BY Constants DEF IInv, Types
<1>2. CASE Tick
  <2>1. UNCHANGED <<shard, cookie, req, generated>> /\ now' = now + 1 /\ now' <= MaxNow
    BY <1>1, <1>2, Constants DEF Tick
  <2> QED
    BY <2>1, ClockKeeps
<1>3. CASE UNCHANGED vars
  <2>1. UNCHANGED <<shard, cookie, req, generated>> /\ now' = now
    BY <1>3 DEF vars
  <2> QED
    BY <1>1, <2>1, ClockKeeps
<1> QED
  BY <1>2, <1>3, ArriveKeeps, GetKeeps, DestroyKeeps, WriteKeeps, RespondKeeps DEF Next

(* A client's session only ever holds what that client's own requests wrote,   *)
(* though Rust and JS each resolve an id, requests overlap and entries expire,  *)
(* are destroyed and evicted; and the shard stays within its share, each entry  *)
(* within its size (session.rs:249-354, session.js:216-252, lib.rs:3065-3083).  *)
THEOREM SessionsStayIsolated == Spec => []SessionsIsolated
<1>1. IInv => SessionsIsolated
  <2> SUFFICES ASSUME IInv PROVE SessionsIsolated
    OBVIOUS
  <2>1. \A c \in Clients : cookie[c] \in Ids \cup {NoId}
    BY Constants DEF IInv, Types, Known, Ids, NoId
  <2>2. \A i \in Stored(shard) : Good(shard[i]) /\ shard[i].data \in [Fields -> Clients \cup {None}]
    BY DEF IInv, ShardInv, Stored, Good, Entry
  <2>3. TypeOK
    BY <2>1, <2>2 DEF IInv, Types, TypeOK, Good
  <2>4. Isolation
    BY <2>1 DEF IInv, OneHolder, Holds, Isolation
  <2> QED
    BY <2>3, <2>4 DEF IInv, ShardInv, SessionsIsolated
<1> QED
  BY InitInv, StepInv, <1>1, PTL DEF Spec

-----------------------------------------------------------------------------
(* The response cache: its nodes, its list and its inductive invariant.        *)

Values == {NoValue} \cup [present : {TRUE}, of : Keys, tag : Tags, fresh : BOOLEAN]
Node(n) == [key : Keys \cup {NULL_NODE}, value : Values, prev : 0..n, next : 0..n]
(* A struct of n nodes, all of whose indices are within the vector. *)
Struct(n) ==
    [map : [Keys -> 0..n], nodes : [1..n -> Node(n)], head : 0..n, tail : 0..n,
     max_entries : MaxOptions, free_list : Seq(1..n)]

(* o holds the nodes of the list, the most recent first. *)
ListIs(c, m, o) ==
    /\ \A a, b \in 1..m : o[a] = o[b] => a = b
    /\ c.head = IF m = 0 THEN 0 ELSE o[1]
    /\ c.tail = IF m = 0 THEN 0 ELSE o[m]
    /\ \A a \in 1..m : /\ c.nodes[o[a]].prev = IF a = 1 THEN 0 ELSE o[a - 1]
                       /\ c.nodes[o[a]].next = IF a = m THEN 0 ELSE o[a + 1]

(* The nodes of S form the list. *)
Ordered(c, S) ==
    \E m \in Nat : \E o \in [1..m -> S] :
        ListIs(c, m, o) /\ \A i \in S : \E a \in 1..m : o[a] = i

(* Every mapped node holds the latest response of its key. *)
Filed(c, tags) ==
    \A k \in Mapped(c) :
        LET x == c.nodes[c.map[k]]
        IN  x.key = k /\ x.value.present /\ x.value.of = k /\ x.value.tag = tags[k]

(* Every node is live or free, for one key only; one that is both, or free     *)
(* twice, was left on the free list by an eviction.                           *)
Placed(c, left) ==
    /\ \A k1, k2 \in Mapped(c) : c.map[k1] = c.map[k2] => k1 = k2
    /\ ToSet(c.free_list) \cap Live(c) \subseteq left
    /\ ToSet(c.free_list) \cup Live(c) = DOMAIN c.nodes
    /\ \A a, b \in 1..Len(c.free_list) :
           c.free_list[a] = c.free_list[b] /\ a # b => c.free_list[a] \in left

Arranged(c, tags, left) == Filed(c, tags) /\ Placed(c, left) /\ Ordered(c, Live(c))

Sound(n, c) == c \in Struct(n) /\ \A i \in 1..n : c.nodes[i].key \in Keys

CacheTypes ==
    /\ \E n \in Nat : Sound(n, cache) /\ dangling \subseteq 1..n
    /\ latest \in [Keys -> Tags] /\ reused \in BOOLEAN

CacheInv == CacheTypes /\ (~reused => Arranged(cache, latest, dangling))

-----------------------------------------------------------------------------
(* The list operations.                                                       *)

(* d differs from c in the list only. *)
Relinked(n, c, d) ==
    /\ d \in Struct(n) /\ d.map = c.map /\ d.free_list = c.free_list /\ d.max_entries = c.max_entries
    /\ \A j \in 1..n : d.nodes[j].key = c.nodes[j].key /\ d.nodes[j].value = c.nodes[j].value

(* A link of one node is set. *)
SetPrev(f, i, x) == [f EXCEPT ![i].prev = x]
SetNext(f, i, x) == [f EXCEPT ![i].next = x]

(* g is f with prev, or next, of node i set to x. *)
PrevIsSet(n, f, g, i, x) ==
    g \in [1..n -> Node(n)] /\ \A j \in 1..n :
        /\ g[j].prev = (IF j = i THEN x ELSE f[j].prev) /\ g[j].next = f[j].next
        /\ g[j].key = f[j].key /\ g[j].value = f[j].value
NextIsSet(n, f, g, i, x) ==
    g \in [1..n -> Node(n)] /\ \A j \in 1..n :
        /\ g[j].next = (IF j = i THEN x ELSE f[j].next) /\ g[j].prev = f[j].prev
        /\ g[j].key = f[j].key /\ g[j].value = f[j].value

LEMMA SetLink ==
  ASSUME NEW n \in Nat, NEW f \in [1..n -> Node(n)], NEW i \in 1..n, NEW x \in 0..n
  PROVE  PrevIsSet(n, f, SetPrev(f, i, x), i, x) /\ NextIsSet(n, f, SetNext(f, i, x), i, x)
<1>1. f[i] \in Node(n) /\ \A j \in 1..n : f[j] \in Node(n)
  OBVIOUS
<1>2. [f[i] EXCEPT !.prev = x] \in Node(n) /\ [f[i] EXCEPT !.next = x] \in Node(n)
  BY <1>1 DEF Node
<1>3. /\ [f[i] EXCEPT !.prev = x].prev = x /\ [f[i] EXCEPT !.prev = x].next = f[i].next
      /\ [f[i] EXCEPT !.prev = x].key = f[i].key /\ [f[i] EXCEPT !.prev = x].value = f[i].value
      /\ [f[i] EXCEPT !.next = x].next = x /\ [f[i] EXCEPT !.next = x].prev = f[i].prev
      /\ [f[i] EXCEPT !.next = x].key = f[i].key /\ [f[i] EXCEPT !.next = x].value = f[i].value
  BY <1>1 DEF Node
<1> DEFINE u == SetPrev(f, i, x)
           v == SetNext(f, i, x)
           up == [f[i] EXCEPT !.prev = x]
           vp == [f[i] EXCEPT !.next = x]
<1>4. u = [f EXCEPT ![i] = up] /\ v = [f EXCEPT ![i] = vp]
  BY DEF SetPrev, SetNext
<1> HIDE DEF u, v, up, vp
<1>5. u \in [1..n -> Node(n)] /\ v \in [1..n -> Node(n)]
  BY <1>2, <1>4 DEF up, vp
<1>6. \A j \in 1..n : u[j] = (IF j = i THEN up ELSE f[j]) /\ v[j] = (IF j = i THEN vp ELSE f[j])
  BY <1>4
<1>7. \A j \in 1..n : /\ u[j].prev = (IF j = i THEN x ELSE f[j].prev)
                      /\ u[j].next = f[j].next /\ u[j].key = f[j].key /\ u[j].value = f[j].value
                      /\ v[j].next = (IF j = i THEN x ELSE f[j].next)
                      /\ v[j].prev = f[j].prev /\ v[j].key = f[j].key /\ v[j].value = f[j].value
  BY <1>3, <1>6 DEF up, vp
<1> QED
  BY <1>5, <1>7 DEF u, v, PrevIsSet, NextIsSet

(* What pushing a node at the head changes. *)
LEMMA PushHead ==
  ASSUME NEW n \in Nat, NEW c \in Struct(n), NEW i \in 1..n
  PROVE  LET d == push_head(c, i)
         IN  /\ Relinked(n, c, d)
             /\ d.head = i /\ d.tail = (IF c.tail = 0 THEN i ELSE c.tail)
             /\ \A j \in 1..n :
                  /\ d.nodes[j].prev = (IF j = c.head THEN i ELSE IF j = i THEN 0 ELSE c.nodes[j].prev)
                  /\ d.nodes[j].next = (IF j = i THEN c.head ELSE c.nodes[j].next)
<1> DEFINE n0 == SetPrev(c.nodes, i, 0)
           n1 == [c.nodes EXCEPT ![i].prev = NULL_NODE, ![i].next = c.head]
           n2 == IF c.head # NULL_NODE THEN [n1 EXCEPT ![c.head].prev = i] ELSE n1
           d == push_head(c, i)
<1>1. c.nodes \in [1..n -> Node(n)] /\ c.head \in 0..n /\ c.tail \in 0..n
  BY DEF Struct
<1>2. n0 \in [1..n -> Node(n)] /\ \A j \in 1..n :
        /\ n0[j].prev = (IF j = i THEN 0 ELSE c.nodes[j].prev) /\ n0[j].next = c.nodes[j].next
        /\ n0[j].key = c.nodes[j].key /\ n0[j].value = c.nodes[j].value
  <2>1. 0 \in 0..n /\ c.nodes \in [1..n -> Node(n)]
    BY <1>1
  <2> HIDE DEF n0
  <2>2. PrevIsSet(n, c.nodes, SetPrev(c.nodes, i, 0), i, 0)
    BY <2>1, SetLink
  <2> QED
    BY <2>2 DEF n0, PrevIsSet
<1>3. n1 = SetNext(n0, i, c.head)
  BY DEF SetPrev, SetNext, NULL_NODE
<1> HIDE DEF n0
<1>4. NextIsSet(n, n0, SetNext(n0, i, c.head), i, c.head)
  <2>1. n0 \in [1..n -> Node(n)] /\ c.head \in 0..n
    BY <1>1, <1>2
  <2> QED
    BY <2>1, SetLink
<1>5. n1 \in [1..n -> Node(n)] /\ \A j \in 1..n :
        /\ n1[j].prev = (IF j = i THEN 0 ELSE c.nodes[j].prev)
        /\ n1[j].next = (IF j = i THEN c.head ELSE c.nodes[j].next)
        /\ n1[j].key = c.nodes[j].key /\ n1[j].value = c.nodes[j].value
  BY <1>2, <1>3, <1>4 DEF NextIsSet
<1>6. d = [c EXCEPT !.nodes = n2, !.head = i, !.tail = IF @ = NULL_NODE THEN i ELSE @]
  BY DEF push_head
<1> HIDE DEF n1, d
<1>7. n2 \in [1..n -> Node(n)] /\ \A j \in 1..n :
        /\ n2[j].prev = (IF j = c.head THEN i ELSE IF j = i THEN 0 ELSE c.nodes[j].prev)
        /\ n2[j].next = (IF j = i THEN c.head ELSE c.nodes[j].next)
        /\ n2[j].key = c.nodes[j].key /\ n2[j].value = c.nodes[j].value
  <2>1. CASE c.head = 0
    BY <1>5, <2>1 DEF NULL_NODE
  <2>2. CASE c.head \in 1..n
    <3>1. PrevIsSet(n, n1, SetPrev(n1, c.head, i), c.head, i)
      <4>1. n1 \in [1..n -> Node(n)] /\ c.head \in 1..n /\ i \in 0..n
        BY <1>5, <2>2
      <4> QED
        BY <4>1, SetLink
    <3>2. n2 = SetPrev(n1, c.head, i)
      BY <2>2 DEF NULL_NODE, SetPrev
    <3> HIDE DEF n2
    <3> QED
      BY <1>5, <3>1, <3>2 DEF PrevIsSet
  <2> QED
    BY <1>1, <2>1, <2>2
<1> HIDE DEF n2
<1>8. /\ d.nodes = n2 /\ d.head = i /\ d.tail = (IF c.tail = 0 THEN i ELSE c.tail)
      /\ d.map = c.map /\ d.free_list = c.free_list /\ d.max_entries = c.max_entries /\ d \in Struct(n)
  <2> DEFINE y == IF c.tail = 0 THEN i ELSE c.tail
  <2>1. d = [c EXCEPT !.nodes = n2, !.head = i, !.tail = y]
    BY <1>6 DEF NULL_NODE
  <2>2. y \in 0..n
    BY <1>1
  <2> HIDE DEF y
  <2>0. n2 \in [1..n -> Node(n)] /\ i \in 0..n
    BY <1>7
  <2>3. /\ d.nodes = n2 /\ d.head = i /\ d.tail = y /\ d.map = c.map /\ d.free_list = c.free_list
        /\ d.max_entries = c.max_entries /\ d \in Struct(n)
    BY <2>0, <2>1, <2>2 DEF Struct
  <2> QED
    BY <2>3 DEF y
<1>9. Relinked(n, c, d)
  BY <1>7, <1>8 DEF Relinked
<1> QED
  BY <1>7, <1>8, <1>9 DEF d

(* What taking a node out of the list changes. *)
LEMMA RemoveLink ==
  ASSUME NEW n \in Nat, NEW c \in Struct(n), NEW i \in 1..n
  PROVE  LET d == remove_link(c, i)
             p == c.nodes[i].prev
             x == c.nodes[i].next
         IN  /\ Relinked(n, c, d)
             /\ d.head = (IF p = 0 THEN x ELSE c.head) /\ d.tail = (IF x = 0 THEN p ELSE c.tail)
             /\ \A j \in 1..n :
                  /\ d.nodes[j].prev = (IF j = x THEN p ELSE c.nodes[j].prev)
                  /\ d.nodes[j].next = (IF j = p THEN x ELSE c.nodes[j].next)
<1> DEFINE p == c.nodes[i].prev
           x == c.nodes[i].next
           n1 == IF p # NULL_NODE THEN [c.nodes EXCEPT ![p].next = x] ELSE c.nodes
           n2 == IF x # NULL_NODE THEN [n1 EXCEPT ![x].prev = p] ELSE n1
           d == remove_link(c, i)
<1>1. c.nodes \in [1..n -> Node(n)] /\ c.head \in 0..n /\ c.tail \in 0..n /\ p \in 0..n /\ x \in 0..n
  BY DEF Struct, Node
<1>2. d = [c EXCEPT !.nodes = n2, !.head = IF p = NULL_NODE THEN x ELSE @,
                    !.tail = IF x = NULL_NODE THEN p ELSE @]
  BY DEF remove_link
<1> HIDE DEF p, x, d
<1>3. n1 \in [1..n -> Node(n)] /\ \A j \in 1..n :
        /\ n1[j].prev = c.nodes[j].prev /\ n1[j].next = (IF j = p THEN x ELSE c.nodes[j].next)
        /\ n1[j].key = c.nodes[j].key /\ n1[j].value = c.nodes[j].value
  <2>1. CASE p = 0
    BY <1>1, <2>1 DEF NULL_NODE
  <2>2. CASE p \in 1..n
    <3>1. n1 = SetNext(c.nodes, p, x)
      BY <2>2 DEF NULL_NODE, SetNext
    <3> HIDE DEF n1
    <3>2. NextIsSet(n, c.nodes, SetNext(c.nodes, p, x), p, x)
      <4>1. c.nodes \in [1..n -> Node(n)] /\ x \in 0..n
        BY <1>1
      <4> QED
        BY <2>2, <4>1, SetLink
    <3> QED
      BY <3>1, <3>2 DEF NextIsSet
  <2> QED
    BY <1>1, <2>1, <2>2
<1> HIDE DEF n1
<1>4. n2 \in [1..n -> Node(n)] /\ \A j \in 1..n :
        /\ n2[j].prev = (IF j = x THEN p ELSE c.nodes[j].prev)
        /\ n2[j].next = (IF j = p THEN x ELSE c.nodes[j].next)
        /\ n2[j].key = c.nodes[j].key /\ n2[j].value = c.nodes[j].value
  <2>1. CASE x = 0
    BY <1>3, <2>1 DEF NULL_NODE
  <2>2. CASE x \in 1..n
    <3>1. n2 = SetPrev(n1, x, p)
      BY <2>2 DEF NULL_NODE, SetPrev
    <3> HIDE DEF n2
    <3>2. PrevIsSet(n, n1, SetPrev(n1, x, p), x, p)
      <4>1. n1 \in [1..n -> Node(n)] /\ x \in 1..n /\ p \in 0..n
        BY <1>1, <1>3, <2>2
      <4> QED
        BY <4>1, SetLink
    <3> QED
      BY <1>3, <3>1, <3>2 DEF PrevIsSet
  <2> QED
    BY <1>1, <2>1, <2>2
<1> HIDE DEF n2
<1>5. /\ d.nodes = n2 /\ d.head = (IF p = 0 THEN x ELSE c.head) /\ d.tail = (IF x = 0 THEN p ELSE c.tail)
      /\ d.map = c.map /\ d.free_list = c.free_list /\ d.max_entries = c.max_entries /\ d \in Struct(n)
  BY <1>1, <1>2, <1>4 DEF Struct, NULL_NODE
<1>6. Relinked(n, c, d)
  BY <1>4, <1>5 DEF Relinked
<1> QED
  BY <1>4, <1>5, <1>6 DEF d, p, x

(* A node that is pushed becomes the first of the list. *)
LEMMA PushOrdered ==
  ASSUME NEW n \in Nat, NEW c \in Struct(n), NEW S \in SUBSET (1..n), NEW i \in (1..n) \ S, Ordered(c, S)
  PROVE  Ordered(push_head(c, i), S \cup {i})
<1> DEFINE d == push_head(c, i)
<1>0. PICK m \in Nat : \E o \in [1..m -> S] : ListIs(c, m, o) /\ \A j \in S : \E a \in 1..m : o[a] = j
  BY DEF Ordered
<1>1. PICK o \in [1..m -> S] : ListIs(c, m, o) /\ \A j \in S : \E a \in 1..m : o[a] = j
  BY <1>0
<1>2. /\ d.head = i /\ d.tail = (IF c.tail = 0 THEN i ELSE c.tail)
      /\ \A j \in 1..n :
           /\ d.nodes[j].prev = (IF j = c.head THEN i ELSE IF j = i THEN 0 ELSE c.nodes[j].prev)
           /\ d.nodes[j].next = (IF j = i THEN c.head ELSE c.nodes[j].next)
  BY PushHead
<1> HIDE DEF d
<1> DEFINE w == [a \in 1..m + 1 |-> IF a = 1 THEN i ELSE o[a - 1]]
<1>3. w \in [1..m + 1 -> S \cup {i}] /\ w[1] = i /\ \A a \in 1..m : w[a + 1] = o[a]
  OBVIOUS
<1>4. \A a \in 1..m + 1 : a = 1 \/ (a - 1 \in 1..m /\ w[a] = o[a - 1])
  OBVIOUS
<1> HIDE DEF w
<1>5. \A a, b \in 1..m + 1 : w[a] = w[b] => a = b
  <2> TAKE a \in 1..m + 1, b \in 1..m + 1
  <2> HAVE w[a] = w[b]
  <2>1. \A e \in 1..m : o[e] # i
    OBVIOUS
  <2>2. CASE a = 1 \/ b = 1
    BY <1>3, <1>4, <2>1, <2>2
  <2>3. CASE a # 1 /\ b # 1
    <3>1. a - 1 = b - 1
      BY <1>1, <1>4, <2>3 DEF ListIs
    <3> QED
      BY <3>1
  <2> QED
    BY <2>2, <2>3
<1>6. d.tail = w[m + 1]
  <2>1. CASE m = 0
    BY <1>1, <1>2, <1>3, <2>1 DEF ListIs
  <2>2. CASE m # 0
    <3>1. m \in 1..m /\ c.tail = o[m] /\ o[m] \in S
      BY <1>1, <2>2 DEF ListIs
    <3>2. w[m + 1] = o[m]
      BY <1>3, <3>1
    <3> QED
      BY <1>2, <3>1, <3>2
  <2> QED
    BY <2>1, <2>2
<1>7. ASSUME NEW a \in 1..m + 1
      PROVE  /\ d.nodes[w[a]].prev = (IF a = 1 THEN 0 ELSE w[a - 1])
             /\ d.nodes[w[a]].next = (IF a = m + 1 THEN 0 ELSE w[a + 1])
  <2>1. CASE a = 1
    <3>1. c.head # i
      BY <1>1 DEF ListIs
    <3>2. d.nodes[i].prev = 0 /\ d.nodes[i].next = c.head
      BY <1>2, <3>1
    <3>3. c.head = (IF 1 = m + 1 THEN 0 ELSE w[2])
      <4>1. m # 0 => w[1 + 1] = o[1]
        BY <1>3
      <4> QED
        BY <1>1, <4>1 DEF ListIs
    <3> QED
      BY <1>3, <2>1, <3>2, <3>3
  <2>2. CASE a # 1
    <3> DEFINE e == a - 1
    <3>1. e \in 1..m /\ w[a] = o[e] /\ o[e] \in S /\ a = e + 1 /\ m # 0
      BY <1>4, <2>2
    <3> HIDE DEF e
    <3>2. o[e] \in 1..n /\ o[e] # i /\ d.nodes[o[e]].next = c.nodes[o[e]].next
      BY <1>2, <3>1
    <3>3. c.nodes[o[e]].next = (IF a = m + 1 THEN 0 ELSE w[a + 1])
      <4>1. c.nodes[o[e]].next = (IF e = m THEN 0 ELSE o[e + 1])
        BY <1>1, <3>1 DEF ListIs
      <4>2. e # m => e + 1 \in 1..m /\ w[a + 1] = o[e + 1]
        BY <1>3, <3>1
      <4> QED
        BY <3>1, <4>1, <4>2
    <3>4. d.nodes[o[e]].prev = w[a - 1]
      <4>1. CASE e = 1
        BY <1>1, <1>2, <1>3, <3>1, <3>2, <4>1 DEF ListIs
      <4>2. CASE e # 1
        <5>1. o[e] # o[1] /\ c.head = o[1] /\ c.nodes[o[e]].prev = o[e - 1]
          BY <1>1, <3>1, <4>2 DEF ListIs
        <5>2. e - 1 \in 1..m /\ w[(e - 1) + 1] = o[e - 1] /\ (e - 1) + 1 = a - 1
          BY <1>3, <3>1, <4>2
        <5> QED
          BY <1>2, <3>2, <5>1, <5>2
      <4> QED
        BY <4>1, <4>2
    <3> QED
      BY <2>2, <3>1, <3>2, <3>3, <3>4
  <2> QED
    BY <2>1, <2>2
<1>8. ListIs(d, m + 1, w)
  BY <1>2, <1>3, <1>5, <1>6, <1>7 DEF ListIs
<1>9. \A j \in S \cup {i} : \E a \in 1..m + 1 : w[a] = j
  <2>1. 1 \in 1..m + 1 /\ \A a \in 1..m : a + 1 \in 1..m + 1
    OBVIOUS
  <2> QED
    BY <1>1, <1>3, <2>1
<1>10. m + 1 \in Nat
  OBVIOUS
<1> QED
  BY <1>3, <1>8, <1>9, <1>10 DEF Ordered, d

(* A node that is taken out leaves the list of the others.                    *)
LEMMA RemoveOrdered ==
  ASSUME NEW n \in Nat, NEW c \in Struct(n), NEW S \in SUBSET (1..n), NEW i \in S, Ordered(c, S)
  PROVE  Ordered(remove_link(c, i), S \ {i})
<1> DEFINE d == remove_link(c, i)
           x == c.nodes[i].next
           q == c.nodes[i].prev
<1>0. PICK m \in Nat : \E o \in [1..m -> S] : ListIs(c, m, o) /\ \A j \in S : \E a \in 1..m : o[a] = j
  BY DEF Ordered
<1>1. PICK o \in [1..m -> S] : ListIs(c, m, o) /\ \A j \in S : \E a \in 1..m : o[a] = j
  BY <1>0
<1>2. PICK p \in 1..m : o[p] = i
  BY <1>1
<1>3. /\ d.head = (IF q = 0 THEN x ELSE c.head) /\ d.tail = (IF x = 0 THEN q ELSE c.tail)
      /\ \A j \in 1..n :
           /\ d.nodes[j].prev = (IF j = x THEN q ELSE c.nodes[j].prev)
           /\ d.nodes[j].next = (IF j = q THEN x ELSE c.nodes[j].next)
  BY RemoveLink
<1>4. q = (IF p = 1 THEN 0 ELSE o[p - 1]) /\ x = (IF p = m THEN 0 ELSE o[p + 1])
  BY <1>1, <1>2 DEF ListIs
<1> HIDE DEF d, x, q
<1>5. \A a \in 1..m : o[a] \in S /\ o[a] \in 1..n /\ o[a] # 0 /\ (o[a] = i => a = p)
  <2>1. \A a \in 1..m : o[a] \in S
    OBVIOUS
  <2>2. \A a \in 1..m : o[a] = i => a = p
    BY <1>1, <1>2 DEF ListIs
  <2>3. \A j \in S : j \in 1..n /\ j # 0
    OBVIOUS
  <2> QED
    BY <2>1, <2>2, <2>3
<1>6. m \in Nat \ {0} /\ m - 1 \in Nat
  OBVIOUS
<1> DEFINE w == [a \in 1..m - 1 |-> IF a < p THEN o[a] ELSE o[a + 1]]
<1>7. \A a \in 1..m - 1 : \/ a < p /\ a \in 1..m /\ w[a] = o[a]
                          \/ a >= p /\ a + 1 \in 1..m /\ w[a] = o[a + 1]
  BY <1>6
<1>8. w \in [1..m - 1 -> S \ {i}]
  <2>1. \A a \in 1..m - 1 : w[a] \in S \ {i}
    BY <1>5, <1>7
  <2> QED
    BY <2>1
<1> HIDE DEF w
<1>9. \A a, b \in 1..m - 1 : w[a] = w[b] => a = b
  <2> TAKE a \in 1..m - 1, b \in 1..m - 1
  <2> HAVE w[a] = w[b]
  <2>1. \A e, f \in 1..m : o[e] = o[f] => e = f
    BY <1>1 DEF ListIs
  <2>2. CASE a < p /\ b < p
    BY <1>7, <2>1, <2>2
  <2>3. CASE a >= p /\ b >= p
    <3>1. a + 1 = b + 1
      BY <1>7, <2>1, <2>3
    <3> QED
      BY <3>1
  <2>4. CASE a < p /\ b >= p
    <3>1. a = b + 1
      BY <1>7, <2>1, <2>4
    <3> QED
      BY <2>4, <3>1
  <2>5. CASE a >= p /\ b < p
    <3>1. a + 1 = b
      BY <1>7, <2>1, <2>5
    <3> QED
      BY <2>5, <3>1
  <2> QED
    BY <2>2, <2>3, <2>4, <2>5
<1>10. d.head = (IF m - 1 = 0 THEN 0 ELSE w[1])
  <2>1. CASE p = 1
    <3>1. m # 1 => w[1] = o[2]
      BY <1>6, <1>7, <2>1
    <3> QED
      BY <1>3, <1>4, <2>1, <3>1
  <2>2. CASE p # 1
    <3>1. m - 1 # 0 /\ w[1] = o[1] /\ q # 0
      BY <1>4, <1>5, <1>6, <1>7, <2>2
    <3> QED
      BY <1>1, <1>3, <3>1 DEF ListIs
  <2> QED
    BY <2>1, <2>2
<1>11. d.tail = (IF m - 1 = 0 THEN 0 ELSE w[m - 1])
  <2>1. CASE p = m
    <3>1. m # 1 => w[m - 1] = o[m - 1]
      BY <1>6, <1>7, <2>1
    <3> QED
      BY <1>3, <1>4, <2>1, <3>1
  <2>2. CASE p # m
    <3>1. m - 1 # 0 /\ w[m - 1] = o[m] /\ x # 0
      BY <1>4, <1>5, <1>6, <1>7, <2>2
    <3> QED
      BY <1>1, <1>3, <3>1 DEF ListIs
  <2> QED
    BY <2>1, <2>2
<1>12. ASSUME NEW a \in 1..m - 1 PROVE d.nodes[w[a]].prev = (IF a = 1 THEN 0 ELSE w[a - 1])
  <2>1. CASE a < p
    <3>1. a \in 1..m /\ w[a] = o[a] /\ o[a] # x /\ c.nodes[o[a]].prev = (IF a = 1 THEN 0 ELSE o[a - 1])
      <4>1. a \in 1..m /\ w[a] = o[a]
        BY <1>7, <2>1
      <4>2. o[a] # x
        <5>1. CASE p = m
          BY <1>4, <1>5, <4>1, <5>1
        <5>2. CASE p # m
          <6>1. p + 1 \in 1..m /\ a # p + 1 /\ x = o[p + 1]
            BY <1>4, <2>1, <5>2
          <6> QED
            BY <1>1, <4>1, <6>1 DEF ListIs
        <5> QED
          BY <5>1, <5>2
      <4> QED
        BY <1>1, <4>1, <4>2 DEF ListIs
    <3>2. a # 1 => w[a - 1] = o[a - 1]
      BY <1>7, <2>1
    <3>3. d.nodes[o[a]].prev = c.nodes[o[a]].prev
      BY <1>3, <1>5, <3>1
    <3> QED
      BY <3>1, <3>2, <3>3
  <2>2. CASE a = p
    <3>1. a + 1 \in 1..m /\ w[a] = o[a + 1] /\ x = o[a + 1]
      BY <1>4, <1>7, <2>2
    <3>2. d.nodes[x].prev = q
      BY <1>3, <1>5, <3>1
    <3>3. a # 1 => w[a - 1] = o[a - 1]
      BY <1>7, <2>2
    <3> QED
      BY <1>4, <2>2, <3>1, <3>2, <3>3
  <2>3. CASE a > p
    <3>1. a + 1 \in 1..m /\ w[a] = o[a + 1]
      BY <1>7, <2>3
    <3>2. o[a + 1] # x
      <4>1. p + 1 \in 1..m /\ a + 1 # p + 1 /\ x = o[p + 1]
        BY <1>4, <2>3, <3>1
      <4> QED
        BY <1>1, <3>1, <4>1 DEF ListIs
    <3>3. c.nodes[o[a + 1]].prev = o[a]
      <4>1. c.nodes[o[a + 1]].prev = (IF a + 1 = 1 THEN 0 ELSE o[(a + 1) - 1]) /\ (a + 1) - 1 = a /\ a + 1 # 1
        BY <1>1, <3>1 DEF ListIs
      <4> QED
        BY <4>1
    <3>4. w[a - 1] = o[a]
      <4>1. a - 1 \in 1..m - 1 /\ a - 1 >= p /\ (a - 1) + 1 = a
        BY <2>3
      <4> QED
        BY <1>7, <4>1
    <3>5. d.nodes[o[a + 1]].prev = c.nodes[o[a + 1]].prev
      BY <1>3, <1>5, <3>1, <3>2
    <3> QED
      BY <2>3, <3>1, <3>3, <3>4, <3>5
  <2> QED
    BY <2>1, <2>2, <2>3
<1>13. ASSUME NEW a \in 1..m - 1 PROVE d.nodes[w[a]].next = (IF a = m - 1 THEN 0 ELSE w[a + 1])
  <2>1. CASE a < p - 1
    <3>1. a \in 1..m /\ w[a] = o[a] /\ a # m
      BY <1>7, <2>1
    <3>2. o[a] # q
      <4>1. p - 1 \in 1..m /\ a # p - 1 /\ q = o[p - 1]
        BY <1>4, <2>1
      <4> QED
        BY <1>1, <3>1, <4>1 DEF ListIs
    <3>3. c.nodes[o[a]].next = o[a + 1]
      BY <1>1, <3>1 DEF ListIs
    <3>4. a # m - 1 /\ w[a + 1] = o[a + 1]
      BY <1>7, <2>1
    <3>5. d.nodes[o[a]].next = c.nodes[o[a]].next
      BY <1>3, <1>5, <3>1, <3>2
    <3> QED
      BY <3>1, <3>3, <3>4, <3>5
  <2>2. CASE a = p - 1
    <3>1. a \in 1..m /\ w[a] = o[a] /\ q = o[a]
      BY <1>4, <1>7, <2>2
    <3>2. d.nodes[q].next = x
      BY <1>3, <1>5, <3>1
    <3>3. p # m => a # m - 1 /\ w[a + 1] = o[p + 1]
      BY <1>7, <2>2
    <3> QED
      BY <1>4, <2>2, <3>1, <3>2, <3>3
  <2>3. CASE a >= p
    <3>1. a + 1 \in 1..m /\ w[a] = o[a + 1]
      BY <1>7, <2>3
    <3>2. o[a + 1] # q
      <4>1. CASE p = 1
        BY <1>4, <1>5, <3>1, <4>1
      <4>2. CASE p # 1
        <5>1. p - 1 \in 1..m /\ a + 1 # p - 1 /\ q = o[p - 1]
          BY <1>4, <2>3, <4>2
        <5> QED
          BY <1>1, <3>1, <5>1 DEF ListIs
      <4> QED
        BY <4>1, <4>2
    <3>3. c.nodes[o[a + 1]].next = (IF a + 1 = m THEN 0 ELSE o[a + 2])
      <4>1. c.nodes[o[a + 1]].next = (IF a + 1 = m THEN 0 ELSE o[(a + 1) + 1]) /\ (a + 1) + 1 = a + 2
        BY <1>1, <3>1 DEF ListIs
      <4> QED
        BY <4>1
    <3>4. a # m - 1 => w[a + 1] = o[a + 2]
      <4>1. a # m - 1 => a + 1 \in 1..m - 1 /\ a + 1 >= p /\ (a + 1) + 1 = a + 2
        BY <2>3
      <4> QED
        BY <1>7, <4>1
    <3>5. d.nodes[o[a + 1]].next = c.nodes[o[a + 1]].next
      BY <1>3, <1>5, <3>1, <3>2
    <3> QED
      BY <3>1, <3>3, <3>4, <3>5
  <2> QED
    BY <2>1, <2>2, <2>3
<1>14. ListIs(d, m - 1, w)
  BY <1>9, <1>10, <1>11, <1>12, <1>13 DEF ListIs
<1>15. \A j \in S \ {i} : \E a \in 1..m - 1 : w[a] = j
  <2> TAKE j \in S \ {i}
  <2>1. PICK e \in 1..m : o[e] = j
    BY <1>1
  <2>2. e # p
    BY <1>2, <2>1
  <2>3. CASE e < p
    <3>1. e \in 1..m - 1 /\ w[e] = o[e]
      BY <1>7, <2>3
    <3> QED
      BY <2>1, <3>1
  <2>4. CASE e > p
    <3>1. e - 1 \in 1..m - 1 /\ e - 1 >= p /\ (e - 1) + 1 = e
      BY <2>4
    <3>2. w[e - 1] = o[e]
      BY <1>7, <3>1
    <3> QED
      BY <2>1, <3>1, <3>2
  <2> QED
    BY <2>2, <2>3, <2>4
<1> QED
  BY <1>6, <1>8, <1>14, <1>15 DEF Ordered, d

-----------------------------------------------------------------------------
(* The operations of the cache.                                               *)

(* The fields of a struct. *)
LEMMA StructFields ==
  ASSUME NEW n \in Nat, NEW c \in Struct(n)
  PROVE  /\ c.map \in [Keys -> 0..n] /\ c.nodes \in [1..n -> Node(n)] /\ c.head \in 0..n /\ c.tail \in 0..n
         /\ c.max_entries \in MaxOptions /\ c.free_list \in Seq(1..n) /\ Len(c.free_list) \in Nat
         /\ DOMAIN c.nodes = 1..n /\ Len(c.nodes) = n
<1>1. /\ c.map \in [Keys -> 0..n] /\ c.nodes \in [1..n -> Node(n)] /\ c.head \in 0..n /\ c.tail \in 0..n
      /\ c.max_entries \in MaxOptions /\ c.free_list \in Seq(1..n)
  BY DEF Struct
<1>2. DOMAIN c.nodes = 1..n
  BY <1>1
<1>3. Len(c.nodes) = n
  BY <1>1, <1>2
<1> QED
  BY <1>1, <1>2, <1>3

(* The list is what head, tail, prev and next say. *)
LEMMA SameList ==
  ASSUME NEW S, NEW c, NEW d, d.head = c.head, d.tail = c.tail,
         \A j \in S : d.nodes[j].prev = c.nodes[j].prev /\ d.nodes[j].next = c.nodes[j].next,
         Ordered(c, S)
  PROVE  Ordered(d, S)
<1>1. PICK m \in Nat : \E o \in [1..m -> S] : ListIs(c, m, o) /\ \A j \in S : \E a \in 1..m : o[a] = j
  BY DEF Ordered
<1>2. PICK o \in [1..m -> S] : ListIs(c, m, o) /\ \A j \in S : \E a \in 1..m : o[a] = j
  BY <1>1
<1>3. \A a \in 1..m : d.nodes[o[a]].prev = c.nodes[o[a]].prev /\ d.nodes[o[a]].next = c.nodes[o[a]].next
  OBVIOUS
<1>4. ListIs(d, m, o)
  BY <1>2, <1>3 DEF ListIs
<1> QED
  BY <1>2, <1>4 DEF Ordered

(* Nodes that keep their key and value stay filed. *)
LEMMA SameFiled ==
  ASSUME NEW c, NEW d, NEW tags, Filed(c, tags),
         \A j \in Mapped(d) : /\ j \in Mapped(c)
                               /\ d.nodes[d.map[j]].key = c.nodes[c.map[j]].key
                               /\ d.nodes[d.map[j]].value = c.nodes[c.map[j]].value
  PROVE  Filed(d, tags)
<1> SUFFICES ASSUME NEW j \in Mapped(d)
             PROVE  LET x == d.nodes[d.map[j]]
                    IN  x.key = j /\ x.value.present /\ x.value.of = j /\ x.value.tag = tags[j]
  BY DEF Filed
<1>1. LET x == c.nodes[c.map[j]]
      IN  x.key = j /\ x.value.present /\ x.value.of = j /\ x.value.tag = tags[j]
  BY DEF Filed
<1> QED
  BY <1>1

(* Moving a node to the head changes the list only, and its order. *)
LEMMA MoveToHead ==
  ASSUME NEW n \in Nat, NEW c \in Struct(n), NEW i \in 1..n
  PROVE  /\ Relinked(n, c, move_to_head(c, i))
         /\ \A S \in SUBSET (1..n) : i \in S /\ Ordered(c, S) => Ordered(move_to_head(c, i), S)
<1>1. CASE c.head = i
  BY <1>1 DEF move_to_head, Relinked
<1>2. CASE c.head # i
  <2> DEFINE u == remove_link(c, i)
             d == push_head(u, i)
  <2>1. Relinked(n, c, u) /\ u \in Struct(n)
    BY RemoveLink DEF Relinked
  <2>2. \A S \in SUBSET (1..n) : i \in S /\ Ordered(c, S) => Ordered(u, S \ {i})
    BY RemoveOrdered
  <2> HIDE DEF u
  <2>3. Relinked(n, u, d)
    BY <2>1, PushHead
  <2>4. \A S \in SUBSET (1..n) : i \in S /\ Ordered(u, S \ {i}) => Ordered(d, S)
    <3> SUFFICES ASSUME NEW S \in SUBSET (1..n), i \in S, Ordered(u, S \ {i}) PROVE Ordered(d, S)
      OBVIOUS
    <3>1. S \ {i} \in SUBSET (1..n) /\ i \in (1..n) \ (S \ {i}) /\ (S \ {i}) \cup {i} = S
      OBVIOUS
    <3>2. Ordered(push_head(u, i), (S \ {i}) \cup {i})
      BY <2>1, <3>1, PushOrdered
    <3> QED
      BY <3>1, <3>2
  <2>5. move_to_head(c, i) = d
    BY <1>2 DEF move_to_head, u
  <2> HIDE DEF d
  <2>6. Relinked(n, c, d)
    BY <2>1, <2>3 DEF Relinked
  <2> QED
    BY <2>2, <2>4, <2>5, <2>6
<1> QED
  BY <1>1, <1>2

(* Taking a node off the list puts it on the free list, without a value. *)
LEMMA RemoveNode ==
  ASSUME NEW n \in Nat, NEW c \in Struct(n), NEW i \in 1..n
  PROVE  LET d == remove_node(c, i)
         IN  /\ d \in Struct(n) /\ d.map = c.map /\ d.max_entries = c.max_entries
             /\ d.free_list = Append(c.free_list, i)
             /\ \A j \in 1..n : d.nodes[j].key = c.nodes[j].key /\ (j # i => d.nodes[j].value = c.nodes[j].value)
             /\ \A S \in SUBSET (1..n) : i \in S /\ Ordered(c, S) => Ordered(d, S \ {i})
<1> DEFINE u == remove_link(c, i)
           f == [u.nodes EXCEPT ![i].value = NoValue]
           d == remove_node(c, i)
<1>1. Relinked(n, c, u)
  BY RemoveLink
<1>2. u \in Struct(n)
  BY <1>1 DEF Relinked
<1>3. \A S \in SUBSET (1..n) : i \in S /\ Ordered(c, S) => Ordered(u, S \ {i})
  BY RemoveOrdered
<1>4. d = [u EXCEPT !.nodes = f, !.free_list = Append(u.free_list, i)]
  BY DEF remove_node
<1> HIDE DEF u, d
<1>5. u.nodes \in [1..n -> Node(n)] /\ u.nodes[i] \in Node(n)
  BY <1>2, StructFields
<1>6. f \in [1..n -> Node(n)] /\ \A j \in 1..n :
        /\ f[j].key = u.nodes[j].key /\ f[j].prev = u.nodes[j].prev /\ f[j].next = u.nodes[j].next
        /\ j # i => f[j].value = u.nodes[j].value
  BY <1>5 DEF Node, Values
<1> HIDE DEF f
<1>7. Append(u.free_list, i) \in Seq(1..n)
  BY <1>2, StructFields
<1>8. /\ d.nodes = f /\ d.head = u.head /\ d.tail = u.tail /\ d.map = u.map /\ d.max_entries = u.max_entries
      /\ d.free_list = Append(u.free_list, i) /\ d \in Struct(n)
  BY <1>2, <1>4, <1>6, <1>7 DEF Struct
<1>9. \A S \in SUBSET (1..n) : Ordered(u, S) => Ordered(d, S)
  <2> SUFFICES ASSUME NEW S \in SUBSET (1..n), Ordered(u, S) PROVE Ordered(d, S)
    OBVIOUS
  <2>1. \A j \in S : d.nodes[j].prev = u.nodes[j].prev /\ d.nodes[j].next = u.nodes[j].next
    BY <1>6, <1>8
  <2> QED
    BY <1>8, <2>1, SameList
<1>10. \A S \in SUBSET (1..n) : i \in S /\ Ordered(c, S) => Ordered(d, S \ {i})
  <2> SUFFICES ASSUME NEW S \in SUBSET (1..n), i \in S, Ordered(c, S) PROVE Ordered(d, S \ {i})
    OBVIOUS
  <2>1. S \ {i} \in SUBSET (1..n)
    OBVIOUS
  <2> QED
    BY <1>3, <1>9, <2>1
<1>11. /\ d.map = c.map /\ d.max_entries = c.max_entries /\ d.free_list = Append(c.free_list, i)
       /\ \A j \in 1..n : d.nodes[j].key = c.nodes[j].key /\ (j # i => d.nodes[j].value = c.nodes[j].value)
  BY <1>1, <1>6, <1>8 DEF Relinked
<1> QED
  BY <1>8, <1>10, <1>11 DEF d

(* A key that is unmapped leaves everything else as it is. *)
LEMMA Unmap ==
  ASSUME NEW n \in Nat, NEW c \in Struct(n), NEW k \in Keys
  PROVE  LET d == unmap(c, k)
         IN  /\ d \in Struct(n) /\ d.nodes = c.nodes /\ d.head = c.head /\ d.tail = c.tail
             /\ d.free_list = c.free_list /\ d.max_entries = c.max_entries
             /\ \A j \in Keys : d.map[j] = (IF j = k THEN 0 ELSE c.map[j])
<1> DEFINE g == [c.map EXCEPT ![k] = 0]
           d == unmap(c, k)
<1>1. d = [c EXCEPT !.map = g]
  BY DEF unmap, NULL_NODE
<1>2. g \in [Keys -> 0..n] /\ \A j \in Keys : g[j] = (IF j = k THEN 0 ELSE c.map[j])
  BY StructFields
<1> HIDE DEF g, d
<1>3. /\ d.map = g /\ d.nodes = c.nodes /\ d.head = c.head /\ d.tail = c.tail
      /\ d.free_list = c.free_list /\ d.max_entries = c.max_entries /\ d \in Struct(n)
  BY <1>1, <1>2 DEF Struct
<1> QED
  BY <1>2, <1>3 DEF d

(* A node that is filled becomes the most recent one and holds its key's       *)
(* response.                                                                  *)
LEMMA Store ==
  ASSUME NEW n \in Nat, NEW c \in Struct(n), NEW i \in 1..n, NEW k \in Keys, NEW v \in Values
  PROVE  LET d == store(c, i, k, v)
         IN  /\ d \in Struct(n) /\ d.free_list = c.free_list /\ d.max_entries = c.max_entries
             /\ \A j \in Keys : d.map[j] = (IF j = k THEN i ELSE c.map[j])
             /\ \A j \in 1..n :
                  /\ d.nodes[j].key = (IF j = i THEN k ELSE c.nodes[j].key)
                  /\ d.nodes[j].value = (IF j = i THEN v ELSE c.nodes[j].value)
             /\ \A S \in SUBSET (1..n) : i \notin S /\ Ordered(c, S) => Ordered(d, S \cup {i})
<1>1. c.nodes \in [1..n -> Node(n)] /\ c.nodes[i] \in Node(n) /\ c.map \in [Keys -> 0..n]
  <2>1. c.nodes \in [1..n -> Node(n)] /\ c.map \in [Keys -> 0..n]
    BY StructFields
  <2> QED
    BY <2>1
<1> DEFINE f == [c.nodes EXCEPT ![i].key = k, ![i].value = v]
           g == [c.map EXCEPT ![k] = i]
           u == [c EXCEPT !.nodes = f, !.map = g]
           d == store(c, i, k, v)
<1>2. d = push_head(u, i)
  <2>1. u = [c EXCEPT !.nodes[i].key = k, !.nodes[i].value = v, !.map[k] = i]
    OBVIOUS
  <2> HIDE DEF u
  <2> QED
    BY <2>1 DEF store
<1>3. f \in [1..n -> Node(n)] /\ \A j \in 1..n :
        /\ f[j].prev = c.nodes[j].prev /\ f[j].next = c.nodes[j].next
        /\ f[j].key = (IF j = i THEN k ELSE c.nodes[j].key)
        /\ f[j].value = (IF j = i THEN v ELSE c.nodes[j].value)
  BY <1>1 DEF Node
<1>4. g \in [Keys -> 0..n] /\ \A j \in Keys : g[j] = (IF j = k THEN i ELSE c.map[j])
  BY <1>1
<1> HIDE DEF f, g, d
<1>5. /\ u.nodes = f /\ u.map = g /\ u.head = c.head /\ u.tail = c.tail
      /\ u.free_list = c.free_list /\ u.max_entries = c.max_entries /\ u \in Struct(n)
  BY <1>3, <1>4 DEF Struct
<1> HIDE DEF u
<1>6. Relinked(n, u, d)
  BY <1>2, <1>5, PushHead
<1>7. \A S \in SUBSET (1..n) : i \notin S /\ Ordered(c, S) => Ordered(d, S \cup {i})
  <2> SUFFICES ASSUME NEW S \in SUBSET (1..n), i \notin S, Ordered(c, S) PROVE Ordered(d, S \cup {i})
    OBVIOUS
  <2>1. \A j \in S : u.nodes[j].prev = c.nodes[j].prev /\ u.nodes[j].next = c.nodes[j].next
    BY <1>3, <1>5
  <2>2. Ordered(u, S)
    BY <1>5, <2>1, SameList
  <2>3. i \in (1..n) \ S
    OBVIOUS
  <2> QED
    BY <1>2, <1>5, <2>2, <2>3, PushOrdered
<1>8. /\ d \in Struct(n) /\ d.free_list = c.free_list /\ d.max_entries = c.max_entries /\ d.map = g
      /\ \A j \in 1..n : d.nodes[j].key = f[j].key /\ d.nodes[j].value = f[j].value
  BY <1>5, <1>6 DEF Relinked
<1> QED
  BY <1>3, <1>4, <1>7, <1>8 DEF d

(* Live nodes and free nodes are nodes. *)
LEMMA Indexed ==
  ASSUME NEW n \in Nat, NEW c \in Struct(n)
  PROVE  /\ Live(c) \in SUBSET (1..n) /\ ToSet(c.free_list) \in SUBSET (1..n)
         /\ \A k \in Keys : c.map[k] # 0 => k \in Mapped(c) /\ c.map[k] \in Live(c) /\ c.map[k] \in 1..n
         /\ \A k \in Mapped(c) : k \in Keys /\ c.map[k] # 0
         /\ \A i \in Live(c) : \E k \in Mapped(c) : c.map[k] = i
         /\ \A i : i \in ToSet(c.free_list) <=> \E a \in 1..Len(c.free_list) : c.free_list[a] = i
<1>1. \A k \in Keys : c.map[k] \in 0..n
  BY StructFields
<1>2. c.free_list \in Seq(1..n)
  BY StructFields
<1>3. \A i : i \in ToSet(c.free_list) <=> \E a \in 1..Len(c.free_list) : c.free_list[a] = i
  <2>1. DOMAIN c.free_list = 1..Len(c.free_list)
    BY <1>2
  <2>2. \A i : i \in ToSet(c.free_list) <=> \E a \in DOMAIN c.free_list : c.free_list[a] = i
    BY Zenon DEF ToSet
  <2> QED
    BY <2>1, <2>2, Zenon
<1>4. ToSet(c.free_list) \in SUBSET (1..n)
  BY <1>2, <1>3
<1>5. \A k \in Mapped(c) : k \in Keys /\ c.map[k] # 0 /\ c.map[k] \in 1..n
  BY <1>1 DEF Mapped, NULL_NODE
<1>6. \A k \in Keys : c.map[k] # 0 => k \in Mapped(c) /\ c.map[k] \in Live(c) /\ c.map[k] \in 1..n
  BY <1>1 DEF Mapped, Live, NULL_NODE
<1>7. \A i \in Live(c) : \E k \in Mapped(c) : c.map[k] = i
  BY DEF Live
<1>8. Live(c) \in SUBSET (1..n)
  BY <1>5, <1>7
<1> QED
  BY <1>3, <1>4, <1>5, <1>6, <1>7, <1>8

(* Another limit changes nothing else. *)
LEMMA LimitMoved ==
  ASSUME NEW n \in Nat, NEW c \in Struct(n), NEW max \in MaxOptions, NEW tags, NEW left
  PROVE  LET d == [c EXCEPT !.max_entries = max]
         IN  /\ d \in Struct(n) /\ d.map = c.map /\ d.nodes = c.nodes /\ d.free_list = c.free_list
             /\ d.head = c.head /\ d.tail = c.tail /\ d.max_entries = max /\ Live(d) = Live(c)
             /\ Arranged(c, tags, left) => Arranged(d, tags, left)
<1> DEFINE d == [c EXCEPT !.max_entries = max]
<1>1. /\ d \in Struct(n) /\ d.map = c.map /\ d.nodes = c.nodes /\ d.free_list = c.free_list
      /\ d.head = c.head /\ d.tail = c.tail /\ d.max_entries = max
  BY DEF Struct
<1> HIDE DEF d
<1>2. Mapped(d) = Mapped(c) /\ Live(d) = Live(c)
  BY <1>1 DEF Mapped, Live
<1>3. Ordered(c, Live(c)) => Ordered(d, Live(d))
  BY <1>1, <1>2, SameList
<1>4. Arranged(c, tags, left) => Arranged(d, tags, left)
  BY <1>1, <1>2, <1>3 DEF Arranged, Filed, Placed
<1> QED
  BY <1>1, <1>2, <1>4 DEF d

(* A known key keeps its node and gets the new response. *)
LEMMA InsertKnown ==
  ASSUME NEW n \in Nat, NEW c, Sound(n, c), NEW k \in Keys, NEW t \in Tags, c.map[k] # 0,
         NEW tags \in [Keys -> Tags], NEW left
  PROVE  LET d == insert(c, k, Value(k, t))
         IN  Sound(n, d) /\ (Arranged(c, tags, left) => Arranged(d, [tags EXCEPT ![k] = t], left))
<1> DEFINE i == c.map[k]
           v == Value(k, t)
           f == [c.nodes EXCEPT ![i].value = v]
           u == [c EXCEPT !.nodes = f]
           d == insert(c, k, v)
           tagged == [tags EXCEPT ![k] = t]
<1>1. c \in Struct(n) /\ \A j \in 1..n : c.nodes[j].key \in Keys
  BY DEF Sound
<1>2. i \in 1..n /\ i \in Live(c) /\ k \in Mapped(c) /\ v \in Values /\ v.present /\ v.of = k /\ v.tag = t
  BY <1>1, Indexed DEF Value, Values
<1>3. d = move_to_head(u, i)
  <2>1. u = [c EXCEPT !.nodes[c.map[k]].value = v]
    OBVIOUS
  <2> HIDE DEF u
  <2> QED
    BY <2>1 DEF insert, NULL_NODE
<1> HIDE DEF i, v, d
<1>4. f \in [1..n -> Node(n)] /\ \A j \in 1..n :
        /\ f[j].prev = c.nodes[j].prev /\ f[j].next = c.nodes[j].next /\ f[j].key = c.nodes[j].key
        /\ f[j].value = (IF j = i THEN v ELSE c.nodes[j].value)
  <2>1. c.nodes \in [1..n -> Node(n)] /\ c.nodes[i] \in Node(n)
    BY <1>1, <1>2, StructFields
  <2> QED
    BY <1>2, <2>1 DEF Node
<1> HIDE DEF f
<1>5. /\ u.nodes = f /\ u.map = c.map /\ u.head = c.head /\ u.tail = c.tail
      /\ u.free_list = c.free_list /\ u.max_entries = c.max_entries /\ u \in Struct(n)
  BY <1>1, <1>4 DEF Struct
<1> HIDE DEF u
<1>6. Relinked(n, u, d) /\ \A S \in SUBSET (1..n) : i \in S /\ Ordered(u, S) => Ordered(d, S)
  BY <1>2, <1>3, <1>5, MoveToHead
<1>7. /\ d \in Struct(n) /\ d.map = c.map /\ d.free_list = c.free_list
      /\ \A j \in 1..n : /\ d.nodes[j].key = c.nodes[j].key
                         /\ d.nodes[j].value = (IF j = i THEN v ELSE c.nodes[j].value)
  BY <1>4, <1>5, <1>6 DEF Relinked
<1>8. Sound(n, d)
  BY <1>1, <1>7 DEF Sound
<1>9. ASSUME Arranged(c, tags, left) PROVE Arranged(d, tagged, left)
  <2>1. Mapped(d) = Mapped(c) /\ Live(d) = Live(c) /\ DOMAIN d.nodes = DOMAIN c.nodes
    BY <1>1, <1>7, StructFields DEF Mapped, Live
  <2>2. Placed(d, left)
    BY <1>7, <1>9, <2>1 DEF Arranged, Placed
  <2>3. Filed(d, tagged)
    <3> SUFFICES ASSUME NEW j \in Mapped(c)
                 PROVE  LET x == d.nodes[c.map[j]]
                        IN  x.key = j /\ x.value.present /\ x.value.of = j /\ x.value.tag = tagged[j]
      BY <1>7, <2>1 DEF Filed
    <3>1. j \in Keys /\ c.map[j] \in 1..n /\ (c.map[j] = i => j = k)
      BY <1>1, <1>2, <1>9, Indexed DEF Arranged, Placed, i
    <3>2. tagged[j] = (IF j = k THEN t ELSE tags[j])
      BY <3>1
    <3>3. c.nodes[c.map[j]].key = j /\ (j # k => c.nodes[c.map[j]].value.present
             /\ c.nodes[c.map[j]].value.of = j /\ c.nodes[c.map[j]].value.tag = tags[j])
      BY <1>9 DEF Arranged, Filed
    <3> QED
      BY <1>2, <1>7, <3>1, <3>2, <3>3 DEF i
  <2>4. Ordered(u, Live(c))
    <3>1. \A j \in Live(c) : u.nodes[j].prev = c.nodes[j].prev /\ u.nodes[j].next = c.nodes[j].next
      BY <1>1, <1>4, <1>5, Indexed
    <3> QED
      BY <1>5, <1>9, <3>1, SameList DEF Arranged
  <2>5. Ordered(d, Live(d))
    BY <1>1, <1>2, <1>6, <2>1, <2>4, Indexed
  <2> QED
    BY <2>2, <2>3, <2>5 DEF Arranged
<1> QED
  BY <1>8, <1>9 DEF d, v

(* The last element of a list, and the list without it. *)
LEMMA ButLast ==
  ASSUME NEW S, NEW s \in Seq(S), s # <<>>
  PROVE  /\ Front(s) \in Seq(S) /\ Len(s) \in Nat \ {0} /\ Len(Front(s)) = Len(s) - 1
         /\ \A i \in 1..Len(s) - 1 : Front(s)[i] = s[i]
         /\ Last(s) = s[Len(s)]
<1>1. Len(s) \in Nat \ {0}
  BY EmptySeq
<1>2. \A i \in 1..Len(s) - 1 : s[i] \in S
  BY <1>1
<1> DEFINE m == Len(s) - 1
<1>3. m \in Nat /\ 1 \in Int /\ m \in Int /\ m - 1 + 1 = m
  BY <1>1
<1>4. /\ SubSeq(s, 1, m) \in Seq(S)
      /\ Len(SubSeq(s, 1, m)) = IF 1 <= m THEN m - 1 + 1 ELSE 0
      /\ \A i \in 1..m - 1 + 1 : SubSeq(s, 1, m)[i] = s[1 + i - 1]
  <2> HIDE DEF m
  <2> QED
    BY <1>2, <1>3, SubSeqProperties DEF m
<1>5. \A i \in 1..m : SubSeq(s, 1, m)[i] = s[i]
  <2> HIDE DEF m
  <2> QED
    BY <1>3, <1>4
<1> QED
  BY <1>1, <1>3, <1>4, <1>5 DEF Front, Last

(* A node that is nobody's is filled for a key that has none. *)
LEMMA Filling ==
  ASSUME NEW n \in Nat, NEW c \in Struct(n), NEW i \in (1..n) \ Live(c), NEW k \in Keys, NEW t \in Tags,
         c.map[k] = 0, NEW tags \in [Keys -> Tags], Filed(c, tags), Ordered(c, Live(c)),
         \A k1, k2 \in Mapped(c) : c.map[k1] = c.map[k2] => k1 = k2
  PROVE  LET d == store(c, i, k, Value(k, t))
         IN  /\ Filed(d, [tags EXCEPT ![k] = t]) /\ Live(d) = Live(c) \cup {i} /\ Ordered(d, Live(d))
             /\ \A k1, k2 \in Mapped(d) : d.map[k1] = d.map[k2] => k1 = k2
<1> DEFINE v == Value(k, t)
           d == store(c, i, k, v)
           tagged == [tags EXCEPT ![k] = t]
<1>1. v \in Values /\ v.present /\ v.of = k /\ v.tag = t
  BY DEF Value, Values
<1> HIDE DEF v
<1>2. /\ d \in Struct(n) /\ d.free_list = c.free_list
      /\ \A j \in Keys : d.map[j] = (IF j = k THEN i ELSE c.map[j])
      /\ \A j \in 1..n :
           /\ d.nodes[j].key = (IF j = i THEN k ELSE c.nodes[j].key)
           /\ d.nodes[j].value = (IF j = i THEN v ELSE c.nodes[j].value)
      /\ \A S \in SUBSET (1..n) : i \notin S /\ Ordered(c, S) => Ordered(d, S \cup {i})
  <2>1. i \in 1..n
    OBVIOUS
  <2>2. LET x == store(c, i, k, v)
        IN  /\ x \in Struct(n) /\ x.free_list = c.free_list
            /\ \A j \in Keys : x.map[j] = (IF j = k THEN i ELSE c.map[j])
            /\ \A j \in 1..n :
                 /\ x.nodes[j].key = (IF j = i THEN k ELSE c.nodes[j].key)
                 /\ x.nodes[j].value = (IF j = i THEN v ELSE c.nodes[j].value)
            /\ \A S \in SUBSET (1..n) : i \notin S /\ Ordered(c, S) => Ordered(x, S \cup {i})
    BY <1>1, <2>1, Store
  <2> QED
    BY <2>2
<1> HIDE DEF d
<1>3. Mapped(d) = Mapped(c) \cup {k} /\ k \notin Mapped(c) /\ i # 0
  BY <1>2 DEF Mapped, NULL_NODE
<1>4. \A j \in Mapped(c) : j \in Keys /\ j # k /\ d.map[j] = c.map[j] /\ c.map[j] # i /\ c.map[j] \in 1..n
  BY <1>2, <1>3, Indexed
<1>5. d.map[k] = i
  BY <1>2
<1>6. Live(d) = Live(c) \cup {i}
  <2>1. \A j \in Live(c) : \E l \in Mapped(c) : c.map[l] = j
    BY Indexed
  <2> QED
    BY <1>3, <1>4, <1>5, <2>1 DEF Live
<1>7. Filed(d, tagged)
  <2> SUFFICES ASSUME NEW j \in Mapped(d)
               PROVE  LET x == d.nodes[d.map[j]]
                      IN  x.key = j /\ x.value.present /\ x.value.of = j /\ x.value.tag = tagged[j]
    BY DEF Filed
  <2>1. CASE j = k
    BY <1>1, <1>2, <1>5, <2>1
  <2>2. CASE j \in Mapped(c)
    <3>1. tagged[j] = tags[j]
      BY <1>4, <2>2
    <3>2. LET x == c.nodes[c.map[j]]
          IN  x.key = j /\ x.value.present /\ x.value.of = j /\ x.value.tag = tags[j]
      BY <2>2 DEF Filed
    <3>3. c.map[j] \in 1..n /\ c.map[j] # i /\ d.map[j] = c.map[j]
      BY <1>4, <2>2
    <3>4. d.nodes[c.map[j]].key = c.nodes[c.map[j]].key /\ d.nodes[c.map[j]].value = c.nodes[c.map[j]].value
      BY <1>2, <3>3
    <3> QED
      BY <3>1, <3>2, <3>3, <3>4
  <2> QED
    BY <1>3, <2>1, <2>2
<1>8. Ordered(d, Live(d))
  BY <1>2, <1>6, Indexed
<1>9. \A k1, k2 \in Mapped(d) : d.map[k1] = d.map[k2] => k1 = k2
  BY <1>3, <1>4, <1>5
<1> QED
  BY <1>6, <1>7, <1>8, <1>9 DEF d, v

(* A new key takes the node that was freed last. *)
LEMMA InsertFree ==
  ASSUME NEW n \in Nat, NEW c, Sound(n, c), NEW k \in Keys, NEW t \in Tags, c.map[k] = 0, c.free_list # <<>>,
         NEW tags \in [Keys -> Tags], NEW left
  PROVE  LET d == insert(c, k, Value(k, t))
         IN  /\ Sound(n, d)
             /\ Arranged(c, tags, left) /\ Last(c.free_list) \notin left \cap Live(c)
                    => Arranged(d, [tags EXCEPT ![k] = t], left)
<1> DEFINE i == Last(c.free_list)
           v == Value(k, t)
           u == [c EXCEPT !.free_list = Front(@)]
           d == insert(c, k, v)
           tagged == [tags EXCEPT ![k] = t]
           e == Len(c.free_list)
<1>1. c \in Struct(n) /\ (\A j \in 1..n : c.nodes[j].key \in Keys) /\ v \in Values
  BY DEF Sound, Value, Values
<1>2. d = store(u, i, k, v)
  BY DEF insert, NULL_NODE
<1>3. /\ Front(c.free_list) \in Seq(1..n) /\ e \in Nat \ {0} /\ Len(Front(c.free_list)) = e - 1
      /\ \A a \in 1..e - 1 : Front(c.free_list)[a] = c.free_list[a]
      /\ i = c.free_list[e] /\ i \in 1..n /\ i \in ToSet(c.free_list)
  <2>1. c.free_list \in Seq(1..n)
    BY <1>1, StructFields
  <2>2. /\ Front(c.free_list) \in Seq(1..n) /\ e \in Nat \ {0} /\ Len(Front(c.free_list)) = e - 1
        /\ \A a \in 1..e - 1 : Front(c.free_list)[a] = c.free_list[a]
        /\ i = c.free_list[e]
    BY <2>1, ButLast
  <2>3. c.free_list[e] \in 1..n /\ e \in 1..e
    BY <2>1, <2>2
  <2> QED
    BY <1>1, <2>2, <2>3, Indexed
<1>4. /\ u \in Struct(n) /\ u.map = c.map /\ u.nodes = c.nodes /\ u.head = c.head /\ u.tail = c.tail
      /\ u.free_list = Front(c.free_list)
  BY <1>1, <1>3 DEF Struct
<1> HIDE DEF i, v, d, u, e
<1>5. /\ d \in Struct(n) /\ d.free_list = u.free_list
      /\ \A j \in 1..n : d.nodes[j].key = (IF j = i THEN k ELSE u.nodes[j].key)
  <2>0. u \in Struct(n) /\ i \in 1..n /\ v \in Values
    BY <1>1, <1>3, <1>4
  <2>1. LET x == store(u, i, k, v)
        IN  /\ x \in Struct(n) /\ x.free_list = u.free_list
            /\ \A j \in 1..n : x.nodes[j].key = (IF j = i THEN k ELSE u.nodes[j].key)
    BY <2>0, Store
  <2> QED
    BY <1>2, <2>1
<1>6. Sound(n, d)
  BY <1>1, <1>4, <1>5 DEF Sound
<1>7. ASSUME Arranged(c, tags, left), i \notin left \cap Live(c) PROVE Arranged(d, tagged, left)
  <2>1. i \in (1..n) \ Live(c)
    BY <1>3, <1>7 DEF Arranged, Placed
  <2>2. Mapped(u) = Mapped(c) /\ Live(u) = Live(c)
    BY <1>4 DEF Mapped, Live
  <2>3. Ordered(u, Live(u))
    BY <1>4, <1>7, <2>2, SameList DEF Arranged
  <2>4. Filed(u, tags) /\ \A k1, k2 \in Mapped(u) : u.map[k1] = u.map[k2] => k1 = k2
    BY <1>4, <1>7, <2>2 DEF Arranged, Filed, Placed
  <2>5. /\ Filed(d, tagged) /\ Live(d) = Live(c) \cup {i} /\ Ordered(d, Live(d))
        /\ \A k1, k2 \in Mapped(d) : d.map[k1] = d.map[k2] => k1 = k2
    <3>1. i \in (1..n) \ Live(u) /\ u.map[k] = 0
      BY <1>4, <2>1, <2>2
    <3>2. LET x == store(u, i, k, Value(k, t))
          IN  /\ Filed(x, tagged) /\ Live(x) = Live(u) \cup {i} /\ Ordered(x, Live(x))
              /\ \A k1, k2 \in Mapped(x) : x.map[k1] = x.map[k2] => k1 = k2
      BY <1>4, <2>3, <2>4, <3>1, Filling
    <3> QED
      BY <1>2, <2>2, <3>2 DEF v
  <2>6. \A a \in 1..Len(d.free_list) : a \in 1..e /\ a # e /\ d.free_list[a] = c.free_list[a]
    BY <1>3, <1>4, <1>5
  <2>7. \A a \in 1..e : a = e \/ (a \in 1..Len(d.free_list) /\ d.free_list[a] = c.free_list[a])
    BY <1>3, <1>4, <1>5
  <2>8. /\ ToSet(d.free_list) \cup {i} = ToSet(c.free_list)
        /\ \A j \in ToSet(d.free_list) : \E a \in 1..e : a # e /\ c.free_list[a] = j
    <3>1. \A j : j \in ToSet(d.free_list) <=> \E a \in 1..Len(d.free_list) : d.free_list[a] = j
      BY <1>5, Indexed
    <3>2. \A j : j \in ToSet(c.free_list) <=> \E a \in 1..e : c.free_list[a] = j
      BY <1>1, Indexed DEF e
    <3>3. \A j \in ToSet(d.free_list) : \E a \in 1..e : a # e /\ c.free_list[a] = j
      BY <2>6, <3>1
    <3>4. ASSUME NEW j \in ToSet(c.free_list), j # i PROVE j \in ToSet(d.free_list)
      <4>1. PICK a \in 1..e : c.free_list[a] = j
        BY <3>2
      <4>2. a # e
        BY <1>3, <3>4, <4>1
      <4>3. a \in 1..Len(d.free_list) /\ d.free_list[a] = j
        BY <2>7, <4>1, <4>2
      <4> QED
        BY <3>1, <4>3
    <3>5. \A j \in ToSet(d.free_list) : j \in ToSet(c.free_list)
      BY <3>2, <3>3
    <3>6. \A j : j \in ToSet(d.free_list) \cup {i} <=> j \in ToSet(c.free_list)
      BY <1>3, <3>4, <3>5
    <3>7. ToSet(d.free_list) \cup {i} = ToSet(c.free_list)
      BY <3>6, Zenon
    <3> QED
      BY <3>3, <3>7
  <2>9. \A a, b \in 1..e : c.free_list[a] = c.free_list[b] /\ a # b => c.free_list[a] \in left
    BY <1>7 DEF Arranged, Placed, e
  <2>10. ToSet(d.free_list) \cap Live(d) \subseteq left
    <3> SUFFICES ASSUME NEW j \in ToSet(d.free_list), j \in Live(d) PROVE j \in left
      OBVIOUS
    <3>1. CASE j = i
      <4>1. PICK a \in 1..e : a # e /\ c.free_list[a] = j
        BY <2>8
      <4>2. e \in 1..e
        BY <1>3
      <4> QED
        BY <1>3, <2>9, <3>1, <4>1, <4>2
    <3>2. CASE j \in Live(c)
      BY <1>7, <2>8, <3>2 DEF Arranged, Placed
    <3> QED
      BY <2>5, <3>1, <3>2
  <2>11. ToSet(d.free_list) \cup Live(d) = DOMAIN d.nodes
    <3>1. ToSet(c.free_list) \cup Live(c) = DOMAIN c.nodes /\ DOMAIN c.nodes = 1..n /\ DOMAIN d.nodes = 1..n
      BY <1>1, <1>5, <1>7, StructFields DEF Arranged, Placed
    <3> QED
      BY <2>5, <2>8, <3>1
  <2>12. \A a, b \in 1..Len(d.free_list) :
             d.free_list[a] = d.free_list[b] /\ a # b => d.free_list[a] \in left
    BY <2>6, <2>9
  <2>13. Placed(d, left)
    BY <2>5, <2>10, <2>11, <2>12 DEF Placed
  <2> QED
    BY <2>5, <2>13 DEF Arranged
<1> QED
  BY <1>6, <1>7 DEF d, v, i

(* With nothing free, a new key takes a node that is added to the vector. *)
LEMMA InsertGrown ==
  ASSUME NEW n \in Nat, NEW c, Sound(n, c), NEW k \in Keys, NEW t \in Tags, c.map[k] = 0, c.free_list = <<>>,
         n < c.max_entries, NEW tags \in [Keys -> Tags], NEW left
  PROVE  LET d == insert(c, k, Value(k, t))
         IN  Sound(n + 1, d) /\ (Arranged(c, tags, left) => Arranged(d, [tags EXCEPT ![k] = t], left))
<1> DEFINE i == n + 1
           v == Value(k, t)
           f == Append(c.nodes, fresh_node)
           u == [c EXCEPT !.nodes = f]
           d == insert(c, k, v)
           tagged == [tags EXCEPT ![k] = t]
<1>1. c \in Struct(n) /\ (\A j \in 1..n : c.nodes[j].key \in Keys) /\ v \in Values
  BY DEF Sound, Value, Values
<1>2. d = store(u, i, k, v)
  <2>1. Len(c.nodes) = n /\ u = [c EXCEPT !.nodes = Append(@, fresh_node)]
    BY <1>1, StructFields
  <2> HIDE DEF u
  <2> QED
    BY <2>1 DEF insert, NULL_NODE
<1> HIDE DEF v, d
<1>3. fresh_node \in Node(i) /\ \A x \in Node(n) : x \in Node(i)
  <2>1. 0 \in 0..i /\ NoValue \in Values /\ \A x \in 0..n : x \in 0..i
    BY DEF Values
  <2> HIDE DEF i
  <2>2. fresh_node \in Node(i)
    BY <2>1 DEF fresh_node, Node, NULL_NODE
  <2>3. \A x \in Node(n) : x \in Node(i)
    BY <2>1 DEF Node
  <2> QED
    BY <2>2, <2>3
<1>4. /\ f \in [1..i -> Node(i)] /\ \A j \in 1..n : f[j] = c.nodes[j]
  <2>1. c.nodes \in [1..n -> Node(n)] /\ Len(c.nodes) = n /\ DOMAIN c.nodes = 1..n
    BY <1>1, StructFields
  <2>2. c.nodes \in Seq(Node(i))
    <3>1. \A j \in 1..n : c.nodes[j] \in Node(i)
      BY <1>3, <2>1
    <3> QED
      BY <2>1, <3>1
  <2>3. f \in Seq(Node(i)) /\ Len(f) = i /\ \A j \in 1..n : f[j] = c.nodes[j]
    BY <1>3, <2>1, <2>2
  <2>4. i \in Nat
    OBVIOUS
  <2> HIDE DEF f, i
  <2>5. f \in [1..i -> Node(i)]
    BY <2>3, <2>4
  <2> QED
    BY <2>3, <2>5
<1> HIDE DEF f
<1>5. /\ u.nodes = f /\ u.map = c.map /\ u.head = c.head /\ u.tail = c.tail
      /\ u.free_list = <<>> /\ u \in Struct(i)
  <2>1. /\ c.map \in [Keys -> 0..i] /\ c.head \in 0..i /\ c.tail \in 0..i /\ <<>> \in Seq(1..i)
        /\ c.max_entries \in MaxOptions
    BY <1>1, StructFields
  <2>2. u = [map |-> c.map, nodes |-> f, head |-> c.head, tail |-> c.tail,
             max_entries |-> c.max_entries, free_list |-> c.free_list]
    <3>1. c \in Struct(n)
      BY <1>1
    <3>2. u = [c EXCEPT !.nodes = f]
      OBVIOUS
    <3> HIDE DEF i, tagged, u
    <3> QED
      BY <3>1, <3>2 DEF Struct
  <2> HIDE DEF u
  <2> QED
    BY <1>4, <2>1, <2>2 DEF Struct
<1> HIDE DEF u
<1>6. i \in 1..i /\ i \in Nat
  OBVIOUS
<1>7. /\ d \in Struct(i) /\ d.free_list = <<>>
      /\ \A j \in 1..i : d.nodes[j].key = (IF j = i THEN k ELSE u.nodes[j].key)
  <2>1. LET x == store(u, i, k, v)
        IN  /\ x \in Struct(i) /\ x.free_list = u.free_list
            /\ \A j \in 1..i : x.nodes[j].key = (IF j = i THEN k ELSE u.nodes[j].key)
    <3> HIDE DEF i
    <3> QED
      BY <1>1, <1>5, <1>6, Store
  <2> QED
    BY <1>2, <1>5, <2>1
<1>8. Sound(i, d)
  <2>1. \A j \in 1..i : j = i \/ (j \in 1..n /\ u.nodes[j].key \in Keys)
    BY <1>1, <1>4, <1>5
  <2> QED
    BY <1>7, <2>1 DEF Sound
<1>9. ASSUME Arranged(c, tags, left) PROVE Arranged(d, tagged, left)
  <2>1. Mapped(u) = Mapped(c) /\ Live(u) = Live(c)
    BY <1>5 DEF Mapped, Live
  <2>2. Live(c) \subseteq 1..n
    BY <1>1, Indexed
  <2>3. Ordered(u, Live(u))
    <3>1. \A j \in Live(c) : u.nodes[j].prev = c.nodes[j].prev /\ u.nodes[j].next = c.nodes[j].next
      BY <1>4, <1>5, <2>2
    <3> QED
      BY <1>5, <1>9, <2>1, <3>1, SameList DEF Arranged
  <2>4. Filed(u, tags) /\ \A k1, k2 \in Mapped(u) : u.map[k1] = u.map[k2] => k1 = k2
    <3>1. \A j \in Mapped(c) : c.map[j] \in 1..n
      BY <1>1, Indexed
    <3>2. Filed(c, tags) /\ \A k1, k2 \in Mapped(c) : c.map[k1] = c.map[k2] => k1 = k2
      BY <1>9 DEF Arranged, Placed
    <3>3. \A j \in Mapped(u) : /\ j \in Mapped(c)
                                /\ u.nodes[u.map[j]].key = c.nodes[c.map[j]].key
                                /\ u.nodes[u.map[j]].value = c.nodes[c.map[j]].value
      BY <1>4, <1>5, <2>1, <3>1
    <3>4. Filed(u, tags)
      BY <3>2, <3>3, SameFiled
    <3> QED
      BY <1>5, <2>1, <3>2, <3>4
  <2>5. /\ Filed(d, tagged) /\ Live(d) = Live(c) \cup {i} /\ Ordered(d, Live(d))
        /\ \A k1, k2 \in Mapped(d) : d.map[k1] = d.map[k2] => k1 = k2
    <3>1. i \in (1..i) \ Live(u) /\ u.map[k] = 0
      BY <1>5, <2>1, <2>2
    <3>2. LET x == store(u, i, k, Value(k, t))
          IN  /\ Filed(x, tagged) /\ Live(x) = Live(u) \cup {i} /\ Ordered(x, Live(x))
              /\ \A k1, k2 \in Mapped(x) : x.map[k1] = x.map[k2] => k1 = k2
      <4> HIDE DEF i
      <4> QED
        BY <1>5, <1>6, <2>3, <2>4, <3>1, Filling
    <3> QED
      BY <1>2, <2>1, <3>2 DEF v
  <2>6. ToSet(d.free_list) = {} /\ ToSet(c.free_list) = {}
    BY <1>7 DEF ToSet
  <2>7. ToSet(c.free_list) \cup Live(c) = 1..n /\ DOMAIN d.nodes = 1..i
    <3>1. DOMAIN c.nodes = 1..n
      BY <1>1, StructFields
    <3>2. DOMAIN d.nodes = 1..i
      <4> HIDE DEF i
      <4> QED
        BY <1>6, <1>7, StructFields
    <3> QED
      BY <1>9, <3>1, <3>2 DEF Arranged, Placed
  <2>8. \A a \in 1..Len(d.free_list) : FALSE
    BY <1>7
  <2>9. Placed(d, left)
    BY <2>5, <2>6, <2>7, <2>8 DEF Placed
  <2> QED
    BY <2>5, <2>9 DEF Arranged
<1> QED
  BY <1>8, <1>9 DEF d, v

(* With nothing free and the vector at its limit, a new key takes the node of  *)
(* the least recently used one, and that node stays on the free list.          *)
LEMMA InsertEvicting ==
  ASSUME NEW n \in Nat, NEW c, Sound(n, c), NEW k \in Keys, NEW t \in Tags, c.map[k] = 0, c.free_list = <<>>,
         ~(n < c.max_entries), c.tail # 0, NEW tags \in [Keys -> Tags], NEW left
  PROVE  LET d == insert(c, k, Value(k, t))
         IN  /\ Sound(n, d)
             /\ Arranged(c, tags, left) => Arranged(d, [tags EXCEPT ![k] = t], left \cup {c.tail})
<1> DEFINE i == c.tail
           v == Value(k, t)
           old == c.nodes[i].key
           r == remove_node(c, i)
           u == unmap(r, old)
           d == insert(c, k, v)
           tagged == [tags EXCEPT ![k] = t]
<1>1. c \in Struct(n) /\ (\A j \in 1..n : c.nodes[j].key \in Keys) /\ v \in Values
  BY DEF Sound, Value, Values
<1>2. i \in 1..n /\ old \in Keys /\ Len(c.nodes) = n
  BY <1>1, StructFields
<1>3. d = store(u, i, k, v)
  BY <1>2 DEF insert, NULL_NODE
<1>4. /\ r \in Struct(n) /\ r.map = c.map /\ r.free_list = Append(c.free_list, i)
      /\ \A j \in 1..n : r.nodes[j].key = c.nodes[j].key /\ (j # i => r.nodes[j].value = c.nodes[j].value)
      /\ \A S \in SUBSET (1..n) : i \in S /\ Ordered(c, S) => Ordered(r, S \ {i})
  <2> HIDE DEF i, v, d, u, old
  <2>1. i \in 1..n /\ c \in Struct(n)
    BY <1>1, <1>2
  <2>2. LET x == remove_node(c, i)
        IN  /\ x \in Struct(n) /\ x.map = c.map /\ x.free_list = Append(c.free_list, i)
            /\ \A j \in 1..n : x.nodes[j].key = c.nodes[j].key /\ (j # i => x.nodes[j].value = c.nodes[j].value)
            /\ \A S \in SUBSET (1..n) : i \in S /\ Ordered(c, S) => Ordered(x, S \ {i})
    BY <2>1, RemoveNode
  <2> QED
    BY <2>2
<1> HIDE DEF v, d, r, i
<1>5. r.free_list = <<i>>
  BY <1>4
<1>6. /\ u \in Struct(n) /\ u.nodes = r.nodes /\ u.head = r.head /\ u.tail = r.tail
      /\ u.free_list = r.free_list
      /\ \A j \in Keys : u.map[j] = (IF j = old THEN 0 ELSE r.map[j])
  <2> HIDE DEF old
  <2> QED
    BY <1>2, <1>4, Unmap
<1> HIDE DEF u, old
<1>7. /\ d \in Struct(n) /\ d.free_list = u.free_list
      /\ \A j \in 1..n : d.nodes[j].key = (IF j = i THEN k ELSE u.nodes[j].key)
  <2>1. LET x == store(u, i, k, v)
        IN  /\ x \in Struct(n) /\ x.free_list = u.free_list
            /\ \A j \in 1..n : x.nodes[j].key = (IF j = i THEN k ELSE u.nodes[j].key)
    BY <1>1, <1>2, <1>6, Store
  <2> QED
    BY <1>3, <2>1
<1>8. Sound(n, d)
  BY <1>1, <1>4, <1>6, <1>7 DEF Sound
<1>9. ASSUME Arranged(c, tags, left) PROVE Arranged(d, tagged, left \cup {i})
  <2>1. Live(c) = 1..n
    <3>1. ToSet(c.free_list) = {}
      BY DEF ToSet
    <3>2. DOMAIN c.nodes = 1..n
      BY <1>1, StructFields
    <3> QED
      BY <1>9, <3>1, <3>2 DEF Arranged, Placed
  <2>2. \A k1, k2 \in Mapped(c) : c.map[k1] = c.map[k2] => k1 = k2
    BY <1>9 DEF Arranged, Placed
  <2>3. old \in Mapped(c) /\ c.map[old] = i
    <3>1. PICK j \in Mapped(c) : c.map[j] = i
      BY <1>1, <1>2, <2>1, Indexed
    <3>2. c.nodes[i].key = j
      BY <1>9, <3>1 DEF Arranged, Filed
    <3> QED
      BY <3>1, <3>2 DEF old
  <2>4. /\ Mapped(u) = Mapped(c) \ {old} /\ \A j \in Mapped(u) : u.map[j] = c.map[j] /\ c.map[j] # i
    <3>1. \A j \in Keys : j \in Mapped(u) <=> j \in Mapped(c) /\ j # old
      BY <1>4, <1>6 DEF Mapped, NULL_NODE
    <3>2. \A j \in Mapped(c) : j # old => u.map[j] = c.map[j] /\ c.map[j] # i
      BY <1>1, <1>4, <1>6, <2>2, <2>3, Indexed
    <3> QED
      BY <3>1, <3>2 DEF Mapped
  <2>5. Live(u) = Live(c) \ {i}
    <3>1. \A j \in Live(c) : \E l \in Mapped(c) : c.map[l] = j
      BY <1>1, Indexed
    <3> QED
      BY <2>3, <2>4, <3>1 DEF Live
  <2>6. Ordered(u, Live(u))
    <3>1. i \in Live(c) /\ Live(c) \in SUBSET (1..n)
      BY <1>2, <2>1
    <3>2. Ordered(r, Live(u))
      BY <1>4, <1>9, <2>5, <3>1 DEF Arranged
    <3> QED
      BY <1>6, <3>2, SameList
  <2>7. Filed(u, tags)
    <3> SUFFICES ASSUME NEW j \in Mapped(u)
                 PROVE  LET x == u.nodes[u.map[j]]
                        IN  x.key = j /\ x.value.present /\ x.value.of = j /\ x.value.tag = tags[j]
      BY DEF Filed
    <3>1. j \in Mapped(c) /\ u.map[j] = c.map[j] /\ c.map[j] # i /\ c.map[j] \in 1..n
      BY <1>1, <2>4, Indexed
    <3>2. LET x == c.nodes[c.map[j]]
          IN  x.key = j /\ x.value.present /\ x.value.of = j /\ x.value.tag = tags[j]
      BY <1>9, <3>1 DEF Arranged, Filed
    <3> QED
      BY <1>4, <1>6, <3>1, <3>2
  <2>8. /\ Filed(d, tagged) /\ Live(d) = Live(u) \cup {i} /\ Ordered(d, Live(d))
        /\ \A k1, k2 \in Mapped(d) : d.map[k1] = d.map[k2] => k1 = k2
    <3>1. i \in (1..n) \ Live(u)
      BY <1>2, <2>5
    <3>2. u.map[k] = 0
      BY <1>4, <1>6
    <3>3. \A k1, k2 \in Mapped(u) : u.map[k1] = u.map[k2] => k1 = k2
      BY <2>2, <2>4
    <3>4. LET x == store(u, i, k, Value(k, t))
          IN  /\ Filed(x, tagged) /\ Live(x) = Live(u) \cup {i} /\ Ordered(x, Live(x))
              /\ \A k1, k2 \in Mapped(x) : x.map[k1] = x.map[k2] => k1 = k2
      BY <1>6, <2>6, <2>7, <3>1, <3>2, <3>3, Filling
    <3> QED
      BY <1>3, <3>4 DEF v
  <2>9. d.free_list = <<i>> /\ ToSet(d.free_list) = {i} /\ DOMAIN d.nodes = 1..n
    <3>1. d.free_list = <<i>>
      BY <1>5, <1>6, <1>7
    <3> QED
      BY <1>7, <3>1, StructFields DEF ToSet
  <2>10. Placed(d, left \cup {i})
    <3>1. Live(d) = 1..n
      BY <1>2, <2>1, <2>5, <2>8
    <3>2. \A a, b \in 1..Len(d.free_list) : d.free_list[a] = i
      BY <2>9
    <3> QED
      BY <1>2, <2>8, <2>9, <3>1, <3>2 DEF Placed
  <2> QED
    BY <2>8, <2>10 DEF Arranged
<1> QED
  BY <1>8, <1>9 DEF d, v, i

(* A hit makes its node the most recent one. *)
LEMMA Touched ==
  ASSUME NEW n \in Nat, NEW c, Sound(n, c), NEW k \in Keys, c.map[k] # 0, NEW tags, NEW left
  PROVE  LET d == move_to_head(c, c.map[k])
         IN  Sound(n, d) /\ (Arranged(c, tags, left) => Arranged(d, tags, left))
<1> DEFINE i == c.map[k]
           d == move_to_head(c, i)
<1>1. c \in Struct(n) /\ (\A j \in 1..n : c.nodes[j].key \in Keys) /\ i \in 1..n /\ i \in Live(c)
  BY Indexed DEF Sound
<1>2. Relinked(n, c, d) /\ \A S \in SUBSET (1..n) : i \in S /\ Ordered(c, S) => Ordered(d, S)
  BY <1>1, MoveToHead
<1> HIDE DEF i, d
<1>3. Sound(n, d)
  BY <1>1, <1>2 DEF Relinked, Sound
<1>4. Mapped(d) = Mapped(c) /\ Live(d) = Live(c) /\ DOMAIN d.nodes = DOMAIN c.nodes
  BY <1>1, <1>2, StructFields DEF Relinked, Mapped, Live
<1>5. ASSUME Arranged(c, tags, left) PROVE Arranged(d, tags, left)
  <2>1. Ordered(d, Live(d))
    BY <1>1, <1>2, <1>4, <1>5, Indexed DEF Arranged
  <2>2. Placed(d, left)
    BY <1>2, <1>4, <1>5 DEF Relinked, Arranged, Placed
  <2>3. \A j \in Mapped(c) : c.map[j] \in 1..n
    BY <1>1, Indexed
  <2>4. Filed(d, tags)
    <3>1. \A j \in Mapped(d) : /\ j \in Mapped(c)
                                /\ d.nodes[d.map[j]].key = c.nodes[c.map[j]].key
                                /\ d.nodes[d.map[j]].value = c.nodes[c.map[j]].value
      BY <1>2, <1>4, <2>3 DEF Relinked
    <3>2. Filed(c, tags)
      BY <1>5 DEF Arranged
    <3> QED
      BY <3>1, <3>2, SameFiled
  <2> QED
    BY <2>1, <2>2, <2>4 DEF Arranged
<1> QED
  BY <1>3, <1>5 DEF d, i

(* An expired entry gives its node back.                                      *)
LEMMA Removed ==
  ASSUME NEW n \in Nat, NEW c, Sound(n, c), NEW k \in Keys, c.map[k] # 0, NEW tags, NEW left
  PROVE  LET d == unmap(remove_node(c, c.map[k]), k)
         IN  Sound(n, d) /\ (Arranged(c, tags, left) => Arranged(d, tags, left))
<1> DEFINE i == c.map[k]
           r == remove_node(c, i)
           d == unmap(r, k)
<1>1. c \in Struct(n) /\ (\A j \in 1..n : c.nodes[j].key \in Keys) /\ i \in 1..n /\ i \in Live(c)
      /\ k \in Mapped(c)
  BY Indexed DEF Sound
<1>2. /\ r \in Struct(n) /\ r.map = c.map /\ r.free_list = Append(c.free_list, i)
      /\ \A j \in 1..n : r.nodes[j].key = c.nodes[j].key /\ (j # i => r.nodes[j].value = c.nodes[j].value)
      /\ \A S \in SUBSET (1..n) : i \in S /\ Ordered(c, S) => Ordered(r, S \ {i})
  BY <1>1, RemoveNode
<1> HIDE DEF r, i
<1>3. /\ d \in Struct(n) /\ d.nodes = r.nodes /\ d.head = r.head /\ d.tail = r.tail
      /\ d.free_list = r.free_list
      /\ \A j \in Keys : d.map[j] = (IF j = k THEN 0 ELSE r.map[j])
  BY <1>2, Unmap
<1> HIDE DEF d
<1>4. Sound(n, d)
  BY <1>1, <1>2, <1>3 DEF Sound
<1>5. ASSUME Arranged(c, tags, left) PROVE Arranged(d, tags, left)
  <2>1. \A k1, k2 \in Mapped(c) : c.map[k1] = c.map[k2] => k1 = k2
    BY <1>5 DEF Arranged, Placed
  <2>2. Mapped(d) = Mapped(c) \ {k} /\ \A j \in Mapped(d) : d.map[j] = c.map[j] /\ c.map[j] # i
    <3>1. \A j \in Keys : j \in Mapped(d) <=> j \in Mapped(c) /\ j # k
      BY <1>2, <1>3 DEF Mapped, NULL_NODE
    <3>2. \A j \in Mapped(c) : j # k => d.map[j] = c.map[j] /\ c.map[j] # i
      BY <1>1, <1>2, <1>3, <2>1, Indexed DEF i
    <3> QED
      BY <3>1, <3>2 DEF Mapped
  <2>3. Live(d) = Live(c) \ {i}
    <3>1. \A j \in Live(c) : \E l \in Mapped(c) : c.map[l] = j
      BY <1>1, Indexed
    <3>2. c.map[k] = i
      BY DEF i
    <3> QED
      BY <1>1, <2>2, <3>1, <3>2 DEF Live
  <2>4. Ordered(d, Live(d))
    <3>1. Ordered(r, Live(d))
      BY <1>1, <1>2, <1>5, <2>3, Indexed DEF Arranged
    <3> QED
      BY <1>3, <3>1, SameList
  <2>5. Filed(d, tags)
    <3>1. \A j \in Mapped(d) : j \in Mapped(c) /\ d.map[j] = c.map[j] /\ c.map[j] # i /\ c.map[j] \in 1..n
      BY <1>1, <2>2, Indexed
    <3>2. \A j \in Mapped(d) : /\ j \in Mapped(c)
                                /\ d.nodes[d.map[j]].key = c.nodes[c.map[j]].key
                                /\ d.nodes[d.map[j]].value = c.nodes[c.map[j]].value
      BY <1>2, <1>3, <3>1
    <3>3. Filed(c, tags)
      BY <1>5 DEF Arranged
    <3> QED
      BY <3>2, <3>3, SameFiled
  <2>6. /\ d.free_list = Append(c.free_list, i) /\ Len(c.free_list) \in Nat
        /\ Len(d.free_list) = Len(c.free_list) + 1 /\ d.free_list[Len(c.free_list) + 1] = i
        /\ \A a \in 1..Len(c.free_list) : d.free_list[a] = c.free_list[a]
    <3>1. c.free_list \in Seq(1..n)
      BY <1>1, StructFields
    <3> QED
      BY <1>1, <1>2, <1>3, <3>1
  <2>7. ToSet(d.free_list) = ToSet(c.free_list) \cup {i}
    <3>1. \A j : j \in ToSet(c.free_list) <=> \E a \in 1..Len(c.free_list) : c.free_list[a] = j
      BY <1>1, Indexed
    <3>2. \A j : j \in ToSet(d.free_list) <=> \E a \in 1..Len(d.free_list) : d.free_list[a] = j
      BY <1>3, Indexed
    <3>3. \A a \in 1..Len(d.free_list) : a \in 1..Len(c.free_list) \/ a = Len(c.free_list) + 1
      BY <2>6
    <3>4. Len(c.free_list) + 1 \in 1..Len(d.free_list)
          /\ \A a \in 1..Len(c.free_list) : a \in 1..Len(d.free_list)
      BY <2>6
    <3>5. \A j \in ToSet(d.free_list) : j \in ToSet(c.free_list) \cup {i}
      BY <2>6, <3>1, <3>2, <3>3
    <3>6. i \in ToSet(d.free_list) /\ \A j \in ToSet(c.free_list) : j \in ToSet(d.free_list)
      BY <2>6, <3>1, <3>2, <3>4
    <3> QED
      BY <3>5, <3>6
  <2>8. i \in ToSet(c.free_list) => i \in left
    BY <1>1, <1>5 DEF Arranged, Placed
  <2>9. \A a, b \in 1..Len(d.free_list) :
            d.free_list[a] = d.free_list[b] /\ a # b => d.free_list[a] \in left
    <3>1. \A a, b \in 1..Len(c.free_list) :
              c.free_list[a] = c.free_list[b] /\ a # b => c.free_list[a] \in left
      BY <1>5 DEF Arranged, Placed
    <3>2. \A a \in 1..Len(c.free_list) : c.free_list[a] = i => i \in left
      BY <1>1, <2>8, Indexed
    <3>3. \A a \in 1..Len(d.free_list) : a \in 1..Len(c.free_list) \/ a = Len(c.free_list) + 1
      BY <2>6
    <3> QED
      BY <2>6, <3>1, <3>2, <3>3
  <2>10. Placed(d, left)
    <3>1. DOMAIN d.nodes = DOMAIN c.nodes
      BY <1>1, <1>3, StructFields
    <3>2. /\ ToSet(c.free_list) \cap Live(c) \subseteq left
          /\ ToSet(c.free_list) \cup Live(c) = DOMAIN c.nodes
      BY <1>5 DEF Arranged, Placed
    <3>3. \A k1, k2 \in Mapped(d) : d.map[k1] = d.map[k2] => k1 = k2
      BY <2>1, <2>2
    <3>4. ToSet(d.free_list) \cap Live(d) \subseteq left /\ ToSet(d.free_list) \cup Live(d) = DOMAIN d.nodes
      BY <1>1, <2>3, <2>7, <3>1, <3>2
    <3> QED
      BY <2>9, <3>3, <3>4 DEF Placed
  <2> QED
    BY <2>4, <2>5, <2>10 DEF Arranged
<1> QED
  BY <1>4, <1>5 DEF d, r, i

-----------------------------------------------------------------------------
(* The cache's steps.                                                         *)

(* A lookup.                                                                  *)
LEMMA LookupKeeps == ASSUME CacheInv, NEW k \in Keys, Get(k) PROVE CacheInv'
<1>1. PICK n \in Nat : Sound(n, cache) /\ dangling \subseteq 1..n
  BY DEF CacheInv, CacheTypes
<1>2. cache' = RouteCache_get(cache, k) /\ UNCHANGED <<latest, dangling, reused>>
  BY DEF Get
<1>3. Sound(n, cache') /\ (Arranged(cache, latest, dangling) => Arranged(cache', latest, dangling))
  <2>1. CASE cache.map[k] = 0
    BY <1>1, <1>2, <2>1 DEF RouteCache_get, NULL_NODE
  <2>2. CASE cache.map[k] # 0
    <3>1. \/ cache' = move_to_head(cache, cache.map[k])
          \/ cache' = unmap(remove_node(cache, cache.map[k]), k)
      BY <1>2, <2>2 DEF RouteCache_get, NULL_NODE
    <3> QED
      BY <1>1, <2>2, <3>1, Touched, Removed
  <2> QED
    BY <2>1, <2>2
<1> QED
  BY <1>1, <1>2, <1>3 DEF CacheInv, CacheTypes

(* An insertion, whichever way it finds a node.                               *)
LEMMA InsertKeeps ==
  ASSUME CacheInv, NEW k \in Keys, NEW t \in Tags, NEW max \in MaxOptions, Insert(k, t, max)
  PROVE  CacheInv'
<1> DEFINE c == [cache EXCEPT !.max_entries = max]
           tagged == [latest EXCEPT ![k] = t]
<1>1. PICK n \in Nat : Sound(n, cache) /\ dangling \subseteq 1..n
  BY DEF CacheInv, CacheTypes
<1>2. /\ cache' = insert(c, k, Value(k, t)) /\ latest' = tagged
      /\ dangling' = dangling \cup (IF Evicts(k, max) THEN {cache.tail} ELSE {})
      /\ reused' = (reused \/ Reuses(k))
  BY DEF Insert
<1>3. latest \in [Keys -> Tags] /\ tagged \in [Keys -> Tags] /\ reused \in BOOLEAN /\ reused' \in BOOLEAN
  <2>1. Reuses(k) \in BOOLEAN
    BY DEF Reuses
  <2> QED
    BY <1>2, <2>1 DEF CacheInv, CacheTypes
<1>4. cache \in Struct(n)
  BY <1>1 DEF Sound
<1>5. /\ c \in Struct(n) /\ c.map = cache.map /\ c.nodes = cache.nodes /\ c.free_list = cache.free_list
      /\ c.tail = cache.tail /\ c.max_entries = max /\ Live(c) = Live(cache)
      /\ Arranged(cache, latest, dangling) => Arranged(c, latest, dangling)
  BY <1>4, LimitMoved
<1> HIDE DEF c, tagged
<1>6. Sound(n, c) /\ Len(cache.nodes) = n /\ cache.tail \in 0..n
  BY <1>1, <1>4, <1>5, StructFields DEF Sound
<1>7. ~reused => Arranged(c, latest, dangling)
  BY <1>5 DEF CacheInv
<1>8. SUFFICES \E m \in Nat : /\ Sound(m, cache') /\ dangling' \subseteq 1..m
                              /\ ~reused' => Arranged(cache', tagged, dangling')
  BY <1>2, <1>3 DEF CacheInv, CacheTypes
<1>9. CASE cache.map[k] # 0
  <2>1. ~Evicts(k, max) /\ ~Reuses(k)
    BY <1>9 DEF Evicts, Reuses, NULL_NODE
  <2>2. Sound(n, cache') /\ (Arranged(c, latest, dangling) => Arranged(cache', tagged, dangling))
    BY <1>2, <1>3, <1>5, <1>6, <1>9, InsertKnown DEF tagged
  <2> QED
    BY <1>1, <1>2, <1>7, <2>1, <2>2
<1>10. CASE cache.map[k] = 0 /\ cache.free_list # <<>>
  <2>1. ~Evicts(k, max) /\ (Last(cache.free_list) \in dangling \cap Live(cache) => Reuses(k))
    BY <1>10 DEF Evicts, Reuses, NULL_NODE
  <2>2. /\ Sound(n, cache')
        /\ Arranged(c, latest, dangling) /\ Last(c.free_list) \notin dangling \cap Live(c)
               => Arranged(cache', tagged, dangling)
    BY <1>2, <1>3, <1>5, <1>6, <1>10, InsertFree DEF tagged
  <2>3. ~reused' => ~reused /\ Last(c.free_list) \notin dangling \cap Live(c)
    BY <1>2, <1>5, <2>1
  <2> QED
    BY <1>1, <1>2, <1>7, <2>1, <2>2, <2>3
<1>11. CASE cache.map[k] = 0 /\ cache.free_list = <<>>
  <2>1. ~Reuses(k)
    BY <1>11 DEF Reuses
  <2>2. CASE n < max
    <3>1. ~Evicts(k, max)
      <4>1. max \in Nat
        BY RouteCacheAssumption
      <4> QED
        BY <1>6, <2>2, <4>1 DEF Evicts
    <3>2. Sound(n + 1, cache') /\ (Arranged(c, latest, dangling) => Arranged(cache', tagged, dangling))
      BY <1>2, <1>3, <1>5, <1>6, <1>11, <2>2, InsertGrown DEF tagged
    <3>3. n + 1 \in Nat /\ dangling' \subseteq 1..n + 1
      BY <1>1, <1>2, <3>1
    <3> QED
      BY <1>2, <1>7, <2>1, <3>1, <3>2, <3>3
  <2>3. CASE ~(n < max) /\ cache.tail # 0
    <3>1. Evicts(k, max)
      <4>1. max \in Nat
        BY RouteCacheAssumption
      <4> QED
        BY <1>6, <1>11, <2>3, <4>1 DEF Evicts, NULL_NODE
    <3>2. /\ Sound(n, cache')
          /\ Arranged(c, latest, dangling) => Arranged(cache', tagged, dangling \cup {c.tail})
      BY <1>2, <1>3, <1>5, <1>6, <1>11, <2>3, InsertEvicting DEF tagged
    <3>3. dangling' = dangling \cup {c.tail} /\ dangling' \subseteq 1..n
      <4>1. cache.tail \in 1..n
        BY <1>6, <2>3
      <4>2. dangling' = dangling \cup {cache.tail}
        BY <1>2, <3>1
      <4> QED
        BY <1>1, <1>5, <4>1, <4>2
    <3> QED
      BY <1>2, <1>7, <2>1, <3>2, <3>3
  <2>4. CASE ~(n < max) /\ cache.tail = 0
    <3>1. ~Evicts(k, max)
      BY <2>4 DEF Evicts, NULL_NODE
    <3>2. cache' = c
      BY <1>2, <1>5, <1>6, <1>11, <2>4 DEF insert, NULL_NODE
    <3>3. Arranged(c, latest, dangling) => Arranged(c, tagged, dangling)
      <4>1. \A j \in Mapped(c) : j \in Keys /\ j # k /\ tagged[j] = latest[j]
        BY <1>3, <1>5, <1>11 DEF Mapped, NULL_NODE, tagged
      <4> QED
        BY <4>1 DEF Arranged, Filed
    <3> QED
      BY <1>1, <1>2, <1>6, <1>7, <2>1, <3>1, <3>2, <3>3
  <2> QED
    BY <2>2, <2>3, <2>4
<1> QED
  BY <1>9, <1>10, <1>11

(* An entry that expires in its node.                                         *)
LEMMA ExpireKeeps == ASSUME CacheInv, NEW k \in Keys, Expire(k) PROVE CacheInv'
<1> DEFINE i == cache.map[k]
           v == cache.nodes[i].value
           old == [v EXCEPT !.fresh = FALSE]
           f == [cache.nodes EXCEPT ![i].value = old]
<1>1. PICK n \in Nat : Sound(n, cache) /\ dangling \subseteq 1..n
  BY DEF CacheInv, CacheTypes
<1>2. cache' = [cache EXCEPT !.nodes = f] /\ UNCHANGED <<latest, dangling, reused>>
  BY DEF Expire
<1>3. cache \in Struct(n) /\ \A j \in 1..n : cache.nodes[j].key \in Keys
  BY <1>1 DEF Sound
<1>4. i # 0 /\ v.present
  BY DEF Expire, Lookup, NULL_NODE, NoValue
<1>5. i \in 1..n /\ cache.nodes \in [1..n -> Node(n)] /\ cache.nodes[i] \in Node(n)
  BY <1>3, <1>4, StructFields, Indexed
<1>6. v \in [present : {TRUE}, of : Keys, tag : Tags, fresh : BOOLEAN]
  <2>1. v \in Values
    BY <1>5 DEF Node
  <2>2. v # NoValue
    BY <1>4 DEF NoValue
  <2> QED
    BY <2>1, <2>2 DEF Values
<1> HIDE DEF v
<1>7. old \in Values /\ old.present /\ old.of = v.of /\ old.tag = v.tag
  BY <1>6 DEF Values
<1> HIDE DEF old
<1>8. f \in [1..n -> Node(n)] /\ \A j \in 1..n :
        /\ f[j].prev = cache.nodes[j].prev /\ f[j].next = cache.nodes[j].next
        /\ f[j].key = cache.nodes[j].key
        /\ f[j].value = (IF j = i THEN old ELSE cache.nodes[j].value)
  BY <1>5, <1>7 DEF Node
<1> HIDE DEF f
<1>9. /\ cache'.nodes = f /\ cache'.map = cache.map /\ cache'.head = cache.head /\ cache'.tail = cache.tail
      /\ cache'.free_list = cache.free_list /\ cache' \in Struct(n)
  BY <1>2, <1>3, <1>8 DEF Struct
<1>10. Sound(n, cache')
  BY <1>3, <1>8, <1>9 DEF Sound
<1>11. ASSUME Arranged(cache, latest, dangling) PROVE Arranged(cache', latest, dangling)
  <2>1. Mapped(cache') = Mapped(cache) /\ Live(cache') = Live(cache)
        /\ DOMAIN cache'.nodes = DOMAIN cache.nodes
    BY <1>3, <1>9, StructFields DEF Mapped, Live
  <2>2. \A j \in Mapped(cache) : cache.map[j] \in 1..n
    BY <1>3, Indexed
  <2>3. Filed(cache', latest)
    <3> SUFFICES ASSUME NEW j \in Mapped(cache)
                 PROVE  LET x == cache'.nodes[cache'.map[j]]
                        IN  x.key = j /\ x.value.present /\ x.value.of = j /\ x.value.tag = latest[j]
      BY <2>1 DEF Filed
    <3>1. LET x == cache.nodes[cache.map[j]]
          IN  x.key = j /\ x.value.present /\ x.value.of = j /\ x.value.tag = latest[j]
      BY <1>11 DEF Arranged, Filed
    <3>2. cache'.map[j] = cache.map[j] /\ cache.map[j] \in 1..n
      BY <1>9, <2>2
    <3>3. /\ f[cache.map[j]].key = cache.nodes[cache.map[j]].key
          /\ f[cache.map[j]].value = (IF cache.map[j] = i THEN old ELSE cache.nodes[cache.map[j]].value)
      BY <1>8, <3>2
    <3>4. CASE cache.map[j] = i
      BY <1>7, <1>9, <3>1, <3>2, <3>3, <3>4 DEF v
    <3>5. CASE cache.map[j] # i
      BY <1>9, <3>1, <3>2, <3>3, <3>5
    <3> QED
      BY <3>4, <3>5
  <2>4. Ordered(cache', Live(cache'))
    <3>1. \A j \in Live(cache) : /\ cache'.nodes[j].prev = cache.nodes[j].prev
                                 /\ cache'.nodes[j].next = cache.nodes[j].next
      BY <1>3, <1>8, <1>9, Indexed
    <3> QED
      BY <1>9, <1>11, <2>1, <3>1, SameList DEF Arranged
  <2>5. Placed(cache', dangling)
    BY <1>9, <1>11, <2>1 DEF Arranged, Placed
  <2> QED
    BY <2>3, <2>4, <2>5 DEF Arranged
<1> QED
  BY <1>1, <1>2, <1>10, <1>11 DEF CacheInv, CacheTypes

(* A new cache is empty.                                                      *)
LEMMA CacheInitInv == CacheInit => CacheInv
<1> SUFFICES ASSUME CacheInit PROVE CacheInv
  OBVIOUS
<1>1. PICK max \in MaxOptions : cache = RouteCache_new(max)
  BY DEF CacheInit
<1>2. /\ cache.map = [k \in Keys |-> 0] /\ cache.nodes = <<>> /\ cache.head = 0 /\ cache.tail = 0
      /\ cache.free_list = <<>> /\ cache.max_entries = max
  BY <1>1 DEF RouteCache_new, NULL_NODE
<1>3. cache \in Struct(0)
  <2>1. <<>> \in [1..0 -> Node(0)] /\ <<>> \in Seq(1..0) /\ 0 \in 0..0
    OBVIOUS
  <2>2. [k \in Keys |-> 0] \in [Keys -> 0..0]
    BY <2>1
  <2> QED
    BY <1>1, <2>1, <2>2 DEF RouteCache_new, Struct, NULL_NODE
<1>4. Sound(0, cache)
  BY <1>3 DEF Sound
<1>5. Mapped(cache) = {} /\ Live(cache) = {}
  BY <1>2 DEF Mapped, Live, NULL_NODE
<1>6. Filed(cache, latest)
  BY <1>5 DEF Filed
<1>7. ToSet(cache.free_list) = {} /\ DOMAIN cache.nodes = {} /\ \A a \in 1..Len(cache.free_list) : FALSE
  BY <1>2 DEF ToSet
<1>8. Placed(cache, dangling)
  BY <1>5, <1>7 DEF Placed
<1>9. Ordered(cache, Live(cache))
  <2> DEFINE o == [a \in 1..0 |-> 0]
  <2>1. o \in [1..0 -> {}] /\ \A a \in 1..0 : FALSE
    OBVIOUS
  <2> HIDE DEF o
  <2>2. ListIs(cache, 0, o)
    BY <1>2, <2>1 DEF ListIs
  <2> QED
    BY <1>5, <2>1, <2>2 DEF Ordered
<1> QED
  BY <1>4, <1>6, <1>8, <1>9 DEF CacheInit, CacheInv, CacheTypes, Arranged

(* Every lookup, insertion and expiry keeps the inductive invariant.          *)
LEMMA CacheStep == CacheInv /\ [CacheNext]_cacheVars => CacheInv'
<1> SUFFICES ASSUME CacheInv, [CacheNext]_cacheVars PROVE CacheInv'
  OBVIOUS
<1>1. CASE UNCHANGED cacheVars
  BY <1>1 DEF cacheVars, CacheInv, CacheTypes
<1> QED
  BY <1>1, LookupKeeps, InsertKeeps, ExpireKeeps DEF CacheNext

(* Nodes in the order of a list are linked both ways, from head to tail.      *)
LEMMA OrderedIsLinked ==
  ASSUME NEW c, NEW S, 0 \notin S, Ordered(c, S)
  PROVE  /\ (c.head = 0) = (S = {}) /\ (c.tail = 0) = (S = {})
         /\ \A i \in S :
             /\ IF c.nodes[i].prev = 0 THEN c.head = i
                ELSE c.nodes[i].prev \in S /\ c.nodes[c.nodes[i].prev].next = i
             /\ IF c.nodes[i].next = 0 THEN c.tail = i
                ELSE c.nodes[i].next \in S /\ c.nodes[c.nodes[i].next].prev = i
<1>1. PICK m \in Nat : \E o \in [1..m -> S] : ListIs(c, m, o) /\ \A j \in S : \E a \in 1..m : o[a] = j
  BY DEF Ordered
<1>2. PICK o \in [1..m -> S] : ListIs(c, m, o) /\ \A j \in S : \E a \in 1..m : o[a] = j
  BY <1>1
<1>3. \A a \in 1..m : o[a] \in S /\ o[a] # 0
  BY <1>2
<1>4. (c.head = 0) = (S = {}) /\ (c.tail = 0) = (S = {})
  <2>1. CASE m = 0
    BY <1>2, <2>1 DEF ListIs
  <2>2. CASE m # 0
    <3>1. 1 \in 1..m /\ m \in 1..m
      BY <2>2
    <3> QED
      BY <1>2, <1>3, <2>2, <3>1 DEF ListIs
  <2> QED
    BY <2>1, <2>2
<1>5. ASSUME NEW i \in S
      PROVE  /\ IF c.nodes[i].prev = 0 THEN c.head = i
                ELSE c.nodes[i].prev \in S /\ c.nodes[c.nodes[i].prev].next = i
             /\ IF c.nodes[i].next = 0 THEN c.tail = i
                ELSE c.nodes[i].next \in S /\ c.nodes[c.nodes[i].next].prev = i
  <2>1. PICK a \in 1..m : o[a] = i
    BY <1>2
  <2>2. /\ c.nodes[i].prev = (IF a = 1 THEN 0 ELSE o[a - 1])
        /\ c.nodes[i].next = (IF a = m THEN 0 ELSE o[a + 1])
        /\ c.head = o[1] /\ c.tail = o[m]
    <3>1. m # 0
      OBVIOUS
    <3> QED
      BY <1>2, <2>1, <3>1 DEF ListIs
  <2>3. IF c.nodes[i].prev = 0 THEN c.head = i
        ELSE c.nodes[i].prev \in S /\ c.nodes[c.nodes[i].prev].next = i
    <3>1. CASE a = 1
      BY <2>1, <2>2, <3>1
    <3>2. CASE a # 1
      <4>1. a - 1 \in 1..m /\ a - 1 # m /\ (a - 1) + 1 = a
        BY <3>2
      <4>2. c.nodes[o[a - 1]].next = o[(a - 1) + 1]
        BY <1>2, <4>1 DEF ListIs
      <4> QED
        BY <1>3, <2>1, <2>2, <3>2, <4>1, <4>2
    <3> QED
      BY <3>1, <3>2
  <2>4. IF c.nodes[i].next = 0 THEN c.tail = i
        ELSE c.nodes[i].next \in S /\ c.nodes[c.nodes[i].next].prev = i
    <3>1. CASE a = m
      BY <2>1, <2>2, <3>1
    <3>2. CASE a # m
      <4>1. a + 1 \in 1..m /\ a + 1 # 1 /\ (a + 1) - 1 = a
        BY <3>2
      <4>2. c.nodes[o[a + 1]].prev = o[(a + 1) - 1]
        BY <1>2, <4>1 DEF ListIs
      <4> QED
        BY <1>3, <2>1, <2>2, <3>2, <4>1, <4>2
    <3> QED
      BY <3>1, <3>2
  <2> QED
    BY <2>3, <2>4
<1> QED
  BY <1>4, <1>5

(* The invariant implies what is promised of hits, nodes and list.            *)
LEMMA SoundFollows == CacheInv => SoundUntilReuse
<1> SUFFICES ASSUME CacheInv PROVE SoundUntilReuse
  OBVIOUS
<1>1. PICK n \in Nat : Sound(n, cache) /\ dangling \subseteq 1..n
  BY DEF CacheInv, CacheTypes
<1>2. cache \in Struct(n) /\ \A j \in 1..n : cache.nodes[j].key \in Keys
  BY <1>1 DEF Sound
<1>3. Indices(cache) = 1..n /\ Indices(cache) \cup {NULL_NODE} = 0..n
  BY <1>2, StructFields DEF Indices, NULL_NODE
<1>4. CacheTypeOK
  <2>1. \A i \in 1..n : cache.nodes[i].prev \in 0..n /\ cache.nodes[i].next \in 0..n
    BY <1>2, StructFields DEF Node
  <2>2. /\ cache.map \in [Keys -> 0..n] /\ {cache.head, cache.tail} \subseteq 0..n
        /\ cache.max_entries \in MaxOptions /\ ToSet(cache.free_list) \in SUBSET (1..n)
    BY <1>2, StructFields, Indexed
  <2>3. ToSet(cache.free_list) \cup dangling \subseteq Indices(cache) /\ reused \in BOOLEAN
    BY <1>1, <1>3, <2>2 DEF CacheInv, CacheTypes
  <2> QED
    BY <1>2, <1>3, <2>1, <2>2, <2>3 DEF CacheTypeOK
<1>5. ASSUME ~reused, Filed(cache, latest) PROVE HitIsOwnResponse
  <2> SUFFICES ASSUME NEW k \in Keys, Lookup(cache, k).present
               PROVE  Lookup(cache, k).of = k /\ Lookup(cache, k).tag = latest[k]
    BY DEF HitIsOwnResponse
  <2>1. cache.map[k] # 0 /\ Lookup(cache, k) = cache.nodes[cache.map[k]].value
    BY DEF Lookup, NULL_NODE, NoValue
  <2>2. k \in Mapped(cache)
    BY <2>1 DEF Mapped, NULL_NODE
  <2> QED
    BY <1>5, <2>1, <2>2 DEF Filed
<1>6. ASSUME ~reused PROVE HitIsOwnResponse /\ Placed(cache, dangling) /\ Ordered(cache, Live(cache))
  BY <1>5, <1>6 DEF CacheInv, Arranged
<1>7. 0 \notin Live(cache)
  BY <1>2, Indexed
<1>8. HitsUntilReuse /\ NodesUntilReuse
  BY <1>6 DEF HitsUntilReuse, NodesUntilReuse, Placed, Indices
<1>9. ListUntilReuse
  BY <1>6, <1>7, OrderedIsLinked DEF ListUntilReuse, NULL_NODE
<1> QED
  BY <1>4, <1>8, <1>9 DEF SoundUntilReuse

(* Indices stay inside the node vector for good.  Until a node that an         *)
(* eviction left on the free list is handed out again, a hit is the latest     *)
(* response of its own key, every node is live or free and belongs to one key, *)
(* and the list links the live nodes from the most to the least recently used, *)
(* through hits, expiry, moving limits and evictions (router.rs:776-878).      *)
THEOREM CacheIsSoundUntilReuse == CacheSpec => []SoundUntilReuse
<1>1. CacheSpec => []CacheInv
  BY CacheInitInv, CacheStep, PTL DEF CacheSpec
<1> QED
  BY <1>1, SoundFollows, PTL

-----------------------------------------------------------------------------
(* Sums, as the cardinalities of the sets of their units.                      *)

(* Finite sets of one, and of the first k, elements. *)
LEMMA Singleton == ASSUME NEW x PROVE IsFiniteSet({x}) /\ Cardinality({x}) = 1
BY FS_Singleton

LEMMA UpTo == ASSUME NEW k \in Nat PROVE IsFiniteSet(1..k) /\ Cardinality(1..k) = k
<1>1. 1 \in Int /\ k \in Int
  OBVIOUS
<1> QED BY <1>1, FS_Interval

(* A finite sum is a number. *)
LEMMA UnitsFinite ==
    ASSUME NEW S, IsFiniteSet(S), NEW f, \A x \in S : f[x] \in Nat
    PROVE  IsFiniteSet(Units(f, S)) /\ SumOver(f, S) \in Nat
<1> DEFINE Row(x) == {x} \X (1..f[x])
           rows == {Row(x) : x \in S}
           g == [x \in S |-> Row(x)]
<1>1. g \in Surjection(S, rows)
  BY DEF Surjection
<1>2. IsFiniteSet(rows)
  BY <1>1, FS_Surjection
<1>3. ASSUME NEW T \in rows PROVE IsFiniteSet(T)
  <2>1. PICK x \in S : T = Row(x)
    OBVIOUS
  <2>2. IsFiniteSet({x}) /\ IsFiniteSet(1..f[x])
    BY Singleton, UpTo
  <2> HIDE DEF rows
  <2> QED BY <2>1, <2>2, FS_Product
<1>4. IsFiniteSet(UNION rows)
  <2> HIDE DEF rows
  <2> QED BY <1>2, <1>3, FS_UNION
<1> QED BY <1>4, FS_CardinalityType DEF Units, SumOver

(* A sum over more, of no less, is no less. *)
LEMMA SumMonotone ==
    ASSUME NEW S, NEW T, IsFiniteSet(S), IsFiniteSet(T), NEW f, NEW g,
           \A x \in S : f[x] \in Nat, \A x \in T : g[x] \in Nat,
           \A x \in S : f[x] # 0 => x \in T /\ f[x] <= g[x]
    PROVE  SumOver(f, S) <= SumOver(g, T)
<1>1. Units(f, S) \subseteq Units(g, T)
  <2> SUFFICES ASSUME NEW x \in S, NEW u \in {x} \X (1..f[x])
               PROVE  u \in {x} \X (1..g[x]) /\ x \in T
    BY DEF Units
  <2>1. f[x] # 0
    OBVIOUS
  <2>2. x \in T /\ f[x] <= g[x] /\ g[x] \in Nat
    BY <2>1
  <2> QED BY <2>2
<1>2. IsFiniteSet(Units(g, T))
  BY UnitsFinite
<1> QED BY <1>1, <1>2, FS_Subset DEF SumOver

(* The sum over two parts is the sum of their sums. *)
LEMMA SumDisjoint ==
    ASSUME NEW S, NEW T, IsFiniteSet(S), IsFiniteSet(T), S \cap T = {}, NEW f,
           \A x \in S \cup T : f[x] \in Nat
    PROVE  SumOver(f, S \cup T) = SumOver(f, S) + SumOver(f, T)
<1>1. Units(f, S \cup T) = Units(f, S) \cup Units(f, T)
  BY DEF Units
<1>2. Units(f, S) \cap Units(f, T) = {}
  <2> SUFFICES ASSUME NEW x \in S, NEW y \in T, NEW u,
                      u \in {x} \X (1..f[x]), u \in {y} \X (1..f[y])
               PROVE  FALSE
    BY DEF Units
  <2> QED OBVIOUS
<1>3. /\ IsFiniteSet(Units(f, S)) /\ IsFiniteSet(Units(f, T))
      /\ SumOver(f, S) \in Nat /\ SumOver(f, T) \in Nat
  BY UnitsFinite
<1>4. Cardinality(Units(f, S) \cup Units(f, T))
         = Cardinality(Units(f, S)) + Cardinality(Units(f, T)) - Cardinality({})
  BY <1>2, <1>3, FS_Union
<1>5. Cardinality({}) = 0 /\ Cardinality(Units(f, S)) \in Nat /\ Cardinality(Units(f, T)) \in Nat
  BY <1>3, FS_EmptySet, FS_CardinalityType
<1>6. Cardinality(Units(f, S) \cup Units(f, T)) = Cardinality(Units(f, S)) + Cardinality(Units(f, T))
  BY <1>4, <1>5
<1> QED BY <1>1, <1>6 DEF SumOver

LEMMA SumOne ==
    ASSUME NEW x, NEW f, f[x] \in Nat
    PROVE  SumOver(f, {x}) = f[x]
<1>1. Units(f, {x}) = {x} \X (1..f[x])
  BY DEF Units
<1>2. IsFiniteSet({x}) /\ Cardinality({x}) = 1 /\ IsFiniteSet(1..f[x]) /\ Cardinality(1..f[x]) = f[x]
  BY Singleton, UpTo
<1>3. Cardinality({x} \X (1..f[x])) = Cardinality({x}) * Cardinality(1..f[x])
  BY <1>2, FS_Product
<1>4. Cardinality({x} \X (1..f[x])) = f[x]
  BY <1>2, <1>3
<1> QED BY <1>1, <1>4 DEF SumOver

LEMMA SumNothing == ASSUME NEW f PROVE SumOver(f, {}) = 0
BY FS_EmptySet DEF SumOver, Units

\* A sum over other arguments.
LEMMA SumMoved ==
    ASSUME NEW S, NEW T, IsFiniteSet(S), NEW m \in Bijection(S, T), NEW f, NEW g,
           \A x \in S : f[x] \in Nat /\ g[m[x]] = f[x]
    PROVE  SumOver(f, S) = SumOver(g, T)
<1> DEFINE h == [u \in Units(f, S) |-> <<m[u[1]], u[2]>>]
<1>0. ASSUME NEW u PROVE u \in Units(f, S) <=> \E x \in S : \E c \in 1..f[x] : u = <<x, c>>
  BY DEF Units
<1>1. ASSUME NEW u PROVE u \in Units(g, T) <=> \E y \in T : \E c \in 1..g[y] : u = <<y, c>>
  BY DEF Units
<1>2. h \in [Units(f, S) -> Units(g, T)]
  <2> SUFFICES ASSUME NEW u \in Units(f, S) PROVE <<m[u[1]], u[2]>> \in Units(g, T)
    OBVIOUS
  <2>1. PICK x \in S : \E c \in 1..f[x] : u = <<x, c>>
    BY <1>0
  <2>2. m[x] \in T
    BY DEF Bijection, Injection, IsInjective
  <2> QED BY <2>1, <2>2, <1>1
<1>3. ASSUME NEW u \in Units(f, S), NEW v \in Units(f, S), h[u] = h[v] PROVE u = v
  <2>1. PICK x \in S : \E c \in 1..f[x] : u = <<x, c>>
    BY <1>0
  <2>2. PICK y \in S : \E c \in 1..f[y] : v = <<y, c>>
    BY <1>0
  <2>3. m[x] = m[y] /\ u[2] = v[2]
    BY <1>3, <2>1, <2>2
  <2>4. x = y
    BY <2>3 DEF Bijection, Injection, IsInjective
  <2> QED BY <2>1, <2>2, <2>3, <2>4
<1>4. ASSUME NEW v \in Units(g, T) PROVE \E u \in Units(f, S) : h[u] = v
  <2>1. PICK y \in T : \E c \in 1..g[y] : v = <<y, c>>
    BY <1>1
  <2>2. PICK x \in S : m[x] = y
    BY DEF Bijection, Surjection
  <2>3. v = <<m[x], v[2]>> /\ v[2] \in 1..f[x]
    BY <2>1, <2>2
  <2>4. <<x, v[2]>> \in Units(f, S)
    BY <2>3, <1>0
  <2> QED BY <2>3, <2>4
<1>5. h \in Bijection(Units(f, S), Units(g, T))
  <2> HIDE DEF h
  <2> QED BY <1>2, <1>3, <1>4 DEF Bijection, Injection, IsInjective, Surjection
<1>6. ExistsBijection(Units(f, S), Units(g, T))
  BY <1>5 DEF ExistsBijection
<1> QED BY <1>6, UnitsFinite, FS_Bijection DEF SumOver

-----------------------------------------------------------------------------
(* The limiter: hits, entries, and the inductive invariant.                   *)

\* An event of a queue, an entry of the table, and what was granted to a key by the ms.
Hit == [ts : 0..MaxMs, count : Nat \ {0}]
Bucket == [present : {TRUE}, events : Seq(Hit), total : Nat, last_seen_ms : 0..MaxMs]
Grants == [0..MaxMs -> Nat]

\* The running total is the queue's, within the limit; its events are in order, none in the future.
Queue(b) ==
    /\ b.total = SumOver(Counts(b.events), DOMAIN b.events) /\ b.total <= Limit
    /\ \A i, j \in DOMAIN b.events : i < j => b.events[i].ts < b.events[j].ts
    /\ \A i \in DOMAIN b.events : b.events[i].ts <= b.last_seen_ms

\* The queue and the grants agree on every hit that is still kept; nothing was granted later
\* than the entry was last seen; a grant inside the shortest window is still in the queue; and
\* no window of that length that has ended held more than the limit.  The last two need each
\* other: a pushed hit fits because all that its window holds is in the queue.
Ledger(b, g) ==
    /\ \A i \in DOMAIN b.events : g[b.events[i].ts] = b.events[i].count
    /\ \A u \in 0..MaxMs : u > b.last_seen_ms => g[u] = 0
    /\ \A w \in Windows : Shortest(w) =>
          \A u \in Within(b.last_seen_ms, w * MS) :
             g[u] # 0 => \E i \in DOMAIN b.events : b.events[i].ts = u
    /\ \A w \in Windows : Shortest(w) =>
          \A t \in 0..b.last_seen_ms : SumOver(g, Within(t, w * MS)) <= Limit

BucketInv(b, g) == b \in Bucket /\ g \in Grants /\ Queue(b) /\ Ledger(b, g)

\* Every entry is in order, and a key without one has nothing held against it.
LimitInv ==
    /\ now_ms \in 0..MaxMs /\ \A w \in Windows : w * MS <= now_ms
    /\ map \in [StorageKeys -> {NoWindow} \cup Bucket]
    /\ granted \in [StorageKeys -> Grants]
    /\ \A k \in StorageKeys : ~map[k].present => granted[k] = NoGrants
    /\ \A k \in StorageKeys : map[k].present =>
          BucketInv(map[k], granted[k]) /\ map[k].last_seen_ms <= now_ms
    /\ TableBounded

-----------------------------------------------------------------------------
(* What the constants are. *)
LEMMA LimitConstants ==
    /\ IsFiniteSet(StorageKeys) /\ MaxMs \in Nat
    /\ Limit \in Nat /\ Limit > 0 /\ MS \in Nat /\ MS > 0 /\ U32_MAX \in Nat /\ Limit < U32_MAX
    /\ MAX_RATE_LIMIT_ENTRIES \in Nat /\ EVICTION_TARGET \in Nat
    /\ EVICTION_TARGET <= MAX_RATE_LIMIT_ENTRIES
    /\ \A w \in Windows : w \in Nat /\ w > 0
    /\ \A c \in Costs : c \in Nat /\ c > 0
<1>1. \A x \in {Limit, MS, MAX_RATE_LIMIT_ENTRIES} : x \in Nat /\ x > 0
  BY RateLimitAssumption
<1> QED BY <1>1, RateLimitAssumption

(* Windows in milliseconds; the shortest is the shortest there too. *)
LEMMA Lengths ==
    ASSUME NEW w \in Windows
    PROVE  /\ w * MS \in Nat /\ w * MS > 0
           /\ \A v \in Windows : Shortest(v) => v * MS \in Nat /\ v * MS <= w * MS
<1>1. ASSUME NEW x \in Nat, NEW y \in Nat, x <= y PROVE x * MS \in Nat /\ x * MS <= y * MS
  <2>1. MS \in Nat
    BY LimitConstants
  <2> QED BY <1>1, <2>1
<1>2. w \in Nat /\ 1 <= w /\ MS \in Nat /\ MS > 0
  BY LimitConstants
<1>3. 1 * MS <= w * MS /\ w * MS \in Nat
  BY <1>1, <1>2
<1>4. \A v \in Windows : Shortest(v) => v \in Nat /\ v <= w
  BY LimitConstants DEF Shortest
<1> QED BY <1>1, <1>2, <1>3, <1>4

(* A non-empty set of naturals has a least element. *)
LEMMA LeastOf ==
    ASSUME NEW T \in SUBSET Nat, T # {}
    PROVE  \E x \in T : \A y \in T : x <= y
<1>1. PICK x \in T : \A y \in T : ~ (<<y, x>> \in OpToRel(<, Nat))
  BY WFMin, NatLessThanWellFounded
<1>2. \A y \in T : ~(y < x)
  BY <1>1 DEF OpToRel
<1> QED BY <1>2

(* The hits of a queue. *)
LEMMA Hits ==
    ASSUME NEW es \in Seq(Hit)
    PROVE  /\ Len(es) \in Nat /\ DOMAIN es = 1..Len(es)
           /\ \A i \in 1..Len(es) : /\ es[i] \in Hit /\ es[i].ts \in 0..MaxMs /\ es[i].ts \in Nat
                                    /\ es[i].count \in Nat /\ es[i].count > 0
<1>1. Len(es) \in Nat /\ DOMAIN es = 1..Len(es)
  BY LenProperties
<1>2. \A i \in 1..Len(es) : es[i] \in Hit
  BY <1>1, ElementOfSeq
<1>3. \A h \in Hit : h.ts \in 0..MaxMs /\ h.ts \in Nat /\ h.count \in Nat /\ h.count > 0
  BY LimitConstants DEF Hit
<1> QED BY <1>1, <1>2, <1>3

(* There is a shortest window. *)
LEMMA ShortestExists ==
    ASSUME NEW w \in Windows
    PROVE  \E v \in Windows : Shortest(v)
<1>1. Windows \in SUBSET Nat /\ Windows # {}
  BY LimitConstants
<1>2. PICK v \in Windows : \A y \in Windows : v <= y
  BY <1>1, LeastOf
<1> QED BY <1>2 DEF Shortest

(* What a pruning drops is a prefix, up to the first event that is young enough. *)
LEMMA Expired ==
    ASSUME NEW es \in Seq(Hit), NEW cutoff \in Nat
    PROVE  LET expired == {i \in DOMAIN es : \A j \in 1..i : es[j].ts <= cutoff}
           IN  \E c \in 0..Len(es) :
                  /\ expired = 1..c /\ Cardinality(expired) = c
                  /\ \A i \in 1..c : es[i].ts <= cutoff
                  /\ c < Len(es) => es[c + 1].ts > cutoff
<1> DEFINE expired == {i \in DOMAIN es : \A j \in 1..i : es[j].ts <= cutoff}
           young == {i \in 1..Len(es) : es[i].ts > cutoff}
<1>0. DOMAIN es = 1..Len(es) /\ Len(es) \in Nat /\ \A i \in 1..Len(es) : es[i].ts \in Nat
  BY Hits
<1>1. CASE young = {}
  <2>1. \A i \in 1..Len(es) : es[i].ts <= cutoff
    BY <1>0, <1>1
  <2>2. expired = 1..Len(es)
    BY <1>0, <2>1
  <2> HIDE DEF expired, young
  <2>3. Cardinality(expired) = Len(es)
    BY <1>0, <2>2, UpTo
  <2>4. \E c \in 0..Len(es) :
                  /\ expired = 1..c /\ Cardinality(expired) = c
                  /\ \A i \in 1..c : es[i].ts <= cutoff
                  /\ c < Len(es) => es[c + 1].ts > cutoff
    <3>1. Len(es) \in 0..Len(es) /\ ~(Len(es) < Len(es))
      BY <1>0
    <3> WITNESS Len(es) \in 0..Len(es)
    <3> QED BY <2>1, <2>2, <2>3, <3>1
  <2> QED BY <2>4 DEF expired
<1>2. CASE young # {}
  <2>1. PICK m \in young : \A y \in young : m <= y
    <3>1. young \in SUBSET Nat
      BY <1>0
    <3> HIDE DEF young
    <3> QED BY <3>1, <1>2, LeastOf
  <2>2. m \in 1..Len(es) /\ es[m].ts > cutoff /\ \A j \in 1..(m - 1) : es[j].ts <= cutoff
    BY <2>1, <1>0
  <2>3. expired = 1..(m - 1)
    <3>1. ASSUME NEW i \in expired PROVE i \in 1..(m - 1)
      BY <2>2, <1>0, <3>1
    <3>2. ASSUME NEW i \in 1..(m - 1) PROVE i \in expired
      BY <2>2, <1>0
    <3> QED BY <3>1, <3>2
  <2>4. m - 1 \in 0..Len(es) /\ m - 1 \in Nat
    BY <2>2, <1>0
  <2>5. Cardinality(expired) = m - 1
    BY <2>3, <2>4, UpTo
  <2>6. (m - 1) + 1 = m /\ m - 1 < Len(es)
    BY <2>2, <1>0
  <2> HIDE DEF expired
  <2>7. \E c \in 0..Len(es) :
                  /\ expired = 1..c /\ Cardinality(expired) = c
                  /\ \A i \in 1..c : es[i].ts <= cutoff
                  /\ c < Len(es) => es[c + 1].ts > cutoff
    BY <2>2, <2>3, <2>4, <2>5, <2>6
  <2> QED BY <2>7 DEF expired
<1> QED BY <1>1, <1>2

\* The queue without its first c events.
LEMMA Dropped ==
    ASSUME NEW es \in Seq(Hit), NEW c \in 0..Len(es)
    PROVE  LET rest == SubSeq(es, c + 1, Len(es))
           IN  /\ rest \in Seq(Hit) /\ Len(rest) = Len(es) - c /\ DOMAIN rest = 1..(Len(es) - c)
               /\ \A i \in 1..(Len(es) - c) : rest[i] = es[i + c]
               /\ SumOver(Counts(es), 1..c) \in Nat
               /\ SumOver(Counts(rest), DOMAIN rest) \in Nat
               /\ SumOver(Counts(es), DOMAIN es)
                    = SumOver(Counts(es), 1..c) + SumOver(Counts(rest), DOMAIN rest)
<1> DEFINE rest == SubSeq(es, c + 1, Len(es))
           n == Len(es) - c
           old == 1..c
           new == (c + 1)..Len(es)
           m == [i \in new |-> i - c]
<1>0. Len(es) \in Nat /\ DOMAIN es = 1..Len(es) /\ n \in Nat /\ c \in Nat /\ c <= Len(es)
      /\ \A i \in 1..Len(es) : es[i] \in Hit /\ es[i].count \in Nat
  BY Hits
<1>1. rest \in Seq(Hit) /\ Len(rest) = n /\ DOMAIN rest = 1..n /\ \A i \in 1..n : rest[i] = es[i + c]
  <2>1. /\ c + 1 \in 1..(Len(es) + 1) /\ Len(es) - (c + 1) + 1 = n
        /\ \A i \in 1..n : (c + 1) + i - 1 = i + c
    BY <1>0
  <2> DEFINE a == c + 1
             z == Len(es)
  <2>2. a \in Int /\ z \in Int /\ z - a + 1 = n /\ (\A i \in a..z : es[i] \in Hit)
        /\ (a <= z \/ n = 0)
    <3>1. a \in Int /\ z \in Int /\ z \in Nat /\ n \in Nat /\ a = c + 1 /\ c \in Nat /\ n = z - c
      BY <1>0
    <3> HIDE DEF a, z, n
    <3>3. z - a + 1 = n /\ (a <= z \/ n = 0)
      BY <3>1
    <3>2. \A i \in a..z : es[i] \in Hit
      BY <1>0 DEF a, z
    <3> QED BY <3>1, <3>2, <3>3
  <2> HIDE DEF a, z, n
  <2>3. /\ SubSeq(es, a, z) \in Seq(Hit) /\ Len(SubSeq(es, a, z)) = (IF a <= z THEN z - a + 1 ELSE 0)
        /\ \A i \in 1..(z - a + 1) : SubSeq(es, a, z)[i] = es[a + i - 1]
    BY <2>2, SubSeqProperties
  <2>4. rest \in Seq(Hit) /\ Len(rest) = n /\ \A i \in 1..n : rest[i] = es[a + i - 1]
    BY <2>2, <2>3, <1>0 DEF a, z, n
  <2>5. DOMAIN rest = 1..n
    BY <2>4, LenProperties
  <2> QED BY <2>1, <2>4, <2>5 DEF a
<1>2. IsFiniteSet(old) /\ IsFiniteSet(new) /\ old \cap new = {} /\ old \cup new = DOMAIN es
  <2>1. IsFiniteSet(1..c) /\ IsFiniteSet((c + 1)..Len(es))
    BY <1>0, FS_Interval
  <2> QED BY <1>0, <2>1
<1>3. \A i \in DOMAIN es : Counts(es)[i] \in Nat
  BY <1>0 DEF Counts
<1> HIDE DEF rest, n
<1>4. m \in Bijection(new, 1..n)
  <2>1. \A i \in new : i - c \in 1..n
    BY <1>0 DEF n
  <2>2. \A i \in 1..n : i + c \in new /\ (i + c) - c = i
    BY <1>0 DEF n
  <2>3. \A i, j \in new : i - c = j - c => i = j
    BY <1>0
  <2>4. \A i \in 1..n : \E j \in new : j - c = i
    BY <2>2
  <2> QED BY <2>1, <2>3, <2>4 DEF Bijection, Injection, IsInjective, Surjection
<1>5. \A i \in new : Counts(rest)[m[i]] = Counts(es)[i]
  <2> SUFFICES ASSUME NEW i \in new PROVE Counts(rest)[i - c] = Counts(es)[i]
    OBVIOUS
  <2>1. i - c \in 1..n /\ i \in 1..Len(es) /\ (i - c) + c = i
    BY <1>0 DEF n
  <2> QED BY <2>1, <1>0, <1>1 DEF Counts
<1>6. SumOver(Counts(es), new) = SumOver(Counts(rest), 1..n)
  <2> HIDE DEF m, new
  <2> QED BY <1>2, <1>3, <1>4, <1>5, SumMoved
<1>7. SumOver(Counts(es), old \cup new) = SumOver(Counts(es), old) + SumOver(Counts(es), new)
  <2> HIDE DEF old, new
  <2> QED BY <1>2, <1>3, SumDisjoint
<1>8. SumOver(Counts(es), old) \in Nat /\ SumOver(Counts(es), new) \in Nat
  <2>1. \A i \in old : Counts(es)[i] \in Nat
    BY <1>2, <1>3
  <2>2. \A i \in new : Counts(es)[i] \in Nat
    BY <1>2, <1>3
  <2> HIDE DEF old, new
  <2> QED BY <1>2, <2>1, <2>2, UnitsFinite
<1> QED BY <1>1, <1>2, <1>6, <1>7, <1>8 DEF n, rest

-----------------------------------------------------------------------------
(* Pruning.                                                                   *)

(* A pruned entry still adds up, and has only young events. *)
LEMMA Pruning ==
    ASSUME NEW b \in Bucket, Queue(b), NEW t \in Nat, NEW len \in Nat
    PROVE  \E c \in 0..Len(b.events) :
              LET p == prune_expired(b, t, len)
              IN  /\ p \in Bucket /\ Queue(p) /\ p.last_seen_ms = b.last_seen_ms
                  /\ p.events = SubSeq(b.events, c + 1, Len(b.events))
                  /\ p.total = b.total - SumOver(Counts(b.events), 1..c)
                  /\ \A i \in 1..c : b.events[i].ts <= saturating_sub(t, len)
                  /\ \A i \in DOMAIN p.events : p.events[i].ts > saturating_sub(t, len)
<1> DEFINE es == b.events
           cutoff == saturating_sub(t, len)
           expired == {i \in DOMAIN es : \A j \in 1..i : es[j].ts <= cutoff}
           p == prune_expired(b, t, len)
<1>1. es \in Seq(Hit) /\ b.total \in Nat /\ b.total <= Limit /\ b.present = TRUE
  BY DEF Bucket, Queue
<1>2. cutoff \in Nat
  BY DEF saturating_sub
<1>3. PICK c \in 0..Len(es) :
          /\ expired = 1..c /\ Cardinality(expired) = c
          /\ \A i \in 1..c : es[i].ts <= cutoff
          /\ c < Len(es) => es[c + 1].ts > cutoff
  <2> HIDE DEF cutoff
  <2> QED BY <1>1, <1>2, Expired
<1> DEFINE rest == SubSeq(es, c + 1, Len(es))
           gone == SumOver(Counts(es), 1..c)
<1>4. /\ rest \in Seq(Hit) /\ Len(rest) = Len(es) - c /\ DOMAIN rest = 1..(Len(es) - c)
      /\ \A i \in 1..(Len(es) - c) : rest[i] = es[i + c]
      /\ gone \in Nat /\ SumOver(Counts(rest), DOMAIN rest) \in Nat
      /\ SumOver(Counts(es), DOMAIN es) = gone + SumOver(Counts(rest), DOMAIN rest)
  BY <1>1, Dropped
<1>5. p = [b EXCEPT !.events = rest, !.total = saturating_sub(b.total, gone)]
  BY <1>3 DEF prune_expired
<1>6. b.total = SumOver(Counts(es), DOMAIN es)
  BY DEF Queue
<1> HIDE DEF rest, gone, expired
<1>7. saturating_sub(b.total, gone) = SumOver(Counts(rest), DOMAIN rest)
      /\ saturating_sub(b.total, gone) = b.total - gone
      /\ saturating_sub(b.total, gone) <= b.total
  <2> DEFINE left == SumOver(Counts(rest), DOMAIN rest)
  <2>1. b.total = gone + left /\ gone \in Nat /\ left \in Nat
    BY <1>4, <1>6
  <2> HIDE DEF left
  <2>2. saturating_sub(b.total, gone) = left /\ b.total - gone = left /\ left <= b.total
    BY <2>1 DEF saturating_sub
  <2> QED BY <2>2 DEF left
<1>8. /\ p \in Bucket /\ p.events = rest /\ p.last_seen_ms = b.last_seen_ms
      /\ p.total = SumOver(Counts(rest), DOMAIN rest) /\ p.total = b.total - gone /\ p.total <= Limit
  <2> DEFINE left == saturating_sub(b.total, gone)
  <2>1. left \in Nat /\ left <= Limit
    BY <1>1, <1>4, <1>7, LimitConstants
  <2> HIDE DEF left, p
  <2>2. p = [b EXCEPT !.events = rest, !.total = left]
    BY <1>5 DEF left
  <2>3. p \in Bucket /\ p.events = rest /\ p.last_seen_ms = b.last_seen_ms /\ p.total = left
    BY <2>1, <2>2, <1>4 DEF Bucket
  <2> QED BY <2>1, <2>3, <1>7 DEF left
<1>9. /\ Len(es) \in Nat /\ DOMAIN es = 1..Len(es) /\ c \in Nat /\ c <= Len(es)
      /\ \A i \in 1..Len(es) : es[i].ts \in Nat
  BY <1>1, Hits
<1>10. \A i, j \in 1..Len(es) : i < j => es[i].ts < es[j].ts
  BY <1>9 DEF Queue
<1>11. \A i \in 1..Len(es) : es[i].ts <= b.last_seen_ms
  BY <1>9 DEF Queue
<1>12. \A i \in 1..(Len(es) - c) : i + c \in 1..Len(es) /\ i + c >= c + 1 /\ rest[i].ts = es[i + c].ts
  BY <1>4, <1>9
<1>13. ASSUME NEW i \in 1..(Len(es) - c) PROVE rest[i].ts > cutoff
  <2>1. c < Len(es) /\ c + 1 \in 1..Len(es) /\ (i + c = c + 1 \/ c + 1 < i + c)
    BY <1>9
  <2>2. es[c + 1].ts > cutoff /\ es[c + 1].ts <= es[i + c].ts
    BY <2>1, <1>3, <1>9, <1>10, <1>12
  <2>3. es[c + 1].ts \in Nat /\ es[i + c].ts \in Nat
    BY <2>1, <1>9, <1>12
  <2> DEFINE x == es[c + 1].ts
             y == es[i + c].ts
  <2>4. x \in Nat /\ y \in Nat /\ cutoff \in Nat /\ x > cutoff /\ x <= y /\ rest[i].ts = y
    BY <2>2, <2>3, <1>2, <1>12
  <2> HIDE DEF x, y, cutoff
  <2> QED BY <2>4
<1>14. Queue(p)
  <2>1. \A i, j \in DOMAIN rest : i < j => rest[i].ts < rest[j].ts
    <3> SUFFICES ASSUME NEW i \in 1..(Len(es) - c), NEW j \in 1..(Len(es) - c), i < j
                 PROVE  rest[i].ts < rest[j].ts
      BY <1>4
    <3>1. i + c < j + c
      BY <1>9
    <3> QED BY <3>1, <1>10, <1>12
  <2>2. \A i \in DOMAIN rest : rest[i].ts <= b.last_seen_ms
    BY <1>4, <1>11, <1>12
  <2> HIDE DEF p, es
  <2> QED BY <2>1, <2>2, <1>8 DEF Queue
<1>15. \A i \in DOMAIN p.events : p.events[i].ts > cutoff
  <2> HIDE DEF p, es, cutoff
  <2> QED BY <1>4, <1>8, <1>13
<1> HIDE DEF p, cutoff
<1> QED BY <1>3, <1>8, <1>14, <1>15 DEF rest, gone, p, cutoff, es

(* Windows are finite sets of milliseconds, and their sums numbers. *)
LEMMA WithinFinite ==
    ASSUME NEW t \in Nat, NEW len \in Nat
    PROVE  IsFiniteSet(Within(t, len)) /\ \A u \in Within(t, len) : u \in 0..t /\ u > t - len
<1>1. IsFiniteSet(0..t)
  BY FS_Interval
<1>2. Within(t, len) \subseteq 0..t /\ \A u \in Within(t, len) : u \in 0..t /\ u > t - len
  BY DEF Within
<1> QED BY <1>1, <1>2, FS_Subset

LEMMA WindowSum ==
    ASSUME NEW g \in Grants, NEW t \in 0..MaxMs, NEW len \in Nat
    PROVE  SumOver(g, Within(t, len)) \in Nat
<1>1. t \in Nat /\ 0..t \subseteq 0..MaxMs
  BY LimitConstants
<1>2. IsFiniteSet(Within(t, len)) /\ \A u \in Within(t, len) : g[u] \in Nat
  BY <1>1, WithinFinite DEF Grants
<1> QED BY <1>2, UnitsFinite

\* No grants later than the last time the entry was seen: every later window holds no more
\* than the one that ended then.
LEMMA LaterWindow ==
    ASSUME NEW g \in Grants, NEW ls \in 0..MaxMs, NEW t \in 0..MaxMs, ls <= t, NEW len \in Nat,
           \A u \in 0..MaxMs : u > ls => g[u] = 0
    PROVE  SumOver(g, Within(t, len)) <= SumOver(g, Within(ls, len))
<1>0. MaxMs \in Nat /\ ls \in Nat /\ t \in Nat /\ 0..ls \subseteq 0..MaxMs /\ 0..t \subseteq 0..MaxMs
  BY LimitConstants
<1>1. \A u \in 0..MaxMs : g[u] \in Nat
  BY DEF Grants
<1>2. IsFiniteSet(Within(t, len)) /\ IsFiniteSet(Within(ls, len))
  BY <1>0, WithinFinite
<1>3. (\A u \in Within(t, len) : g[u] \in Nat) /\ (\A u \in Within(ls, len) : g[u] \in Nat)
  BY <1>0, <1>1 DEF Within
<1>4. \A u \in Within(t, len) : g[u] # 0 => u \in Within(ls, len) /\ g[u] <= g[u]
  <2> SUFFICES ASSUME NEW u \in Within(t, len), g[u] # 0 PROVE u \in Within(ls, len) /\ g[u] <= g[u]
    OBVIOUS
  <2>1. u \in 0..t /\ u > t - len /\ u \in 0..MaxMs
    BY <1>0 DEF Within
  <2>2. ~(u > ls)
    BY <2>1
  <2>3. u \in 0..ls /\ u > ls - len
    BY <2>1, <2>2, <1>0
  <2> QED BY <2>1, <2>3, <1>1 DEF Within
<1> QED BY <1>2, <1>3, <1>4, SumMonotone

\* What the entry of a key is after check() pruned and stamped it.
LEMMA PrunedGood ==
    ASSUME NEW b, NEW g, BucketInv(b, g), NEW t \in 0..MaxMs, b.last_seen_ms <= t,
           NEW w \in Windows, w * MS <= t
    PROVE  LET p == [prune_expired(b, t, w * MS) EXCEPT !.last_seen_ms = t]
           IN  /\ BucketInv(p, g) /\ p.last_seen_ms = t
               /\ \A i \in DOMAIN p.events : p.events[i].ts > t - w * MS
<1> DEFINE len == w * MS
           q == prune_expired(b, t, len)
           p == [q EXCEPT !.last_seen_ms = t]
           es == b.events
<1>0. /\ MaxMs \in Nat /\ t \in Nat /\ len \in Nat /\ len > 0 /\ len <= t
      /\ \A v \in Windows : Shortest(v) => v * MS \in Nat /\ v * MS <= len
      /\ saturating_sub(t, len) = t - len
  <2>1. /\ MaxMs \in Nat /\ t \in Nat /\ len \in Nat /\ len > 0 /\ len <= t
        /\ \A v \in Windows : Shortest(v) => v * MS \in Nat /\ v * MS <= len
    BY LimitConstants, Lengths
  <2> HIDE DEF len
  <2> QED BY <2>1 DEF saturating_sub
<1>1. b \in Bucket /\ g \in Grants /\ Queue(b) /\ Ledger(b, g)
  BY DEF BucketInv
<1>2. b.last_seen_ms \in 0..MaxMs /\ b.last_seen_ms \in Nat /\ es \in Seq(Hit)
  BY <1>0, <1>1 DEF Bucket
<1> HIDE DEF len
<1>3. PICK c \in 0..Len(es) :
          /\ q \in Bucket /\ Queue(q) /\ q.last_seen_ms = b.last_seen_ms
          /\ q.events = SubSeq(es, c + 1, Len(es))
          /\ q.total = b.total - SumOver(Counts(es), 1..c)
          /\ \A i \in 1..c : es[i].ts <= saturating_sub(t, len)
          /\ \A i \in DOMAIN q.events : q.events[i].ts > saturating_sub(t, len)
  BY <1>0, <1>1, Pruning
<1>4. /\ DOMAIN q.events = 1..(Len(es) - c) /\ Len(es) \in Nat /\ DOMAIN es = 1..Len(es)
      /\ \A i \in 1..(Len(es) - c) : q.events[i] = es[i + c] /\ i + c \in 1..Len(es)
  <2>1. Len(es) \in Nat /\ DOMAIN es = 1..Len(es) /\ c \in Nat /\ c <= Len(es)
    BY <1>2, Hits
  <2>2. /\ DOMAIN q.events = 1..(Len(es) - c)
        /\ \A i \in 1..(Len(es) - c) : q.events[i] = es[i + c]
    BY <1>2, <1>3, Dropped
  <2>3. \A i \in 1..(Len(es) - c) : i + c \in 1..Len(es)
    BY <2>1
  <2> QED BY <2>1, <2>2, <2>3
<1> HIDE DEF q, es
<1>5. /\ p \in Bucket /\ p.events = q.events /\ p.total = q.total /\ p.last_seen_ms = t
  BY <1>3 DEF Bucket
<1>6. Queue(p)
  <2>1. \A i \in DOMAIN q.events : q.events[i].ts <= t
    <3> SUFFICES ASSUME NEW i \in DOMAIN q.events PROVE q.events[i].ts <= t
      OBVIOUS
    <3>1. q.events[i].ts <= b.last_seen_ms /\ q.events[i].ts \in Nat
      <4>1. q.events \in Seq(Hit)
        BY <1>3 DEF Bucket
      <4> QED BY <1>3, <4>1, Hits DEF Queue
    <3> QED BY <3>1, <1>0, <1>2
  <2> HIDE DEF p
  <2> QED BY <1>3, <1>5, <2>1 DEF Queue
<1>7. \A i \in DOMAIN q.events : g[q.events[i].ts] = q.events[i].count
  <2>1. \A j \in 1..Len(es) : g[es[j].ts] = es[j].count
    BY <1>1, <1>4 DEF Ledger, es
  <2> QED BY <2>1, <1>4
<1>8. \A u \in 0..MaxMs : u > b.last_seen_ms => g[u] = 0
  BY <1>1 DEF Ledger
<1>9. \A u \in 0..MaxMs : u > t => g[u] = 0
  BY <1>0, <1>2, <1>8
<1>10. ASSUME NEW v \in Windows, Shortest(v), NEW u \in Within(t, v * MS), g[u] # 0
       PROVE  \E i \in DOMAIN q.events : q.events[i].ts = u
  <2>1. v * MS \in Nat /\ v * MS <= len
    BY <1>0, <1>10
  <2>2. u \in 0..t /\ u > t - v * MS /\ u \in 0..MaxMs /\ u \in Nat
    BY <1>0 DEF Within
  <2>3. ~(u > b.last_seen_ms)
    BY <1>8, <1>10, <2>2
  <2>4. u \in Within(b.last_seen_ms, v * MS)
    <3>1. u \in 0..b.last_seen_ms /\ u > b.last_seen_ms - v * MS
      BY <2>1, <2>2, <2>3, <1>0, <1>2
    <3> QED BY <3>1 DEF Within
  <2>5. PICK j \in DOMAIN es : es[j].ts = u
    BY <1>1, <1>10, <2>4 DEF Ledger, es
  <2>6. u > saturating_sub(t, len)
    BY <2>1, <2>2, <1>0
  <2>7. j > c /\ j \in 1..Len(es)
    <3>1. j \in 1..Len(es) /\ es[j].ts = u
      BY <2>5, <1>4
    <3>2. ~(u <= saturating_sub(t, len))
      BY <2>6, <2>2, <1>0
    <3>3. ~(j \in 1..c)
      BY <3>1, <3>2, <1>3
    <3> QED BY <3>1, <3>3, <1>4
  <2>8. j - c \in 1..(Len(es) - c) /\ (j - c) + c = j
    BY <2>7, <1>4
  <2> QED BY <2>5, <2>8, <1>4
<1>11. ASSUME NEW v \in Windows, Shortest(v), NEW u \in 0..t
       PROVE  SumOver(g, Within(u, v * MS)) <= Limit
  <2>1. v * MS \in Nat /\ b.last_seen_ms \in Nat /\ u \in 0..MaxMs /\ b.last_seen_ms \in 0..b.last_seen_ms
    BY <1>0, <1>2, <1>11
  <2>2. \A x \in 0..b.last_seen_ms : SumOver(g, Within(x, v * MS)) <= Limit
    BY <1>1, <1>11 DEF Ledger
  <2>3. CASE u <= b.last_seen_ms
    BY <2>1, <2>2, <2>3
  <2>4. CASE b.last_seen_ms <= u
    <3>1. SumOver(g, Within(u, v * MS)) <= SumOver(g, Within(b.last_seen_ms, v * MS))
      BY <1>1, <1>2, <1>8, <2>1, <2>4, LaterWindow
    <3>2. SumOver(g, Within(u, v * MS)) \in Nat /\ SumOver(g, Within(b.last_seen_ms, v * MS)) \in Nat
      <4>1. ASSUME NEW x \in 0..MaxMs PROVE SumOver(g, Within(x, v * MS)) \in Nat
        BY <1>0, <1>1, <2>1, WindowSum
      <4> QED BY <4>1, <2>1, <1>2
    <3> QED BY <2>1, <2>2, <3>1, <3>2, LimitConstants
  <2> QED BY <2>1, <2>3, <2>4
<1>12. Ledger(p, g)
  <2> HIDE DEF p
  <2> QED BY <1>5, <1>7, <1>9, <1>10, <1>11 DEF Ledger
<1>13. \A i \in DOMAIN p.events : p.events[i].ts > t - len
  <2> HIDE DEF p
  <2> QED BY <1>0, <1>3, <1>5
<1> HIDE DEF p
<1> QED BY <1>1, <1>5, <1>6, <1>12, <1>13 DEF BucketInv, p, q, len

\* An entry check() has just made.
LEMMA NewGood == BucketInv(NewWindow, NoGrants) /\ NewWindow.last_seen_ms = 0
<1>1. MaxMs \in Nat /\ Limit \in Nat /\ 0 \in 0..MaxMs
  BY LimitConstants
<1>2. NewWindow \in Bucket /\ NoGrants \in Grants
  BY <1>1 DEF NewWindow, NoGrants, Bucket, Grants
<1>3. Queue(NewWindow)
  <2>1. DOMAIN <<>> = {} /\ SumOver(Counts(<<>>), {}) = 0
    BY SumNothing
  <2> QED BY <1>1, <2>1 DEF Queue, NewWindow
<1>4. Ledger(NewWindow, NoGrants)
  <2>1. \A u \in 0..MaxMs : NoGrants[u] = 0
    BY DEF NoGrants
  <2>2. ASSUME NEW v \in Windows, NEW t \in 0..0 PROVE SumOver(NoGrants, Within(t, v * MS)) <= Limit
    <3>1. t = 0 /\ t \in Nat /\ v * MS \in Nat /\ t \in 0..MaxMs
      BY <1>1, Lengths
    <3>2. IsFiniteSet(Within(t, v * MS)) /\ \A u \in Within(t, v * MS) : NoGrants[u] = 0
      BY <3>1, <2>1, WithinFinite, <1>1 DEF Within
    <3>3. SumOver(NoGrants, Within(t, v * MS)) <= SumOver(NoGrants, {})
      <4> DEFINE S == Within(t, v * MS)
      <4>1. IsFiniteSet(S) /\ \A u \in S : NoGrants[u] = 0
        BY <3>2
      <4> HIDE DEF S
      <4>2. IsFiniteSet({})
        BY FS_EmptySet
      <4>3. SumOver(NoGrants, S) <= SumOver(NoGrants, {})
        BY <4>1, <4>2, SumMonotone
      <4> QED BY <4>3 DEF S
    <3> QED BY <3>1, <3>3, SumNothing, WindowSum, <1>1, <1>2
  <2> QED BY <1>1, <2>1, <2>2 DEF Ledger, NewWindow, Within
<1> QED BY <1>2, <1>3, <1>4 DEF BucketInv, NewWindow

-----------------------------------------------------------------------------
(* A hit.                                                                     *)

(* A sum depends only on the values that are summed. *)
LEMMA SumSame ==
    ASSUME NEW S, NEW f, NEW g, \A x \in S : f[x] = g[x]
    PROVE  SumOver(f, S) = SumOver(g, S)
<1>1. Units(f, S) = Units(g, S)
  BY DEF Units
<1> QED BY <1>1 DEF SumOver

\* Grants that are all in the queue are no more than its total.
LEMMA QueueCovers ==
    ASSUME NEW es \in Seq(Hit), NEW g \in Grants, NEW S \in SUBSET (0..MaxMs),
           \A u \in S : g[u] # 0 => \E i \in DOMAIN es : es[i].ts = u /\ es[i].count = g[u]
    PROVE  SumOver(g, S) <= SumOver(Counts(es), DOMAIN es)
<1> DEFINE f == Counts(es)
           At(u) == CHOOSE i \in DOMAIN es : es[i].ts = u /\ es[i].count = g[u]
           h == [p \in Units(g, S) |-> <<At(p[1]), p[2]>>]
<1>0. ASSUME NEW p PROVE p \in Units(g, S) <=> \E u \in S : \E c \in 1..g[u] : p = <<u, c>>
  BY DEF Units
<1>1. ASSUME NEW p PROVE p \in Units(f, DOMAIN es) <=> \E i \in DOMAIN es : \E c \in 1..f[i] : p = <<i, c>>
  BY DEF Units
<1>2. ASSUME NEW u \in S, NEW c \in 1..g[u]
      PROVE  At(u) \in DOMAIN es /\ es[At(u)].ts = u /\ f[At(u)] = g[u]
  <2>1. g[u] # 0
    BY DEF Grants
  <2>2. \E i \in DOMAIN es : es[i].ts = u /\ es[i].count = g[u]
    BY <2>1
  <2>3. At(u) \in DOMAIN es /\ es[At(u)].ts = u /\ es[At(u)].count = g[u]
    BY <2>2
  <2> HIDE DEF At
  <2> QED BY <2>3 DEF Counts
<1>3. ASSUME NEW p \in Units(g, S)
      PROVE  /\ p = <<p[1], p[2]>> /\ p[1] \in S /\ p[2] \in 1..g[p[1]]
             /\ <<At(p[1]), p[2]>> \in Units(f, DOMAIN es) /\ es[At(p[1])].ts = p[1]
  <2>1. PICK u \in S : \E c \in 1..g[u] : p = <<u, c>>
    BY <1>0
  <2>2. PICK c \in 1..g[u] : p = <<u, c>>
    BY <2>1
  <2>3. At(u) \in DOMAIN es /\ es[At(u)].ts = u /\ f[At(u)] = g[u]
    BY <1>2
  <2> HIDE DEF At, f
  <2> QED BY <2>2, <2>3, <1>1
<1>4. h \in Injection(Units(g, S), Units(f, DOMAIN es))
  <2>1. h \in [Units(g, S) -> Units(f, DOMAIN es)]
    BY <1>3
  <2>2. ASSUME NEW p \in Units(g, S), NEW q \in Units(g, S), h[p] = h[q] PROVE p = q
    <3>1. <<At(p[1]), p[2]>> = <<At(q[1]), q[2]>>
      BY <2>2
    <3> HIDE DEF At, h
    <3>2. At(p[1]) = At(q[1]) /\ p[2] = q[2]
      BY <3>1
    <3> QED BY <3>2, <1>3
  <2> HIDE DEF h, f
  <2> QED BY <2>1, <2>2 DEF Injection, IsInjective
<1>5. IsFiniteSet(Units(f, DOMAIN es))
  <2>1. IsFiniteSet(DOMAIN es) /\ \A i \in DOMAIN es : f[i] \in Nat
    BY Hits, UpTo DEF Counts
  <2> HIDE DEF f
  <2> QED BY <2>1, UnitsFinite
<1> HIDE DEF h
<1> QED BY <1>4, <1>5, FS_Injection DEF SumOver, f

\* The queue with a hit of the same millisecond as its last, and with a later one.
AddedToLast(es, n, cost) == [es EXCEPT ![n].count = @ + cost]

LEMMA Merged ==
    ASSUME NEW es \in Seq(Hit), NEW n \in Nat, n = Len(es), n > 0, NEW cost \in Nat
    PROVE  LET es2 == AddedToLast(es, n, cost)
           IN  /\ es2 \in Seq(Hit) /\ Len(es2) = n /\ DOMAIN es2 = 1..n
               /\ \A i \in 1..n : es2[i].ts = es[i].ts
               /\ \A i \in 1..n : i # n => es2[i].count = es[i].count
               /\ es2[n].count = es[n].count + cost
               /\ SumOver(Counts(es), DOMAIN es) \in Nat
               /\ es[n].count <= SumOver(Counts(es), DOMAIN es)
               /\ SumOver(Counts(es2), DOMAIN es2) = SumOver(Counts(es), DOMAIN es) + cost
<1> DEFINE es2 == AddedToLast(es, n, cost)
           h2 == [es[n] EXCEPT !.count = @ + cost]
           old == 1..(n - 1)
<1>1. DOMAIN es = 1..n /\ n \in 1..n /\ \A i \in 1..n : es[i] \in Hit /\ es[i].count \in Nat
  BY Hits
<1>2. h2 \in Hit /\ h2.ts = es[n].ts /\ h2.count = es[n].count + cost
  <2>1. es[n] \in Hit
    BY <1>1
  <2>2. ASSUME NEW h \in Hit
        PROVE  LET g == [h EXCEPT !.count = @ + cost] IN g \in Hit /\ g.ts = h.ts /\ g.count = h.count + cost
    <3>1. h.count \in Nat /\ h.count # 0 /\ h.count + cost \in Nat \ {0}
      BY DEF Hit
    <3> QED BY <3>1 DEF Hit
  <2> QED BY <2>1, <2>2
<1>3. es2 = [es EXCEPT ![n] = h2]
  BY DEF AddedToLast
<1> HIDE DEF h2, es2
<1>4. es2 \in Seq(Hit) /\ Len(es2) = n /\ DOMAIN es2 = 1..n /\ \A i \in 1..n : es2[i] = IF i = n THEN h2 ELSE es[i]
  BY <1>1, <1>2, <1>3, ExceptSeq
<1>5. /\ \A i \in 1..n : es2[i].ts = es[i].ts
      /\ \A i \in 1..n : i # n => es2[i].count = es[i].count
      /\ es2[n].count = es[n].count + cost
  BY <1>1, <1>2, <1>4
<1>6. IsFiniteSet(old) /\ IsFiniteSet({n}) /\ old \cap {n} = {} /\ old \cup {n} = 1..n /\ IsFiniteSet(1..n)
  <2>1. IsFiniteSet(1..(n - 1)) /\ IsFiniteSet(1..n)
    BY FS_Interval
  <2>2. old \cap {n} = {} /\ old \cup {n} = 1..n
    OBVIOUS
  <2> QED BY <2>1, <2>2, Singleton
<1> HIDE DEF old
<1>7. ASSUME NEW q \in Seq(Hit), DOMAIN q = 1..n
      PROVE  /\ SumOver(Counts(q), 1..n) = SumOver(Counts(q), old) + q[n].count
             /\ SumOver(Counts(q), old) \in Nat /\ q[n].count \in Nat
  <2>1. \A i \in 1..n : Counts(q)[i] \in Nat /\ Counts(q)[i] = q[i].count
    BY <1>7, Hits DEF Counts
  <2>2. \A i \in old \cup {n} : Counts(q)[i] \in Nat
    BY <2>1, <1>6
  <2>3. SumOver(Counts(q), old \cup {n}) = SumOver(Counts(q), old) + SumOver(Counts(q), {n})
    BY <1>6, <2>2, SumDisjoint
  <2>4. SumOver(Counts(q), {n}) = q[n].count /\ q[n].count \in Nat
    BY <2>1, <1>1, SumOne
  <2>5. SumOver(Counts(q), old) \in Nat
    BY <1>6, <2>2, UnitsFinite
  <2> QED BY <2>3, <2>4, <2>5, <1>6
<1>8. SumOver(Counts(es2), old) = SumOver(Counts(es), old)
  <2>1. \A i \in old : i \in 1..n /\ i # n
    BY <1>6
  <2>2. \A i \in old : Counts(es2)[i] = Counts(es)[i]
    BY <2>1, <1>1, <1>4, <1>5 DEF Counts
  <2> QED BY <2>2, SumSame
<1>9. SumOver(Counts(es), DOMAIN es) = SumOver(Counts(es), old) + es[n].count
  BY <1>1, <1>7
<1>10. SumOver(Counts(es2), DOMAIN es2) = SumOver(Counts(es), old) + es2[n].count
  BY <1>4, <1>7, <1>8
<1>11. SumOver(Counts(es), old) \in Nat /\ es[n].count \in Nat
  BY <1>1, <1>7
<1>12. /\ SumOver(Counts(es), DOMAIN es) \in Nat
       /\ es[n].count <= SumOver(Counts(es), DOMAIN es)
       /\ SumOver(Counts(es2), DOMAIN es2) = SumOver(Counts(es), DOMAIN es) + cost
  BY <1>5, <1>9, <1>10, <1>11
<1> QED BY <1>4, <1>5, <1>12 DEF es2

(* The queue with a later hit. *)
LEMMA Added ==
    ASSUME NEW es \in Seq(Hit), NEW h \in Hit
    PROVE  LET es2 == Append(es, h)
               n == Len(es)
           IN  /\ n \in Nat /\ es2 \in Seq(Hit) /\ Len(es2) = n + 1 /\ DOMAIN es2 = 1..(n + 1)
               /\ \A i \in 1..n : es2[i] = es[i]
               /\ es2[n + 1] = h
               /\ SumOver(Counts(es), DOMAIN es) \in Nat
               /\ SumOver(Counts(es2), DOMAIN es2) = SumOver(Counts(es), DOMAIN es) + h.count
<1> DEFINE es2 == Append(es, h)
           n == Len(es)
<1>1. n \in Nat /\ DOMAIN es = 1..n /\ (\A i \in 1..n : es[i].count \in Nat) /\ h.count \in Nat
  BY Hits DEF Hit
<1>2. /\ es2 \in Seq(Hit) /\ Len(es2) = n + 1 /\ DOMAIN es2 = 1..(n + 1)
      /\ \A i \in 1..n : es2[i] = es[i]
      /\ es2[n + 1] = h
  BY <1>1, AppendProperties, LenProperties
<1> HIDE DEF es2, n
<1>3. IsFiniteSet(1..n) /\ IsFiniteSet({n + 1}) /\ (1..n) \cap {n + 1} = {} /\ (1..n) \cup {n + 1} = 1..(n + 1)
  <2>1. (1..n) \cap {n + 1} = {} /\ (1..n) \cup {n + 1} = 1..(n + 1)
    BY <1>1
  <2> QED BY <1>1, <2>1, UpTo, Singleton
<1>4. \A i \in 1..(n + 1) : Counts(es2)[i] \in Nat /\ Counts(es2)[i] = es2[i].count
  BY <1>2, Hits DEF Counts
<1>5. SumOver(Counts(es2), (1..n) \cup {n + 1}) = SumOver(Counts(es2), 1..n) + SumOver(Counts(es2), {n + 1})
  BY <1>3, <1>4, SumDisjoint
<1>6. SumOver(Counts(es2), {n + 1}) = h.count
  <2>1. n + 1 \in 1..(n + 1)
    BY <1>1
  <2>2. Counts(es2)[n + 1] \in Nat /\ Counts(es2)[n + 1] = h.count
    BY <2>1, <1>2, <1>4
  <2> QED BY <2>2, SumOne
<1>7. SumOver(Counts(es2), 1..n) = SumOver(Counts(es), 1..n)
  <2>1. \A i \in 1..n : Counts(es2)[i] = Counts(es)[i]
    BY <1>1, <1>2 DEF Counts
  <2> QED BY <2>1, SumSame
<1>8. SumOver(Counts(es), 1..n) \in Nat
  <2>1. \A i \in 1..n : Counts(es)[i] \in Nat
    BY <1>1 DEF Counts
  <2> QED BY <2>1, <1>3, UnitsFinite
<1> QED BY <1>1, <1>2, <1>3, <1>5, <1>6, <1>7, <1>8 DEF es2, n

\* An entry after a hit that fits, now that it was seen in this millisecond.
LEMMA PushGood ==
    ASSUME NEW b, NEW g, BucketInv(b, g), NEW t \in 0..MaxMs, b.last_seen_ms = t,
           NEW w \in Windows, NEW cost \in Costs, Fits(b, cost)
    PROVE  LET p == push_hit(b, t, cost)
           IN  BucketInv(p, [g EXCEPT ![t] = @ + cost]) /\ p.last_seen_ms = t
<1> DEFINE es == b.events
           n == Len(es)
           p == push_hit(b, t, cost)
           g2 == [g EXCEPT ![t] = @ + cost]
<1>1. /\ b \in Bucket /\ g \in Grants /\ Queue(b) /\ Ledger(b, g) /\ es \in Seq(Hit)
      /\ b.total \in Nat
  BY DEF BucketInv, Bucket
<1>2. /\ MaxMs \in Nat /\ t \in Nat /\ cost \in Nat /\ cost > 0 /\ Limit \in Nat /\ U32_MAX \in Nat
      /\ Limit < U32_MAX
  BY LimitConstants
<1>3. /\ n \in Nat /\ DOMAIN es = 1..n
      /\ \A i \in 1..n : es[i].ts \in 0..MaxMs /\ es[i].ts \in Nat /\ es[i].count \in Nat /\ es[i].count > 0
  BY <1>1, Hits
<1>4. b.total + cost <= Limit /\ saturating_add(b.total, cost) = b.total + cost
  BY <1>1, <1>2 DEF Fits, saturating_add
<1>5. /\ b.total = SumOver(Counts(es), DOMAIN es)
      /\ \A i, j \in 1..n : i < j => es[i].ts < es[j].ts
      /\ \A i \in 1..n : es[i].ts <= t
  BY <1>1, <1>3 DEF Queue
<1>6. /\ \A i \in 1..n : g[es[i].ts] = es[i].count
      /\ \A u \in 0..MaxMs : u > t => g[u] = 0
      /\ \A u \in 0..MaxMs : g[u] \in Nat
  BY <1>1, <1>3 DEF Ledger, Grants
<1>7. /\ g2 \in Grants /\ g2[t] = g[t] + cost
      /\ \A u \in 0..MaxMs : u # t => g2[u] = g[u]
  BY <1>1, <1>2, <1>6 DEF Grants
<1>8. \A v \in Windows : Shortest(v) =>
          v * MS \in Nat /\ v * MS > 0 /\ \A u \in Within(t, v * MS) :
              g[u] # 0 => \E i \in 1..n : es[i].ts = u
  BY <1>1, <1>3, Lengths DEF Ledger
\* What the queue has become.
<1>9. \E es2 \in Seq(Hit), last \in Nat :
          /\ p = [b EXCEPT !.events = es2, !.total = b.total + cost]
          /\ DOMAIN es2 = 1..last /\ last >= n /\ last > 0
          /\ es2[last].ts = t /\ es2[last].count = g[t] + cost
          /\ \A i \in 1..n : es2[i].ts = es[i].ts /\ (i # last => es2[i].count = es[i].count)
          /\ \A i \in 1..last : i # last => i \in 1..n /\ es2[i].ts < t
          /\ SumOver(Counts(es2), DOMAIN es2) = b.total + cost
  <2>1. CASE n > 0 /\ es[n].ts = t
    <3> DEFINE es2 == AddedToLast(es, n, cost)
    <3>1. /\ es2 \in Seq(Hit) /\ Len(es2) = n /\ DOMAIN es2 = 1..n
          /\ \A i \in 1..n : es2[i].ts = es[i].ts
          /\ \A i \in 1..n : i # n => es2[i].count = es[i].count
          /\ es2[n].count = es[n].count + cost
          /\ es[n].count <= SumOver(Counts(es), DOMAIN es)
          /\ SumOver(Counts(es2), DOMAIN es2) = SumOver(Counts(es), DOMAIN es) + cost
      <4>1. es \in Seq(Hit) /\ n \in Nat /\ n = Len(es) /\ n > 0 /\ cost \in Nat
        BY <1>1, <1>2, <1>3, <2>1
      <4> HIDE DEF es, n
      <4> QED BY <4>1, Merged
    <3>2. n \in 1..n /\ es[n].count \in Nat /\ es[n].count <= b.total
      BY <1>3, <1>5, <2>1, <3>1
    <3>3. saturating_add(es[n].count, cost) = es[n].count + cost
      BY <3>2, <1>1, <1>2, <1>4 DEF saturating_add
    <3>4. p = [b EXCEPT !.events = es2, !.total = b.total + cost]
      BY <1>4, <2>1, <3>3 DEF push_hit, AddedToLast
    <3>5. g[t] = es[n].count
      BY <1>6, <2>1, <3>2
    <3>6. \A i \in 1..n : i # n => es2[i].ts < t
      BY <1>3, <1>5, <2>1, <3>1, <3>2
    <3> HIDE DEF es2, p
    <3>7. /\ es2[n].ts = t /\ es2[n].count = g[t] + cost /\ n >= n
          /\ SumOver(Counts(es2), DOMAIN es2) = b.total + cost
      BY <1>3, <1>5, <2>1, <3>1, <3>2, <3>5
    <3> QED BY <1>3, <2>1, <3>1, <3>4, <3>6, <3>7
  <2>2. CASE ~(n > 0 /\ es[n].ts = t)
    <3> DEFINE h == [ts |-> t, count |-> cost]
               es2 == Append(es, h)
    <3>1. h \in Hit /\ h.ts = t /\ h.count = cost
      BY <1>2 DEF Hit
    <3>2. \A i \in 1..n : es[i].ts < t
      <4> SUFFICES ASSUME NEW i \in 1..n PROVE es[i].ts < t
        OBVIOUS
      <4>1. n \in 1..n /\ n > 0 /\ (i = n \/ i < n)
        BY <1>3
      <4>2. es[n].ts < t
        BY <1>2, <1>3, <1>5, <2>2, <4>1
      <4>3. CASE i = n
        BY <4>2, <4>3
      <4>4. CASE i < n
        <5> DEFINE x == es[i].ts
                   y == es[n].ts
        <5>1. x \in Nat /\ y \in Nat /\ x < y /\ y < t
          BY <1>3, <1>5, <4>1, <4>2, <4>4
        <5> HIDE DEF x, y
        <5>2. x < t
          BY <5>1, <1>2
        <5> QED BY <5>2 DEF x
      <4> QED BY <4>1, <4>3, <4>4
    <3>3. g[t] = 0
      <4>1. PICK v \in Windows : Shortest(v)
        BY ShortestExists
      <4>2. t \in Within(t, v * MS)
        BY <1>2, <1>8, <4>1 DEF Within
      <4>3. \A i \in 1..n : es[i].ts # t
        BY <1>3, <1>2, <3>2
      <4> QED BY <1>8, <4>1, <4>2, <4>3
    <3> HIDE DEF h
    <3>4. /\ es2 \in Seq(Hit) /\ Len(es2) = n + 1 /\ DOMAIN es2 = 1..(n + 1)
          /\ \A i \in 1..n : es2[i] = es[i]
          /\ es2[n + 1] = h
          /\ SumOver(Counts(es2), DOMAIN es2) = SumOver(Counts(es), DOMAIN es) + h.count
      BY <1>1, <3>1, Added
    <3>5. p = [b EXCEPT !.events = es2, !.total = b.total + cost]
      BY <1>4, <2>2 DEF push_hit, h
    <3> HIDE DEF es2, p
    <3>6. /\ es2[n + 1].ts = t /\ es2[n + 1].count = g[t] + cost /\ n + 1 >= n /\ n + 1 > 0 /\ n + 1 \in Nat
          /\ SumOver(Counts(es2), DOMAIN es2) = b.total + cost
          /\ \A i \in 1..(n + 1) : i # n + 1 => i \in 1..n
      BY <1>2, <1>3, <1>5, <3>1, <3>3, <3>4
    <3>7. \A i \in 1..(n + 1) : i # n + 1 => i \in 1..n /\ es2[i].ts < t
      BY <3>2, <3>4, <3>6
    <3> QED BY <3>4, <3>5, <3>6, <3>7
  <2> QED BY <2>1, <2>2
<1>10. PICK es2 \in Seq(Hit), last \in Nat :
          /\ p = [b EXCEPT !.events = es2, !.total = b.total + cost]
          /\ DOMAIN es2 = 1..last /\ last >= n /\ last > 0
          /\ es2[last].ts = t /\ es2[last].count = g[t] + cost
          /\ \A i \in 1..n : es2[i].ts = es[i].ts /\ (i # last => es2[i].count = es[i].count)
          /\ \A i \in 1..last : i # last => i \in 1..n /\ es2[i].ts < t
          /\ SumOver(Counts(es2), DOMAIN es2) = b.total + cost
  BY <1>9
<1> HIDE DEF p, g2
<1>11. p \in Bucket /\ p.events = es2 /\ p.total = b.total + cost /\ p.last_seen_ms = t
  <2>1. b.total + cost \in Nat
    BY <1>1, <1>2
  <2> QED BY <1>1, <1>10, <2>1 DEF Bucket
<1>12. Queue(p)
  <2>1. \A i, j \in 1..last : i < j => es2[i].ts < es2[j].ts
    <3> SUFFICES ASSUME NEW i \in 1..last, NEW j \in 1..last, i < j PROVE es2[i].ts < es2[j].ts
      OBVIOUS
    <3>1. i # last
      BY <1>10
    <3>2. CASE j = last
      BY <1>10, <3>1, <3>2
    <3>3. CASE j # last
      BY <1>5, <1>10, <3>1, <3>3
    <3> QED BY <3>2, <3>3
  <2>2. \A i \in 1..last : es2[i].ts <= t
    <3> SUFFICES ASSUME NEW i \in 1..last PROVE es2[i].ts <= t
      OBVIOUS
    <3>1. es2[i].ts \in Nat
      BY <1>10, Hits
    <3> QED BY <1>2, <1>10, <3>1
  <2> QED BY <1>4, <1>10, <1>11, <2>1, <2>2 DEF Queue
<1>13. \A i \in 1..last : g2[es2[i].ts] = es2[i].count
  <2> SUFFICES ASSUME NEW i \in 1..last PROVE g2[es2[i].ts] = es2[i].count
    OBVIOUS
  <2>1. CASE i = last
    BY <1>7, <1>10, <2>1
  <2>2. CASE i # last
    <3>1. i \in 1..n /\ es2[i].ts = es[i].ts /\ es2[i].count = es[i].count /\ es2[i].ts < t
      BY <1>10, <2>2
    <3>2. es[i].ts \in 0..MaxMs /\ es[i].ts # t
      BY <1>2, <1>3, <3>1
    <3> QED BY <1>6, <1>7, <3>1, <3>2
  <2> QED BY <2>1, <2>2
<1>14. \A u \in 0..MaxMs : u > t => g2[u] = 0
  BY <1>2, <1>6, <1>7
<1>15. ASSUME NEW v \in Windows, Shortest(v), NEW u \in Within(t, v * MS), g2[u] # 0
       PROVE  \E i \in 1..last : es2[i].ts = u
  <2>1. CASE u = t
    <3>1. last \in 1..last
      BY <1>10
    <3> QED BY <1>10, <2>1, <3>1
  <2>2. CASE u # t
    <3>1. u \in 0..MaxMs
      BY <1>2 DEF Within
    <3>2. PICK i \in 1..n : es[i].ts = u
      BY <1>7, <1>8, <1>15, <2>2, <3>1
    <3>3. i \in 1..last
      BY <1>3, <1>10
    <3> QED BY <1>10, <3>2, <3>3
  <2> QED BY <2>1, <2>2
<1>16. ASSUME NEW v \in Windows, Shortest(v), NEW u \in 0..t
       PROVE  SumOver(g2, Within(u, v * MS)) <= Limit
  <2>1. CASE u # t
    <3>1. \A x \in Within(u, v * MS) : g2[x] = g[x]
      <4> SUFFICES ASSUME NEW x \in Within(u, v * MS) PROVE g2[x] = g[x]
        OBVIOUS
      <4>1. x \in 0..MaxMs /\ x # t
        BY <1>2, <2>1 DEF Within
      <4> QED BY <1>7, <4>1
    <3>2. SumOver(g2, Within(u, v * MS)) = SumOver(g, Within(u, v * MS))
      BY <3>1, SumSame
    <3>3. SumOver(g, Within(u, v * MS)) <= Limit
      BY <1>1, <1>16 DEF Ledger
    <3> QED BY <3>2, <3>3
  <2>2. CASE u = t
    <3> DEFINE S == Within(t, v * MS)
    <3>1. S \in SUBSET (0..MaxMs)
      BY <1>2 DEF Within
    <3>2. \A x \in S : g2[x] # 0 => \E i \in DOMAIN es2 : es2[i].ts = x /\ es2[i].count = g2[x]
      BY <1>10, <1>13, <1>15, <1>16
    <3> HIDE DEF S
    <3>3. SumOver(g2, S) <= SumOver(Counts(es2), DOMAIN es2)
      BY <1>7, <3>1, <3>2, QueueCovers
    <3>4. SumOver(g2, S) \in Nat
      <4>1. v * MS \in Nat
        BY <1>8, <1>16
      <4> QED BY <1>7, <4>1, WindowSum DEF S
    <3> QED BY <1>1, <1>2, <1>4, <1>10, <2>2, <3>3, <3>4 DEF S
  <2> QED BY <2>1, <2>2
<1>17. Ledger(p, g2)
  BY <1>10, <1>11, <1>13, <1>14, <1>15, <1>16 DEF Ledger
<1> QED BY <1>7, <1>11, <1>12, <1>17 DEF BucketInv, p, g2

-----------------------------------------------------------------------------
(* The table.                                                                 *)

(* A key has an entry, or the one value that stands for none. *)
LEMMA Present ==
    ASSUME NEW m \in [StorageKeys -> {NoWindow} \cup Bucket], NEW k \in StorageKeys
    PROVE  /\ m[k].present => m[k] \in Bucket
           /\ ~m[k].present => m[k] = NoWindow
           /\ ~NoWindow.present
<1>1. ~NoWindow.present /\ \A b \in Bucket : b.present
  BY DEF NoWindow, Bucket
<1>2. m[k] = NoWindow \/ m[k] \in Bucket
  OBVIOUS
<1> QED BY <1>1, <1>2

(* An eviction removes entries and changes none, and ends within the limit. *)
LEMMA Evicting ==
    ASSUME NEW m \in [StorageKeys -> {NoWindow} \cup Bucket], NEW t, NEW m2, maybe_evict(m, t, m2)
    PROVE  /\ m2 \in [StorageKeys -> {NoWindow} \cup Bucket]
           /\ \A k \in StorageKeys : m2[k] = m[k] \/ m2[k] = NoWindow
           /\ Cardinality(Entries(m2)) <= MAX_RATE_LIMIT_ENTRIES
<1>1. CASE Cardinality(Entries(m)) <= MAX_RATE_LIMIT_ENTRIES
  BY <1>1 DEF maybe_evict
<1>2. CASE ~(Cardinality(Entries(m)) <= MAX_RATE_LIMIT_ENTRIES)
  <2> DEFINE stale == {k \in Entries(m) :
                         saturating_sub(t, m[k].last_seen_ms) > EVICT_STALE_THRESHOLD_MS}
             left == Entries(m) \ stale
             n == saturating_sub(Cardinality(left), EVICTION_TARGET)
  <2>1. PICK gone \in kSubset(n, left) :
            m2 = [k \in StorageKeys |-> IF k \in stale \cup gone THEN NoWindow ELSE m[k]]
    BY <1>2 DEF maybe_evict
  <2>2. gone \subseteq left /\ Cardinality(gone) = n
    <3> HIDE DEF n, left
    <3> QED BY DEF kSubset
  <2>3. IsFiniteSet(left)
    BY LimitConstants, FS_Subset DEF Entries
  <2>4. Entries(m2) = left \ gone
    <3>1. \A k \in StorageKeys : m2[k].present <=> k \notin stale \cup gone /\ m[k].present
      BY <2>1, Present
    <3> HIDE DEF stale
    <3> QED BY <3>1, <2>2 DEF Entries
  <2>5. Cardinality(left \ gone) = Cardinality(left) - Cardinality(gone)
        /\ Cardinality(left) \in Nat /\ Cardinality(gone) \in Nat
    <3>1. IsFiniteSet(gone) /\ left \cap gone = gone
      BY <2>2, <2>3, FS_Subset
    <3> HIDE DEF left, n
    <3> QED BY <2>3, <3>1, FS_Difference, FS_CardinalityType
  <2>6. Cardinality(Entries(m2)) <= EVICTION_TARGET
    <3> DEFINE a == Cardinality(left)
               d == Cardinality(gone)
    <3>1. a \in Nat /\ d = saturating_sub(a, EVICTION_TARGET) /\ Cardinality(Entries(m2)) = a - d
      BY <2>2, <2>4, <2>5
    <3> HIDE DEF a, d
    <3> QED BY <3>1, LimitConstants DEF saturating_sub
  <2>7. EVICTION_TARGET <= MAX_RATE_LIMIT_ENTRIES /\ Cardinality(Entries(m2)) <= MAX_RATE_LIMIT_ENTRIES
    <3>1. Cardinality(Entries(m2)) \in Nat
      BY <2>2, <2>3, <2>4, FS_Subset, FS_CardinalityType, FS_Difference
    <3> QED BY <2>6, <3>1, LimitConstants
  <2> HIDE DEF stale
  <2>8. \A k \in StorageKeys : m2[k] = m[k] \/ m2[k] = NoWindow
    BY <2>1
  <2>9. m2 \in [StorageKeys -> {NoWindow} \cup Bucket]
    BY <2>1
  <2> QED BY <2>7, <2>8, <2>9
<1> QED BY <1>1, <1>2

\* Entries that go take what was granted to them along.
LEMMA Forgotten ==
    ASSUME NEW m \in [StorageKeys -> {NoWindow} \cup Bucket], NEW g \in [StorageKeys -> Grants],
           NEW t \in 0..MaxMs, \A w \in Windows : w * MS <= t,
           \A k \in StorageKeys : m[k].present => BucketInv(m[k], g[k]) /\ m[k].last_seen_ms <= t,
           map' \in [StorageKeys -> {NoWindow} \cup Bucket],
           \A k \in StorageKeys : map'[k] = m[k] \/ map'[k] = NoWindow,
           Cardinality(Entries(map')) <= MAX_RATE_LIMIT_ENTRIES,
           granted' = Remembered(g, map'), now_ms' = t
    PROVE  LimitInv'
<1>1. \A k \in StorageKeys : granted'[k] = IF map'[k].present THEN g[k] ELSE NoGrants
  BY DEF Remembered
<1>2. granted' \in [StorageKeys -> Grants]
  <2>1. NoGrants \in Grants
    BY NewGood DEF BucketInv
  <2> QED BY <2>1 DEF Remembered
<1>3. \A k \in StorageKeys : map'[k].present =>
          BucketInv(map'[k], granted'[k]) /\ map'[k].last_seen_ms <= t
  BY <1>1, Present
<1>4. TableBounded'
  BY DEF TableBounded
<1> QED BY <1>1, <1>2, <1>3, <1>4 DEF LimitInv

\* What check() works on.
LEMMA PrunedEntry ==
    ASSUME LimitInv, NEW k \in StorageKeys, NEW w \in Windows
    PROVE  LET b == Pruned(k, w, now_ms)
           IN  /\ BucketInv(b, granted[k]) /\ b.last_seen_ms = now_ms
               /\ \A i \in DOMAIN b.events : b.events[i].ts > now_ms - w * MS
<1> DEFINE e == IF map[k].present THEN map[k] ELSE NewWindow
<1>1. now_ms \in 0..MaxMs /\ w * MS <= now_ms /\ now_ms \in Nat
  BY LimitConstants DEF LimitInv
<1>2. BucketInv(e, granted[k]) /\ e.last_seen_ms <= now_ms
  <2>1. CASE map[k].present
    BY <2>1 DEF LimitInv
  <2>2. CASE ~map[k].present
    <3>1. e = NewWindow /\ granted[k] = NoGrants
      BY <2>2 DEF LimitInv
    <3> QED BY <3>1, <1>1, NewGood
  <2> QED BY <2>1, <2>2
<1> HIDE DEF e
<1>3. LET p == [prune_expired(e, now_ms, w * MS) EXCEPT !.last_seen_ms = now_ms]
      IN  /\ BucketInv(p, granted[k]) /\ p.last_seen_ms = now_ms
          /\ \A i \in DOMAIN p.events : p.events[i].ts > now_ms - w * MS
  BY <1>1, <1>2, PrunedGood
<1> QED BY <1>3 DEF Pruned, e

\* A call that leaves b under the key, with g granted to it.
LEMMA CheckStep ==
    ASSUME LimitInv, NEW k \in StorageKeys, NEW b, NEW g, BucketInv(b, g), b.last_seen_ms = now_ms,
           maybe_evict([map EXCEPT ![k] = b], now_ms, map'),
           granted' = Remembered([granted EXCEPT ![k] = g], map'),
           now_ms' = now_ms
    PROVE  LimitInv'
<1> DEFINE m == [map EXCEPT ![k] = b]
           gs == [granted EXCEPT ![k] = g]
<1>1. /\ map \in [StorageKeys -> {NoWindow} \cup Bucket] /\ granted \in [StorageKeys -> Grants]
      /\ now_ms \in 0..MaxMs /\ (\A w \in Windows : w * MS <= now_ms) /\ now_ms <= now_ms
  BY LimitConstants DEF LimitInv
<1>2. b \in Bucket /\ g \in Grants
  BY DEF BucketInv
<1>3. m \in [StorageKeys -> {NoWindow} \cup Bucket] /\ gs \in [StorageKeys -> Grants]
  BY <1>1, <1>2
<1>4. \A j \in StorageKeys : m[j] = (IF j = k THEN b ELSE map[j]) /\ gs[j] = IF j = k THEN g ELSE granted[j]
  BY <1>1
<1>5. \A j \in StorageKeys : m[j].present => BucketInv(m[j], gs[j]) /\ m[j].last_seen_ms <= now_ms
  <2> SUFFICES ASSUME NEW j \in StorageKeys, m[j].present
               PROVE  BucketInv(m[j], gs[j]) /\ m[j].last_seen_ms <= now_ms
    OBVIOUS
  <2>1. CASE j = k
    <3>1. m[j] = b /\ gs[j] = g
      BY <1>4, <2>1
    <3> HIDE DEF m, gs
    <3> QED BY <3>1, <1>1
  <2>2. CASE j # k
    <3>1. m[j] = map[j] /\ gs[j] = granted[j]
      BY <1>4, <2>2
    <3> HIDE DEF m, gs
    <3> QED BY <3>1 DEF LimitInv
  <2> QED BY <2>1, <2>2
<1> HIDE DEF m, gs
<1>6. /\ map' \in [StorageKeys -> {NoWindow} \cup Bucket]
      /\ \A j \in StorageKeys : map'[j] = m[j] \/ map'[j] = NoWindow
      /\ Cardinality(Entries(map')) <= MAX_RATE_LIMIT_ENTRIES
  BY <1>3, Evicting DEF m
<1>7. granted' = Remembered(gs, map')
  BY DEF gs
<1> QED BY <1>1, <1>3, <1>5, <1>6, <1>7, Forgotten

(* A reset removes entries only. *)
LEMMA ResetStep ==
    ASSUME LimitInv, NEW gone, Reset(gone)
    PROVE  LimitInv'
<1>1. /\ map \in [StorageKeys -> {NoWindow} \cup Bucket] /\ granted \in [StorageKeys -> Grants]
      /\ now_ms \in 0..MaxMs /\ (\A w \in Windows : w * MS <= now_ms)
      /\ \A k \in StorageKeys : map[k].present => BucketInv(map[k], granted[k]) /\ map[k].last_seen_ms <= now_ms
  BY DEF LimitInv
<1>2. /\ map' \in [StorageKeys -> {NoWindow} \cup Bucket]
      /\ \A j \in StorageKeys : map'[j] = map[j] \/ map'[j] = NoWindow
      /\ granted' = Remembered(granted, map') /\ now_ms' = now_ms
  BY <1>1 DEF Reset
<1>3. Cardinality(Entries(map')) <= MAX_RATE_LIMIT_ENTRIES
  <2>1. Entries(map') \subseteq Entries(map)
    <3> SUFFICES ASSUME NEW k \in StorageKeys, map'[k].present PROVE map[k].present
      BY DEF Entries
    <3> QED BY <1>1, <1>2, Present
  <2>2. IsFiniteSet(Entries(map))
    BY LimitConstants, FS_Subset DEF Entries
  <2>3. /\ Cardinality(Entries(map')) \in Nat /\ Cardinality(Entries(map)) \in Nat
        /\ Cardinality(Entries(map')) <= Cardinality(Entries(map))
    BY <2>1, <2>2, FS_Subset, FS_CardinalityType
  <2>4. Cardinality(Entries(map)) <= MAX_RATE_LIMIT_ENTRIES
    BY DEF LimitInv, TableBounded
  <2> QED BY <2>3, <2>4, LimitConstants
<1> QED BY <1>1, <1>2, <1>3, Forgotten

(* The invariant holds at first, and every call and tick keeps it. *)
LEMMA LimitInitGood == LimitInit => LimitInv
<1> SUFFICES ASSUME LimitInit PROVE LimitInv
  OBVIOUS
<1>1. \A k \in StorageKeys : map[k] = NoWindow /\ ~map[k].present /\ granted[k] = NoGrants
  BY DEF LimitInit, NoWindow
<1>2. NoGrants \in Grants
  BY NewGood DEF BucketInv
<1>3. TableBounded
  <2>1. Entries(map) = {}
    BY <1>1 DEF Entries
  <2>2. Cardinality(Entries(map)) = 0
    BY <2>1, FS_EmptySet
  <2> QED BY <2>2, LimitConstants DEF TableBounded
<1> QED BY <1>1, <1>2, <1>3 DEF LimitInit, LimitInv

LEMMA LimitStep == LimitInv /\ [LimitNext]_limitVars => LimitInv'
<1> SUFFICES ASSUME LimitInv, [LimitNext]_limitVars PROVE LimitInv'
  OBVIOUS
<1>1. ASSUME NEW k \in StorageKeys, NEW w \in Windows, NEW c \in Costs, CheckAllowed(k, w, c)
      PROVE  LimitInv'
  <2> DEFINE b == Pruned(k, w, now_ms)
             p == push_hit(b, now_ms, c)
             g == [granted[k] EXCEPT ![now_ms] = @ + c]
  <2>1. /\ Fits(b, c)
        /\ maybe_evict([map EXCEPT ![k] = p], now_ms, map')
        /\ granted' = Remembered([granted EXCEPT ![k][now_ms] = @ + c], map')
        /\ now_ms' = now_ms
    BY <1>1 DEF CheckAllowed
  <2>2. BucketInv(b, granted[k]) /\ b.last_seen_ms = now_ms /\ now_ms \in 0..MaxMs
    BY PrunedEntry DEF LimitInv
  <2> HIDE DEF b
  <2>3. BucketInv(p, g) /\ p.last_seen_ms = now_ms
    BY <2>1, <2>2, PushGood
  <2>4. [granted EXCEPT ![k][now_ms] = @ + c] = [granted EXCEPT ![k] = g]
    OBVIOUS
  <2>5. granted' = Remembered([granted EXCEPT ![k] = g], map')
    BY <2>1, <2>4
  <2> HIDE DEF p, g
  <2> QED BY <2>1, <2>3, <2>5, CheckStep
<1>2. ASSUME NEW k \in StorageKeys, NEW w \in Windows, NEW c \in Costs, CheckDenied(k, w, c)
      PROVE  LimitInv'
  <2> DEFINE b == Pruned(k, w, now_ms)
             g == granted[k]
  <2>1. /\ maybe_evict([map EXCEPT ![k] = b], now_ms, map')
        /\ granted' = Remembered(granted, map')
        /\ now_ms' = now_ms
    BY <1>2 DEF CheckDenied
  <2>2. BucketInv(b, g) /\ b.last_seen_ms = now_ms
    BY PrunedEntry
  <2>3. [granted EXCEPT ![k] = g] = granted
    BY DEF LimitInv
  <2> HIDE DEF b, g
  <2> QED BY <2>1, <2>2, <2>3, CheckStep
<1>3. ASSUME ClockTick PROVE LimitInv'
  <2>1. /\ now_ms' \in 0..MaxMs /\ now_ms < now_ms' /\ now_ms \in Nat /\ now_ms' \in Nat
        /\ map' = map /\ granted' = granted
    BY <1>3, LimitConstants DEF ClockTick, LimitInv
  <2>2. \A w \in Windows : w * MS <= now_ms'
    <3> SUFFICES ASSUME NEW w \in Windows PROVE w * MS <= now_ms'
      OBVIOUS
    <3>1. w * MS \in Nat /\ w * MS <= now_ms
      BY Lengths DEF LimitInv
    <3> QED BY <3>1, <2>1
  <2>3. \A k \in StorageKeys : map[k].present => map[k].last_seen_ms <= now_ms'
    <3> SUFFICES ASSUME NEW k \in StorageKeys, map[k].present PROVE map[k].last_seen_ms <= now_ms'
      OBVIOUS
    <3>1. map[k].last_seen_ms \in 0..MaxMs /\ map[k].last_seen_ms <= now_ms
      BY DEF LimitInv, BucketInv, Bucket
    <3> QED BY <2>1, <3>1, LimitConstants
  <2>4. TableBounded'
    BY <2>1 DEF TableBounded, Entries, LimitInv
  <2> QED BY <2>1, <2>2, <2>3, <2>4 DEF LimitInv
<1>4. ASSUME UNCHANGED limitVars PROVE LimitInv'
  BY <1>4 DEF limitVars, LimitInv, TableBounded, Entries
<1>5. CASE ResetKey
  BY <1>5, ResetStep DEF ResetKey
<1>6. CASE ResetNamespace
  BY <1>6, ResetStep DEF ResetNamespace
<1>7. CASE ResetAll
  BY <1>7, ResetStep DEF ResetAll
<1> QED BY <1>1, <1>2, <1>3, <1>4, <1>5, <1>6, <1>7 DEF LimitNext

-----------------------------------------------------------------------------
(* What callers are promised.                                                 *)

(* The promise about windows follows. *)
LEMMA WindowsOfInv == LimitInv => WindowsSound
<1> SUFFICES ASSUME LimitInv PROVE WindowsSound
  OBVIOUS
<1>0. now_ms \in 0..MaxMs /\ MaxMs \in Nat /\ now_ms \in Nat
  BY LimitConstants DEF LimitInv
<1>1. ASSUME NEW k \in Entries(map)
      PROVE  /\ k \in StorageKeys /\ map[k] \in Bucket /\ Queue(map[k]) /\ map[k].last_seen_ms <= now_ms
             /\ map[k].events \in Seq(Hit)
  BY DEF Entries, LimitInv, BucketInv, Bucket
<1>2. LimitTypeOK
  <2>1. ASSUME NEW k \in Entries(map)
        PROVE  /\ map[k].last_seen_ms \in 0..now_ms /\ map[k].total \in 0..U32_MAX
               /\ \A i \in DOMAIN map[k].events : map[k].events[i].ts \in 0..now_ms
    <3>1. /\ map[k].last_seen_ms \in 0..MaxMs /\ map[k].last_seen_ms <= now_ms
          /\ map[k].total \in Nat /\ map[k].total <= Limit
      BY <1>1 DEF Bucket, Queue
    <3>2. ASSUME NEW i \in DOMAIN map[k].events PROVE map[k].events[i].ts \in 0..now_ms
      <4>1. map[k].events[i].ts \in Nat
        BY <1>1, Hits
      <4>2. map[k].events[i].ts <= map[k].last_seen_ms
        BY <1>1 DEF Queue
      <4> QED BY <1>0, <3>1, <4>1, <4>2
    <3> QED BY <1>0, <3>1, <3>2, LimitConstants
  <2>2. granted \in [StorageKeys -> [0..MaxMs -> Nat]]
    BY DEF LimitInv, Grants
  <2> QED BY <1>0, <2>1, <2>2 DEF LimitTypeOK
<1>3. TotalIsSum
  BY <1>1 DEF TotalIsSum, Queue
<1>4. WindowBound
  <2> SUFFICES ASSUME NEW k \in StorageKeys, NEW w \in Windows, Shortest(w), NEW t \in 0..now_ms
               PROVE  SumOver(granted[k], Within(t, w * MS)) <= Limit
    BY DEF WindowBound
  <2> DEFINE g == granted[k]
             len == w * MS
  <2>1. /\ len \in Nat /\ t \in 0..MaxMs /\ t \in Nat /\ g \in Grants /\ Limit \in Nat
    BY <1>0, Lengths, LimitConstants DEF LimitInv
  <2>2. ASSUME NEW x \in 0..MaxMs PROVE SumOver(g, Within(x, len)) \in Nat
    <3> HIDE DEF g, len
    <3> QED BY <2>1, WindowSum
  <2>3. CASE map[k].present
    <3> DEFINE ls == map[k].last_seen_ms
    <3>1. /\ ls \in 0..MaxMs /\ ls \in Nat /\ ls \in 0..ls
          /\ \A u \in 0..MaxMs : u > ls => g[u] = 0
          /\ \A x \in 0..ls : SumOver(g, Within(x, len)) <= Limit
      <4>1. BucketInv(map[k], g)
        BY <2>3 DEF LimitInv
      <4>2. ls \in 0..MaxMs /\ Ledger(map[k], g)
        BY <4>1 DEF BucketInv, Bucket
      <4>3. ls \in Nat /\ ls \in 0..ls
        BY <1>0, <4>2
      <4> QED BY <4>2, <4>3 DEF Ledger
    <3> HIDE DEF ls, g, len
    <3>2. CASE t <= ls
      <4>1. t \in 0..ls
        BY <2>1, <3>1, <3>2
      <4> QED BY <3>1, <4>1 DEF g, len
    <3>3. CASE ls <= t
      <4>1. SumOver(g, Within(t, len)) <= SumOver(g, Within(ls, len))
        BY <2>1, <3>1, <3>3, LaterWindow
      <4>2. SumOver(g, Within(t, len)) \in Nat /\ SumOver(g, Within(ls, len)) \in Nat
        BY <2>1, <2>2, <3>1
      <4>3. SumOver(g, Within(t, len)) <= Limit
        BY <2>1, <3>1, <4>1, <4>2
      <4> QED BY <4>3 DEF g, len
    <3> QED BY <2>1, <3>1, <3>2, <3>3
  <2>4. CASE ~map[k].present
    <3>1. g = NoGrants /\ (\A u \in 0..MaxMs : g[u] = 0) /\ 0 \in 0..MaxMs
      BY <1>0, <2>4 DEF LimitInv, NoGrants
    <3> HIDE DEF g, len
    <3>2. IsFiniteSet(Within(t, len)) /\ (\A u \in Within(t, len) : g[u] = 0)
      <4>1. IsFiniteSet(Within(t, len)) /\ \A u \in Within(t, len) : u \in 0..t
        BY <2>1, WithinFinite
      <4>2. 0..t \subseteq 0..MaxMs
        BY <2>1, <1>0
      <4> QED BY <4>1, <4>2, <3>1
    <3>3. SumOver(g, Within(t, len)) <= SumOver(g, {})
      <4> DEFINE S == Within(t, len)
      <4>1. IsFiniteSet(S) /\ (\A u \in S : g[u] = 0) /\ IsFiniteSet({})
        BY <3>2, FS_EmptySet
      <4> HIDE DEF S
      <4>2. SumOver(g, S) <= SumOver(g, {})
        BY <4>1, SumMonotone
      <4> QED BY <4>2 DEF S
    <3>4. SumOver(g, Within(t, len)) <= Limit
      BY <2>1, <2>2, <3>3, SumNothing
    <3> QED BY <3>4 DEF g, len
  <2> QED BY <2>3, <2>4
<1>5. TableBounded
  BY DEF LimitInv
<1> QED BY <1>2, <1>3, <1>4, <1>5 DEF WindowsSound

\* Whole seconds are never less than the milliseconds they stand for.
LEMMA Seconds ==
    ASSUME NEW a \in Nat
    PROVE  (a + MS - 1) \div MS \in Nat /\ MS * ((a + MS - 1) \div MS) >= a
<1>1. MS \in Nat /\ MS > 0
  BY LimitConstants
<1> DEFINE x == a + MS - 1
           q == x \div MS
           r == x % MS
<1>2. x \in Nat
  BY <1>1
<1> HIDE DEF x
<1>3. q \in Nat /\ r \in 0..(MS - 1) /\ x = MS * q + r
  BY <1>1, <1>2
<1> HIDE DEF q, r
<1>4. MS * q \in Nat
  BY <1>1, <1>3
<1> DEFINE y == MS * q
<1>5. y >= a
  <2> HIDE DEF y
  <2>1. x = y + r
    BY <1>3 DEF y
  <2> QED BY <2>1, <1>1, <1>3, <1>4 DEF x, y
<1> QED BY <1>3, <1>5 DEF q, x

(* The time a refused client is told drops the oldest hit, so that one of cost 1 fits. *)
LEMMA RetryOfInv == LimitInv => RetryAfterSuffices
<1> SUFFICES ASSUME LimitInv, NEW k \in Entries(map), NEW w \in Windows
             PROVE  LET b == Pruned(k, w, now_ms)
                        later == now_ms + MS * retry_after_secs(now_ms, reset_at_ms(b, now_ms, w * MS))
                    IN  ~Fits(b, 1) => Fits(prune_expired(b, later, w * MS), 1)
  BY DEF RetryAfterSuffices
<1> DEFINE b == Pruned(k, w, now_ms)
           len == w * MS
           reset == reset_at_ms(b, now_ms, len)
           later == now_ms + MS * retry_after_secs(now_ms, reset)
           es == b.events
           q == prune_expired(b, later, len)
<1> SUFFICES ASSUME ~Fits(b, 1) PROVE Fits(q, 1)
  OBVIOUS
<1>0. /\ now_ms \in Nat /\ len \in Nat /\ len > 0 /\ Limit \in Nat /\ Limit > 0
      /\ MS \in Nat /\ MS > 0 /\ U32_MAX \in Nat /\ Limit < U32_MAX
  BY LimitConstants, Lengths DEF LimitInv
<1>1. /\ BucketInv(b, granted[k]) /\ b.last_seen_ms = now_ms
      /\ \A i \in DOMAIN es : es[i].ts > now_ms - len
  BY PrunedEntry DEF Entries
<1> HIDE DEF b
<1>2. b \in Bucket /\ Queue(b) /\ es \in Seq(Hit) /\ b.total \in Nat /\ b.total <= Limit
  BY <1>1 DEF BucketInv, Bucket, Queue
<1>3. b.total = Limit
  BY <1>0, <1>2 DEF Fits, saturating_add
<1>4. Len(es) \in Nat /\ DOMAIN es = 1..Len(es) /\ Len(es) > 0
  <2>1. Len(es) \in Nat /\ DOMAIN es = 1..Len(es)
    BY <1>2, Hits
  <2>2. CASE Len(es) = 0
    <3>1. DOMAIN es = {}
      BY <2>1, <2>2
    <3>2. b.total = 0
      BY <1>2, <3>1, SumNothing DEF Queue
    <3> QED BY <1>0, <1>3, <3>2
  <2> QED BY <2>1, <2>2
<1>5. /\ 1 \in DOMAIN es /\ es[1].ts \in Nat /\ es[1].count \in Nat /\ es[1].count > 0
      /\ reset = es[1].ts + len
  <2>1. 1 \in DOMAIN es
    BY <1>4
  <2>2. es # <<>> /\ Head(es) = es[1]
    BY <1>2, <1>4, HeadTailProperties
  <2> HIDE DEF len, es
  <2> QED BY <1>2, <1>4, <2>1, <2>2, Hits DEF reset_at_ms, es
<1>6. later \in Nat /\ later >= es[1].ts + len
  <2>1. es[1].ts + len > now_ms
    BY <1>0, <1>1, <1>5
  <2> DEFINE a == es[1].ts + len - now_ms
             secs == (a + MS - 1) \div MS
  <2>2. a \in Nat /\ a > 0 /\ saturating_sub(reset, now_ms) = a /\ es[1].ts + len = now_ms + a
    <3> HIDE DEF es, len, reset
    <3> QED BY <1>0, <1>5, <2>1 DEF saturating_sub
  <2> HIDE DEF a, reset
  <2>3. retry_after_secs(now_ms, reset) = secs
    BY <2>2 DEF retry_after_secs
  <2>4. secs \in Nat /\ MS * secs >= a
    BY <2>2, Seconds
  <2> HIDE DEF secs
  <2>5. MS * secs \in Nat
    BY <1>0, <2>4
  <2>6. later = now_ms + MS * secs
    BY <2>3
  <2> HIDE DEF later, es, len
  <2> QED BY <1>0, <2>2, <2>4, <2>5, <2>6
<1> HIDE DEF later, reset, len
<1>7. PICK c \in 0..Len(es) :
          /\ q \in Bucket /\ Queue(q) /\ q.events = SubSeq(es, c + 1, Len(es))
          /\ q.total = b.total - SumOver(Counts(es), 1..c)
          /\ \A i \in DOMAIN q.events : q.events[i].ts > saturating_sub(later, len)
  BY <1>0, <1>2, <1>6, Pruning
<1> HIDE DEF q
<1>8. saturating_sub(later, len) \in Nat /\ es[1].ts <= saturating_sub(later, len)
  BY <1>0, <1>5, <1>6 DEF saturating_sub
<1>9. c > 0
  <2>1. CASE c = 0
    <3>1. 1 \in DOMAIN q.events /\ q.events[1] = es[1]
      <4>1. DOMAIN q.events = 1..(Len(es) - c) /\ \A i \in 1..(Len(es) - c) : q.events[i] = es[i + c]
        <5> HIDE DEF es
        <5> QED BY <1>2, <1>7, Dropped
      <4>2. Len(es) - c = Len(es) /\ 1 \in 1..Len(es) /\ 1 + c = 1
        BY <1>4, <2>1
      <4> QED BY <4>1, <4>2
    <3>2. q.events[1].ts > saturating_sub(later, len)
      BY <1>7, <3>1
    <3>3. es[1].ts > saturating_sub(later, len)
      BY <3>1, <3>2
    <3> DEFINE x == es[1].ts
               y == saturating_sub(later, len)
    <3>4. x \in Nat /\ y \in Nat /\ x <= y /\ x > y
      BY <1>5, <1>8, <3>3
    <3> HIDE DEF x, y
    <3> QED BY <3>4
  <2>2. c \in Nat
    <3>1. \A m \in Nat : \A x \in 0..m : x \in Nat
      OBVIOUS
    <3> HIDE DEF es
    <3> QED BY <1>4, <3>1
  <2>3. c = 0 \/ c > 0
    BY <2>2
  <2> QED BY <2>1, <2>3
<1>10. SumOver(Counts(es), 1..c) \in Nat /\ SumOver(Counts(es), 1..c) >= 1
  <2> HIDE DEF es
  <2>1. c \in Nat /\ IsFiniteSet(1..c) /\ IsFiniteSet({1}) /\ 1 \in 1..c
    BY <1>4, <1>9, UpTo, Singleton
  <2>2. \A i \in 1..c : Counts(es)[i] \in Nat
    <3>1. \A i \in 1..c : i \in DOMAIN es /\ es[i].count \in Nat
      BY <1>2, <1>4, Hits
    <3> QED BY <3>1 DEF Counts
  <2>3. Counts(es)[1] = es[1].count /\ Counts(es)[1] \in Nat
    BY <1>5 DEF Counts
  <2>4. SumOver(Counts(es), {1}) = es[1].count
    BY <2>3, SumOne
  <2>5. SumOver(Counts(es), {1}) <= SumOver(Counts(es), 1..c)
    <3>1. (\A i \in {1} : Counts(es)[i] \in Nat)
          /\ \A i \in {1} : Counts(es)[i] # 0 => i \in 1..c /\ Counts(es)[i] <= Counts(es)[i]
      BY <2>1, <2>3
    <3> QED BY <2>1, <2>2, <3>1, SumMonotone
  <2>6. SumOver(Counts(es), 1..c) \in Nat
    BY <2>1, <2>2, UnitsFinite
  <2> QED BY <1>5, <2>4, <2>5, <2>6
<1> HIDE DEF es
<1>11. q.total \in Nat /\ q.total <= Limit - 1
  <2>1. q.total \in Nat
    BY <1>7 DEF Bucket
  <2> QED BY <1>0, <1>3, <1>7, <1>10, <2>1
<1>12. Fits(q, 1)
  BY <1>0, <1>11 DEF Fits, saturating_add
<1> QED BY <1>12

(* Whatever the keys, the policy, the windows and the costs, and however hits are spread: the  *)
(* running total of a live entry is the cost of the hits in its queue, the shortest window is   *)
(* never granted more than max, and the table stays bounded (rate_limit.rs:29-177).             *)
THEOREM LimiterWindows == LimitSpec => []WindowsSound
<1>1. LimitSpec => []LimitInv
  BY LimitInitGood, LimitStep, PTL DEF LimitSpec
<1> QED BY <1>1, WindowsOfInv, PTL

(* The Retry-After of a refused request is long enough: once it has passed, one of cost 1 is    *)
(* granted if nobody else came (rate_limit.rs:53-58, 79-85, 149-153).                           *)
THEOREM LimiterRetry == LimitSpec => []RetryAfterSuffices
<1>1. LimitSpec => []LimitInv
  BY LimitInitGood, LimitStep, PTL DEF LimitSpec
<1> QED BY <1>1, RetryOfInv, PTL
=============================================================================
