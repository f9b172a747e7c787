------------------------------ MODULE RouteCache ------------------------------
(***************************************************************************)
(* The native response cache of one route on one worker thread:              *)
(* RouteCache in src/rsrc/src/router.rs, an LRU list threaded through a       *)
(* vector of nodes with a free list, driven by get_cached_response and        *)
(* insert_cached_response.  It is thread-local, so its operations never       *)
(* interleave; what can go wrong is a sequence of them.                       *)
(*                                                                         *)
(* A response is abstracted to the key it was computed for and a tag that     *)
(* tells successive responses for the same key apart.  Entries carry their    *)
(* own TTL, so any stored entry may pass its expires_at at any time: Expire.  *)
(***************************************************************************)
EXTENDS Naturals, Sequences, SequencesExt, FiniteSets

CONSTANTS
    Keys,         \* cache keys: hashes of the varied request parts or of the URL
    Tags,         \* successive responses for one key
    MaxOptions    \* the max_entries that callers of insert_cached_response pass

ASSUME RouteCacheAssumption ==
    /\ IsFiniteSet(Keys)
    /\ MaxOptions \subseteq Nat \ {0}

NULL_NODE == 0                      \* usize::MAX; node indices start at 1 here
NoValue == [present |-> FALSE]
Value(k, t) == [present |-> TRUE, of |-> k, tag |-> t, fresh |-> TRUE]

VARIABLES
    cache,     \* the struct: [map, nodes, head, tail, max_entries, free_list]
    latest,    \* key -> tag of the last response inserted for it (history)
    dangling,  \* nodes that an eviction reused and left on the free list (history)
    reused     \* such a node was taken from the free list while live (history)

cacheVars == <<cache, latest, dangling, reused>>

Mapped(c) == {k \in Keys : c.map[k] # NULL_NODE}
Live(c) == {c.map[k] : k \in Mapped(c)}

RouteCache_new(max) ==
    [map |-> [k \in Keys |-> NULL_NODE], nodes |-> <<>>, head |-> NULL_NODE,
     tail |-> NULL_NODE, max_entries |-> max, free_list |-> <<>>]

CacheInit ==
    /\ \E max \in MaxOptions : cache = RouteCache_new(max)
    /\ latest \in [Keys -> Tags]
    /\ dangling = {} /\ reused = FALSE

-----------------------------------------------------------------------------
(* The list operations, as functions of the struct *)

push_head(c, i) ==
    LET n1 == [c.nodes EXCEPT ![i].prev = NULL_NODE, ![i].next = c.head]
        n2 == IF c.head # NULL_NODE THEN [n1 EXCEPT ![c.head].prev = i] ELSE n1
    IN  [c EXCEPT !.nodes = n2, !.head = i,
                  !.tail = IF @ = NULL_NODE THEN i ELSE @]

remove_link(c, i) ==
    LET p == c.nodes[i].prev
        n == c.nodes[i].next
        n1 == IF p # NULL_NODE THEN [c.nodes EXCEPT ![p].next = n] ELSE c.nodes
        n2 == IF n # NULL_NODE THEN [n1 EXCEPT ![n].prev = p] ELSE n1
    IN  [c EXCEPT !.nodes = n2,
                  !.head = IF p = NULL_NODE THEN n ELSE @,
                  !.tail = IF n = NULL_NODE THEN p ELSE @]

move_to_head(c, i) == IF c.head = i THEN c ELSE push_head(remove_link(c, i), i)

remove_node(c, i) ==
    LET u == remove_link(c, i)
    IN  [u EXCEPT !.nodes[i].value = NoValue, !.free_list = Append(@, i)]

unmap(c, k) == [c EXCEPT !.map[k] = NULL_NODE]

-----------------------------------------------------------------------------
(* get and insert *)

\* What get(k) would answer in struct c.
Lookup(c, k) ==
    IF c.map[k] = NULL_NODE THEN NoValue
    ELSE LET v == c.nodes[c.map[k]].value
         IN  IF v.present THEN (IF v.fresh THEN v ELSE NoValue) ELSE NoValue

\* A hit moves the node to the head; an expired entry is removed.
RouteCache_get(c, k) ==
    IF c.map[k] = NULL_NODE THEN c
    ELSE IF Lookup(c, k).present THEN move_to_head(c, c.map[k])
    ELSE unmap(remove_node(c, c.map[k]), k)

\* Node new_idx becomes the most recent, holding v for k.
store(c, new_idx, k, v) ==
    push_head([c EXCEPT !.nodes[new_idx].key = k, !.nodes[new_idx].value = v,
                        !.map[k] = new_idx], new_idx)

fresh_node == [key |-> NULL_NODE, value |-> NoValue, prev |-> NULL_NODE, next |-> NULL_NODE]

\* Mutant: a known key is refreshed in the list but keeps its old response.
insert_keeps_old(c, k, v) ==
    IF c.map[k] # NULL_NODE
    THEN move_to_head(c, c.map[k])
    ELSE IF c.free_list # <<>>
    THEN store([c EXCEPT !.free_list = Front(@)], Last(c.free_list), k, v)
    ELSE store([c EXCEPT !.nodes = Append(@, fresh_node)], Len(c.nodes) + 1, k, v)

\* Known key: replace the value.  New key: take a node from the free list,
\* else grow the vector, else evict the tail.  remove_node has just put the
\* evicted index on the free list when it is reused.
insert(c, k, v) ==
    IF c.map[k] # NULL_NODE
    THEN move_to_head([c EXCEPT !.nodes[c.map[k]].value = v], c.map[k])
    ELSE IF c.free_list # <<>>
    THEN store([c EXCEPT !.free_list = Front(@)], Last(c.free_list), k, v)
    ELSE IF Len(c.nodes) < c.max_entries
    THEN store([c EXCEPT !.nodes = Append(@, fresh_node)], Len(c.nodes) + 1, k, v)
    ELSE IF c.tail # NULL_NODE
    THEN store(unmap(remove_node(c, c.tail), c.nodes[c.tail].key), c.tail, k, v)
    ELSE c

-----------------------------------------------------------------------------
\* get_cached_response(ns, k, _)
Get(k) ==
    /\ cache' = RouteCache_get(cache, k)
    /\ UNCHANGED <<latest, dangling, reused>>

Evicts(k, max) ==
    /\ cache.map[k] = NULL_NODE /\ cache.free_list = <<>>
    /\ Len(cache.nodes) >= max /\ cache.tail # NULL_NODE

Reuses(k) ==
    /\ cache.map[k] = NULL_NODE /\ cache.free_list # <<>>
    /\ Last(cache.free_list) \in dangling \cap Live(cache)

\* insert_cached_response(ns, k, entry, max): max_entries is set on every call.
Insert(k, t, max) ==
    /\ cache' = insert([cache EXCEPT !.max_entries = max], k, Value(k, t))
    /\ latest' = [latest EXCEPT ![k] = t]
    /\ dangling' = dangling \cup (IF Evicts(k, max) THEN {cache.tail} ELSE {})
    /\ reused' = (reused \/ Reuses(k))

\* Time passes an entry's expires_at.
Expire(k) ==
    /\ Lookup(cache, k).present
    /\ cache' = [cache EXCEPT !.nodes[cache.map[k]].value.fresh = FALSE]
    /\ UNCHANGED <<latest, dangling, reused>>

CacheNext ==
    \E k \in Keys :
        \/ Get(k)
        \/ \E t \in Tags, max \in MaxOptions : Insert(k, t, max)
        \/ Expire(k)

CacheSpec == CacheInit /\ [][CacheNext]_cacheVars

-----------------------------------------------------------------------------
Indices(c) == DOMAIN c.nodes

\* Types of the struct's fields; every index in use is within the vector.
CacheTypeOK ==
    /\ cache.map \in [Keys -> Indices(cache) \cup {NULL_NODE}]
    /\ \A i \in Indices(cache) :
        /\ cache.nodes[i].key \in Keys
        /\ cache.nodes[i].prev \in Indices(cache) \cup {NULL_NODE}
        /\ cache.nodes[i].next \in Indices(cache) \cup {NULL_NODE}
    /\ {cache.head, cache.tail} \subseteq Indices(cache) \cup {NULL_NODE}
    /\ cache.max_entries \in MaxOptions
    /\ ToSet(cache.free_list) \cup dangling \subseteq Indices(cache)
    /\ reused \in BOOLEAN

(* A hit returns the response stored for that very key, and the latest one   *)
(* (router.rs:776-790 against 792-827; lib.rs:2552-2553: "/data?page=1 and    *)
(* /data?page=2 are cached separately").                                     *)
HitIsOwnResponse ==
    \A k \in Keys :
        LET v == Lookup(cache, k)
        IN  v.present => v.of = k /\ v.tag = latest[k]

(* A lookup can return another key's response only once a node that an       *)
(* eviction left on the free list (router.rs:812-817, 877) is handed out     *)
(* again: hits are right through expiry, shrinking limits and evictions      *)
(* until then.                                                               *)
HitsUntilReuse == ~reused => HitIsOwnResponse

(* Until then every node is live or free, no two keys share one, and only    *)
(* evicted nodes are both (router.rs:799-826 against remove_node, 874-878).  *)
NodesUntilReuse ==
    ~reused =>
        /\ \A k1, k2 \in Mapped(cache) : cache.map[k1] = cache.map[k2] => k1 = k2
        /\ ToSet(cache.free_list) \cap Live(cache) \subseteq dangling
        /\ ToSet(cache.free_list) \cup Live(cache) = Indices(cache)

(* Until then prev and next are inverse on the live nodes, from head to      *)
(* tail, so that eviction removes the least recently used entry              *)
(* (router.rs:837-872).                                                      *)
ListUntilReuse ==
    ~reused =>
        /\ (cache.head = NULL_NODE) = (Live(cache) = {})
        /\ (cache.tail = NULL_NODE) = (Live(cache) = {})
        /\ \A i \in Live(cache) :
            LET n == cache.nodes[i] IN
            /\ IF n.prev = NULL_NODE THEN cache.head = i
               ELSE n.prev \in Live(cache) /\ cache.nodes[n.prev].next = i
            /\ IF n.next = NULL_NODE THEN cache.tail = i
               ELSE n.next \in Live(cache) /\ cache.nodes[n.next].prev = i

(* Indices stay inside the node vector for good, and until the first reuse    *)
(* hits, nodes and list are right (router.rs:776-878).                       *)
SoundUntilReuse == CacheTypeOK /\ HitsUntilReuse /\ NodesUntilReuse /\ ListUntilReuse
=============================================================================
