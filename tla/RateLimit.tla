------------------------------ MODULE RateLimit ------------------------------
(***************************************************************************)
(* The sliding-window rate limiter (src/rsrc/src/rate_limit.rs), as            *)
(* rate_limit_check and rate_limit_reset of lib.rs expose it to JS.  It is     *)
(* called from the JS thread only, so calls do not interleave; the window      *)
(* slides with the wall clock between them.                                    *)
(*                                                                          *)
(* One tick is one millisecond of the code; MS is its 1000, so that rounding   *)
(* to seconds is kept.  A key stands for the compound storage key.             *)
(***************************************************************************)
EXTENDS Integers, Sequences, FiniteSets, FiniteSetsExt

CONSTANTS
    Namespace,                \* a function: storage key -> its namespace
    Limit,                    \* max of the policy
    Windows,                  \* window_secs the callers pass: it may differ from call to call
    Costs,                    \* cost the callers pass
    MS,                       \* milliseconds in a second
    MAX_RATE_LIMIT_ENTRIES, EVICTION_TARGET, EVICT_STALE_THRESHOLD_MS,
    U32_MAX,                  \* where u32 arithmetic saturates
    MaxMs                     \* bound on the clock

StorageKeys == DOMAIN Namespace

ASSUME RateLimitAssumption ==
    /\ IsFiniteSet(StorageKeys)
    /\ {Limit, MS, MAX_RATE_LIMIT_ENTRIES} \subseteq Nat \ {0}
    /\ Windows \subseteq Nat \ {0} /\ Costs \subseteq Nat \ {0}
    /\ MaxMs \in Nat
    /\ EVICTION_TARGET \in 0..MAX_RATE_LIMIT_ENTRIES
    /\ EVICT_STALE_THRESHOLD_MS \in Nat
    /\ U32_MAX \in Nat /\ Limit < U32_MAX

NoWindow == [present |-> FALSE]
NewWindow == [present |-> TRUE, events |-> <<>>, total |-> 0, last_seen_ms |-> 0]

VARIABLES
    map,         \* storage key -> SlidingWindowState, or NoWindow
    now_ms,      \* SystemTime in ms
    granted      \* key -> time -> cost granted then, while its entry lives (history)

limitVars == <<map, now_ms, granted>>

Entries(m) == {k \in StorageKeys : m[k].present}
NoGrants == [t \in 0..MaxMs |-> 0]

\* The sum of f over S, as the number of its units: what is needed of sums are then
\* facts about finite sets.
Units(f, S) == UNION {{x} \X (1..f[x]) : x \in S}
SumOver(f, S) == Cardinality(Units(f, S))
Counts(events) == [i \in DOMAIN events |-> events[i].count]

\* The clock starts far from the epoch: no window reaches before it.
LimitInit ==
    /\ map = [k \in StorageKeys |-> NoWindow]
    /\ now_ms \in {t \in 0..MaxMs : \A w \in Windows : w * MS <= t}
    /\ granted = [k \in StorageKeys |-> NoGrants]

-----------------------------------------------------------------------------
saturating_sub(a, b) == IF a > b THEN a - b ELSE 0
saturating_add(a, b) == IF a + b > U32_MAX THEN U32_MAX ELSE a + b

\* Mutant: an event exactly one window old still counts.
prune_keeps_edge(b, t, window_ms) ==
    LET expired == {i \in DOMAIN b.events : \A j \in 1..i :
                        b.events[j].ts < saturating_sub(t, window_ms)}
    IN  [b EXCEPT !.events = SubSeq(@, Cardinality(expired) + 1, Len(@)),
                  !.total = saturating_sub(@, SumOver(Counts(b.events), expired))]

\* Mutant: events expire one millisecond early.
prune_early(b, t, window_ms) ==
    LET expired == {i \in DOMAIN b.events : \A j \in 1..i :
                        b.events[j].ts <= saturating_sub(t, window_ms) + 1}
    IN  [b EXCEPT !.events = SubSeq(@, Cardinality(expired) + 1, Len(@)),
                  !.total = saturating_sub(@, SumOver(Counts(b.events), expired))]

\* Events are dropped from the front until one is younger than the cutoff.
prune_expired(b, t, window_ms) ==
    LET expired == {i \in DOMAIN b.events : \A j \in 1..i :
                        b.events[j].ts <= saturating_sub(t, window_ms)}
    IN  [b EXCEPT !.events = SubSeq(@, Cardinality(expired) + 1, Len(@)),
                  !.total = saturating_sub(@, SumOver(Counts(b.events), expired))]

\* A hit in the same millisecond as the last one is added to it.
push_hit(b, t, cost) ==
    LET n == Len(b.events)
        es == IF n > 0 /\ b.events[n].ts = t
              THEN [b.events EXCEPT ![n].count = saturating_add(@, cost)]
              ELSE Append(b.events, [ts |-> t, count |-> cost])
    IN  [b EXCEPT !.events = es, !.total = saturating_add(@, cost)]

reset_at_ms(b, t, window_ms) ==
    (IF b.events # <<>> THEN Head(b.events).ts ELSE t) + window_ms

retry_after_secs(t, reset_at) ==
    IF saturating_sub(reset_at, t) = 0 THEN 1
    ELSE (saturating_sub(reset_at, t) + MS - 1) \div MS

\* m2 is a possible result of maybe_evict(m, t): above the limit the stale
\* entries go, then the least recently seen ones down to the target; entries
\* seen in the same millisecond are in no particular order.
maybe_evict(m, t, m2) ==
    LET stale == {k \in Entries(m) :
                    saturating_sub(t, m[k].last_seen_ms) > EVICT_STALE_THRESHOLD_MS}
        left == Entries(m) \ stale
        n == saturating_sub(Cardinality(left), EVICTION_TARGET)
    IN  IF Cardinality(Entries(m)) <= MAX_RATE_LIMIT_ENTRIES THEN m2 = m
        ELSE \E gone \in kSubset(n, left) :
                /\ \A k1 \in gone, k2 \in left \ gone : m[k1].last_seen_ms <= m[k2].last_seen_ms
                /\ m2 = [k \in StorageKeys |-> IF k \in stale \cup gone THEN NoWindow ELSE m[k]]

-----------------------------------------------------------------------------
(* check: the entry is created, pruned and stamped whatever the decision.     *)
(* Its collection (can_collect) never happens: last_seen_ms has just been set *)
(* to now, so no window has passed since.                                     *)

Pruned(k, window, t) ==
    [prune_expired(IF map[k].present THEN map[k] ELSE NewWindow, t, window * MS)
        EXCEPT !.last_seen_ms = t]

Fits(b, cost) == saturating_add(b.total, cost) <= Limit

\* What is forgotten with an entry is no longer held against its key.
Remembered(g, m) == [k \in StorageKeys |-> IF m[k].present THEN g[k] ELSE NoGrants]

CheckAllowed(k, window, cost) ==
    LET b == Pruned(k, window, now_ms)
    IN  /\ Fits(b, cost)
        /\ maybe_evict([map EXCEPT ![k] = push_hit(b, now_ms, cost)], now_ms, map')
        /\ granted' = Remembered([granted EXCEPT ![k][now_ms] = @ + cost], map')
        /\ UNCHANGED now_ms

CheckDenied(k, window, cost) ==
    LET b == Pruned(k, window, now_ms)
    IN  /\ ~Fits(b, cost)
        /\ maybe_evict([map EXCEPT ![k] = b], now_ms, map')
        /\ granted' = Remembered(granted, map')
        /\ UNCHANGED now_ms

\* reset(namespace, key), reset(namespace) and reset(): the entries removed.
Reset(gone) ==
    /\ map' = [k \in StorageKeys |-> IF k \in gone THEN NoWindow ELSE map[k]]
    /\ granted' = Remembered(granted, map')
    /\ UNCHANGED now_ms

ResetKey == \E k \in StorageKeys : Reset({k})
ResetNamespace == \E k \in StorageKeys : Reset({j \in StorageKeys : Namespace[j] = Namespace[k]})
ResetAll == Reset(StorageKeys)

ClockTick == now_ms < MaxMs /\ now_ms' = now_ms + 1 /\ UNCHANGED <<map, granted>>

LimitNext ==
    \/ \E k \in StorageKeys, w \in Windows, c \in Costs : CheckAllowed(k, w, c) \/ CheckDenied(k, w, c)
    \/ ResetKey \/ ResetNamespace \/ ResetAll
    \/ ClockTick

LimitSpec == LimitInit /\ [][LimitNext]_limitVars

-----------------------------------------------------------------------------
\* Types; a stored entry is never older than the clock.
LimitTypeOK ==
    /\ now_ms \in 0..MaxMs
    /\ \A k \in Entries(map) :
        /\ map[k].last_seen_ms \in 0..now_ms
        /\ map[k].total \in 0..U32_MAX
        /\ \A i \in DOMAIN map[k].events : map[k].events[i].ts \in 0..now_ms
    /\ granted \in [StorageKeys -> [0..MaxMs -> Nat]]

(* total is the cost of the events kept, each newer than the one before: the *)
(* running sum never drifts from the queue it summarises (rate_limit.rs:29-51).*)
TotalIsSum ==
    \A k \in Entries(map) :
        LET es == map[k].events IN
        /\ map[k].total = SumOver(Counts(es), DOMAIN es)
        /\ \A i, j \in DOMAIN es : i < j => es[i].ts < es[j].ts

(* However hits are spread, the shortest window the callers pass is never   *)
(* granted more than max while the key's entry lives, counted from the hits  *)
(* and not from the queue (rate_limit.rs:128-177).  A longer one may be, once *)
(* a call with a shorter one has dropped its hits.                           *)
Shortest(w) == w \in Windows /\ \A v \in Windows : w <= v
Within(t, window_ms) == {u \in 0..t : u > t - window_ms}
WindowBound ==
    \A k \in StorageKeys, w \in Windows : Shortest(w) =>
        \A t \in 0..now_ms : SumOver(granted[k], Within(t, w * MS)) <= Limit

(* After the Retry-After that a refused request is told, one of cost 1 is    *)
(* granted if nobody else came (rate_limit.rs:53-58, 79-85, 149-153).        *)
RetryAfterSuffices ==
    \A k \in Entries(map), w \in Windows :
        LET b == Pruned(k, w, now_ms)
            later == now_ms + MS * retry_after_secs(now_ms, reset_at_ms(b, now_ms, w * MS))
        IN  ~Fits(b, 1) => Fits(prune_expired(b, later, w * MS), 1)

(* The table never outgrows its limit (rate_limit.rs:94-126).                *)
TableBounded == Cardinality(Entries(map)) <= MAX_RATE_LIMIT_ENTRIES

(* The limiter keeps its promise to an entry that lives, with running totals *)
(* that match their queues, in a table that is bounded (rate_limit.rs:29-177).*)
WindowsSound == LimitTypeOK /\ TotalIsSum /\ WindowBound /\ TableBounded
=============================================================================
