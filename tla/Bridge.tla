-------------------------------- MODULE Bridge --------------------------------
(***************************************************************************)
(* Request objects and promoted responses (src/src/bridge.js: the request     *)
(* pool, createRequestFactory and the lazy getters; src/src/index.js:         *)
(* dispatch, createRouteResponseCache, maybePromoteRouteResponseCache,        *)
(* dispatch.replace; src/src/opt: recordDispatch), for the overlapping        *)
(* requests of one route whose application is reloaded and whose own state    *)
(* changes.                                                                   *)
(*                                                                         *)
(* mode selects what a behaviour is about: one message through the envelope   *)
(* codecs, one chain of functions and its access plan, one probed handler, or *)
(* serving requests.                                                          *)
(***************************************************************************)
EXTENDS RequestAccess, Envelope

CONSTANTS
    N,                          \* bound: the requests are 1..N
    REQUEST_POOL_MAX,
    ROUTE_CACHE_PROMOTE_HITS,
    HOT_HIT_THRESHOLD,
    STABLE_RESPONSE_THRESHOLD,
    MaxGen,                     \* bound: generations of the application
    Routes,                     \* the routes a behaviour may serve
    Chains,                     \* the chains of functions, a middleware and a handler, that are
                                \* analysed
    Sample                      \* the requests they are given

ASSUME BridgeAssumption ==
    /\ N \in Nat \ {0} /\ REQUEST_POOL_MAX \in Nat /\ MaxGen \in Nat \ {0}
    /\ ROUTE_CACHE_PROMOTE_HITS \in Nat \ {0}
    /\ HOT_HIT_THRESHOLD \in Nat \ {0} /\ STABLE_RESPONSE_THRESHOLD \in Nat \ {0}
    /\ \A c \in Chains : c.handler.uses \cup c.other.uses \subseteq Uses
    /\ \A rt \in Routes : rt.handler.uses \subseteq Uses /\ (rt.slots = {} \/ ~rt.static)

VARIABLES
    mode, given,
    route,          \* the route that is served
    obj,            \* the request objects: [owner, slot]
    requestPool,
    rq,             \* request -> [pc, obj, gen, shown, lateWrite, answer]; shown: the slot it read
                    \* last and whose data it got
    world,          \* the application's own state, which its handler shows
    gen,            \* the generation dispatch uses
    cache, entry,   \* generation -> runtimeResponseCache, optimizer entry of the route
    hist            \* history: generation -> the responses its handler gave, in order, and
                    \* those of them that were sent

poolVars == <<obj, requestPool>>
routeVars == <<cache, entry, hist>>
serveVars == <<route, poolVars, rq, world, gen, routeVars>>
vars == <<mode, given, serveVars>>

Requests == 1..N

-----------------------------------------------------------------------------
(* Request objects *)

\* _query stands for the lazy fields that are cleared on both sides (_path, _url, _ip,
\* _params, _headers, _headerLookup); validatedBody for the three that validate() sets; user
\* for whatever else a middleware attaches.  A slot holds the request whose data it is.
Lazy == {"_query", "_bodyParsed"}
Attached == {"validatedBody", "user"}
Slots == Lazy \cup Attached
ClearedOnRelease == {"_query", "validatedBody"}

\* Mutant: json() finds the body an earlier request left parsed.
ClearedOnAcquireLess(s) == s = "_query"
ClearedOnAcquire(s) == s \in Lazy

Unread == [slot |-> "none", of |-> 0]
NewObject == [owner |-> 0, slot |-> [s \in Slots |-> 0]]

\* Mutant: the object stays in the pool while it is used.
AfterAcquireKept(pool) == pool
AfterAcquire(pool) == IF pool = <<>> THEN <<>> ELSE Front(pool)

\* buildRequest: the last object of the pool, or a new one, set up for request r.
Acquire(r) ==
    LET o == IF requestPool = <<>> THEN Len(obj) + 1 ELSE requestPool[Len(requestPool)]
        objs == IF requestPool = <<>> THEN Append(obj, NewObject) ELSE obj
        slots == [s \in Slots |-> IF ClearedOnAcquire(s) THEN 0 ELSE objs[o].slot[s]]
    IN  /\ obj' = [objs EXCEPT ![o] = [owner |-> r, slot |-> slots]]
        /\ requestPool' = AfterAcquire(requestPool)
        /\ rq' = [rq EXCEPT ![r].pc = "running", ![r].obj = o, ![r].gen = gen]

\* releaseRequestObject: with a full pool the object is dropped as it is.
Release(o) ==
    IF Len(requestPool) >= REQUEST_POOL_MAX THEN UNCHANGED poolVars
    ELSE LET slots == [s \in Slots |-> IF s \in ClearedOnRelease THEN 0 ELSE obj[o].slot[s]]
         IN  /\ obj' = [obj EXCEPT ![o] = [owner |-> 0, slot |-> slots]]
             /\ requestPool' = Append(requestPool, o)

\* The code of r still runs: before dispatch returned, or left running behind it.
Runs(r) == rq[r].pc \in {"running", "loose"}

\* A lazy getter computes its value from the object's own request and keeps it; on an object
\* that was released it throws.
ReadSlot(r, s) ==
    LET o == obj[rq[r].obj]
        shown == IF s \in Lazy /\ o.slot[s] = 0 THEN o.owner ELSE o.slot[s]
    IN  /\ Runs(r) /\ (s \in Lazy => o.slot[s] # 0 \/ o.owner # 0)
        /\ obj' = IF s \in Lazy THEN [obj EXCEPT ![rq[r].obj].slot[s] = shown] ELSE obj
        /\ rq' = [rq EXCEPT ![r].shown = [slot |-> s, of |-> shown]]
        /\ UNCHANGED <<route, requestPool, world, gen, routeVars>>

WriteSlot(r, s) ==
    /\ Runs(r)
    /\ obj' = [obj EXCEPT ![rq[r].obj].slot[s] = r]
    /\ rq' = [rq EXCEPT ![r].lateWrite = @ \/ rq[r].pc = "loose"]
    /\ UNCHANGED <<route, requestPool, world, gen, routeVars>>

-----------------------------------------------------------------------------
(* Promoted responses *)

None == <<>>

\* A handler that shows nothing of the request answers from the application's state alone:
\* in its body, or in how its header is split into name and value.
Reads(h) == {u \in h.uses : u.how # "helper"} # {}
DataOf(r) == (r + 1) \div 2          \* two requests in a row ask for the same
Response(r, w) ==
    IF route.split
    THEN [headers |-> IF w = 0 THEN <<<<<<1>>, <<1, 1>>>>>> ELSE <<<<<<1, 1>>, <<1>>>>>>, body |-> <<>>]
    ELSE [headers |-> <<>>, body |-> <<IF Reads(route.handler) THEN DataOf(r) ELSE 0, w>>]

RoutePlan(rt) ==
    mergeRequestAccessPlans({analyzeRequestAccess(rt.handler)}
                            \cup (IF rt.errorHandler THEN {ERROR_HANDLER_PLAN} ELSE {}))

hasNoRequestAccess(p) == p.scalars = {} /\ p.full = {} /\ \A f \in Objects : p.keys[f] = {}

NoCache == [on |-> FALSE, encoded |-> None, lastKey |-> None, stableHits |-> 0]

\* static: GET, no parameter in the path, no middleware, no await or clock in the source.
createRouteResponseCache(rt) ==
    IF rt.cache /\ rt.static /\ hasNoRequestAccess(RoutePlan(rt))
    THEN [NoCache EXCEPT !.on = TRUE] ELSE NoCache

\* The hash runs over status, names, values and body without separators (a hash that never
\* collides, here); the lengths of the body and of the header list are appended.
buildSnapshotCacheKey(s) ==
    <<FlattenSeq([i \in 1..Len(s.headers) |-> s.headers[i][1] \o s.headers[i][2]]) \o s.body,
      Len(s.body), Len(s.headers)>>

\* Mutant: an answer that differs does not start the count again.
maybePromoteRouteResponseCacheKeeps(c, s) ==
    IF ~c.on \/ c.encoded # None THEN c
    ELSE LET key == buildSnapshotCacheKey(s)
             hits == c.stableHits + 1
         IN  [c EXCEPT !.lastKey = key, !.stableHits = hits,
                       !.encoded = IF hits >= ROUTE_CACHE_PROMOTE_HITS THEN <<s>> ELSE None]

maybePromoteRouteResponseCache(c, s) ==
    IF ~c.on \/ c.encoded # None THEN c
    ELSE LET key == buildSnapshotCacheKey(s)
             hits == IF key = c.lastKey THEN c.stableHits + 1 ELSE 1
         IN  [c EXCEPT !.lastKey = key, !.stableHits = hits,
                       !.encoded = IF hits >= ROUTE_CACHE_PROMOTE_HITS THEN <<s>> ELSE None]

\* buildRouteEntry looks for "req.query" and the like in the text of the source; a call of
\* req.header, an unpacking and the ip are not among them.
cacheCandidate(rt) ==
    /\ rt.static
    /\ ~\E u \in rt.handler.uses :
           rt.handler.param = "req" /\ rt.handler.form # "bound"
           /\ u.how \in {"read", "whole"} /\ u.field # "ip"
NewEntry(rt) == [stage |-> "cold", hits |-> 0, candidate |-> cacheCandidate(rt), settled |-> FALSE,
                 stable |-> 0, lastKey |-> None, recommended |-> FALSE]

StableEnough(hits) == hits >= STABLE_RESPONSE_THRESHOLD

recordDispatch(e, s) ==
    LET key == buildSnapshotCacheKey(s)
        stable == IF e.lastKey = key THEN e.stable + 1 ELSE 1
        hot == e.hits + 1 >= HOT_HIT_THRESHOLD
    IN  IF e.settled THEN e
        ELSE IF e.stage = "cold"
        THEN [e EXCEPT !.hits = @ + 1, !.stage = IF hot THEN "hot" ELSE "cold",
                       !.settled = hot /\ ~e.candidate]
        ELSE IF ~e.candidate THEN [e EXCEPT !.hits = @ + 1, !.settled = TRUE]
        ELSE [e EXCEPT !.hits = @ + 1, !.lastKey = key, !.stable = stable,
                       !.recommended = StableEnough(stable), !.settled = StableEnough(stable)]

-----------------------------------------------------------------------------
(* dispatch *)

\* Bound: a behaviour looks at request objects, which no reload touches, or at promotion.
Promotes == route.slots = {}
Leaves(loose) == loose => ~Promotes

\* dispatch returned; loose: code of the request is still running.
Ended(r, loose) ==
    [rq EXCEPT ![r].pc = IF loose THEN "loose" ELSE "done",
               ![r].obj = IF loose THEN @ ELSE 0, ![r].gen = 0, ![r].shown = Unread]

Recorded(g, s, sent) ==
    IF ~Promotes THEN hist
    ELSE [hist EXCEPT ![g] = [given |-> Append(@.given, s), sent |-> IF sent THEN Append(@.sent, s) ELSE @.sent]]

NoAnswer == [cached |-> FALSE, shows |-> 0]

\* The requests are numbered as they arrive; bound: how many a behaviour has.
IsNext(r) == rq[r].pc = "new" /\ r <= route.requests /\ \A q \in 1..r - 1 : rq[q].pc # "new"

\* A promoted response is returned before a request object is taken.
ArriveCached(r) ==
    /\ IsNext(r) /\ cache[gen].encoded # None
    /\ LET s == cache[gen].encoded[1]
       IN  rq' = [rq EXCEPT ![r].pc = "done", ![r].gen = gen,
                  ![r].answer = [cached |-> TRUE, shows |-> IF s.body = <<>> THEN 0 ELSE s.body[1]]]
    /\ UNCHANGED <<route, poolVars, world, gen, routeVars>>

Arrive(r) ==
    /\ IsNext(r) /\ cache[gen].encoded = None
    /\ Acquire(r)
    /\ UNCHANGED <<route, world, gen, routeVars>>

\* The route of the generation the request arrived in; loose: some of its code was not awaited.
FinishOk(r, loose) ==
    LET g == rq[r].gen
        s == Response(r, world)
    IN  /\ rq[r].pc = "running" /\ Leaves(loose)
        /\ entry' = [entry EXCEPT ![g] = recordDispatch(@, s)]
        /\ cache' = [cache EXCEPT ![g] = maybePromoteRouteResponseCache(@, s)]
        /\ hist' = Recorded(g, s, TRUE)
        /\ Release(rq[r].obj)
        /\ rq' = Ended(r, loose)
        /\ UNCHANGED <<route, world, gen>>

\* finalizeError answers, and releases in its finally; a streamed response is released too
\* and no more recorded.
FinishError(r, loose) ==
    /\ rq[r].pc = "running" /\ Leaves(loose)
    /\ Release(rq[r].obj)
    /\ rq' = Ended(r, loose)
    /\ UNCHANGED <<route, world, gen, routeVars>>

\* encodeResponseEnvelope throws for a header that is too long: dispatch rejects after the
\* optimizer was told, and the object is not released.
FinishThrows(r, loose) ==
    LET g == rq[r].gen
        s == Response(r, world)
    IN  /\ rq[r].pc = "running" /\ Leaves(loose)
        /\ entry' = [entry EXCEPT ![g] = recordDispatch(@, s)]
        /\ hist' = Recorded(g, s, FALSE)
        /\ rq' = Ended(r, loose)
        /\ UNCHANGED <<route, poolVars, world, gen, cache>>

LooseEnds(r) ==
    /\ rq[r].pc = "loose"
    /\ rq' = Ended(r, FALSE)
    /\ UNCHANGED <<route, poolVars, world, gen, routeVars>>

\* The application's own state changes.
WorldChanges ==
    /\ Promotes /\ world = 0 /\ world' = 1
    /\ UNCHANGED <<route, poolVars, rq, gen, routeVars>>

\* dispatch.replace: the compiled routes of a new application.
Replace ==
    /\ Promotes /\ gen < MaxGen /\ gen' = gen + 1
    /\ cache' = [cache EXCEPT ![gen + 1] = createRouteResponseCache(route)]
    /\ UNCHANGED <<route, poolVars, rq, world, entry, hist>>

-----------------------------------------------------------------------------
NewRequest == [pc |-> "new", obj |-> 0, gen |-> 0, shown |-> Unread,
               lateWrite |-> FALSE, answer |-> NoAnswer]
NoHistory == [given |-> <<>>, sent |-> <<>>]
Nothing == [of |-> "nothing"]

ServeInit(rt) ==
    /\ route = rt /\ obj = <<>> /\ requestPool = <<>>
    /\ rq = [r \in Requests |-> NewRequest]
    /\ world = 0 /\ gen = 1
    /\ cache = [g \in 1..MaxGen |-> IF g = 1 THEN createRouteResponseCache(rt) ELSE NoCache]
    /\ entry = [g \in 1..MaxGen |-> NewEntry(rt)]
    /\ hist = [g \in 1..MaxGen |-> NoHistory]

Init ==
    /\ mode \in {"codec", "plan", "probe", "serve"}
    /\ given \in CASE mode = "codec" -> Messages
                   [] mode = "plan" -> [chain : Chains, of : Sample]
                   [] mode = "probe" -> Handlers
                   [] mode = "serve" -> {Nothing}
    /\ \E rt \in Routes : (mode # "serve" => rt = CHOOSE x \in Routes : TRUE) /\ ServeInit(rt)

ServeNext ==
    \/ \E r \in Requests :
          \/ Arrive(r) \/ ArriveCached(r) \/ LooseEnds(r)
          \/ \E s \in route.slots \cap Slots : ReadSlot(r, s)
          \/ \E s \in route.slots \cap Attached : WriteSlot(r, s)
          \/ \E loose \in BOOLEAN : FinishOk(r, loose) \/ FinishError(r, loose) \/ FinishThrows(r, loose)
    \/ WorldChanges
    \/ Replace

Next == mode = "serve" /\ ServeNext /\ UNCHANGED <<mode, given>>
Spec == Init /\ [][Next]_vars

-----------------------------------------------------------------------------
(* Pooled objects, requests and counters stay in range (bridge.js:406, 441).   *)
TypeOK ==
    /\ \A i \in 1..Len(requestPool) : requestPool[i] \in 1..Len(obj)
    /\ \A o \in 1..Len(obj) : obj[o].owner \in 0..N /\ \A s \in Slots : obj[o].slot[s] \in 0..N
    /\ \A r \in Requests : rq[r].pc \in {"new", "running", "loose", "done"} /\ rq[r].obj \in 0..Len(obj)
    /\ gen \in 1..MaxGen
    /\ \A g \in 1..MaxGen : cache[g].stableHits <= ROUTE_CACHE_PROMOTE_HITS /\ Len(hist[g].given) <= N

(* What the native side encodes, decodeRequestEnvelope reads back in every     *)
(* field, and every truncation of it, another version and an unknown method   *)
(* are refused (bridge.js:780 "If the envelope version is unsupported or data *)
(* is truncated").                                                           *)
RequestCodec ==
    mode = "codec" /\ given.kind = "request" =>
        LET e == build_dispatch_envelope(given)
            d == decodeRequestEnvelope(e.bytes)
        IN  e.ok =>
            /\ d.ok <=> given.method \in METHOD_CODES \cup {0}
            /\ d.ok => /\ d.url = given.url /\ d.path = given.path /\ d.ip = given.ip
                       /\ d.params = given.params /\ d.headers = given.headers /\ d.body = given.body
                       /\ d.method = given.method /\ d.flags = given.flags /\ d.handlerId = given.handlerId
            /\ \A k \in 0..Len(e.bytes) - 1 : ~decodeRequestEnvelope(SubSeq(e.bytes, 1, k)).ok
            /\ ~decodeRequestEnvelope([e.bytes EXCEPT ![1] = 1]).ok

\* A status that the two bytes hold and that is not taken for the stream sentinel.
PlainStatus(s) == s <= U16 /\ writeU16(s) # Sentinel

(* The native side reads a response as it was written, the trailer of         *)
(* res.ncache() included and never found where none was written, or the       *)
(* encoder throws; a stream start keeps its id, its status and headers whose  *)
(* lengths fit (bridge.js:899-1035).                                         *)
ResponseCodec ==
    /\ mode = "codec" /\ given.kind = "response" /\ PlainStatus(given.status) =>
          LET e == encodeResponseEnvelope(given)
              d == ReadResponse(e.bytes)
          IN  e.ok => /\ d.ok /\ d.streamId = -1 /\ d.status = given.status
                      /\ d.headers = given.headers /\ d.body = given.body /\ d.ncache = given.ncache
    /\ /\ mode = "codec" /\ given.kind = "stream" /\ given.status <= U16
       /\ \A i \in 1..Len(given.headers) : FitsPair(given.headers[i])
       =>
          LET d == ReadResponse(encodeStreamStartEnvelope(given.streamId, given))
          IN  d.ok /\ d.streamId = given.streamId /\ d.status = given.status /\ d.headers = given.headers

(* Both sides of the bridge read what the other one wrote, or refuse it        *)
(* (bridge.js:782-1043, lib.rs:2009-2076, 2483-2779).                        *)
CodecsAgree == RequestCodec /\ ResponseCodec

\* Functions the analysis can follow: a named parameter, and no helper or rest pattern.
Followed(fn) ==
    /\ \/ fn.form = "function" /\ fn.param # "pattern"
       \/ fn.form = "shorthand" /\ fn.param = "req"
    /\ \A u \in fn.uses : u.how # "helper" /\ (u.how = "rest" => fn.form = "shorthand")
Covers(fn, plan, r) == \A u \in fn.uses : Gets(u, plan, r) = Gets(u, FullPlan, r)
MergedPlan(c) == mergeRequestAccessPlans({analyzeRequestAccess(c.handler), analyzeRequestAccess(c.other)})

(* What a handler or a middleware reads of the request is what an analysis-   *)
(* free bridge would give it: no field that is used is left out of the         *)
(* envelope or of the objects (bridge.js:108 "fields that are never accessed  *)
(* are never materialized").                                                 *)
PlanCovers ==
    mode = "plan" => \A fn \in {given.chain.handler, given.chain.other} :
        Followed(fn) => Covers(fn, MergedPlan(given.chain), given.of)

\* Handlers whose answer is made of constants and the parameter alone.
Resolvable(h) == h.field \in {"const", "param", "object"} /\ ~h.branch
ProbeFaithful(h) ==
    LET s == probeHandlerForFastPath(h, "t0")
    IN  s # NoSource => \A param \in {"x", "y"}, query \in {"none", "q"} :
                            ResolvedAnswer(s, param) = Answers(h, param, query, "t1")

(* The source the probe writes answers every request as the handler does      *)
(* (index.js:1189 "resolve closure variables that the Rust static analyzer    *)
(* can't see").                                                              *)
ProbeSound == mode = "probe" /\ Resolvable(given) => ProbeFaithful(given)

LateWriters == {r \in Requests : rq[r].lateWrite}

(* Until it is answered a request is only shown its own data: path, query,    *)
(* headers, parsed body, and what validate() left, unless code of an earlier  *)
(* request still writes to the object (bridge.js:434 "resetting all internal  *)
(* state").                                                                  *)
ReadsOwn ==
    \A r \in Requests : rq[r].pc = "running" =>
        /\ rq[r].shown.slot \in Lazy => rq[r].shown.of = r
        /\ rq[r].shown.slot = "validatedBody" => rq[r].shown.of \in {0, r} \cup LateWriters

(* The pool keeps its limit, and no request object is in it twice, or in the   *)
(* pool or with another request while dispatch uses it: every path through    *)
(* dispatch and finalizeError releases at most once (bridge.js:437-467,       *)
(* index.js:714-749, 857-905).                                               *)
PoolExclusive ==
    /\ Len(requestPool) <= REQUEST_POOL_MAX
    /\ \A i, j \in 1..Len(requestPool) : requestPool[i] = requestPool[j] => i = j
    /\ \A r \in Requests : rq[r].pc = "running" =>
          /\ obj[rq[r].obj].owner = r
          /\ \A i \in 1..Len(requestPool) : requestPool[i] # rq[r].obj

SameKeys(s) == \A i, j \in 1..Len(s) : buildSnapshotCacheKey(s[i]) = buildSnapshotCacheKey(s[j])

(* A response is promoted only after ROUTE_CACHE_PROMOTE_HITS answers of its   *)
(* own generation in a row had its key, in the order in which overlapping      *)
(* dispatches ended: a reload, also one with dispatches in flight, never       *)
(* brings the response of an older application back.                         *)
PromotedIsStable ==
    \A g \in 1..MaxGen : cache[g].encoded # None =>
        \E i \in 0..Len(hist[g].sent) - ROUTE_CACHE_PROMOTE_HITS :
            SameKeys(Append(SubSeq(hist[g].sent, i + 1, i + ROUTE_CACHE_PROMOTE_HITS), cache[g].encoded[1]))

(* With a handler whose request access the analysis can follow, a promoted     *)
(* response shows no other request's data (index.js:1098 hasNoRequestAccess); *)
(* the ip and the body are not part of that analysis.                        *)
PromotedSuits ==
    Followed(route.handler) /\ (\A u \in route.handler.uses : u.field \notin {"ip", "body"}) =>
        \A r \in Requests : rq[r].answer.cached => rq[r].answer.shows \in {0, DataOf(r)}

(* The optimizer recommends caching only a route that is hot and gave          *)
(* STABLE_RESPONSE_THRESHOLD equal responses in a row after that               *)
(* (opt/runtime.js:70-98).                                                   *)
RecommendedIsStable ==
    Promotes => \A g \in 1..MaxGen : entry[g].recommended =>
        \E i \in HOT_HIT_THRESHOLD..Len(hist[g].given) - STABLE_RESPONSE_THRESHOLD :
              SameKeys(SubSeq(hist[g].given, i + 1, i + STABLE_RESPONSE_THRESHOLD))

(* What is promoted, or recommended for it, is stable, of the generation that *)
(* serves it, and suits the requests it answers (index.js:1061-1186).        *)
PromotionSound == TypeOK /\ PromotedIsStable /\ PromotedSuits /\ RecommendedIsStable

-----------------------------------------------------------------------------
(* Statements that the code does not keep; see the README. *)

\* bridge.js:108: fields that are accessed are materialized, however they are accessed.
PlanAlwaysCovers ==
    mode = "plan" => Covers(given.chain.handler, MergedPlan(given.chain), given.of)

\* index.js:1189: the probed source stands for the handler.
ProbeAlwaysFaithful == mode = "probe" => ProbeFaithful(given)

\* A response arrives with the status the handler set.
StatusKept ==
    mode = "codec" /\ given.kind = "response" =>
        LET e == encodeResponseEnvelope(given)
        IN  e.ok => ReadResponse(e.bytes).ok /\ ReadResponse(e.bytes).status = given.status

\* A stream starts with the headers the handler set, or not at all.
StreamHeadersKept ==
    mode = "codec" /\ given.kind = "stream" =>
        ReadResponse(encodeStreamStartEnvelope(given.streamId, given)).headers = given.headers

\* bridge.js:434: a request starts without what earlier requests attached.
FreshRequest ==
    \A r \in Requests : rq[r].pc = "running" => rq[r].shown.of \in {0, r} \cup LateWriters

\* Code that outlives its request is not shown another one's data.
LateReadsOwn == \A r \in Requests : rq[r].pc = "loose" => rq[r].shown.of \in {0, r}

\* A promoted response suits every request, whatever the handler.
PromotedSuitsAlways ==
    \A r \in Requests : rq[r].answer.cached => rq[r].answer.shows \in {0, DataOf(r)}

\* A promoted response was given ROUTE_CACHE_PROMOTE_HITS times in a row.
PromotedIdentical ==
    \A g \in 1..MaxGen : cache[g].encoded # None =>
        \E i \in 0..Len(hist[g].sent) - ROUTE_CACHE_PROMOTE_HITS :
            \A j \in i + 1..i + ROUTE_CACHE_PROMOTE_HITS : hist[g].sent[j] = cache[g].encoded[1]
=============================================================================
