----------------------------- MODULE SessionStore -----------------------------
(***************************************************************************)
(* Sessions kept by the native store: one shard of SessionStore               *)
(* (src/rsrc/src/session.rs), the NAPI calls of MemoryStore, the JS session    *)
(* middleware that resolves an id for the handler (src/src/session.js) and     *)
(* the Rust side that resolves an id for the same request and sets the cookie  *)
(* with the response (lib.rs: resolve_session, write_dynamic_dispatch_response).*)
(*                                                                          *)
(* Requests of one client overlap; the shard's lock makes each store call      *)
(* atomic.  A stored value is abstracted to the client whose request wrote it. *)
(* The session trailer that the Rust side also understands is left out: no     *)
(* JS code emits one, so a response always takes the "no trailer" branch.      *)
(***************************************************************************)
EXTENDS Naturals, FiniteSets

CONSTANTS
    Clients,
    Requests,        \* slots for requests in progress
    Fields,          \* session keys
    max_per_shard,
    max_age,         \* in ticks
    max_data_size,   \* in fields
    MaxIds,          \* bound: session ids generated
    MaxNow           \* bound: ticks of the clock

ASSUME SessionAssumption ==
    /\ IsFiniteSet(Clients) /\ IsFiniteSet(Fields)
    /\ {max_per_shard, max_age} \subseteq Nat \ {0}
    /\ {max_data_size, MaxIds, MaxNow} \subseteq Nat

NoId == 0
Ids == 1..MaxIds
None == "none"
Absent == [present |-> FALSE]
Empty == [f \in Fields |-> None]

VARIABLES
    shard,       \* id -> SessionEntry, or Absent
    cookie,      \* client -> the session id its browser sends, or NoId
    req,         \* slot -> the request in progress in it
    generated,   \* ids generated so far
    now,
    lapsed,      \* id -> fields written before the entry last expired (history)
    wrote        \* client -> fields set by its last answered request (history)

vars == <<shard, cookie, req, generated, now, lapsed, wrote>>

NoRequest == [phase |-> "none"]

Init ==
    /\ shard = [i \in Ids |-> Absent]
    /\ cookie = [c \in Clients |-> NoId]
    /\ req = [r \in Requests |-> NoRequest]
    /\ generated = 0 /\ now = 0
    /\ lapsed = [i \in Ids |-> {}]
    /\ wrote = [c \in Clients |-> {}]

-----------------------------------------------------------------------------
(* The shard, as functions of its map *)

Stored(m) == {i \in Ids : m[i].present}
is_expired(e) == now >= e.expires_at

touched(e) ==
    [present |-> TRUE, data |-> e.data, last_accessed |-> now, expires_at |-> now + max_age]
new_entry == [present |-> TRUE, data |-> Empty, last_accessed |-> now, expires_at |-> now + max_age]

\* get: an expired entry is removed, a live one is touched.
get(m, i) ==
    IF ~m[i].present THEN m
    ELSE [m EXCEPT ![i] = IF is_expired(m[i]) THEN Absent ELSE touched(m[i])]

\* Room for a new id: the least recently accessed entry of a full shard goes.
evict(m, i, m2) ==
    IF m[i].present \/ Cardinality(Stored(m)) < max_per_shard THEN m2 = m
    ELSE \E lru \in Stored(m) :
            /\ \A j \in Stored(m) : m[lru].last_accessed <= m[j].last_accessed
            /\ m2 = [m EXCEPT ![lru] = Absent]

merge(e, mutations, deleted, who) ==
    [touched(e) EXCEPT !.data = [f \in Fields |->
        IF f \in mutations THEN who ELSE IF f \in deleted THEN None ELSE e.data[f]]]

Size(data) == Cardinality({f \in Fields : data[f] # None})

\* upsert by client who: an entry that is there is merged into, expired or
\* not; a result that would be too large is refused and nothing changes.
upsert(i, mutations, deleted, who) ==
    LET merged == merge(IF shard[i].present THEN shard[i] ELSE new_entry,
                        mutations, deleted, who)
    IN  IF Size(merged.data) > max_data_size THEN UNCHANGED <<shard, lapsed>>
        ELSE /\ \E m \in {shard} \cup {[shard EXCEPT ![j] = Absent] : j \in Ids} :
                    evict(shard, i, m) /\ shard' = [m EXCEPT ![i] = merged]
             /\ lapsed' = [j \in Ids |->
                    IF ~shard'[j].present THEN {}
                    ELSE IF j = i THEN lapsed[j] \ (mutations \cup deleted) ELSE lapsed[j]]

-----------------------------------------------------------------------------
(* One request.  Both sides look at the cookie; without a valid one each       *)
(* generates an id of its own.                                                *)

\* Mutant: the generator repeats the last id it gave.
generate_id_repeats(n) == IF generated = 0 THEN n ELSE generated

generate_id(n) == generated + n

Arrive(r, c) ==
    /\ req[r].phase = "none"
    /\ LET fresh == cookie[c] = NoId
       IN  /\ fresh => generated + 2 <= MaxIds
           /\ req' = [req EXCEPT ![r] =
                [phase |-> "handling", client |-> c, is_new |-> fresh,
                 rust_id |-> IF fresh THEN generate_id(1) ELSE cookie[c],
                 js_id |-> IF fresh THEN generate_id(2) ELSE cookie[c],
                 destroyed |-> FALSE, set |-> {}]]
           /\ generated' = IF fresh THEN generated + 2 ELSE generated
    /\ UNCHANGED <<shard, cookie, now, lapsed, wrote>>

Usable(r) == req[r].phase = "handling" /\ ~req[r].destroyed

\* req.session.get / has
SessionGet(r) ==
    /\ Usable(r)
    /\ shard' = get(shard, req[r].js_id)
    /\ lapsed' = [i \in Ids |-> IF shard'[i].present THEN lapsed[i] ELSE {}]
    /\ UNCHANGED <<cookie, req, generated, now, wrote>>

\* req.session.set; whether the store took the value is not reported.
SessionSet(r, f) ==
    /\ Usable(r)
    /\ upsert(req[r].js_id, {f}, {}, req[r].client)
    /\ req' = [req EXCEPT ![r].set =
            IF shard'[req[r].js_id].present /\ shard'[req[r].js_id].data[f] # None
            THEN @ \cup {f} ELSE @]
    /\ UNCHANGED <<cookie, generated, now, wrote>>

\* req.session.delete: an upsert too, so it creates the entry if need be.
SessionDelete(r, f) ==
    /\ Usable(r)
    /\ upsert(req[r].js_id, {}, {f}, req[r].client)
    /\ req' = [req EXCEPT ![r].set = @ \ {f}]
    /\ UNCHANGED <<cookie, generated, now, wrote>>

\* req.session.destroy: later calls through the same req are ignored.
SessionDestroy(r) ==
    /\ Usable(r)
    /\ shard' = [shard EXCEPT ![req[r].js_id] = Absent]
    /\ lapsed' = [lapsed EXCEPT ![req[r].js_id] = {}]
    /\ req' = [req EXCEPT ![r].destroyed = TRUE, ![r].set = {}]
    /\ UNCHANGED <<cookie, generated, now, wrote>>

\* The response is written; for a new session Rust stores an empty entry
\* under its own id and sets that id as the cookie.
Respond(r) ==
    LET q == req[r]
    IN  /\ q.phase = "handling"
        /\ IF q.is_new
           THEN /\ upsert(q.rust_id, {}, {}, q.client)
                /\ cookie' = [cookie EXCEPT ![q.client] = q.rust_id]
           ELSE UNCHANGED <<shard, lapsed, cookie>>
        /\ req' = [req EXCEPT ![r] = NoRequest]
        /\ wrote' = [wrote EXCEPT ![q.client] = q.set]
        /\ UNCHANGED <<generated, now>>

Tick ==
    /\ now < MaxNow
    /\ now' = now + 1
    /\ lapsed' = [i \in Ids |->
        IF shard[i].present /\ now' >= shard[i].expires_at
        THEN {f \in Fields : shard[i].data[f] # None} ELSE lapsed[i]]
    /\ UNCHANGED <<shard, cookie, req, generated, wrote>>

Next ==
    \/ \E r \in Requests :
        \/ \E c \in Clients : Arrive(r, c)
        \/ SessionGet(r) \/ SessionDestroy(r) \/ Respond(r)
        \/ \E f \in Fields : SessionSet(r, f) \/ SessionDelete(r, f)
    \/ Tick

Spec == Init /\ [][Next]_vars

-----------------------------------------------------------------------------
\* Types; a touched entry expires max_age after its last access.
TypeOK ==
    /\ cookie \in [Clients -> Ids \cup {NoId}]
    /\ generated \in 0..MaxIds /\ now \in 0..MaxNow
    /\ \A i \in Stored(shard) :
        /\ shard[i].data \in [Fields -> Clients \cup {None}]
        /\ Size(shard[i].data) <= max_data_size
        /\ shard[i].expires_at = shard[i].last_accessed + max_age
        /\ shard[i].last_accessed <= now

(* A client's session only ever holds what that client's own requests wrote, *)
(* though ids are resolved on two sides and requests overlap (session.rs:    *)
(* 249-323, session.js:216-252, lib.rs:3065-3083).                           *)
Isolation ==
    \A c \in Clients : cookie[c] # NoId /\ shard[cookie[c]].present =>
        \A f \in Fields : shard[cookie[c]].data[f] \in {c, None}

(* The shard never holds more sessions than its share (session.rs:293-304).  *)
ShardBounded == Cardinality(Stored(shard)) <= max_per_shard

(* Sessions are isolated in a shard that evicts at its limit and whose        *)
(* entries keep their size (session.rs:249-354).                             *)
SessionsIsolated == TypeOK /\ Isolation /\ ShardBounded

(* What lay in a session when it expired is never readable again: session.rs:*)
(* 248 "Returns cloned data if found and not expired", session.js:173        *)
(* "Session TTL in seconds".                                                 *)
ExpiredStaysExpired ==
    \A i \in Stored(shard) : ~is_expired(shard[i]) => lapsed[i] = {}

(* What a client's last answered request set is in the session its cookie    *)
(* names (session.js:329:     "Set-Cookie injection is handled by Rust for   *)
(* MemoryStore").                                                            *)
AnsweredWritesKept ==
    \A c \in Clients : \A f \in wrote[c] :
        /\ cookie[c] # NoId
        /\ shard[cookie[c]].present
        /\ shard[cookie[c]].data[f] = c
=============================================================================
