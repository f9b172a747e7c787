------------------------------ MODULE Connection ------------------------------
(***************************************************************************)
(* The HTTP/1.1 connection loop (src/rsrc/src/lib.rs, handle_connection and   *)
(* handle_connection_inner) on one worker thread, with the thread's pool of   *)
(* read buffers.  Connections are tasks of that thread: they interleave at    *)
(* awaits and share the pool only.                                           *)
(*                                                                         *)
(* Bytes come in pieces: piece k of request r is header for k <= r.hdr, the   *)
(* last of which holds the blank line, and body after that.  A read returns   *)
(* any non-empty prefix of what has arrived, up to the buffer's capacity,     *)
(* and puts it at the START of the buffer, which has exactly that length      *)
(* afterwards (lib.rs:1176-1181).  Routes, headers and answers are left out;  *)
(* what a request asks of the loop is its shape.                             *)
(***************************************************************************)
EXTENDS Naturals, Sequences, SequencesExt, FiniteSets

CONSTANTS
    Conns,                     \* client connections, each opened once
    Shapes,                    \* request shapes: [hdr, body, kind, keep]
    MaxRequests,               \* bound: requests of all clients together
    BUFFER_INITIAL_CAPACITY,
    BUFFER_POOL_MAX_SIZE,
    max_header_bytes,
    MAX_BODY_BYTES

Kinds == {"http", "te", "bad", "ws"}

ASSUME ConnectionAssumption ==
    /\ IsFiniteSet(Conns)
    /\ \A s \in Shapes : s.hdr \in Nat \ {0} /\ s.body \in Nat /\ s.kind \in Kinds /\ s.keep \in BOOLEAN
    /\ {BUFFER_INITIAL_CAPACITY, max_header_bytes} \subseteq Nat \ {0}
    /\ {MaxRequests, BUFFER_POOL_MAX_SIZE, MAX_BODY_BYTES} \subseteq Nat

VARIABLES
    pool,       \* BUFFER_POOL of the thread: a stack of buffers
    conn,       \* connection -> where its task is
    buffer,     \* connection -> its Vec: [cap, data]
    deadline,   \* connection -> header_deadline is set
    cur,        \* connection -> [req, body]: the request being served, and the body read
    sent,       \* connection -> the requests its client has begun
    unsent,     \* connection -> pieces of them the client still holds back
    wire,       \* connection -> pieces that arrived and are unread
    eof,        \* connection -> the client has hung up
    answered,   \* connection -> what the handlers were given: [req, body]
    reason      \* connection -> why the server closed it (history)

clientVars == <<sent, unsent, wire, eof>>
vars == <<pool, conn, buffer, deadline, cur, clientVars, answered, reason>>

Vec_new == [cap |-> 0, data |-> <<>>]
Nothing == [req |-> <<>>, body |-> <<>>]

Init ==
    /\ pool = <<>>
    /\ conn = [c \in Conns |-> "none"]
    /\ buffer = [c \in Conns |-> Vec_new]
    /\ deadline = [c \in Conns |-> FALSE]
    /\ cur = [c \in Conns |-> Nothing]
    /\ sent = [c \in Conns |-> <<>>] /\ unsent = [c \in Conns |-> <<>>]
    /\ wire = [c \in Conns |-> <<>>] /\ eof = [c \in Conns |-> FALSE]
    /\ answered = [c \in Conns |-> <<>>]
    /\ reason = [c \in Conns |-> "none"]

-----------------------------------------------------------------------------
(* Pieces *)

Pieces(r) == [k \in 1..(r.shape.hdr + r.shape.body) |-> [req |-> r, k |-> k]]
Body(r) == SubSeq(Pieces(r), r.shape.hdr + 1, r.shape.hdr + r.shape.body)
\* What a handler is to be given of r's body; an upgrade is given none.
Given(r) == IF r.shape.kind = "ws" THEN <<>> ELSE Body(r)
EndsHeader(p) == p.k = p.req.shape.hdr

find_header_end(data) == \E i \in DOMAIN data : EndsHeader(data[i])

\* The parser accepts data that begins with all the header of a request.
Parses(data) ==
    /\ data # <<>> /\ data[1].k = 1 /\ data[1].req.shape.kind # "bad"
    /\ Len(data) >= data[1].req.shape.hdr

\* Mutant: only the header is taken out of the buffer.
drain_header_only(b, consumed) ==
    [b EXCEPT !.data = SubSeq(@, Head(@).req.shape.hdr + 1, Len(@))]

drain_consumed_bytes(b, consumed) ==
    [cap |-> b.cap, data |-> SubSeq(b.data, consumed + 1, Len(b.data))]

-----------------------------------------------------------------------------
(* Returning from handle_connection_inner, for a reason, with what is then    *)
(* in the buffer variable; release_buffer recycles it.                        *)

release_buffer(b) ==
    IF Len(pool) < BUFFER_POOL_MAX_SIZE THEN Append(pool, [b EXCEPT !.data = <<>>]) ELSE pool

Return(c, why, b) ==
    /\ conn' = [conn EXCEPT ![c] = "closed"]
    /\ reason' = [reason EXCEPT ![c] = why]
    /\ pool' = release_buffer(b)
    /\ buffer' = [buffer EXCEPT ![c] = Vec_new]
    /\ cur' = [cur EXCEPT ![c] = Nothing]
    /\ deadline' = [deadline EXCEPT ![c] = FALSE]

\* The task is accepted and starts.
acquire_buffer(c) ==
    /\ conn[c] = "none"
    /\ conn' = [conn EXCEPT ![c] = "parse"]
    /\ IF pool # <<>>
       THEN buffer' = [buffer EXCEPT ![c] = Last(pool)] /\ pool' = Front(pool)
       ELSE /\ buffer' = [buffer EXCEPT ![c] = [cap |-> BUFFER_INITIAL_CAPACITY, data |-> <<>>]]
            /\ UNCHANGED pool
    /\ UNCHANGED <<deadline, cur, clientVars, answered, reason>>

-----------------------------------------------------------------------------
(* The header loop *)

Malformed(c) ==
    /\ conn[c] = "parse" /\ ~Parses(buffer[c].data) /\ find_header_end(buffer[c].data)
    /\ Return(c, "malformed", buffer[c])
    /\ UNCHANGED <<clientVars, answered>>

\* The buffer is taken and handed to stream.read().
Reading(c) == conn[c] = "parse" /\ ~Parses(buffer[c].data) /\ ~find_header_end(buffer[c].data)

\* The read returns n pieces; the deadline runs from the first one.
Read(c) ==
    /\ Reading(c)
    /\ \E n \in 1..Len(wire[c]) :
        LET got == [buffer[c] EXCEPT !.data = SubSeq(wire[c], 1, n)]
        IN  /\ n <= buffer[c].cap
            /\ wire' = [wire EXCEPT ![c] = SubSeq(@, n + 1, Len(@))]
            /\ \/ deadline[c] /\ Return(c, "408", got)
               \/ n > max_header_bytes /\ Return(c, "431", got)
               \/ /\ n <= max_header_bytes
                  /\ buffer' = [buffer EXCEPT ![c] = got]
                  /\ deadline' = [deadline EXCEPT ![c] = TRUE]
                  /\ UNCHANGED <<pool, conn, cur, reason>>
    /\ UNCHANGED <<sent, unsent, eof, answered>>

\* The read returns 0, or an error: the client is gone, or the buffer cannot
\* hold anything (lib.rs:1172-1175).
ReadZero(c) ==
    /\ Reading(c)
    /\ buffer[c].cap = 0 \/ (wire[c] = <<>> /\ eof[c])
    /\ Return(c, "eof", buffer[c])
    /\ UNCHANGED <<clientVars, answered>>

\* The read times out: the buffer goes with the cancelled read.
ReadTimeout(c) ==
    /\ Reading(c) /\ wire[c] = <<>> /\ ~eof[c]
    /\ Return(c, "timeout", Vec_new)
    /\ UNCHANGED <<clientVars, answered>>

-----------------------------------------------------------------------------
(* One request *)

Parsed(c) == conn[c] = "parse" /\ Parses(buffer[c].data)
Request(c) == Head(buffer[c].data).req
Content(c) == Request(c).shape.body

\* 400 or 501 for a transfer encoding, 413 for a large body.
Refused(c) ==
    \/ Request(c).shape.kind = "te"
    \/ Request(c).shape.kind = "http" /\ Content(c) > MAX_BODY_BYTES

Reject(c) ==
    /\ Parsed(c)
    /\ Refused(c)
    /\ Return(c, "refused", buffer[c])
    /\ UNCHANGED <<clientVars, answered>>

Accepted(c) == Parsed(c) /\ ~Refused(c)

Serve(c, body, b) ==
    /\ conn' = [conn EXCEPT ![c] = "respond"]
    /\ cur' = [cur EXCEPT ![c] = [req |-> Request(c), body |-> body]]
    /\ buffer' = [buffer EXCEPT ![c] = b]
    /\ deadline' = [deadline EXCEPT ![c] = FALSE]
    /\ UNCHANGED <<pool, clientVars, answered, reason>>

\* Mutant: all that is in the buffer is taken for the body.
BodyBufferedAll(c) ==
    /\ Accepted(c) /\ Request(c).shape.kind = "http"
    /\ LET header_bytes == Request(c).shape.hdr
           data == buffer[c].data
       IN  /\ Len(data) - header_bytes >= Content(c)
           /\ Serve(c, SubSeq(data, header_bytes + 1, Len(data)),
                    drain_consumed_bytes(buffer[c], Len(data)))

\* No body, or one that is in the buffer already.
BodyBuffered(c) ==
    /\ Accepted(c) /\ Request(c).shape.kind = "http"
    /\ LET header_bytes == Request(c).shape.hdr
           data == buffer[c].data
       IN  /\ Len(data) - header_bytes >= Content(c)
           /\ Serve(c, SubSeq(data, header_bytes + 1, header_bytes + Content(c)),
                    drain_consumed_bytes(buffer[c], header_bytes + Content(c)))

\* Part of the body is there: the rest is read in a loop of its own.
BodyPartial(c) ==
    /\ Accepted(c) /\ Request(c).shape.kind = "http"
    /\ LET header_bytes == Request(c).shape.hdr
           data == buffer[c].data
       IN  /\ Len(data) - header_bytes < Content(c)
           /\ cur' = [cur EXCEPT ![c] = [req |-> Request(c),
                                        body |-> SubSeq(data, header_bytes + 1, Len(data))]]
    /\ conn' = [conn EXCEPT ![c] = "body"]
    /\ buffer' = [buffer EXCEPT ![c].data = <<>>]
    /\ deadline' = [deadline EXCEPT ![c] = FALSE]
    /\ UNCHANGED <<pool, clientVars, answered, reason>>

\* A body read asks for at most what is missing.
BodyRead(c) ==
    /\ conn[c] = "body"
    /\ \E n \in 1..(cur[c].req.shape.body - Len(cur[c].body)) :
        LET body == cur[c].body \o SubSeq(wire[c], 1, n)
        IN  /\ n <= Len(wire[c])
            /\ cur' = [cur EXCEPT ![c].body = body]
            /\ wire' = [wire EXCEPT ![c] = SubSeq(@, n + 1, Len(@))]
            /\ conn' = [conn EXCEPT ![c] =
                    IF Len(body) >= cur[c].req.shape.body THEN "respond" ELSE @]
    /\ UNCHANGED <<pool, buffer, deadline, sent, unsent, eof, answered, reason>>

\* Mutant: a client that stalls in the body is waited for.
BodyFailsOnEof(c) ==
    /\ conn[c] = "body" /\ wire[c] = <<>> /\ eof[c]
    /\ Return(c, "eof", buffer[c])
    /\ UNCHANGED <<clientVars, answered>>

\* TIMEOUT_BODY_READ passes, or the client is gone.
BodyFails(c) ==
    /\ conn[c] = "body" /\ wire[c] = <<>>
    /\ Return(c, IF eof[c] THEN "eof" ELSE "timeout", buffer[c])
    /\ UNCHANGED <<clientVars, answered>>

\* The handler has run and its response is written; then keep-alive or close.
Respond(c) ==
    /\ conn[c] = "respond"
    /\ answered' = [answered EXCEPT ![c] = Append(@, cur[c])]
    /\ IF cur[c].req.shape.keep
       THEN /\ conn' = [conn EXCEPT ![c] = "parse"]
            /\ cur' = [cur EXCEPT ![c] = Nothing]
            /\ UNCHANGED <<pool, buffer, deadline, reason>>
       ELSE Return(c, "done", buffer[c])
    /\ UNCHANGED clientVars

\* The write fails: the error leaves the loop.
RespondFails(c) ==
    /\ conn[c] = "respond" /\ eof[c]
    /\ Return(c, "eof", buffer[c])
    /\ UNCHANGED <<clientVars, answered>>

\* A websocket upgrade takes the buffer along into the frame loop.
Upgrade(c) ==
    /\ Accepted(c) /\ Request(c).shape.kind = "ws"
    /\ conn' = [conn EXCEPT ![c] = "ws"]
    /\ answered' = [answered EXCEPT ![c] = Append(@, [req |-> Request(c), body |-> <<>>])]
    /\ buffer' = [buffer EXCEPT ![c].data = <<>>]
    /\ deadline' = [deadline EXCEPT ![c] = FALSE]
    /\ UNCHANGED <<pool, cur, clientVars, reason>>

\* The frame loop ends: close or end, or TIMEOUT_WS_IDLE in its read.
UpgradeEnds(c) ==
    /\ conn[c] = "ws"
    /\ Return(c, "done", buffer[c]) \/ Return(c, "timeout", Vec_new)
    /\ UNCHANGED <<clientVars, answered>>

-----------------------------------------------------------------------------
(* The client: it may send before its connection is accepted, pipeline, stall *)
(* and hang up.                                                              *)

Requests == Cardinality(UNION {ToSet(sent[d]) : d \in Conns})

ClientSends(c, s) ==
    /\ ~eof[c] /\ Requests < MaxRequests
    /\ LET r == [of |-> c, n |-> Len(sent[c]) + 1, shape |-> s]
       IN  /\ sent' = [sent EXCEPT ![c] = Append(@, r)]
           /\ unsent' = [unsent EXCEPT ![c] = @ \o Pieces(r)]
    /\ UNCHANGED <<pool, conn, buffer, deadline, cur, wire, eof, answered, reason>>

Arrives(c) ==
    /\ unsent[c] # <<>> /\ ~eof[c]
    /\ wire' = [wire EXCEPT ![c] = Append(@, Head(unsent[c]))]
    /\ unsent' = [unsent EXCEPT ![c] = Tail(@)]
    /\ UNCHANGED <<pool, conn, buffer, deadline, cur, sent, eof, answered, reason>>

HangsUp(c) ==
    /\ ~eof[c]
    /\ eof' = [eof EXCEPT ![c] = TRUE]
    /\ UNCHANGED <<pool, conn, buffer, deadline, cur, sent, unsent, wire, answered, reason>>

-----------------------------------------------------------------------------
Task(c) ==
    \/ Malformed(c) \/ Read(c) \/ ReadZero(c) \/ ReadTimeout(c)
    \/ Reject(c) \/ BodyBuffered(c) \/ BodyPartial(c) \/ BodyRead(c) \/ BodyFails(c)
    \/ Respond(c) \/ RespondFails(c) \/ Upgrade(c) \/ UpgradeEnds(c)

Client(c) == Arrives(c) \/ HangsUp(c) \/ \E s \in Shapes : ClientSends(c, s)

Next == \E c \in Conns : acquire_buffer(c) \/ Task(c) \/ Client(c)

Spec == Init /\ [][Next]_vars

\* The worker runs its tasks and their timers fire; a client owes nothing.
FairSpec == Spec /\ \A c \in Conns : WF_vars(Task(c))

-----------------------------------------------------------------------------
\* Types; a buffer never holds more than its capacity, a pooled one nothing.
TypeOK ==
    /\ Len(pool) <= BUFFER_POOL_MAX_SIZE
    /\ \A i \in DOMAIN pool : pool[i].cap \in {0, BUFFER_INITIAL_CAPACITY}
    /\ conn \in [Conns -> {"none", "parse", "body", "respond", "ws", "closed"}]
    /\ \A c \in Conns : Len(buffer[c].data) <= buffer[c].cap
    /\ deadline \in [Conns -> BOOLEAN] /\ eof \in [Conns -> BOOLEAN]
    /\ Requests <= MaxRequests
    /\ reason \in [Conns -> {"none", "malformed", "408", "431", "eof", "timeout", "refused", "done"}]

(* The handlers are given exactly the requests that the connection's own     *)
(* client sent, in order and each with its own body, whatever the reads      *)
(* split or joined (lib.rs:1383-1387, 1573-1606, 3343-3356).                 *)
OwnRequests ==
    \A c \in Conns : \A i \in DOMAIN answered[c] :
        /\ i <= Len(sent[c])
        /\ answered[c][i] = [req |-> sent[c][i], body |-> Given(sent[c][i])]

(* The parser is never handed the bytes of a body or of another connection:  *)
(* what is in the buffer is the next unanswered request (lib.rs:1573-1581,   *)
(* 3343-3356, 115-126).                                                      *)
InSync ==
    \A c \in Conns : conn[c] = "parse" /\ buffer[c].data # <<>> =>
        LET p == Head(buffer[c].data)
        IN  p.req.of = c /\ p.req.n = Len(answered[c]) + 1 /\ p.k <= p.req.shape.hdr

(* The thread's buffers are bounded, filled within their capacity, and in     *)
(* step with their connection's requests (lib.rs:90-126, 3343-3356).         *)
BuffersInSync == TypeOK /\ InSync

(* A request whose body stalls does not hold its connection for ever: it is  *)
(* answered, or the connection is closed (lib.rs:1573-1602).                 *)
BodySettles == \A c \in Conns : conn[c] = "body" ~> conn[c] \in {"parse", "closed"}

(* A connection is closed for end-of-file only when its client hung up:      *)
(* lib.rs:1321 "We take ownership of the buffer, read into it, then put it   *)
(* back".                                                                    *)
EofIsReal == \A c \in Conns : reason[c] = "eof" => eof[c]

(* A connection is closed as malformed only for a malformed request:         *)
(* parser.rs:55 "The caller retries after reading more data".                *)
MalformedIsReal ==
    \A c \in Conns : reason[c] = "malformed" =>
        \E i \in DOMAIN sent[c] : sent[c][i].shape.kind = "bad"

(* 431 is answered only to a header block over the limit:                    *)
(* http-server.config.js:15 "Maximum header block size in bytes".            *)
TooLargeIsReal ==
    \A c \in Conns : reason[c] = "431" =>
        \E i \in DOMAIN sent[c] : sent[c][i].shape.hdr > max_header_bytes
=============================================================================
