----------------------------- MODULE StreamBridge -----------------------------
(***************************************************************************)
(* Chunked responses: a handler calls res.stream() on the JS thread, and     *)
(* the worker thread that owns the connection pipes what the handler writes  *)
(* to the client.                                                           *)
(*                                                                         *)
(* Three parties meet in STREAM_CHANNELS, the DashMap of senders:            *)
(*   - the JS thread, of which there is one: stream_write keeps the DashMap  *)
(*     guard of the entry (a read lock on the entry's shard) across a        *)
(*     blocking send into a bounded channel; stream_end takes the sender out *)
(*     of the map and then sends End, blocking too, without a guard;         *)
(*   - a worker per stream: it inserts the sender when the stream-start      *)
(*     envelope arrives, pipes chunks, and removes the entry at the end;     *)
(*     insert and remove need the shard's write lock;                        *)
(*   - the client, which reads or goes away.                                 *)
(***************************************************************************)
EXTENDS Naturals, Sequences, SequencesExt

CONSTANTS
    Streams,      \* requests whose handler calls res.stream()
    Payloads,     \* non-empty chunks a handler may write
    Empty,        \* the chunk of length 0
    Capacity,     \* flume::bounded(16)
    MaxWrites,    \* bound: successful writes followed, of all streams together
    ShardOf(_)    \* DashMap shard of a stream id

End == "End"                \* StreamMessage::End
Chunks == Payloads \cup {Empty}

ASSUME StreamAssumption ==
    /\ Capacity \in Nat \ {0}
    /\ MaxWrites \in Nat
    /\ Empty \notin Payloads /\ End \notin Chunks

NotBlocked == [op |-> "none"]

VARIABLES
    handler,     \* stream -> "idle", "created", "returned", "threw"
    ended,       \* stream -> "no", "sent" or "lost": what end() did
    registry,    \* the streams whose sender is in STREAM_CHANNELS
    chan,        \* stream -> messages in its channel
    worker,      \* stream -> where its worker is
    writing,     \* stream -> the chunk its worker is writing
    blocked,     \* the send the JS thread is blocked in
    accepted,    \* stream -> non-empty chunks whose stream_write succeeded (history)
    writes,      \* successful stream_writes, of all streams together (bound)
    delivered,   \* stream -> chunks written to the client
    terminated,  \* stream -> the final chunk was written
    client       \* stream -> "up" or "gone"

jsVars == <<handler, ended>>
wireVars == <<writing, delivered, terminated>>
streamVars == <<handler, ended, registry, chan, worker, writing, blocked,
          accepted, writes, delivered, terminated, client>>

StreamInit ==
    /\ handler = [s \in Streams |-> "idle"]
    /\ ended = [s \in Streams |-> "no"]
    /\ registry = {}
    /\ chan = [s \in Streams |-> <<>>]
    /\ worker = [s \in Streams |-> "dispatch"]
    /\ writing = [s \in Streams |-> Empty]
    /\ blocked = NotBlocked
    /\ accepted = [s \in Streams |-> <<>>] /\ writes = 0
    /\ delivered = [s \in Streams |-> <<>>]
    /\ terminated = [s \in Streams |-> FALSE]
    /\ client = [s \in Streams |-> "up"]

\* The receiver lives in the worker's frame until it returns.
ReceiverAlive(s) == worker[s] # "done"
HasRoom(s) == Len(chan[s]) < Capacity
JsFree == blocked = NotBlocked

\* No read guard is held on s's shard, so its write lock can be taken.
ShardFree(s) ==
    ~ (blocked.op = "write" /\ ShardOf(blocked.stream) = ShardOf(s))

-----------------------------------------------------------------------------
(* The JS thread *)

\* res.stream(): stream_create() hands out an id, nothing is registered yet.
JsCreate(s) ==
    /\ JsFree
    /\ handler[s] = "idle"
    /\ handler' = [handler EXCEPT ![s] = "created"]
    /\ UNCHANGED <<ended, registry, chan, worker, blocked, accepted, writes, client>>
    /\ UNCHANGED wireVars

\* The dispatcher returns the stream-start envelope: res.finished is set, so
\* the handler is not awaited and may still be running.
JsReturn(s) ==
    /\ JsFree
    /\ handler[s] = "created"
    /\ handler' = [handler EXCEPT ![s] = "returned"]
    /\ worker' = [worker EXCEPT ![s] = "insert"]
    /\ UNCHANGED <<ended, registry, chan, blocked, accepted, writes, client>>
    /\ UNCHANGED wireVars

\* A synchronous handler writes before it returned: "Stream not found" is
\* thrown, finalizeError() finds res.finished set and answers with the
\* (empty, status 200) snapshot, so no stream ever starts.
JsWriteTooEarly(s) ==
    /\ JsFree
    /\ handler[s] = "created"
    /\ s \notin registry
    /\ handler' = [handler EXCEPT ![s] = "threw"]
    /\ worker' = [worker EXCEPT ![s] = "done"]
    /\ UNCHANGED <<ended, registry, chan, blocked, accepted, writes, client>>
    /\ UNCHANGED wireVars

MayWrite(s) ==
    /\ JsFree
    /\ handler[s] = "returned"
    /\ writes < MaxWrites

\* stream_write() on an unknown id, or on one whose receiver is gone: an
\* exception in the handler and no change.
JsWriteRefused(s) ==
    /\ MayWrite(s)
    /\ s \notin registry \/ ~ReceiverAlive(s)
    /\ UNCHANGED streamVars

\* What the client is owed once the chunk is in the channel.
Accepts(s, c) ==
    /\ accepted' = [accepted EXCEPT ![s] = IF c = Empty THEN @ ELSE Append(@, c)]
    /\ writes' = writes + 1

\* stream_write() into a channel with room.
JsWrite(s, c) ==
    /\ MayWrite(s)
    /\ s \in registry
    /\ ReceiverAlive(s)
    /\ HasRoom(s)
    /\ chan' = [chan EXCEPT ![s] = Append(@, c)]
    /\ Accepts(s, c)
    /\ UNCHANGED <<handler, ended, registry, worker, blocked, client>>
    /\ UNCHANGED wireVars

\* stream_write() into a full channel: the whole JS thread blocks, guard held.
JsWriteBlocks(s, c) ==
    /\ MayWrite(s)
    /\ s \in registry
    /\ ReceiverAlive(s)
    /\ ~HasRoom(s)
    /\ blocked' = [op |-> "write", stream |-> s, msg |-> c]
    /\ UNCHANGED <<handler, ended, registry, chan, worker, accepted, writes, client>>
    /\ UNCHANGED wireVars

MayEnd(s) == JsFree /\ handler[s] \in {"created", "returned"} /\ ended[s] = "no"

\* stream_end() on an id that is not in the map: nothing to remove, no End.
JsEndLost(s) ==
    /\ MayEnd(s)
    /\ s \notin registry
    /\ ended' = [ended EXCEPT ![s] = "lost"]
    /\ UNCHANGED <<handler, registry, chan, worker, blocked, accepted, writes, client>>
    /\ UNCHANGED wireVars

\* Mutant: End is dropped when the channel is full.
JsEndTrySend(s) ==
    /\ MayEnd(s)
    /\ s \in registry
    /\ ended' = [ended EXCEPT ![s] = "sent"]
    /\ registry' = registry \ {s}
    /\ chan' = [chan EXCEPT ![s] = IF HasRoom(s) THEN Append(@, End) ELSE @]
    /\ UNCHANGED <<handler, worker, blocked, accepted, writes, client>>
    /\ UNCHANGED wireVars

\* stream_end(): take the sender out of the map, then send End, which blocks
\* while the channel is full and is ignored when the receiver is gone.
JsEnd(s) ==
    /\ MayEnd(s)
    /\ s \in registry
    /\ ended' = [ended EXCEPT ![s] = "sent"]
    /\ registry' = registry \ {s}
    /\ IF ReceiverAlive(s) /\ ~HasRoom(s)
       THEN /\ blocked' = [op |-> "end", stream |-> s, msg |-> End]
            /\ UNCHANGED chan
       ELSE /\ chan' = [chan EXCEPT ![s] = IF ReceiverAlive(s) THEN Append(@, End) ELSE @]
            /\ UNCHANGED blocked
    /\ UNCHANGED <<handler, worker, accepted, writes, client>>
    /\ UNCHANGED wireVars

\* The blocked send finds room, or its receiver has been dropped.
JsUnblock(s) ==
    /\ ~JsFree
    /\ blocked.stream = s
    /\ HasRoom(s) \/ ~ReceiverAlive(s)
    /\ blocked' = NotBlocked
    /\ IF ReceiverAlive(s)
       THEN /\ chan' = [chan EXCEPT ![s] = Append(@, blocked.msg)]
            /\ IF blocked.op = "write" THEN Accepts(s, blocked.msg)
               ELSE UNCHANGED <<accepted, writes>>
       ELSE UNCHANGED <<chan, accepted, writes>>
    /\ UNCHANGED <<handler, ended, registry, worker, client>>
    /\ UNCHANGED wireVars

-----------------------------------------------------------------------------
(* The worker thread that owns the connection of s *)

\* The stream-start envelope arrives: publish the sender.
WorkerInsert(s) ==
    /\ worker[s] = "insert"
    /\ ShardFree(s)
    /\ registry' = registry \cup {s}
    /\ worker' = [worker EXCEPT ![s] = "header"]
    /\ UNCHANGED <<chan, blocked, accepted, writes, client>>
    /\ UNCHANGED jsVars
    /\ UNCHANGED wireVars

\* Write the header block; an error returns at once (`write_result?`), past
\* the removal of the registry entry.
WorkerHeader(s) ==
    /\ worker[s] = "header"
    /\ worker' = [worker EXCEPT ![s] = IF client[s] = "up" THEN "recv" ELSE "done"]
    /\ UNCHANGED <<registry, chan, blocked, accepted, writes, client>>
    /\ UNCHANGED jsVars
    /\ UNCHANGED wireVars

\* rx.recv_async(): an empty chunk is skipped, a chunk is written, End leads
\* to the final chunk.  (A disconnected channel is treated like End by the
\* code, but stream_end always sends End before it drops the sender.)
WorkerRecv(s) ==
    /\ worker[s] = "recv"
    /\ chan[s] # <<>>
    /\ chan' = [chan EXCEPT ![s] = Tail(@)]
    /\ LET m == Head(chan[s]) IN
       /\ worker' = [worker EXCEPT ![s] =
             CASE m = End -> "final" [] m = Empty -> "recv" [] OTHER -> "chunk"]
       /\ writing' = [writing EXCEPT ![s] = IF m \in Payloads THEN m ELSE Empty]
    /\ UNCHANGED <<registry, blocked, accepted, writes, delivered, terminated, client>>
    /\ UNCHANGED jsVars

\* Mutant: a chunk is written a second time.
WorkerChunkTwice(s) ==
    /\ worker[s] = "chunk"
    /\ writing' = [writing EXCEPT ![s] = Empty]
    /\ delivered' = [delivered EXCEPT ![s] = @ \o <<writing[s], writing[s]>>]
    /\ worker' = [worker EXCEPT ![s] = "recv"]
    /\ UNCHANGED <<registry, chan, blocked, accepted, writes, terminated, client>>
    /\ UNCHANGED jsVars

\* stream.write_all(chunk): an error leaves the loop.
WorkerChunk(s) ==
    /\ worker[s] = "chunk"
    /\ writing' = [writing EXCEPT ![s] = Empty]
    /\ IF client[s] = "up"
       THEN /\ delivered' = [delivered EXCEPT ![s] = Append(@, writing[s])]
            /\ worker' = [worker EXCEPT ![s] = "recv"]
       ELSE /\ worker' = [worker EXCEPT ![s] = "remove"]
            /\ UNCHANGED delivered
    /\ UNCHANGED <<registry, chan, blocked, accepted, writes, terminated, client>>
    /\ UNCHANGED jsVars

\* Write "0\r\n\r\n"; its result is ignored.
WorkerFinal(s) ==
    /\ worker[s] = "final"
    /\ terminated' = [terminated EXCEPT ![s] = client[s] = "up"]
    /\ worker' = [worker EXCEPT ![s] = "remove"]
    /\ UNCHANGED <<registry, chan, writing, blocked, accepted, writes, delivered, client>>
    /\ UNCHANGED jsVars

\* stream_registry().remove(): needs the shard's write lock; then the worker
\* returns and the receiver is dropped with everything still queued.
WorkerRemove(s) ==
    /\ worker[s] = "remove"
    /\ ShardFree(s)
    /\ registry' = registry \ {s}
    /\ chan' = [chan EXCEPT ![s] = <<>>]
    /\ worker' = [worker EXCEPT ![s] = "done"]
    /\ UNCHANGED <<blocked, accepted, writes, client>>
    /\ UNCHANGED jsVars
    /\ UNCHANGED wireVars

ClientGone(s) ==
    /\ client[s] = "up"
    /\ client' = [client EXCEPT ![s] = "gone"]
    /\ UNCHANGED <<registry, chan, worker, blocked, accepted, writes>>
    /\ UNCHANGED jsVars
    /\ UNCHANGED wireVars

-----------------------------------------------------------------------------
Worker(s) ==
    \/ WorkerInsert(s) \/ WorkerHeader(s) \/ WorkerRecv(s)
    \/ WorkerChunk(s) \/ WorkerFinal(s) \/ WorkerRemove(s)

Js(s) ==
    \/ JsCreate(s) \/ JsReturn(s) \/ JsWriteTooEarly(s) \/ JsWriteRefused(s)
    \/ \E c \in Chunks : JsWrite(s, c) \/ JsWriteBlocks(s, c)
    \/ JsEndLost(s) \/ JsEnd(s) \/ JsUnblock(s)

StreamNext == \E s \in Streams : Js(s) \/ Worker(s) \/ ClientGone(s)

StreamSpec == StreamInit /\ [][StreamNext]_streamVars

(* A worker runs whenever it can (monoio polls a ready task; write_all       *)
(* finishes because a client either reads or goes away), a blocked send      *)
(* resumes when flume wakes it, and a dispatch that created a stream returns *)
(* its envelope.  Handlers owe nothing: they may never write or end.         *)
Fairness ==
    \A s \in Streams : WF_streamVars(Worker(s)) /\ WF_streamVars(JsUnblock(s)) /\ WF_streamVars(JsReturn(s))

StreamFairSpec == StreamSpec /\ Fairness

-----------------------------------------------------------------------------
\* Types; a channel never holds more than its capacity.
StreamTypeOK ==
    /\ handler \in [Streams -> {"idle", "created", "returned", "threw"}]
    /\ ended \in [Streams -> {"no", "sent", "lost"}]
    /\ registry \subseteq Streams
    /\ chan \in [Streams -> Seq(Chunks \cup {End})]
    /\ \A s \in Streams : Len(chan[s]) <= Capacity
    /\ {accepted, delivered} \subseteq [Streams -> Seq(Payloads)] /\ writes \in 0..MaxWrites
    /\ worker \in [Streams -> {"dispatch", "insert", "header", "recv", "chunk",
                               "final", "remove", "done"}]
    /\ writing \in [Streams -> Chunks]
    /\ terminated \in [Streams -> BOOLEAN]
    /\ client \in [Streams -> {"up", "gone"}]

(* What the client has received is, in order and without gaps, what the      *)
(* handler's successful writes pushed, across blocked sends, empty chunks    *)
(* and a client that leaves (lib.rs:2782-2800 against 548-557).              *)
DeliveredInOrder == \A s \in Streams : IsPrefix(delivered[s], accepted[s])

(* A response whose final chunk was written is complete: end() never         *)
(* overtakes a chunk, and nothing is accepted after it (lib.rs:561-566).     *)
TerminatedIsComplete ==
    \A s \in Streams : terminated[s] => delivered[s] = accepted[s]

(* The body a client gets: in order, without gaps, complete when terminated, *)
(* and within the channel's capacity all along (lib.rs:546-571, 2782-2807).  *)
BodyKept == StreamTypeOK /\ DeliveredInOrder /\ TerminatedIsComplete

(* When end() found the stream, the client gets the final chunk or is gone,  *)
(* even if End itself had to wait for room (lib.rs:2801-2807).               *)
SentEndTerminates ==
    \A s \in Streams : ended[s] = "sent" ~> (terminated[s] \/ client[s] = "gone")

(* index.js:481 documents end() as "End the stream": whenever the handler    *)
(* has called it, the response terminates (or there is no one to read it).   *)
EndTerminates ==
    \A s \in Streams :
        ended[s] # "no" ~> (terminated[s] \/ client[s] = "gone" \/ handler[s] = "threw")

(* A push that has to wait for room returns as long as the stream's own      *)
(* client stays, although the JS thread waits with the shard locked and      *)
(* other workers may need it (lib.rs:548-557 against 2782-2806).             *)
PushReturns ==
    \A s \in Streams :
        (~JsFree /\ blocked.stream = s) ~> (JsFree \/ client[s] = "gone")

(* Streams make progress: an End that was sent terminates the response and a *)
(* push that waits for room returns, unless the stream's own client leaves.  *)
StreamsProgress == SentEndTerminates /\ PushReturns

(* lib.rs:433-434: the sender lives in the DashMap "so that NAPI calls from  *)
(* JS (`stream_write`, `stream_end`) can push chunks": every push that has   *)
(* to wait for room returns, given that clients read or go away.             *)
PushAlwaysReturns == ~JsFree ~> JsFree
=============================================================================
