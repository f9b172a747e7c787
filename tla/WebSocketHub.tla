---------------------------- MODULE WebSocketHub ----------------------------
(***************************************************************************)
(* WebSocket connections and topics (src/rsrc/src/lib.rs): the frame loop of   *)
(* handle_websocket_connection on a worker, the registries it shares with JS   *)
(* (senders, open connections, topics) and the NAPI calls behind ws.send,      *)
(* ws.close, subscribe, unsubscribe and publish (src/src/index.js).            *)
(*                                                                          *)
(* Only the JS thread calls the NAPI functions, one at a time; a send into a   *)
(* full channel blocks it.  ws.send holds a reference into the sender registry *)
(* while it blocks, and a worker cannot remove that connection's entry         *)
(* meanwhile.  A worker waits for JS in "open", "msg" and "bye".               *)
(*                                                                          *)
(* Client input is one frame per read.  A message is abstracted to how many    *)
(* times its payload has been put into a WebSocket frame.                      *)
(***************************************************************************)
EXTENDS Naturals, Sequences, SequencesExt, FiniteSets

CONSTANTS
    Conns,        \* websocket ids
    Topics,
    Capacity,     \* of an outbound channel: flume::bounded(64)
    MaxSends      \* bound: messages pushed by JS

ASSUME HubAssumption ==
    /\ IsFiniteSet(Conns) /\ IsFiniteSet(Topics)
    /\ Capacity \in Nat \ {0} /\ MaxSends \in Nat

End == [kind |-> "end"]
Chunk(n) == [kind |-> "chunk", framed |-> n]
Free == [op |-> "free"]
Chunks == {Chunk(0), Chunk(1)}       \* raw from send, framed from publish

VARIABLES
    stream_registry,         \* connections whose Sender JS can find
    websocket_connections,   \* open connections
    ws_topics,               \* topic -> subscribed connections
    chan,                    \* connection -> its outbound channel
    conn,                    \* connection -> where its worker task is
    js,                      \* the NAPI call the JS thread is blocked in, or Free
    sends,                   \* messages pushed so far
    delivered,               \* connection -> how often what it was sent was framed (history)
    left                     \* connections whose client hung up (history)

registries == <<stream_registry, websocket_connections, ws_topics>>
vars == <<registries, chan, conn, js, sends, delivered, left>>

Init ==
    /\ stream_registry = {} /\ websocket_connections = {}
    /\ ws_topics = [t \in Topics |-> {}]
    /\ chan = [c \in Conns |-> <<>>]
    /\ conn = [c \in Conns |-> "none"]
    /\ js = Free /\ sends = 0
    /\ delivered = [c \in Conns |-> {}]
    /\ left = {}

Full(c) == Len(chan[c]) >= Capacity
Unsubscribed(c) == [t \in Topics |-> ws_topics[t] \ {c}]

-----------------------------------------------------------------------------
(* The connection task *)

Go(c, from, to) == conn[c] = from /\ conn' = [conn EXCEPT ![c] = to]

\* The upgrade is written and the channel registered; "open" goes to JS.
Upgrade(c) ==
    /\ Go(c, "none", "open")
    /\ stream_registry' = stream_registry \cup {c}
    /\ websocket_connections' = websocket_connections \cup {c}
    /\ UNCHANGED <<ws_topics, chan, js, sends, delivered, left>>

\* No frame is buffered: one outbound message is tried for.
TryRecvChunk(c) ==
    /\ chan[c] # <<>> /\ Head(chan[c]) # End
    /\ \/ /\ Go(c, "loop", "loop")
          /\ delivered' = [delivered EXCEPT ![c] = @ \cup {Head(chan[c]).framed + 1}]
          /\ UNCHANGED left
       \/ /\ Go(c, "loop", "cleanup")                             \* the write fails
          /\ left' = left \cup {c}
          /\ UNCHANGED delivered
    /\ chan' = [chan EXCEPT ![c] = Tail(@)]
    /\ UNCHANGED <<registries, js, sends>>

\* Mutant: End is looked at but neither consumed nor acted on.
TryRecvEndPeeks(c) ==
    /\ Go(c, "loop", "loop")
    /\ chan[c] # <<>> /\ Head(chan[c]) = End
    /\ UNCHANGED <<registries, chan, js, sends, delivered, left>>

TryRecvEnd(c) ==
    /\ Go(c, "loop", "cleanup")
    /\ chan[c] # <<>> /\ Head(chan[c]) = End
    /\ chan' = [chan EXCEPT ![c] = Tail(@)]
    /\ UNCHANGED <<registries, js, sends, delivered, left>>

TryRecvEmpty(c) ==
    /\ Go(c, "loop", "read") /\ chan[c] = <<>>
    /\ UNCHANGED <<registries, chan, js, sends, delivered, left>>

\* The client sends a message, a ping or pong, a close; it hangs up.
ClientMessage(c) == Go(c, "read", "msg") /\ UNCHANGED <<registries, chan, js, sends, delivered, left>>
ClientPing(c) == Go(c, "read", "loop") /\ UNCHANGED <<registries, chan, js, sends, delivered, left>>
ClientLeaves(c) ==
    /\ Go(c, "read", "cleanup")
    /\ left' = left \cup {c}
    /\ UNCHANGED <<registries, chan, js, sends, delivered>>

\* TIMEOUT_WS_IDLE passes in the read.
IdleTimeout(c) == Go(c, "read", "cleanup") /\ UNCHANGED <<registries, chan, js, sends, delivered, left>>

\* Mutant: the sender stays registered when the connection goes.
CleanupKeepsSender(c) ==
    /\ Go(c, "cleanup", "bye")
    /\ websocket_connections' = websocket_connections \ {c}
    /\ UNCHANGED <<stream_registry, ws_topics, chan, js, sends, delivered, left>>

\* Topics are not cleaned up here; "close" goes to JS.
Cleanup(c) ==
    /\ Go(c, "cleanup", "bye")
    /\ ~(js.op = "send" /\ js.to = c)           \* remove() needs the entry's lock
    /\ stream_registry' = stream_registry \ {c}
    /\ websocket_connections' = websocket_connections \ {c}
    /\ UNCHANGED <<ws_topics, chan, js, sends, delivered, left>>

\* The JS handler for the event the task awaits has run.  The channel is
\* dropped with the task.
EventDone(c) ==
    /\ js = Free
    /\ Go(c, "open", "loop") \/ Go(c, "msg", "loop") \/ Go(c, "bye", "gone")
    /\ chan' = [chan EXCEPT ![c] = IF conn'[c] = "gone" THEN <<>> ELSE @]
    /\ UNCHANGED <<registries, js, sends, delivered, left>>

-----------------------------------------------------------------------------
(* NAPI calls on the JS thread.  A handler may use any ws it has seen. *)

Seen(c) == conn[c] # "none"

\* stream_write: an error if the connection is not registered.  The Chunk is
\* pushed by SendPush once there is room.
Send(c) ==
    /\ js = Free /\ Seen(c) /\ c \in stream_registry /\ sends < MaxSends
    /\ js' = [op |-> "send", to |-> c, msg |-> Chunk(0), then |-> {}]
    /\ sends' = sends + 1
    /\ UNCHANGED <<registries, chan, conn, delivered, left>>

\* ws_publish frames the payload and sends it to the subscribers, in the
\* order of a hash set, that are registered when their turn comes.
Publish(t) ==
    /\ js = Free /\ sends < MaxSends
    /\ \E c \in ws_topics[t] \cap stream_registry :
        js' = [op |-> "send", to |-> c, msg |-> Chunk(1), then |-> ws_topics[t] \ {c}]
    /\ sends' = sends + 1
    /\ UNCHANGED <<registries, chan, conn, delivered, left>>

NextSend ==
    \/ js.then \cap stream_registry = {} /\ js' = Free
    \/ \E c \in js.then \cap stream_registry :
        js' = [js EXCEPT !.to = c, !.then = @ \ {c}]

\* Mutant: a full channel is pushed into.
SendPushUnbounded ==
    /\ js.op = "send"
    /\ chan' = [chan EXCEPT ![js.to] = Append(@, js.msg)]
    /\ NextSend
    /\ UNCHANGED <<registries, conn, sends, delivered, left>>

SendPush ==
    /\ js.op = "send" /\ ~Full(js.to)
    /\ chan' = [chan EXCEPT ![js.to] = Append(@, js.msg)]
    /\ NextSend
    /\ UNCHANGED <<registries, conn, sends, delivered, left>>

\* Mutant: End is queued but the connection can still be written to.
StreamEndKeepsSender(c) ==
    /\ js = Free /\ Seen(c)
    /\ js' = IF c \in stream_registry THEN [op |-> "end", to |-> c] ELSE Free
    /\ websocket_connections' = websocket_connections \ {c}
    /\ ws_topics' = Unsubscribed(c)
    /\ UNCHANGED <<stream_registry, chan, conn, sends, delivered, left>>

\* stream_end, by ws.close() or by close_all_websocket_connections: the
\* sender is taken out, End pushed (EndPush), the registries cleaned.
StreamEnd(c) ==
    /\ js = Free /\ Seen(c)
    /\ js' = IF c \in stream_registry THEN [op |-> "end", to |-> c] ELSE Free
    /\ stream_registry' = stream_registry \ {c}
    /\ websocket_connections' = websocket_connections \ {c}
    /\ ws_topics' = Unsubscribed(c)
    /\ UNCHANGED <<chan, conn, sends, delivered, left>>

EndPush ==
    /\ js.op = "end" /\ ~Full(js.to)
    /\ chan' = [chan EXCEPT ![js.to] = Append(@, End)]
    /\ js' = Free
    /\ UNCHANGED <<registries, conn, sends, delivered, left>>

Subscribe(c, t) ==
    /\ js = Free /\ Seen(c)
    /\ ws_topics' = [ws_topics EXCEPT ![t] = @ \cup {c}]
    /\ UNCHANGED <<stream_registry, websocket_connections, chan, conn, js, sends, delivered, left>>

Unsubscribe(c, t) ==
    /\ js = Free /\ c \in ws_topics[t]
    /\ ws_topics' = [ws_topics EXCEPT ![t] = @ \ {c}]
    /\ UNCHANGED <<stream_registry, websocket_connections, chan, conn, js, sends, delivered, left>>

-----------------------------------------------------------------------------
TryRecv(c) == TryRecvChunk(c) \/ TryRecvEnd(c) \/ TryRecvEmpty(c)
Client(c) == Upgrade(c) \/ ClientMessage(c) \/ ClientPing(c) \/ ClientLeaves(c)
Call(c) ==
    \/ Send(c) \/ StreamEnd(c)
    \/ \E t \in Topics : Subscribe(c, t) \/ Unsubscribe(c, t)

Next ==
    \/ \E c \in Conns : TryRecv(c) \/ Client(c) \/ IdleTimeout(c) \/ Cleanup(c) \/ EventDone(c)
                        \/ Call(c)
    \/ \E t \in Topics : Publish(t)
    \/ SendPush \/ EndPush

Spec == Init /\ [][Next]_vars

\* Tasks run, reads time out, handlers finish; neither clients nor handlers
\* have to do anything in particular.
FairSpec ==
    /\ Spec
    /\ \A c \in Conns :
        WF_vars(TryRecv(c)) /\ WF_vars(IdleTimeout(c)) /\ WF_vars(Cleanup(c)) /\ SF_vars(EventDone(c))
    /\ WF_vars(SendPush) /\ WF_vars(EndPush)

-----------------------------------------------------------------------------
\* Types; the channels respect their capacity.
TypeOK ==
    /\ stream_registry \subseteq Conns /\ websocket_connections \subseteq Conns
    /\ ws_topics \in [Topics -> SUBSET Conns]
    /\ conn \in [Conns -> {"none", "open", "loop", "read", "msg", "cleanup", "bye", "gone"}]
    /\ chan \in [Conns -> Seq(Chunks \cup {End})]
    /\ \A c \in Conns : Len(chan[c]) <= Capacity
    /\ js \in {Free} \cup [op : {"end"}, to : Conns]
                   \cup [op : {"send"}, to : Conns, msg : Chunks, then : SUBSET Conns]
    /\ sends \in 0..MaxSends
    /\ delivered \in [Conns -> SUBSET (1..2)]
    /\ left \subseteq Conns

(* A connection that has left its loop cannot be found by JS, whichever of   *)
(* the task's cleanup and a concurrent ws.close() came first (lib.rs:561-571,*)
(* 3178-3180).                                                               *)
GoneIsForgotten ==
    \A c \in Conns : conn[c] \in {"none", "bye", "gone"} =>
        c \notin stream_registry /\ c \notin websocket_connections

(* Nothing is queued behind End, and no more can be: the close frame is the  *)
(* last thing a client is sent (lib.rs:561-565).                             *)
EndIsLast ==
    \A c \in Conns : \A i \in DOMAIN chan[c] :
        chan[c][i] = End => i = Len(chan[c]) /\ c \notin stream_registry

(* A connection that was told to end does end, by reading its queue or by    *)
(* the idle timeout; only a call that blocks the JS thread for good, which   *)
(* its close event needs, can keep it (lib.rs:3111-3182).                    *)
EndedCloses ==
    \/ <>[](js # Free)
    \/ \A c \in Conns : (chan[c] # <<>> /\ Last(chan[c]) = End) ~> conn[c] = "gone"

(* What ws.send() queued reaches the client while it stays connected:        *)
(* index.js:768 "Send a text or binary message to this connection".          *)
SentIsDelivered ==
    \A c \in Conns : (chan[c] # <<>> /\ Last(chan[c]) # End) ~>
        c \in left \/ (chan[c] = <<>> /\ conn[c] # "gone")

(* ws.send() and publish() return: lib.rs:433-434 "NAPI calls from JS ...    *)
(* can push chunks".                                                         *)
SendReturns == js.op = "send" ~> js.op # "send"

(* Payloads are framed once: lib.rs:615 "Publish a message to all            *)
(* connections subscribed to a topic".                                       *)
FramedOnce == \A c \in Conns : delivered[c] \subseteq {1}

(* A connection that is cleaned up is in no topic: lib.rs:598 "Unsubscribe a *)
(* connection from ALL topics (called on disconnect)".                       *)
DisconnectUnsubscribes ==
    [][\A c \in Conns : conn[c] = "cleanup" /\ conn'[c] = "bye" =>
            \A t \in Topics : c \notin ws_topics'[t]]_vars
=============================================================================
