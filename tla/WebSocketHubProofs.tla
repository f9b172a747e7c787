-------------------------- MODULE WebSocketHubProofs --------------------------
(***************************************************************************)
(* For every set of connections and topics and every capacity: the types, a  *)
(* connection that left its loop is in no registry, and a close is the last  *)
(* message of its queue.                                                     *)
(***************************************************************************)
EXTENDS WebSocketHub, TLAPS

(* What the call JS is blocked in may rely on: a send still has its entry,   *)
(* an end has taken the sender out and is the only one, and the queue of a   *)
(* connection that was never upgraded is empty.                              *)
CallsAreValid ==
    /\ js.op = "send" => js.to \in stream_registry
    /\ js.op = "end" =>
        /\ js.to \notin stream_registry
        /\ conn[js.to] # "none"
        /\ \A i \in DOMAIN chan[js.to] : chan[js.to][i] # End
    /\ \A c \in Conns : conn[c] = "none" => chan[c] = <<>>

IInv == TypeOK /\ GoneIsForgotten /\ EndIsLast /\ CallsAreValid

(* A call in progress is what its op says.                                   *)
LEMMA CallType ==
  ASSUME TypeOK
  PROVE  /\ js.op = "send" => js \in [op : {"send"}, to : Conns, msg : Chunks, then : SUBSET Conns]
         /\ js.op = "end" => js \in [op : {"end"}, to : Conns]
         /\ Free.op = "free"
  BY DEF TypeOK, Free

LEMMA Messages == End \notin Chunks /\ Chunk(0) \in Chunks /\ Chunk(1) \in Chunks
  BY DEF End, Chunks, Chunk

(* Appending to one queue with room keeps the queues typed and bounded.      *)
LEMMA Push ==
  ASSUME TypeOK, NEW c \in Conns, NEW m \in Chunks \cup {End}, ~Full(c),
         chan' = [chan EXCEPT ![c] = Append(@, m)]
  PROVE  /\ chan' \in [Conns -> Seq(Chunks \cup {End})]
         /\ \A d \in Conns : Len(chan'[d]) <= Capacity
         /\ \A d \in Conns : d # c => chan'[d] = chan[d]
         /\ Len(chan'[c]) = Len(chan[c]) + 1
         /\ chan'[c][Len(chan[c]) + 1] = m
         /\ \A i \in DOMAIN chan[c] : chan'[c][i] = chan[c][i]
         /\ DOMAIN chan'[c] = 1..(Len(chan[c]) + 1)
         /\ DOMAIN chan[c] = 1..Len(chan[c]) /\ Len(chan[c]) \in Nat
<1>1. chan[c] \in Seq(Chunks \cup {End})
  BY DEF TypeOK
<1>2. /\ Append(chan[c], m) \in Seq(Chunks \cup {End})
      /\ Len(Append(chan[c], m)) = Len(chan[c]) + 1
      /\ Append(chan[c], m)[Len(chan[c]) + 1] = m
      /\ \A i \in DOMAIN chan[c] : Append(chan[c], m)[i] = chan[c][i]
      /\ DOMAIN Append(chan[c], m) = 1..(Len(chan[c]) + 1)
      /\ DOMAIN chan[c] = 1..Len(chan[c]) /\ Len(chan[c]) \in Nat
  BY <1>1
<1>3. chan'[c] = Append(chan[c], m) /\ \A d \in Conns : d # c => chan'[d] = chan[d]
  BY DEF TypeOK
<1> QED
  BY <1>1, <1>2, <1>3, HubAssumption DEF TypeOK, Full

(* Taking the head of one queue keeps the queues typed and bounded.          *)
LEMMA Pop ==
  ASSUME TypeOK, NEW c \in Conns, chan[c] # <<>>,
         chan' = [chan EXCEPT ![c] = Tail(@)]
  PROVE  /\ chan' \in [Conns -> Seq(Chunks \cup {End})]
         /\ \A d \in Conns : Len(chan'[d]) <= Capacity
         /\ \A d \in Conns : d # c => chan'[d] = chan[d]
         /\ Len(chan'[c]) = Len(chan[c]) - 1
         /\ \A i \in DOMAIN chan'[c] : i + 1 \in DOMAIN chan[c] /\ chan'[c][i] = chan[c][i + 1]
         /\ Len(chan[c]) \in Nat
         /\ DOMAIN chan'[c] \subseteq Nat
<1>1. chan[c] \in Seq(Chunks \cup {End})
  BY DEF TypeOK
<1>2. /\ Tail(chan[c]) \in Seq(Chunks \cup {End})
      /\ Len(Tail(chan[c])) = Len(chan[c]) - 1
      /\ DOMAIN Tail(chan[c]) = 1..(Len(chan[c]) - 1)
      /\ \A i \in DOMAIN Tail(chan[c]) : Tail(chan[c])[i] = chan[c][i + 1]
      /\ DOMAIN chan[c] = 1..Len(chan[c]) /\ Len(chan[c]) \in Nat
  BY <1>1
<1>3. chan'[c] = Tail(chan[c]) /\ \A d \in Conns : d # c => chan'[d] = chan[d]
  BY DEF TypeOK
<1> QED
  BY <1>1, <1>2, <1>3, HubAssumption DEF TypeOK

(* NextSend leaves JS free or sending to a registered connection.            *)
LEMMA NextSendType ==
  ASSUME TypeOK, js.op = "send", NextSend, UNCHANGED registries
  PROVE  /\ js' \in {Free} \cup [op : {"send"}, to : Conns, msg : Chunks, then : SUBSET Conns]
         /\ js'.op = "send" => js'.to \in stream_registry
         /\ js'.op # "end"
<1>1. CASE js' = Free
  BY <1>1 DEF Free
<1>2. ASSUME NEW c \in js.then \cap stream_registry,
             js' = [js EXCEPT !.to = c, !.then = @ \ {c}]
      PROVE  /\ js' \in [op : {"send"}, to : Conns, msg : Chunks, then : SUBSET Conns]
             /\ js'.op = "send" /\ js'.to = c
  <2>1. js \in [op : {"send"}, to : Conns, msg : Chunks, then : SUBSET Conns]
    BY CallType
  <2> QED
    BY <1>2, <2>1 DEF TypeOK
<1> QED
  BY <1>1, <1>2 DEF NextSend

(* Every step keeps the types and the capacities.                            *)
LEMMA TypeStep == TypeOK /\ [Next]_vars => TypeOK'
<1> SUFFICES ASSUME TypeOK, [Next]_vars PROVE TypeOK'
  OBVIOUS
<1> USE HubAssumption
<1>1. ASSUME NEW c \in Conns, Upgrade(c) PROVE TypeOK'
  BY <1>1 DEF TypeOK, Upgrade, Go
<1>2. ASSUME NEW c \in Conns, TryRecvChunk(c) PROVE TypeOK'
  <2>1. /\ chan' \in [Conns -> Seq(Chunks \cup {End})]
        /\ \A d \in Conns : Len(chan'[d]) <= Capacity
    BY <1>2, Pop DEF TryRecvChunk
  <2>2. Head(chan[c]) \in Chunks
    <3>1. chan[c] \in Seq(Chunks \cup {End}) /\ chan[c] # <<>>
      BY <1>2 DEF TypeOK, TryRecvChunk
    <3>2. Head(chan[c]) \in Chunks \cup {End}
      BY <3>1
    <3> QED
      BY <1>2, <3>2 DEF TryRecvChunk
  <2>3. Head(chan[c]).framed + 1 \in 1..2
    BY <2>2 DEF Chunks, Chunk
  <2>4. delivered' \in [Conns -> SUBSET (1..2)]
    <3> DEFINE new == delivered[c] \cup {Head(chan[c]).framed + 1}
    <3>1. delivered \in [Conns -> SUBSET (1..2)] /\ new \in SUBSET (1..2)
      BY <2>3 DEF TypeOK
    <3>2. delivered' = [delivered EXCEPT ![c] = new] \/ delivered' = delivered
      BY <1>2 DEF TryRecvChunk
    <3> HIDE DEF new
    <3> QED
      BY <3>1, <3>2
  <2>5. conn' \in [Conns -> {"none", "open", "loop", "read", "msg", "cleanup", "bye", "gone"}]
        /\ left' \subseteq Conns
    BY <1>2, ZenonT(60) DEF TypeOK, TryRecvChunk, Go
  <2> QED
    BY <1>2, <2>1, <2>4, <2>5 DEF TypeOK, TryRecvChunk, registries
<1>3. ASSUME NEW c \in Conns, TryRecvEnd(c) PROVE TypeOK'
  <2>1. /\ chan' \in [Conns -> Seq(Chunks \cup {End})]
        /\ \A d \in Conns : Len(chan'[d]) <= Capacity
    BY <1>3, Pop DEF TryRecvEnd
  <2> QED
    BY <1>3, <2>1 DEF TypeOK, TryRecvEnd, Go, registries
<1>4. ASSUME NEW c \in Conns,
             \/ TryRecvEmpty(c) \/ ClientMessage(c) \/ ClientPing(c)
             \/ ClientLeaves(c) \/ IdleTimeout(c)
      PROVE TypeOK'
  BY <1>4 DEF TypeOK, TryRecvEmpty, ClientMessage, ClientPing, ClientLeaves, IdleTimeout, Go, registries
<1>5. ASSUME NEW c \in Conns, Cleanup(c) PROVE TypeOK'
  BY <1>5 DEF TypeOK, Cleanup, Go
<1>6. ASSUME NEW c \in Conns, EventDone(c) PROVE TypeOK'
  <2>1. chan' \in [Conns -> Seq(Chunks \cup {End})]
    BY <1>6 DEF TypeOK, EventDone
  <2>2. \A d \in Conns : Len(chan'[d]) <= Capacity
    <3>1. \A d \in Conns : chan'[d] = chan[d] \/ chan'[d] = <<>>
      BY <1>6 DEF TypeOK, EventDone
    <3>2. Len(<<>>) = 0
      OBVIOUS
    <3> QED
      BY <3>1, <3>2 DEF TypeOK
  <2> QED
    BY <1>6, <2>1, <2>2 DEF TypeOK, EventDone, Go, registries
<1>7. ASSUME NEW c \in Conns, Send(c) PROVE TypeOK'
  <2>1. js' \in [op : {"send"}, to : Conns, msg : Chunks, then : SUBSET Conns]
    BY <1>7, Messages DEF Send
  <2>2. sends' \in 0..MaxSends
    BY <1>7 DEF Send, TypeOK
  <2> QED
    BY <1>7, <2>1, <2>2 DEF TypeOK, Send, registries
<1>8. ASSUME NEW t \in Topics, Publish(t) PROVE TypeOK'
  <2>1. js' \in [op : {"send"}, to : Conns, msg : Chunks, then : SUBSET Conns]
    BY <1>8, Messages DEF Publish, TypeOK
  <2>2. sends' \in 0..MaxSends
    BY <1>8 DEF Publish, TypeOK
  <2> QED
    BY <1>8, <2>1, <2>2 DEF TypeOK, Publish, registries
<1>9. CASE SendPush
  <2>1. js.to \in Conns /\ js.msg \in Chunks
    BY <1>9, CallType DEF SendPush
  <2>2. /\ chan' \in [Conns -> Seq(Chunks \cup {End})]
        /\ \A d \in Conns : Len(chan'[d]) <= Capacity
    BY <1>9, <2>1, Push DEF SendPush
  <2>3. js' \in {Free} \cup [op : {"send"}, to : Conns, msg : Chunks, then : SUBSET Conns]
    BY <1>9, NextSendType DEF SendPush
  <2> QED
    BY <1>9, <2>2, <2>3 DEF TypeOK, SendPush, registries
<1>10. CASE EndPush
  <2>1. js.to \in Conns
    BY <1>10, CallType DEF EndPush
  <2>2. /\ chan' \in [Conns -> Seq(Chunks \cup {End})]
        /\ \A d \in Conns : Len(chan'[d]) <= Capacity
    BY <1>10, <2>1, Push DEF EndPush
  <2> QED
    BY <1>10, <2>2 DEF TypeOK, EndPush, registries
<1>11. ASSUME NEW c \in Conns, StreamEnd(c) PROVE TypeOK'
  <2>1. js' \in {Free} \cup [op : {"end"}, to : Conns]
    BY <1>11 DEF StreamEnd
  <2>2. ws_topics' \in [Topics -> SUBSET Conns]
    BY <1>11 DEF StreamEnd, Unsubscribed, TypeOK
  <2> QED
    BY <1>11, <2>1, <2>2 DEF TypeOK, StreamEnd
<1>12. ASSUME NEW c \in Conns, NEW t \in Topics, Subscribe(c, t) \/ Unsubscribe(c, t)
       PROVE  TypeOK'
  <2>1. PICK members \in SUBSET Conns : ws_topics' = [ws_topics EXCEPT ![t] = members]
    <3>1. ws_topics[t] \cup {c} \in SUBSET Conns /\ ws_topics[t] \ {c} \in SUBSET Conns
      BY DEF TypeOK
    <3> QED
      BY <1>12, <3>1 DEF Subscribe, Unsubscribe
  <2>2. ws_topics' \in [Topics -> SUBSET Conns]
    BY <2>1 DEF TypeOK
  <2> QED
    BY <1>12, <2>2 DEF TypeOK, Subscribe, Unsubscribe
<1>13. CASE UNCHANGED vars
  BY <1>13 DEF TypeOK, vars, registries
<1> QED
  BY <1>1, <1>2, <1>3, <1>4, <1>5, <1>6, <1>7, <1>8, <1>9, <1>10, <1>11, <1>12, <1>13
  DEF Next, TryRecv, Client, Call

(* Every step keeps the inductive invariant.                                 *)
LEMMA StepPreserves == IInv /\ [Next]_vars => IInv'
<1> SUFFICES ASSUME IInv, [Next]_vars PROVE IInv'
  OBVIOUS
<1> USE DEF IInv
<1>0. TypeOK'
  BY TypeStep
<1>1. ASSUME NEW c \in Conns, Upgrade(c) PROVE IInv'
  <2>1. GoneIsForgotten'
    BY <1>1 DEF TypeOK, GoneIsForgotten, Upgrade, Go
  <2>2. chan[c] = <<>>
    BY <1>1 DEF CallsAreValid, Upgrade, Go
  <2>3. EndIsLast'
    BY <1>1, <2>2 DEF EndIsLast, Upgrade
  <2>4. CallsAreValid'
    BY <1>1, CallType DEF TypeOK, CallsAreValid, Upgrade, Go
  <2> QED
    BY <1>0, <2>1, <2>3, <2>4
<1>2. ASSUME NEW c \in Conns, TryRecvChunk(c) \/ TryRecvEnd(c) PROVE IInv'
  <2>1. /\ conn[c] = "loop" /\ chan[c] # <<>> /\ chan' = [chan EXCEPT ![c] = Tail(@)]
        /\ conn' = [conn EXCEPT ![c] = "loop"] \/ conn' = [conn EXCEPT ![c] = "cleanup"]
        /\ UNCHANGED <<registries, js>>
    BY <1>2 DEF TryRecvChunk, TryRecvEnd, Go
  <2>2. /\ \A d \in Conns : d # c => chan'[d] = chan[d]
        /\ Len(chan'[c]) = Len(chan[c]) - 1
        /\ \A i \in DOMAIN chan'[c] : i + 1 \in DOMAIN chan[c] /\ chan'[c][i] = chan[c][i + 1]
        /\ Len(chan[c]) \in Nat
        /\ DOMAIN chan'[c] \subseteq Nat
    BY <2>1, Pop
  <2>3. GoneIsForgotten'
    BY <2>1 DEF TypeOK, GoneIsForgotten, registries
  <2>4. EndIsLast'
    <3> SUFFICES ASSUME NEW d \in Conns, NEW i \in DOMAIN chan'[d], chan'[d][i] = End
                 PROVE  i = Len(chan'[d]) /\ d \notin stream_registry
      BY <2>1 DEF EndIsLast, registries
    <3>1. CASE d # c
      BY <2>2, <3>1 DEF EndIsLast
    <3>2. CASE d = c
      <4>1. i \in Nat /\ i + 1 \in DOMAIN chan[c] /\ chan[c][i + 1] = End
        BY <2>2, <3>2
      <4>2. i + 1 = Len(chan[c]) /\ c \notin stream_registry
        BY <4>1 DEF EndIsLast
      <4> QED
        BY <2>2, <3>2, <4>1, <4>2
    <3> QED
      BY <3>1, <3>2
  <2>5. CallsAreValid'
    <3>1. ASSUME js.op = "end" PROVE \A i \in DOMAIN chan'[js.to] : chan'[js.to][i] # End
      <4>1. js.to \in Conns /\ \A i \in DOMAIN chan[js.to] : chan[js.to][i] # End
        BY <3>1, CallType DEF CallsAreValid
      <4> QED
        BY <2>2, <4>1
    <3>2. ASSUME js.op = "end" PROVE conn'[js.to] # "none"
      BY <2>1, <3>2, CallType DEF TypeOK, CallsAreValid
    <3>3. \A d \in Conns : conn'[d] = "none" => d # c /\ conn[d] = "none"
      BY <2>1 DEF TypeOK
    <3> QED
      BY <2>1, <2>2, <3>1, <3>2, <3>3 DEF CallsAreValid, registries
  <2> QED
    BY <1>0, <2>3, <2>4, <2>5
<1>3. ASSUME NEW c \in Conns,
             \/ TryRecvEmpty(c) \/ ClientMessage(c) \/ ClientPing(c)
             \/ ClientLeaves(c) \/ IdleTimeout(c)
      PROVE IInv'
  <2>1. /\ conn[c] \in {"loop", "read"}
        /\ \E to \in {"read", "msg", "loop", "cleanup"} : conn' = [conn EXCEPT ![c] = to]
        /\ UNCHANGED <<registries, chan, js>>
    BY <1>3 DEF TryRecvEmpty, ClientMessage, ClientPing, ClientLeaves, IdleTimeout, Go
  <2> QED
    BY <1>0, <2>1, CallType
    DEF TypeOK, GoneIsForgotten, EndIsLast, CallsAreValid, registries
<1>4. ASSUME NEW c \in Conns, Cleanup(c) PROVE IInv'
  BY <1>0, <1>4, CallType
  DEF TypeOK, GoneIsForgotten, EndIsLast, CallsAreValid, Cleanup, Go
<1>5. ASSUME NEW c \in Conns, EventDone(c) PROVE IInv'
  <2>1. /\ js.op = "free" /\ UNCHANGED <<registries, js>>
        /\ conn[c] \in {"open", "msg", "bye"}
        /\ \/ conn[c] # "bye" /\ conn' = [conn EXCEPT ![c] = "loop"]
           \/ conn[c] = "bye" /\ conn' = [conn EXCEPT ![c] = "gone"]
    BY <1>5, CallType DEF EventDone, Go
  <2>2. \A d \in Conns : chan'[d] = chan[d] \/ chan'[d] = <<>>
    BY <1>5 DEF EventDone, TypeOK
  <2>3. GoneIsForgotten'
    BY <2>1 DEF TypeOK, GoneIsForgotten, registries
  <2>4. EndIsLast'
    BY <2>1, <2>2 DEF EndIsLast, registries
  <2>5. CallsAreValid'
    BY <2>1, <2>2 DEF TypeOK, CallsAreValid
  <2> QED
    BY <1>0, <2>3, <2>4, <2>5
<1>6. ASSUME NEW c \in Conns, Send(c) PROVE IInv'
  BY <1>0, <1>6
  DEF TypeOK, GoneIsForgotten, EndIsLast, CallsAreValid, Send, registries
<1>7. ASSUME NEW t \in Topics, Publish(t) PROVE IInv'
  BY <1>0, <1>7
  DEF TypeOK, GoneIsForgotten, EndIsLast, CallsAreValid, Publish, registries
<1>8. CASE SendPush
  <2>1. js.to \in Conns /\ js.msg \in Chunks /\ js.to \in stream_registry /\ js.msg # End
    BY <1>8, CallType, Messages DEF SendPush, CallsAreValid
  <2>2. /\ \A d \in Conns : d # js.to => chan'[d] = chan[d]
        /\ chan'[js.to][Len(chan[js.to]) + 1] = js.msg
        /\ \A i \in DOMAIN chan[js.to] : chan'[js.to][i] = chan[js.to][i]
        /\ DOMAIN chan'[js.to] = 1..(Len(chan[js.to]) + 1)
        /\ DOMAIN chan[js.to] = 1..Len(chan[js.to]) /\ Len(chan[js.to]) \in Nat
    BY <1>8, <2>1, Push DEF SendPush
  <2>3. \A i \in DOMAIN chan'[js.to] : chan'[js.to][i] # End
    BY <2>1, <2>2 DEF EndIsLast
  <2>4. EndIsLast'
    BY <1>8, <2>1, <2>2, <2>3 DEF EndIsLast, SendPush, registries
  <2>5. GoneIsForgotten'
    BY <1>8 DEF GoneIsForgotten, SendPush, registries
  <2>6. (js'.op = "send" => js'.to \in stream_registry) /\ js'.op # "end"
    BY <1>8, NextSendType DEF SendPush
  <2>7. conn[js.to] # "none"
    BY <2>1 DEF GoneIsForgotten
  <2>8. CallsAreValid'
    BY <1>8, <2>2, <2>6, <2>7 DEF CallsAreValid, SendPush, registries
  <2> QED
    BY <1>0, <2>4, <2>5, <2>8
<1>9. CASE EndPush
  <2>1. js.to \in Conns /\ js.to \notin stream_registry /\ conn[js.to] # "none"
        /\ \A i \in DOMAIN chan[js.to] : chan[js.to][i] # End
    BY <1>9, CallType DEF EndPush, CallsAreValid
  <2>2. /\ \A d \in Conns : d # js.to => chan'[d] = chan[d]
        /\ Len(chan'[js.to]) = Len(chan[js.to]) + 1
        /\ \A i \in DOMAIN chan[js.to] : chan'[js.to][i] = chan[js.to][i]
        /\ DOMAIN chan'[js.to] = 1..(Len(chan[js.to]) + 1)
        /\ DOMAIN chan[js.to] = 1..Len(chan[js.to]) /\ Len(chan[js.to]) \in Nat
    BY <1>9, <2>1, Push DEF EndPush
  <2>3. EndIsLast'
    BY <1>9, <2>1, <2>2 DEF EndIsLast, EndPush, registries
  <2>4. GoneIsForgotten'
    BY <1>9 DEF GoneIsForgotten, EndPush, registries
  <2>5. CallsAreValid'
    BY <1>9, <2>1, <2>2, CallType DEF CallsAreValid, EndPush, registries
  <2> QED
    BY <1>0, <2>3, <2>4, <2>5
<1>10. ASSUME NEW c \in Conns, StreamEnd(c) PROVE IInv'
  <2>1. GoneIsForgotten' /\ EndIsLast'
    BY <1>10 DEF GoneIsForgotten, EndIsLast, StreamEnd
  <2>2. js' = Free \/ (js' = [op |-> "end", to |-> c] /\ c \in stream_registry)
    BY <1>10 DEF StreamEnd
  <2>3. c \in stream_registry => \A i \in DOMAIN chan[c] : chan[c][i] # End
    BY DEF EndIsLast
  <2>4. CallsAreValid'
    BY <1>10, <2>2, <2>3, CallType DEF CallsAreValid, StreamEnd, Seen
  <2> QED
    BY <1>0, <2>1, <2>4
<1>11. ASSUME NEW c \in Conns, NEW t \in Topics, Subscribe(c, t) \/ Unsubscribe(c, t)
       PROVE  IInv'
  BY <1>0, <1>11 DEF GoneIsForgotten, EndIsLast, CallsAreValid, Subscribe, Unsubscribe
<1>12. CASE UNCHANGED vars
  BY <1>0, <1>12 DEF GoneIsForgotten, EndIsLast, CallsAreValid, vars, registries
<1> QED
  BY <1>1, <1>2, <1>3, <1>4, <1>5, <1>6, <1>7, <1>8, <1>9, <1>10, <1>11, <1>12
  DEF Next, TryRecv, Client, Call

(* The inductive invariant holds in every reachable state.                   *)
LEMMA Inductive == Spec => []IInv
<1>1. Init => IInv
  <2> SUFFICES ASSUME Init PROVE IInv
    OBVIOUS
  <2>1. TypeOK
    BY HubAssumption DEF Init, TypeOK
  <2> QED
    BY <2>1, CallType DEF Init, IInv, GoneIsForgotten, EndIsLast, CallsAreValid
<1> QED
  BY <1>1, StepPreserves, PTL DEF Spec

(* The types of the hub, and every outbound queue within its capacity        *)
(* (lib.rs:437-467, 1443-1461).                                              *)
THEOREM TypeCorrect == Spec => []TypeOK
<1>1. IInv => TypeOK
  BY DEF IInv
<1> QED
  BY <1>1, Inductive, PTL

(* Whoever comes first, the task's cleanup or ws.close() from JS, a          *)
(* connection that left its loop cannot be found by JS (lib.rs:561-571,      *)
(* 3178-3180).                                                               *)
THEOREM GoneConnectionsAreForgotten == Spec => []GoneIsForgotten
<1>1. IInv => GoneIsForgotten
  BY DEF IInv
<1> QED
  BY <1>1, Inductive, PTL

(* Nothing is ever queued behind a close, though a publish may be blocked    *)
(* half way through its subscribers (lib.rs:546-571, 619-632).               *)
THEOREM CloseIsLast == Spec => []EndIsLast
<1>1. IInv => EndIsLast
  BY DEF IInv
<1> QED
  BY <1>1, Inductive, PTL
=============================================================================
