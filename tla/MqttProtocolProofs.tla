------------------------- MODULE MqttProtocolProofs -------------------------
(***************************************************************************)
(* Proofs about MqttProtocol for any clients, any finite pool and any      *)
(* queue at least as long as the pool.                                     *)
(***************************************************************************)
EXTENDS MqttProtocol, TLAPS, FiniteSetTheorems

\* handleMessageQueue has a block in hand exactly from taking it out of the
\* queue until it gives it back.
HandInv ==
  inHand \in Slots <=> pc \in {"send", "receiveTill", "callback", "free"}

PoolInv == TypeOK /\ HandInv /\ PoolConserved

-----------------------------------------------------------------------------
(* Facts about the parts of the actions.                                   *)

\* A block that is free leaves room in the queue, so that put() succeeds.
LEMMA QueueHasRoom ==
  ASSUME TypeOK, PoolConserved, NEW s \in Slots, messages[s] = Free
  PROVE  Len(upstreamQueue) < QueueSize
<1> DEFINE n == Len(upstreamQueue)
           f == [i \in 1 .. n |-> upstreamQueue[i]]
<1>1. n \in Nat
  BY DEF TypeOK
<1>2. f \in Injection(1 .. n, Slots \ {s})
  <2>1. \A i \in 1 .. n : upstreamQueue[i] \in Slots
    BY DEF TypeOK
  <2>2. \A i \in 1 .. n : upstreamQueue[i] # s
    BY DEF PoolConserved
  <2>3. f \in [1 .. n -> Slots \ {s}]
    BY <2>1, <2>2
  <2>4. \A i, j \in 1 .. n : f[i] = f[j] => i = j
    BY DEF PoolConserved
  <2> QED
    BY <2>3, <2>4, Zenon DEF Injection, IsInjective
<1>3. /\ IsFiniteSet(Slots \ {s})
      /\ Cardinality(Slots \ {s}) = Cardinality(Slots) - 1
  BY FS_RemoveElement, ConstantsAssumption
<1>4. Cardinality(1 .. n) <= Cardinality(Slots \ {s})
  BY <1>2, <1>3, FS_Injection
<1>5. Cardinality(1 .. n) = n
  BY <1>1, FS_Interval
<1>6. Cardinality(Slots) \in Nat
  BY FS_CardinalityType, ConstantsAssumption
<1> QED
  BY <1>1, <1>3, <1>4, <1>5, <1>6, ConstantsAssumption

\* The block in hand carries a request.
LEMMA RequestInHand ==
  ASSUME PoolInv, pc \in {"send", "receiveTill", "callback", "free"}
  PROVE  inHand \in Slots /\ messages[inHand] \in Requests
BY DEF PoolInv, HandInv, PoolConserved, TypeOK

\* What connecting() leaves behind.
LEMMA ConnectingEffect ==
  ASSUME connecting
  PROVE  /\ error' \in Statuses
         /\ link' \in {"down", "up", "dead"}
         /\ inbox' = <<>> \/ inbox' = <<[type |-> "CONNACK"]>>
         /\ brokerSubs' = {}
         /\ lastPing' = "none"
         /\ error' = "OK" => link' = "up"
BY DEF connecting, Statuses

LEMMA ConnectingTyped ==
  ASSUME connecting
  PROVE  /\ error' \in Statuses
         /\ link' \in {"down", "up", "dead"}
         /\ inbox' \in Seq(Packets)
         /\ brokerSubs' \subseteq Clients
         /\ lastPing' \in {"none", "asked", "answered"}
<1>1. <<[type |-> "CONNACK"]>> \in Seq(Packets)
  <2>1. [type |-> "CONNACK"] \in Packets
    BY DEF Packets
  <2> QED
    BY <2>1
<1>2. <<>> \in Seq(Packets)
  OBVIOUS
<1>3. inbox' \in Seq(Packets)
  BY <1>1, <1>2, ConnectingEffect, Zenon
<1> QED
  BY <1>3, ConnectingEffect

\* The channel stays a sequence of packets, whatever a receive consumes and
\* the broker adds.
LEMMA TailOfInbox ==
  ASSUME inbox \in Seq(Packets), inbox # <<>>
  PROVE  Tail(inbox) \in Seq(Packets) /\ Head(inbox) \in Packets
OBVIOUS

LEMMA AppendToInbox ==
  ASSUME inbox \in Seq(Packets), NEW p \in Packets
  PROVE  Append(inbox, p) \in Seq(Packets)
OBVIOUS

LEMMA PacketTypes ==
  /\ \A c \in Clients : [type |-> "PUBLISH", client |-> c] \in Packets
  /\ \A g \in BOOLEAN : [type |-> "SUBACK", granted |-> g] \in Packets
  /\ [type |-> "PINGRESP"] \in Packets
  /\ \A p \in Packets : p.type = "PUBLISH" => p.client \in Clients
  /\ \A p \in Packets : p.type = "SUBACK" => p.granted \in BOOLEAN
BY DEF Packets

-----------------------------------------------------------------------------
(* Type correctness.                                                       *)

LEMMA TypeInit == Init => TypeOK
<1> SUFFICES ASSUME Init PROVE TypeOK
  OBVIOUS
<1>1. /\ upstreamQueue \in Seq(Slots) /\ inbox \in Seq(Packets)
      /\ keepAliveTimer \in 0 .. MaxTime + 1
  BY ConstantsAssumption DEF Init
<1> QED
  BY <1>1 DEF Init, TypeOK, Locations, Statuses

\* A step of the dispatcher thread keeps the types.
LEMMA TypeDispatch ==
  ASSUME PoolInv, Dispatch
  PROVE  TypeOK'
<1> USE DEF TypeOK, Locations, DispatchSteps, pool, local, alive, net
<1> PoolInv /\ TypeOK
  BY DEF PoolInv
<1>1. CASE ReceiveNothing
  BY <1>1, TailOfInbox DEF ReceiveNothing, ReceiveFails
<1>2. CASE ReceivePublish
  BY <1>2, TailOfInbox, PacketTypes DEF ReceivePublish
<1>3. CASE InvokeSubscriber
  BY <1>3 DEF InvokeSubscriber
<1>4. CASE ReceivePingresp
  BY <1>4, TailOfInbox DEF ReceivePingresp
<1>5. CASE TakeMessage
  BY <1>5 DEF TakeMessage
<1>6. CASE sendPublish
  BY <1>6 DEF sendPublish, Transmit
<1>7. CASE sendSubscribe
  <2>1. inHand \in Slots /\ messages[inHand] \in Requests
    BY <1>7, RequestInHand DEF sendSubscribe
  <2>2. \A g \in BOOLEAN :
           Append(inbox, [type |-> "SUBACK", granted |-> g]) \in Seq(Packets)
    BY PacketTypes, AppendToInbox
  <2>3. inbox' \in Seq(Packets)
    BY <1>7, <2>2 DEF sendSubscribe
  <2>4. brokerSubs' \subseteq Clients
    BY <1>7, <2>1 DEF sendSubscribe, Requests
  <2> QED
    BY <1>7, <2>3, <2>4 DEF sendSubscribe, Transmit
<1>8. CASE SkipPacket
  BY <1>8, TailOfInbox DEF SkipPacket
<1>9. CASE ReceiveSuback
  <2>1. messages[inHand].client \in Clients
    BY <1>9, RequestInHand DEF ReceiveSuback, Requests
  <2>2. Tail(inbox) \in Seq(Packets) /\ Head(inbox).granted \in BOOLEAN
    BY <1>9, TailOfInbox, PacketTypes DEF ReceiveSuback
  <2>3. messageOk' \in BOOLEAN
    BY <1>9, <2>2 DEF ReceiveSuback, SubscribeFinished
  <2> QED
    BY <1>9, <2>1, <2>2, <2>3 DEF ReceiveSuback, SubscribeFinished
<1>10. CASE SubackTimeout
  <2>1. messages[inHand].client \in Clients
    BY <1>10, RequestInHand DEF SubackTimeout, Requests
  <2> QED
    BY <1>10, <2>1, TailOfInbox DEF SubackTimeout, SubscribeFinished, ReceiveFails
<1>11. CASE InvokeDone
  BY <1>11 DEF InvokeDone
<1>12. CASE FreeMessage
  <2>1. /\ error' \in Statuses /\ link' \in {"down", "up", "dead"}
        /\ inbox' \in Seq(Packets) /\ brokerSubs' \subseteq Clients
        /\ lastPing' \in {"none", "asked", "answered"}
    BY <1>12, ConnectingTyped DEF FreeMessage, handleError
  <2> QED
    BY <1>12, <2>1 DEF FreeMessage
<1>13. CASE KeepAlive
  <2>1. /\ error' \in Statuses /\ link' \in {"down", "up", "dead"}
        /\ inbox' \in Seq(Packets) /\ brokerSubs' \subseteq Clients
        /\ lastPing' \in {"none", "asked", "answered"}
        /\ pingSent' \in BOOLEAN /\ keepAliveTimer' \in 0 .. MaxTime + 1
    <3>1. CASE ping
      <4>1. CASE PingAccepted
        BY <4>1, PacketTypes, ConstantsAssumption DEF PingAccepted
      <4>2. CASE PingNotSent
        BY <4>2, ConnectingTyped DEF PingNotSent, handleError
      <4>3. CASE PingUnanswered
        BY <4>3, ConnectingTyped DEF PingUnanswered, handleError
      <4> QED
        BY <3>1, <4>1, <4>2, <4>3 DEF ping
    <3>2. CASE UNCHANGED <<alive, net>>
      BY <3>2
    <3> QED
      BY <1>13, <3>1, <3>2 DEF KeepAlive
  <2> QED
    BY <1>13, <2>1 DEF KeepAlive
<1> QED
  BY <1>1, <1>2, <1>3, <1>4, <1>5, <1>6, <1>7, <1>8, <1>9, <1>10, <1>11,
     <1>12, <1>13 DEF Dispatch

\* So does a step of another thread, of the broker or of the network.
LEMMA TypeOthers ==
  ASSUME PoolInv, connect \/ loop \/ Reconstruct \/ Environment
  PROVE  TypeOK'
<1> USE DEF TypeOK, Locations, DispatchSteps, pool, local, alive, net
<1> PoolInv /\ TypeOK
  BY DEF PoolInv
<1>1. CASE connect
  BY <1>1, ConnectingTyped DEF connect
<1>2. CASE loop
  BY <1>2 DEF loop
<1>3. CASE Reconstruct
  <2>1. /\ upstreamQueue' \in Seq(Slots) /\ inbox' \in Seq(Packets)
        /\ keepAliveTimer' \in 0 .. MaxTime + 1
    BY <1>3, ConstantsAssumption DEF Reconstruct
  <2> QED
    BY <1>3, <2>1 DEF Reconstruct, Statuses
<1>4. CASE Tick
  BY <1>4, ConstantsAssumption DEF Tick
<1>5. CASE LinkDies
  BY <1>5 DEF LinkDies
<1>6. ASSUME NEW request \in Requests, Enqueue(request)
      PROVE  TypeOK'
  BY <1>6 DEF Enqueue
<1>7. ASSUME NEW c \in Clients, publish(c) \/ subscribe(c) \/ BrokerPublish(c)
      PROVE  TypeOK'
  <2>1. CASE publish(c)
    BY <2>1, <1>6 DEF publish, Requests, RequestTypes
  <2>2. CASE subscribe(c)
    BY <2>2, <1>6 DEF subscribe, Requests, RequestTypes
  <2>3. CASE BrokerPublish(c)
    BY <2>3, PacketTypes DEF BrokerPublish
  <2> QED
    BY <1>7, <2>1, <2>2, <2>3
<1>8. ASSUME NEW h \in Heartbeats, setPingPeriod(h)
      PROVE  TypeOK'
  BY <1>8 DEF setPingPeriod
<1> QED
  BY <1>1, <1>2, <1>3, <1>4, <1>5, <1>7, <1>8 DEF Environment

-----------------------------------------------------------------------------
(* The pool and the queue.                                                 *)

\* Steps that leave the pool alone keep its invariant, if they neither take
\* nor give back the block in hand.
LEMMA PoolUnchanged ==
  ASSUME PoolInv, UNCHANGED pool,
         pc' \in {"send", "receiveTill", "callback", "free"}
           <=> pc \in {"send", "receiveTill", "callback", "free"}
  PROVE  HandInv' /\ PoolConserved'
BY DEF PoolInv, HandInv, PoolConserved, pool

LEMMA PoolEnqueue ==
  ASSUME PoolInv, NEW request \in Requests, Enqueue(request)
  PROVE  HandInv' /\ PoolConserved'
<1> PoolInv /\ TypeOK /\ HandInv /\ PoolConserved
  BY DEF PoolInv
<1>1. PICK s \in Slots :
        /\ messages[s] = Free
        /\ messages' = [messages EXCEPT ![s] = request]
        /\ upstreamQueue' = Append(upstreamQueue, s)
  BY QueueHasRoom DEF Enqueue
<1>2. UNCHANGED <<pc, inHand>>
  BY DEF Enqueue
<1>3. request # Free
  BY ConstantsAssumption
<1> DEFINE q == upstreamQueue
           n == Len(upstreamQueue)
<1>4. /\ n \in Nat
      /\ Len(q') = n + 1
      /\ \A i \in 1 .. n : q'[i] = q[i] /\ q[i] \in Slots
      /\ q'[n + 1] = s
  BY <1>1 DEF TypeOK
<1>5. /\ \A i \in 1 .. n : q[i] # s
      /\ s # inHand
  BY <1>1 DEF PoolConserved
<1>6. \A t \in Slots : messages'[t] = IF t = s THEN request ELSE messages[t]
  BY <1>1 DEF TypeOK
<1>7. HandInv'
  BY <1>2 DEF HandInv
<1>8. \A t \in Slots : messages'[t] # Free <=>
        t = inHand' \/ \E i \in 1 .. Len(q') : q'[i] = t
  <2> TAKE t \in Slots
  <2>1. CASE t = s
    BY <2>1, <1>3, <1>4, <1>6
  <2>2. CASE t # s
    <3>1. (\E i \in 1 .. n + 1 : q'[i] = t) <=> \E i \in 1 .. n : q[i] = t
      BY <2>2, <1>4
    <3> QED
      BY <2>2, <3>1, <1>2, <1>4, <1>6 DEF PoolConserved
  <2> QED
    BY <2>1, <2>2
<1>9. \A i, j \in 1 .. Len(q') : q'[i] = q'[j] => i = j
  BY <1>4, <1>5 DEF PoolConserved
<1>10. \A i \in 1 .. Len(q') : q'[i] # inHand'
  BY <1>2, <1>4, <1>5 DEF PoolConserved
<1> QED
  BY <1>7, <1>8, <1>9, <1>10 DEF PoolConserved

LEMMA PoolTake ==
  ASSUME PoolInv, TakeMessage
  PROVE  HandInv' /\ PoolConserved'
<1> PoolInv /\ TypeOK /\ HandInv /\ PoolConserved
  BY DEF PoolInv
<1>1. CASE upstreamQueue = <<>>
  BY <1>1, PoolUnchanged DEF TakeMessage, pool
<1>2. CASE upstreamQueue # <<>>
  <2> DEFINE q == upstreamQueue
             n == Len(upstreamQueue)
  <2>1. /\ inHand' = Head(q) /\ q' = Tail(q) /\ pc' = "send" /\ messages' = messages
    BY <1>2 DEF TakeMessage
  <2>2. /\ n \in Nat /\ n >= 1
        /\ Len(q') = n - 1
        /\ \A i \in 1 .. n - 1 : q'[i] = q[i + 1]
        /\ inHand' = q[1]
        /\ \A i \in 1 .. n : q[i] \in Slots
    BY <1>2, <2>1 DEF TypeOK
  <2>3. inHand \notin Slots
    BY <1>2 DEF TakeMessage, HandInv
  <2>4. HandInv'
    BY <2>1, <2>2 DEF HandInv
  <2>5. \A t \in Slots : (\E i \in 1 .. n : q[i] = t)
          <=> (t = q[1] \/ \E i \in 1 .. n - 1 : q'[i] = t)
    <3> TAKE t \in Slots
    <3>1. ASSUME NEW i \in 1 .. n, q[i] = t, t # q[1]
          PROVE  \E k \in 1 .. n - 1 : q'[k] = t
      <4>1. i - 1 \in 1 .. n - 1 /\ q'[i - 1] = q[i]
        BY <2>2, <3>1
      <4> QED
        BY <4>1, <3>1
    <3>2. ASSUME NEW i \in 1 .. n - 1, q'[i] = t
          PROVE  \E k \in 1 .. n : q[k] = t
      BY <2>2, <3>2
    <3>3. 1 \in 1 .. n
      BY <2>2
    <3> QED
      BY <3>1, <3>2, <3>3
  <2>6. \A t \in Slots : messages'[t] # Free <=>
          t = inHand' \/ \E i \in 1 .. Len(q') : q'[i] = t
    BY <2>1, <2>2, <2>3, <2>5 DEF PoolConserved
  <2>7. \A i, j \in 1 .. Len(q') : q'[i] = q'[j] => i = j
    BY <2>2 DEF PoolConserved
  <2>8. \A i \in 1 .. Len(q') : q'[i] # inHand'
    BY <2>2 DEF PoolConserved
  <2> QED
    BY <2>4, <2>6, <2>7, <2>8 DEF PoolConserved
<1> QED
  BY <1>1, <1>2

LEMMA PoolFree ==
  ASSUME PoolInv, FreeMessage
  PROVE  HandInv' /\ PoolConserved'
<1> PoolInv /\ TypeOK /\ HandInv /\ PoolConserved
  BY DEF PoolInv
<1>1. /\ inHand \in Slots /\ inHand' = NoSlot /\ NoSlot \notin Slots
      /\ messages' = [messages EXCEPT ![inHand] = Free]
      /\ upstreamQueue' = upstreamQueue /\ pc' = "keepAlive"
  BY ConstantsAssumption DEF FreeMessage, HandInv
<1>2. \A t \in Slots : messages'[t] = IF t = inHand THEN Free ELSE messages[t]
  BY <1>1 DEF TypeOK
<1>3. \A i \in 1 .. Len(upstreamQueue) : upstreamQueue[i] \in Slots
  BY DEF TypeOK
<1> QED
  BY <1>1, <1>2, <1>3 DEF HandInv, PoolConserved

LEMMA PoolReconstruct ==
  ASSUME Reconstruct
  PROVE  HandInv' /\ PoolConserved'
BY ConstantsAssumption DEF Reconstruct, HandInv, PoolConserved

LEMMA PoolStep ==
  ASSUME PoolInv, [Next]_vars
  PROVE  PoolInv'
<1> USE DEF PoolInv
<1>1. CASE Dispatch
  <2>1. CASE TakeMessage
    BY <1>1, <2>1, PoolTake, TypeDispatch
  <2>2. CASE FreeMessage
    BY <1>1, <2>2, PoolFree, TypeDispatch
  <2>3. CASE ~TakeMessage /\ ~FreeMessage
    <3>1. UNCHANGED pool /\ (pc' \in {"send", "receiveTill", "callback", "free"}
             <=> pc \in {"send", "receiveTill", "callback", "free"})
      BY <1>1, <2>3 DEF Dispatch, ReceiveNothing, ReceivePublish, InvokeSubscriber,
         ReceivePingresp, sendPublish, sendSubscribe, SkipPacket,
         ReceiveSuback, SubackTimeout, SubscribeFinished, InvokeDone, KeepAlive
    <3> QED
      BY <1>1, <3>1, PoolUnchanged, TypeDispatch
  <2> QED
    BY <2>1, <2>2, <2>3
<1>2. CASE Environment
  <2>1. ASSUME NEW c \in Clients, publish(c) \/ subscribe(c)
        PROVE  HandInv' /\ PoolConserved'
    BY <2>1, PoolEnqueue DEF publish, subscribe, Requests, RequestTypes
  <2>2. ASSUME UNCHANGED pool, UNCHANGED pc
        PROVE  HandInv' /\ PoolConserved'
    BY <2>2, PoolUnchanged
  <2>3. ASSUME Tick \/ LinkDies \/ (\E c \in Clients : BrokerPublish(c))
               \/ (\E h \in Heartbeats : setPingPeriod(h))
        PROVE  UNCHANGED pool /\ UNCHANGED pc
    BY <2>3 DEF Tick, LinkDies, BrokerPublish, setPingPeriod
  <2> QED
    BY <1>2, <2>1, <2>2, <2>3, TypeOthers DEF Environment
<1>3. CASE connect \/ loop
  <2>1. UNCHANGED pool /\ (pc' \in {"send", "receiveTill", "callback", "free"}
             <=> pc \in {"send", "receiveTill", "callback", "free"})
    BY <1>3 DEF connect, loop
  <2> QED
    BY <1>3, <2>1, PoolUnchanged, TypeOthers
<1>4. CASE Reconstruct
  BY <1>4, PoolReconstruct, TypeOthers
<1>5. CASE UNCHANGED vars
  <2>1. TypeOK'
    BY <1>5 DEF TypeOK, vars, pool, local, alive, net
  <2> QED
    BY <1>5, <2>1, PoolUnchanged DEF vars
<1> QED
  BY <1>1, <1>2, <1>3, <1>4, <1>5 DEF Next

\* The variables keep their types, for every client set, pool and queue the
\* assumptions allow.
THEOREM TypeCorrect == Spec => []TypeOK
<1>1. Init => PoolInv
  BY TypeInit, ConstantsAssumption DEF PoolInv, HandInv, PoolConserved, Init
<1>2. PoolInv /\ [Next]_vars => PoolInv'
  BY PoolStep
<1>3. PoolInv => TypeOK
  BY DEF PoolInv
<1> QED
  BY <1>1, <1>2, <1>3, PTL DEF Spec

\* No block of the pool leaks or is handed out twice, and the queue has room
\* for every block: what publish() and subscribe() accept, the dispatcher gets.
THEOREM PoolSafe == Spec => []PoolConserved
<1>1. Init => PoolInv
  BY TypeInit, ConstantsAssumption DEF PoolInv, HandInv, PoolConserved, Init
<1>2. PoolInv /\ [Next]_vars => PoolInv'
  BY PoolStep
<1>3. PoolInv => PoolConserved
  BY DEF PoolInv
<1> QED
  BY <1>1, <1>2, <1>3, PTL DEF Spec

-----------------------------------------------------------------------------
(* The channel from the broker.                                            *)

HasNone(q, type) == \A i \in 1 .. Len(q) : q[i].type # type

AtMostOne(q, type) ==
  \A i, j \in 1 .. Len(q) : q[i].type = type /\ q[j].type = type => i = j

LEMMA Consumed ==
  ASSUME NEW q \in Seq(Packets), q # <<>>, NEW type
  PROVE  /\ HasNone(q, type) => HasNone(Tail(q), type)
         /\ AtMostOne(q, type) => AtMostOne(Tail(q), type)
         /\ AtMostOne(q, type) /\ Head(q).type = type => HasNone(Tail(q), type)
         /\ \A i \in 1 .. Len(Tail(q)) : \E k \in 1 .. Len(q) : Tail(q)[i] = q[k]
<1>1. /\ Len(q) \in Nat /\ Len(q) >= 1 /\ Len(Tail(q)) = Len(q) - 1
      /\ Head(q) = q[1]
      /\ \A i \in 1 .. Len(q) - 1 : Tail(q)[i] = q[i + 1]
  OBVIOUS
<1>2. \A i \in 1 .. Len(q) - 1 : i + 1 \in 1 .. Len(q) /\ i + 1 # 1
  BY <1>1
<1> QED
  BY <1>1, <1>2 DEF HasNone, AtMostOne

LEMMA Appended ==
  ASSUME NEW q \in Seq(Packets), NEW p \in Packets, NEW type
  PROVE  /\ HasNone(q, type) /\ p.type # type => HasNone(Append(q, p), type)
         /\ HasNone(q, type) => AtMostOne(Append(q, p), type)
         /\ AtMostOne(q, type) /\ p.type # type => AtMostOne(Append(q, p), type)
         /\ \A i \in 1 .. Len(Append(q, p)) :
              Append(q, p)[i] = p \/ \E k \in 1 .. Len(q) : Append(q, p)[i] = q[k]
<1>1. /\ Len(q) \in Nat /\ Len(Append(q, p)) = Len(q) + 1
      /\ Append(q, p)[Len(q) + 1] = p
      /\ \A i \in 1 .. Len(q) : Append(q, p)[i] = q[i]
  OBVIOUS
<1>2. \A i \in 1 .. Len(q) + 1 : i = Len(q) + 1 \/ i \in 1 .. Len(q)
  BY <1>1
<1> QED
  BY <1>1, <1>2 DEF HasNone, AtMostOne

\* A fresh connection holds no answer to anything sent on an earlier one.
LEMMA FreshChannel ==
  ASSUME connecting
  PROVE  /\ HasNone(inbox', "SUBACK") /\ HasNone(inbox', "PINGRESP")
         /\ AtMostOne(inbox', "SUBACK") /\ AtMostOne(inbox', "PINGRESP")
<1>1. CASE inbox' = <<>>
  BY <1>1 DEF HasNone, AtMostOne
<1>2. CASE inbox' = <<[type |-> "CONNACK"]>>
  BY <1>2 DEF HasNone, AtMostOne
<1> QED
  BY <1>1, <1>2, ConnectingEffect

-----------------------------------------------------------------------------
(* At most one PINGRESP in flight.                                         *)

PingInv ==
  /\ AtMostOne(inbox, "PINGRESP")
  /\ HasNone(inbox, "PINGRESP") \/ (pingSent /\ lastPing = "asked")

LEMMA PingStep ==
  ASSUME TypeOK, PingInv, [Next]_vars
  PROVE  PingInv'
<1>1. inbox \in Seq(Packets)
  BY DEF TypeOK
<1>2. ASSUME UNCHANGED <<pingSent, inbox, lastPing>>
      PROVE  PingInv'
  BY <1>2 DEF PingInv
<1>3. ASSUME inbox # <<>>, inbox' = Tail(inbox), UNCHANGED <<pingSent, lastPing>>
      PROVE  PingInv'
  BY <1>1, <1>3, Consumed DEF PingInv
<1>4. ASSUME inbox # <<>>, inbox' = Tail(inbox), Head(inbox).type = "PINGRESP"
      PROVE  PingInv'
  BY <1>1, <1>4, Consumed DEF PingInv
<1>5. ASSUME NEW p \in Packets, p.type # "PINGRESP", inbox' = Append(inbox, p),
             UNCHANGED <<pingSent, lastPing>>
      PROVE  PingInv'
  BY <1>1, <1>5, Appended DEF PingInv
<1>6. ASSUME connecting
      PROVE  PingInv'
  BY <1>6, FreshChannel DEF PingInv
<1>7. CASE ReceiveNothing \/ SubackTimeout
  <2>1. ReceiveFails /\ UNCHANGED <<pingSent, lastPing>>
    BY <1>7 DEF ReceiveNothing, SubackTimeout, alive
  <2> QED
    BY <2>1, <1>2, <1>3 DEF ReceiveFails
<1>8. CASE ReceivePublish \/ ReceiveSuback
  BY <1>8, <1>3 DEF ReceivePublish, ReceiveSuback, alive
<1>9. CASE ReceivePingresp
  BY <1>9, <1>4 DEF ReceivePingresp
<1>10. CASE SkipPacket
  <2>1. CASE Head(inbox).type = "PINGRESP"
    BY <1>10, <2>1, <1>4 DEF SkipPacket
  <2>2. CASE Head(inbox).type # "PINGRESP"
    BY <1>10, <2>2, <1>3 DEF SkipPacket, alive
  <2> QED
    BY <2>1, <2>2
<1>11. CASE sendSubscribe
  <2>1. UNCHANGED <<pingSent, lastPing>>
    BY <1>11 DEF sendSubscribe, alive
  <2>2. ASSUME NEW g \in BOOLEAN, inbox' = Append(inbox, [type |-> "SUBACK", granted |-> g])
        PROVE  PingInv'
    BY <2>1, <2>2, <1>5, PacketTypes
  <2> QED
    BY <1>11, <2>1, <2>2, <1>2 DEF sendSubscribe
<1>12. CASE InvokeSubscriber \/ TakeMessage \/ sendPublish \/ InvokeDone \/ loop \/ Tick
            \/ LinkDies \/ (\E h \in Heartbeats : setPingPeriod(h))
            \/ (\E c \in Clients : publish(c) \/ subscribe(c)) \/ UNCHANGED vars
  BY <1>12, <1>2 DEF InvokeSubscriber, TakeMessage, sendPublish, InvokeDone, loop, Tick,
     LinkDies, setPingPeriod, publish, subscribe, Enqueue, vars, alive, net
<1>13. CASE FreeMessage
  BY <1>13, <1>2, <1>6 DEF FreeMessage, handleError, net
<1>14. CASE KeepAlive
  <2>1. CASE PingAccepted
    <3>1. HasNone(inbox, "PINGRESP") /\ pingSent' /\ lastPing' = "asked"
      BY <2>1 DEF PingAccepted, PingInv
    <3>2. AtMostOne(inbox', "PINGRESP")
      BY <1>1, <2>1, <3>1, Appended, PacketTypes DEF PingAccepted, PingInv
    <3> QED
      BY <3>1, <3>2 DEF PingInv
  <2>2. CASE PingNotSent \/ PingUnanswered
    BY <2>2, <1>6 DEF PingNotSent, PingUnanswered, handleError
  <2>3. CASE UNCHANGED <<alive, net>>
    BY <2>3, <1>2 DEF alive, net
  <2> QED
    BY <1>14, <2>1, <2>2, <2>3 DEF KeepAlive, ping
<1>15. CASE connect
  BY <1>15, <1>6 DEF connect
<1>16. CASE Reconstruct
  BY <1>16 DEF Reconstruct, PingInv, HasNone, AtMostOne
<1>17. ASSUME NEW c \in Clients, BrokerPublish(c)
       PROVE  PingInv'
  BY <1>17, <1>5, PacketTypes DEF BrokerPublish, alive
<1> QED
  BY <1>7, <1>8, <1>9, <1>10, <1>11, <1>12, <1>13, <1>14, <1>15, <1>16, <1>17
  DEF Next, Dispatch, Environment

\* PINGREQ is throttled: one answer at most is ever on its way, and pingSent
\* says so while it is.
THEOREM OnePing == Spec => []OnePingInFlight
<1>1. Init => PingInv
  BY DEF Init, PingInv, HasNone, AtMostOne
<1>2. TypeOK /\ PingInv /\ [Next]_vars => PingInv'
  BY PingStep
<1>3. PingInv => OnePingInFlight
  BY DEF PingInv, HasNone, AtMostOne, OnePingInFlight
<1> QED
  BY <1>1, <1>2, <1>3, TypeCorrect, PTL DEF Spec

-----------------------------------------------------------------------------
(* No work on a connection that is not accepted.                           *)

StatusInv ==
  /\ error = "OK" => link # "down"
  /\ pc \in (DispatchSteps \ {"keepAlive"}) \cup {"connected"} => error = "OK"
  /\ pc = "keepAlive" /\ error # "OK" => ~messageOk

LEMMA StatusStep ==
  ASSUME StatusInv, [Next]_vars
  PROVE  StatusInv'
<1> USE DEF StatusInv, DispatchSteps
<1>1. ASSUME UNCHANGED <<error, link>>, Running' \/ pc' = pc,
             pc \in (DispatchSteps \ {"keepAlive"}) \cup {"connected"}
      PROVE  StatusInv'
  BY <1>1 DEF Running
<1>2. CASE ReceiveNothing \/ ReceivePublish \/ InvokeSubscriber \/ ReceivePingresp
           \/ TakeMessage \/ sendPublish \/ sendSubscribe
           \/ SkipPacket \/ ReceiveSuback \/ SubackTimeout \/ InvokeDone \/ loop
  BY <1>2 DEF ReceiveNothing, ReceivePublish, InvokeSubscriber, ReceivePingresp,
     TakeMessage, sendPublish, sendSubscribe, SkipPacket, ReceiveSuback, SubackTimeout,
     SubscribeFinished, InvokeDone, loop, alive, net
<1>3. CASE FreeMessage
  <2>1. pc' = "keepAlive" /\ (messageOk' => error' = "OK")
    BY <1>3 DEF FreeMessage, local
  <2>2. error' = "OK" => link' # "down"
    BY <1>3, ConnectingEffect DEF FreeMessage, handleError, net
  <2> QED
    BY <2>1, <2>2
<1>4. CASE KeepAlive
  <2>1. pc' = IF error' = "OK" THEN "receive" ELSE "ended"
    BY <1>4 DEF KeepAlive
  <2>2. error' = "OK" => link' # "down"
    BY <1>4, ConnectingEffect DEF KeepAlive, ping, PingAccepted, PingNotSent, PingUnanswered,
       handleError, alive, net
  <2> QED
    BY <2>1, <2>2
<1>5. CASE connect
  <2>1. pc' = IF error' = "OK" THEN "connected" ELSE "refused"
    BY <1>5 DEF connect
  <2>2. error' = "OK" => link' # "down"
    BY <1>5, ConnectingEffect DEF connect
  <2> QED
    BY <2>1, <2>2
<1>6. CASE Reconstruct
  BY <1>6 DEF Reconstruct
<1>7. CASE LinkDies
  BY <1>7 DEF LinkDies, alive, local
<1>8. CASE UNCHANGED <<pc, error, link, messageOk>>
  BY <1>8
<1>9. ASSUME Tick \/ (\E h \in Heartbeats : setPingPeriod(h)) \/ UNCHANGED vars
             \/ (\E c \in Clients : publish(c) \/ subscribe(c) \/ BrokerPublish(c))
      PROVE  UNCHANGED <<pc, error, link, messageOk>>
  BY <1>9 DEF Tick, setPingPeriod, publish, subscribe, Enqueue, BrokerPublish, vars, alive, net,
     local
<1> QED
  BY <1>2, <1>3, <1>4, <1>5, <1>6, <1>7, <1>8, <1>9 DEF Next, Dispatch, Environment

\* dispatch() receives, takes messages and sends only on a connection the
\* broker accepted; without one it comes as far as the keep-alive check, and
\* only after its own message failed.
THEOREM WorkOnAcceptedConnection == Spec => []NoWorkOnBrokenConnection
<1>1. Init => StatusInv
  BY DEF Init, StatusInv, DispatchSteps
<1>2. StatusInv /\ [Next]_vars => StatusInv'
  BY StatusStep
<1>3. StatusInv => NoWorkOnBrokenConnection
  BY DEF StatusInv, DispatchSteps, NoWorkOnBrokenConnection, Running
<1> QED
  BY <1>1, <1>2, <1>3, PTL DEF Spec

\* What ping() leaves behind when the loop goes on although the connection was
\* not accepted before: a new connection, and the keep-alive had expired.
LEMMA PingAfterFailure ==
  ASSUME KeepAlive, error # "OK", pc' # "ended"
  PROVE  keepAliveTimer > keepAliveHeartbeat /\ error' = "OK" /\ lastPing' = "none"
<1>1. error' = "OK"
  BY DEF KeepAlive
<1>2. keepAliveTimer > keepAliveHeartbeat /\ ping
  BY <1>1 DEF KeepAlive, alive
<1>3. handleError
  BY <1>1, <1>2 DEF ping, PingAccepted, PingNotSent, PingUnanswered
<1> QED
  BY <1>1, <1>2, <1>3 DEF handleError, connecting

LEMMA OnlyKeepAliveLeaves ==
  ASSUME pc = "keepAlive", pc' # pc, [Next]_vars
  PROVE  KeepAlive
<1>1. ~UNCHANGED vars /\ ~Environment
  BY DEF vars, Environment, Tick, LinkDies, publish, subscribe, Enqueue, BrokerPublish, setPingPeriod
<1>2. ~connect /\ ~loop /\ ~Reconstruct
  BY DEF connect, loop, Reconstruct
<1>3. ~(\/ ReceiveNothing \/ ReceivePublish \/ InvokeSubscriber \/ ReceivePingresp
        \/ TakeMessage \/ sendPublish \/ sendSubscribe \/ SkipPacket
        \/ ReceiveSuback \/ SubackTimeout \/ InvokeDone \/ FreeMessage)
  BY DEF ReceiveNothing, ReceivePublish, InvokeSubscriber, ReceivePingresp, TakeMessage,
     sendPublish, sendSubscribe, SkipPacket, ReceiveSuback, SubackTimeout, InvokeDone, FreeMessage
<1> QED
  BY <1>1, <1>2, <1>3 DEF Next, Dispatch

\* A reconnection that failed ends the loop, unless the keep-alive expired too
\* and its own reconnection is accepted.
THEOREM FailureEnds == Spec => FailedReconnectionEnds
<1>1. [Next]_vars =>
        [pc = "keepAlive" /\ error # "OK" /\ pc' # pc =>
           \/ pc' = "ended"
           \/ keepAliveTimer > keepAliveHeartbeat /\ error' = "OK" /\ lastPing' = "none"]_vars
  BY OnlyKeepAliveLeaves, PingAfterFailure
<1> QED
  BY <1>1, PTL DEF Spec, FailedReconnectionEnds

-----------------------------------------------------------------------------
(* The answer to a SUBSCRIBE.                                              *)

\* A SUBACK is in flight only while its SUBSCRIBE is waited for, or was given
\* up, which the reconnection in FreeMessage follows.
SubackInv ==
  /\ AtMostOne(inbox, "SUBACK")
  /\ \/ HasNone(inbox, "SUBACK")
     \/ pc = "receiveTill"
     \/ pc \in {"callback", "free"} /\ ~messageOk
  /\ pc = "receiveTill" => \A i \in 1 .. Len(inbox) :
        inbox[i].type = "SUBACK" /\ inbox[i].granted
          => messages[inHand].client \in brokerSubs

AnswerInv == PoolInv /\ SubackInv /\ SubscribeAnswerTruthful

\* A receive outside of receiveTill meets no SUBACK and leaves none.
LEMMA AnswerOutside ==
  ASSUME AnswerInv, pc \notin {"receiveTill", "callback", "free"},
         pc' \notin {"receiveTill", "callback"},
         UNCHANGED inbox \/ (inbox # <<>> /\ inbox' = Tail(inbox))
           \/ (\E p \in Packets : p.type # "SUBACK" /\ inbox' = Append(inbox, p))
           \/ connecting \/ inbox' = <<>>
  PROVE  SubackInv' /\ SubscribeAnswerTruthful'
<1>1. inbox \in Seq(Packets) /\ HasNone(inbox, "SUBACK") /\ AtMostOne(inbox, "SUBACK")
  BY DEF AnswerInv, PoolInv, TypeOK, SubackInv
<1>2. HasNone(inbox', "SUBACK") /\ AtMostOne(inbox', "SUBACK")
  <2>1. CASE UNCHANGED inbox
    BY <2>1, <1>1
  <2>2. CASE inbox # <<>> /\ inbox' = Tail(inbox)
    BY <2>2, <1>1, Consumed
  <2>3. ASSUME NEW p \in Packets, p.type # "SUBACK", inbox' = Append(inbox, p)
        PROVE  HasNone(inbox', "SUBACK") /\ AtMostOne(inbox', "SUBACK")
    BY <2>3, <1>1, Appended
  <2>4. CASE connecting
    BY <2>4, FreshChannel
  <2>5. CASE inbox' = <<>>
    BY <2>5 DEF HasNone, AtMostOne
  <2> QED
    BY <2>1, <2>2, <2>3, <2>4, <2>5
<1> QED
  BY <1>2 DEF SubackInv, SubscribeAnswerTruthful

\* Other threads, the broker and the network do not touch the request in hand,
\* nor put a SUBACK into the channel.
LEMMA AnswerUndisturbed ==
  ASSUME AnswerInv, UNCHANGED <<pc, messageOk, inHand, brokerSubs>>,
         inHand \in Slots => messages'[inHand] = messages[inHand],
         UNCHANGED inbox
           \/ (\E p \in Packets : p.type # "SUBACK" /\ inbox' = Append(inbox, p))
  PROVE  SubackInv' /\ SubscribeAnswerTruthful'
<1>1. /\ inbox \in Seq(Packets) /\ HandInv /\ SubackInv /\ SubscribeAnswerTruthful
  BY DEF AnswerInv, PoolInv, TypeOK
<1>2. SubscribeAnswerTruthful'
  BY <1>1 DEF SubscribeAnswerTruthful, HandInv
<1>3. CASE UNCHANGED inbox
  BY <1>1, <1>2, <1>3 DEF SubackInv, HandInv
<1>4. ASSUME NEW p \in Packets, p.type # "SUBACK", inbox' = Append(inbox, p)
      PROVE  SubackInv'
  <2>1. /\ HasNone(inbox, "SUBACK") => HasNone(inbox', "SUBACK")
        /\ AtMostOne(inbox', "SUBACK")
        /\ \A i \in 1 .. Len(inbox') :
             inbox'[i] = p \/ \E k \in 1 .. Len(inbox) : inbox'[i] = inbox[k]
    BY <1>1, <1>4, Appended DEF SubackInv
  <2>2. \/ HasNone(inbox', "SUBACK") \/ pc' = "receiveTill"
        \/ pc' \in {"callback", "free"} /\ ~messageOk'
    BY <1>1, <2>1 DEF SubackInv
  <2>3. ASSUME pc' = "receiveTill", NEW i \in 1 .. Len(inbox'),
               inbox'[i].type = "SUBACK", inbox'[i].granted
        PROVE  messages'[inHand'].client \in brokerSubs'
    BY <1>1, <1>4, <2>1, <2>3 DEF SubackInv, HandInv
  <2> QED
    BY <2>1, <2>2, <2>3 DEF SubackInv
<1> QED
  BY <1>2, <1>3, <1>4

LEMMA AnswerSend ==
  ASSUME AnswerInv, sendPublish \/ sendSubscribe
  PROVE  SubackInv' /\ SubscribeAnswerTruthful'
<1>1. inbox \in Seq(Packets) /\ HasNone(inbox, "SUBACK") /\ AtMostOne(inbox, "SUBACK")
  BY DEF AnswerInv, PoolInv, TypeOK, SubackInv, sendPublish, sendSubscribe
<1>2. CASE sendPublish
  BY <1>1, <1>2 DEF sendPublish, SubackInv, SubscribeAnswerTruthful, pool, net
<1>3. CASE sendSubscribe
  <2>1. pc' = "receiveTill" /\ UNCHANGED <<messages, inHand>>
    BY <1>3 DEF sendSubscribe, pool
  <2>2. CASE UNCHANGED inbox
    BY <1>1, <2>1, <2>2 DEF SubackInv, SubscribeAnswerTruthful, HasNone
  <2>3. ASSUME NEW g \in BOOLEAN,
               inbox' = Append(inbox, [type |-> "SUBACK", granted |-> g]),
               g => messages[inHand].client \in brokerSubs'
        PROVE  SubackInv' /\ SubscribeAnswerTruthful'
    <3> DEFINE p == [type |-> "SUBACK", granted |-> g]
    <3>1. /\ AtMostOne(inbox', "SUBACK")
          /\ \A i \in 1 .. Len(inbox') :
               inbox'[i] = p \/ \E k \in 1 .. Len(inbox) : inbox'[i] = inbox[k]
      BY <1>1, <2>3, Appended, PacketTypes
    <3>2. ASSUME NEW i \in 1 .. Len(inbox'), inbox'[i].type = "SUBACK", inbox'[i].granted
          PROVE  messages'[inHand'].client \in brokerSubs'
      <4>1. inbox'[i] = p
        BY <1>1, <3>1, <3>2 DEF HasNone
      <4>2. g
        BY <3>2, <4>1
      <4> QED
        BY <2>1, <2>3, <4>2
    <3> QED
      BY <2>1, <3>1, <3>2 DEF SubackInv, SubscribeAnswerTruthful
  <2> QED
    BY <1>3, <2>2, <2>3 DEF sendSubscribe
<1> QED
  BY <1>2, <1>3

LEMMA AnswerWait ==
  ASSUME AnswerInv, SkipPacket \/ ReceiveSuback \/ SubackTimeout
  PROVE  SubackInv' /\ SubscribeAnswerTruthful'
<1>1. /\ inbox \in Seq(Packets) /\ AtMostOne(inbox, "SUBACK")
      /\ \A i \in 1 .. Len(inbox) : inbox[i].type = "SUBACK" /\ inbox[i].granted
            => messages[inHand].client \in brokerSubs
  BY DEF AnswerInv, PoolInv, TypeOK, SubackInv, SkipPacket, ReceiveSuback, SubackTimeout
<1>2. CASE SkipPacket
  <2>1. /\ pc' = "receiveTill" /\ inbox' = Tail(inbox) /\ inbox # <<>>
        /\ UNCHANGED <<messages, inHand, brokerSubs>>
    BY <1>2 DEF SkipPacket, pool
  <2>2. /\ AtMostOne(inbox', "SUBACK")
        /\ \A i \in 1 .. Len(inbox') : \E k \in 1 .. Len(inbox) : inbox'[i] = inbox[k]
    BY <1>1, <2>1, Consumed
  <2> QED
    BY <1>1, <2>1, <2>2 DEF SubackInv, SubscribeAnswerTruthful
<1>3. CASE ReceiveSuback
  <2>1. /\ pc' = "callback" /\ inbox' = Tail(inbox) /\ inbox # <<>>
        /\ Head(inbox).type = "SUBACK"
        /\ UNCHANGED <<messages, inHand, brokerSubs>>
    BY <1>3 DEF ReceiveSuback, SubscribeFinished, pool
  <2>2. HasNone(inbox', "SUBACK") /\ AtMostOne(inbox', "SUBACK")
    BY <1>1, <2>1, Consumed
  <2>3. messageOk' => Head(inbox).granted
    BY <1>3 DEF ReceiveSuback, SubscribeFinished
  <2>4. Head(inbox) = inbox[1] /\ 1 \in 1 .. Len(inbox)
    BY <1>1, <2>1
  <2>5. messageOk' => messages[inHand].client \in brokerSubs
    BY <1>1, <2>1, <2>3, <2>4
  <2> QED
    BY <2>1, <2>2, <2>5 DEF SubackInv, SubscribeAnswerTruthful
<1>4. CASE SubackTimeout
  <2>1. /\ pc' = "callback" /\ ~messageOk'
        /\ UNCHANGED inbox \/ (inbox # <<>> /\ inbox' = Tail(inbox))
    BY <1>4 DEF SubackTimeout, SubscribeFinished, ReceiveFails
  <2>2. AtMostOne(inbox', "SUBACK")
    BY <1>1, <2>1, Consumed
  <2> QED
    BY <2>1, <2>2 DEF SubackInv, SubscribeAnswerTruthful
<1> QED
  BY <1>2, <1>3, <1>4

LEMMA AnswerFinish ==
  ASSUME AnswerInv, InvokeDone \/ FreeMessage
  PROVE  SubackInv' /\ SubscribeAnswerTruthful'
<1>1. SubackInv
  BY DEF AnswerInv
<1>2. CASE InvokeDone
  BY <1>1, <1>2 DEF InvokeDone, SubackInv, SubscribeAnswerTruthful, HasNone, AtMostOne, local, net
<1>3. CASE FreeMessage
  <2>1. HasNone(inbox', "SUBACK") /\ AtMostOne(inbox', "SUBACK")
    <3>1. CASE messageOk
      BY <1>1, <1>3, <3>1 DEF FreeMessage, SubackInv, net
    <3>2. CASE ~messageOk
      BY <1>3, <3>2, FreshChannel DEF FreeMessage, handleError
    <3> QED
      BY <3>1, <3>2
  <2> QED
    BY <1>3, <2>1 DEF FreeMessage, SubackInv, SubscribeAnswerTruthful
<1> QED
  BY <1>2, <1>3

LEMMA AnswerEnvironment ==
  ASSUME AnswerInv, Environment \/ UNCHANGED vars
  PROVE  SubackInv' /\ SubscribeAnswerTruthful'
<1>1. ASSUME NEW c \in Clients, publish(c) \/ subscribe(c)
      PROVE  SubackInv' /\ SubscribeAnswerTruthful'
  <2>1. /\ UNCHANGED <<pc, messageOk, inHand, brokerSubs, inbox>>
        /\ \E s \in Slots, request \in Requests :
             messages[s] = Free /\ messages' = [messages EXCEPT ![s] = request]
    BY <1>1 DEF publish, subscribe, Enqueue, local, net, Requests, RequestTypes
  <2>2. inHand \in Slots => messages[inHand] # Free
    BY DEF AnswerInv, PoolInv, PoolConserved
  <2>3. inHand \in Slots => messages'[inHand] = messages[inHand]
    BY <2>1, <2>2 DEF AnswerInv, PoolInv, TypeOK
  <2> QED
    BY <2>1, <2>3, AnswerUndisturbed
<1>2. ASSUME NEW c \in Clients, BrokerPublish(c)
      PROVE  SubackInv' /\ SubscribeAnswerTruthful'
  <2> DEFINE p == [type |-> "PUBLISH", client |-> c]
  <2>1. /\ UNCHANGED <<pc, messageOk, inHand, brokerSubs, messages>>
        /\ p \in Packets /\ p.type # "SUBACK" /\ inbox' = Append(inbox, p)
    BY <1>2, PacketTypes DEF BrokerPublish, pool, local
  <2> QED
    BY <2>1, AnswerUndisturbed
<1>3. CASE Tick \/ LinkDies \/ (\E h \in Heartbeats : setPingPeriod(h)) \/ UNCHANGED vars
  <2>1. UNCHANGED <<pc, messageOk, inHand, brokerSubs, messages, inbox>>
    BY <1>3 DEF Tick, LinkDies, setPingPeriod, vars, pool, local, net
  <2> QED
    BY <2>1, AnswerUndisturbed
<1> QED
  BY <1>1, <1>2, <1>3 DEF Environment

LEMMA AnswerStep ==
  ASSUME AnswerInv, [Next]_vars
  PROVE  AnswerInv'
<1> USE DEF AnswerInv
<1>1. PoolInv'
  BY PoolStep
<1>2. CASE ReceiveNothing \/ ReceivePublish \/ InvokeSubscriber \/ ReceivePingresp
           \/ TakeMessage \/ connect \/ loop \/ Reconstruct
  <2>1. /\ pc \notin {"receiveTill", "callback", "free"}
        /\ pc' \notin {"receiveTill", "callback"}
        /\ \/ UNCHANGED inbox \/ (inbox # <<>> /\ inbox' = Tail(inbox))
           \/ connecting \/ inbox' = <<>>
    BY <1>2 DEF ReceiveNothing, ReceiveFails, ReceivePublish, InvokeSubscriber, ReceivePingresp,
       TakeMessage, connect, loop, Reconstruct, net
  <2> QED
    BY <1>1, <2>1, AnswerOutside
<1>3. CASE KeepAlive
  <2>1. pc = "keepAlive" /\ pc' \in {"receive", "ended"}
    BY <1>3 DEF KeepAlive
  <2>2. \/ UNCHANGED inbox
        \/ (\E p \in Packets : p.type # "SUBACK" /\ inbox' = Append(inbox, p))
        \/ connecting
    BY <1>3, PacketTypes DEF KeepAlive, ping, PingAccepted, PingNotSent, PingUnanswered,
       handleError, net
  <2> QED
    BY <1>1, <2>1, <2>2, AnswerOutside
<1>4. CASE sendPublish \/ sendSubscribe
  BY <1>1, <1>4, AnswerSend
<1>5. CASE SkipPacket \/ ReceiveSuback \/ SubackTimeout
  BY <1>1, <1>5, AnswerWait
<1>6. CASE InvokeDone \/ FreeMessage
  BY <1>1, <1>6, AnswerFinish
<1>7. CASE Environment \/ UNCHANGED vars
  BY <1>1, <1>7, AnswerEnvironment
<1> QED
  BY <1>2, <1>3, <1>4, <1>5, <1>6, <1>7 DEF Next, Dispatch

LEMMA AnswerInit == Init => AnswerInv
BY TypeInit, ConstantsAssumption
DEF AnswerInv, PoolInv, HandInv, PoolConserved, SubackInv, SubscribeAnswerTruthful,
    HasNone, AtMostOne, Init

\* A client that is told its subscription was accepted is subscribed at the
\* broker, on the connection in use.
THEOREM AnswerTruthful == Spec => []SubscribeAnswerTruthful
<1>1. Init => AnswerInv
  BY AnswerInit
<1>2. AnswerInv /\ [Next]_vars => AnswerInv'
  BY AnswerStep
<1>3. AnswerInv => SubscribeAnswerTruthful
  BY DEF AnswerInv
<1> QED
  BY <1>1, <1>2, <1>3, PTL DEF Spec

-----------------------------------------------------------------------------
(* What dispatch() receives.                                               *)

\* A CONNACK that came too late belongs to a connection that was given up.
ConnackInv == error = "OK" => HasNone(inbox, "CONNACK")

LEMMA ConnackStep ==
  ASSUME TypeOK, ConnackInv, [Next]_vars
  PROVE  ConnackInv'
<1>1. inbox \in Seq(Packets)
  BY DEF TypeOK
<1>2. ASSUME UNCHANGED <<error, inbox>>
      PROVE  ConnackInv'
  BY <1>2 DEF ConnackInv
<1>3. ASSUME inbox # <<>>, inbox' = Tail(inbox), UNCHANGED error
      PROVE  ConnackInv'
  BY <1>1, <1>3, Consumed DEF ConnackInv
<1>4. ASSUME NEW p \in Packets, p.type # "CONNACK", inbox' = Append(inbox, p),
             UNCHANGED error
      PROVE  ConnackInv'
  BY <1>1, <1>4, Appended DEF ConnackInv
<1>5. ASSUME connecting
      PROVE  ConnackInv'
  BY <1>5 DEF connecting, ConnackInv, HasNone
<1>6. CASE ReceiveNothing \/ SubackTimeout
  <2>1. ReceiveFails /\ UNCHANGED error
    BY <1>6 DEF ReceiveNothing, SubackTimeout, alive
  <2> QED
    BY <2>1, <1>2, <1>3 DEF ReceiveFails
<1>7. CASE ReceivePublish \/ ReceivePingresp \/ SkipPacket \/ ReceiveSuback
  BY <1>7, <1>3 DEF ReceivePublish, ReceivePingresp, SkipPacket, ReceiveSuback, alive
<1>8. CASE InvokeSubscriber \/ TakeMessage \/ sendPublish \/ InvokeDone \/ loop \/ Tick
           \/ LinkDies \/ (\E h \in Heartbeats : setPingPeriod(h))
           \/ (\E c \in Clients : publish(c) \/ subscribe(c)) \/ UNCHANGED vars
  BY <1>8, <1>2 DEF InvokeSubscriber, TakeMessage, sendPublish, InvokeDone, loop, Tick,
     LinkDies, setPingPeriod, publish, subscribe, Enqueue, vars, alive, net
<1>9. CASE sendSubscribe
  <2>1. UNCHANGED error
    BY <1>9 DEF sendSubscribe, alive
  <2>2. ASSUME NEW g \in BOOLEAN, inbox' = Append(inbox, [type |-> "SUBACK", granted |-> g])
        PROVE  ConnackInv'
    BY <2>1, <2>2, <1>4, PacketTypes
  <2> QED
    BY <1>9, <2>1, <2>2, <1>2 DEF sendSubscribe
<1>10. CASE FreeMessage
  BY <1>10, <1>2, <1>5 DEF FreeMessage, handleError, net
<1>11. CASE KeepAlive
  <2>1. CASE PingAccepted
    BY <2>1, <1>2, <1>4, PacketTypes DEF PingAccepted
  <2>2. CASE PingNotSent \/ PingUnanswered
    BY <2>2, <1>5 DEF PingNotSent, PingUnanswered, handleError
  <2>3. CASE UNCHANGED <<alive, net>>
    BY <2>3, <1>2 DEF alive, net
  <2> QED
    BY <1>11, <2>1, <2>2, <2>3 DEF KeepAlive, ping
<1>12. CASE connect
  BY <1>12, <1>5 DEF connect
<1>13. CASE Reconstruct
  BY <1>13 DEF Reconstruct, ConnackInv
<1>14. ASSUME NEW c \in Clients, BrokerPublish(c)
       PROVE  ConnackInv'
  BY <1>14, <1>4, PacketTypes DEF BrokerPublish, alive
<1> QED
  BY <1>6, <1>7, <1>8, <1>9, <1>10, <1>11, <1>12, <1>13, <1>14
  DEF Next, Dispatch, Environment

\* Neither a SUBACK nor a CONNACK is in the channel when dispatch() receives:
\* the two cases of its switch that ignore one are never taken.
THEOREM AnswersAwaited == Spec => []AnswersOnlyWhereAwaited
<1>1. Init => AnswerInv /\ StatusInv /\ ConnackInv
  <2>1. Init => AnswerInv
    BY AnswerInit
  <2>2. Init => StatusInv /\ ConnackInv
    BY DEF Init, StatusInv, ConnackInv, DispatchSteps
  <2> QED
    BY <2>1, <2>2
<1>2. AnswerInv /\ StatusInv /\ ConnackInv /\ [Next]_vars
        => (AnswerInv /\ StatusInv /\ ConnackInv)'
  BY AnswerStep, StatusStep, ConnackStep DEF AnswerInv, PoolInv
<1>3. AnswerInv /\ StatusInv /\ ConnackInv => AnswersOnlyWhereAwaited
  BY DEF AnswerInv, SubackInv, StatusInv, ConnackInv, AnswersOnlyWhereAwaited, HasNone,
     DispatchSteps
<1> QED
  BY <1>1, <1>2, <1>3, PTL DEF Spec
=============================================================================
