-------------------------- MODULE MqttPubSubProofs --------------------------
(***************************************************************************)
(* Proof that MqttProtocol implements PubSub through the mapping of        *)
(* MqttPubSub, for any clients, any finite pool and any queue at least as  *)
(* long as the pool.                                                       *)
(***************************************************************************)
EXTENDS MqttPubSub, MqttProtocolProofs, SequenceTheorems

Subscribe(c) == [type |-> "SUBSCRIBE", client |-> c]

Finishing == pc \in {"callback", "free"}

\* A subscriber is being called back exactly between receivePacket and the
\* end of its callback.
InboundInv == pc = "deliver" <=> inbound # NoClient

\* A client has one SUBSCRIBE at most, and is in subscribers exactly from the
\* moment sendSubscribe is through with it.
SubscribersInv ==
  /\ \A s \in Slots, c \in Clients :
       messages[s] = Subscribe(c) /\ c \in subscribers => Finishing /\ s = inHand
  /\ \A s, t \in Slots, c \in Clients :
       messages[s] = Subscribe(c) /\ messages[t] = Subscribe(c) => s = t
  /\ Finishing /\ messages[inHand].type = "SUBSCRIBE"
       => messages[inHand].client \in subscribers
  /\ pc = "receiveTill" => messages[inHand].type = "SUBSCRIBE"

\* What the broker published on this connection is for clients subscribed on it.
PublishedInv ==
  \A i \in 1 .. Len(inbox) :
    inbox[i].type = "PUBLISH" => inbox[i].client \in brokerSubs

MapInv == AnswerInv /\ InboundInv /\ SubscribersInv /\ PublishedInv

-----------------------------------------------------------------------------
(* The mapping's invariant.                                                *)

\* What publish() and subscribe() do to the pool, the queue and nothing else.
LEMMA Enqueued ==
  ASSUME PoolInv, NEW request \in Requests, Enqueue(request)
  PROVE  /\ \E s \in Slots :
              /\ messages[s] = Free /\ s # inHand
              /\ \A i \in 1 .. Len(upstreamQueue) : upstreamQueue[i] # s
              /\ messages' = [messages EXCEPT ![s] = request]
              /\ upstreamQueue' = Append(upstreamQueue, s)
         /\ UNCHANGED <<pc, inHand, subscribers, messageOk, inbound, brokerSubs, inbox>>
<1>1. PICK s \in Slots :
        /\ messages[s] = Free
        /\ messages' = [messages EXCEPT ![s] = request]
        /\ upstreamQueue' = Append(upstreamQueue, s)
  BY QueueHasRoom DEF Enqueue, PoolInv
<1>2. s # inHand /\ \A i \in 1 .. Len(upstreamQueue) : upstreamQueue[i] # s
  BY <1>1 DEF PoolInv, PoolConserved
<1>3. UNCHANGED <<pc, inHand, subscribers, messageOk, inbound, brokerSubs, inbox>>
  BY DEF Enqueue, local, net
<1> QED
  BY <1>1, <1>2, <1>3

LEMMA InboundStep ==
  ASSUME TypeOK, InboundInv, [Next]_vars
  PROVE  InboundInv'
<1>1. CASE ReceivePublish
  BY <1>1, ConstantsAssumption DEF ReceivePublish, InboundInv, TypeOK
<1>2. CASE InvokeSubscriber \/ Reconstruct
  BY <1>2 DEF InvokeSubscriber, Reconstruct, InboundInv
<1>3. CASE UNCHANGED inbound /\ (pc' = "deliver" <=> pc = "deliver")
  BY <1>3 DEF InboundInv
<1>4. CASE ReceiveNothing \/ ReceivePingresp \/ TakeMessage \/ sendPublish \/ sendSubscribe
           \/ SkipPacket \/ ReceiveSuback \/ SubackTimeout \/ InvokeDone \/ FreeMessage
           \/ KeepAlive \/ connect \/ loop
  <2>1. UNCHANGED inbound /\ (pc' = "deliver" <=> pc = "deliver")
    BY <1>4 DEF ReceiveNothing, ReceivePingresp, TakeMessage, sendPublish, sendSubscribe,
       SkipPacket, ReceiveSuback, SubackTimeout, SubscribeFinished, InvokeDone, FreeMessage,
       KeepAlive, connect, loop, local
  <2> QED
    BY <2>1, <1>3
<1>5. CASE Environment \/ UNCHANGED vars
  <2>1. UNCHANGED inbound /\ UNCHANGED pc
    BY <1>5 DEF Environment, Tick, LinkDies, publish, subscribe, Enqueue, BrokerPublish,
       setPingPeriod, vars, local
  <2> QED
    BY <2>1, <1>3
<1> QED
  BY <1>1, <1>2, <1>4, <1>5 DEF Next, Dispatch

LEMMA PublishedStep ==
  ASSUME PoolInv, PublishedInv, [Next]_vars
  PROVE  PublishedInv'
<1>1. inbox \in Seq(Packets)
  BY DEF PoolInv, TypeOK
<1>2. ASSUME UNCHANGED <<inbox, brokerSubs>>
      PROVE  PublishedInv'
  BY <1>2 DEF PublishedInv
<1>3. ASSUME inbox # <<>>, inbox' = Tail(inbox), UNCHANGED brokerSubs
      PROVE  PublishedInv'
  <2>1. \A i \in 1 .. Len(inbox') : \E k \in 1 .. Len(inbox) : inbox'[i] = inbox[k]
    BY <1>1, <1>3, Consumed
  <2> QED
    BY <2>1, <1>3 DEF PublishedInv
<1>4. ASSUME NEW p \in Packets, p.type = "PUBLISH" => p.client \in brokerSubs,
             inbox' = Append(inbox, p), brokerSubs \subseteq brokerSubs'
      PROVE  PublishedInv'
  <2>1. \A i \in 1 .. Len(inbox') :
          inbox'[i] = p \/ \E k \in 1 .. Len(inbox) : inbox'[i] = inbox[k]
    BY <1>1, <1>4, Appended
  <2> QED
    BY <2>1, <1>4 DEF PublishedInv
<1>5. ASSUME connecting
      PROVE  PublishedInv'
  BY <1>5, ConnectingEffect DEF PublishedInv
<1>6. CASE ReceiveNothing \/ SubackTimeout
  <2>1. ReceiveFails /\ UNCHANGED brokerSubs
    BY <1>6 DEF ReceiveNothing, SubackTimeout
  <2> QED
    BY <2>1, <1>2, <1>3 DEF ReceiveFails
<1>7. CASE ReceivePublish \/ ReceivePingresp \/ SkipPacket \/ ReceiveSuback
  BY <1>7, <1>3 DEF ReceivePublish, ReceivePingresp, SkipPacket, ReceiveSuback
<1>8. CASE InvokeSubscriber \/ TakeMessage \/ sendPublish \/ InvokeDone \/ loop \/ Tick
           \/ LinkDies \/ (\E h \in Heartbeats : setPingPeriod(h))
           \/ (\E c \in Clients : publish(c) \/ subscribe(c)) \/ UNCHANGED vars
  BY <1>8, <1>2 DEF InvokeSubscriber, TakeMessage, sendPublish, InvokeDone, loop, Tick,
     LinkDies, setPingPeriod, publish, subscribe, Enqueue, vars, net
<1>9. CASE sendSubscribe
  <2>1. ASSUME NEW g \in BOOLEAN, inbox' = Append(inbox, [type |-> "SUBACK", granted |-> g]),
               brokerSubs \subseteq brokerSubs'
        PROVE  PublishedInv'
    BY <2>1, <1>4, PacketTypes
  <2> QED
    BY <1>9, <2>1, <1>2 DEF sendSubscribe
<1>10. CASE FreeMessage
  BY <1>10, <1>2, <1>5 DEF FreeMessage, handleError, net
<1>11. CASE KeepAlive
  <2>1. CASE PingAccepted
    BY <2>1, <1>2, <1>4, PacketTypes DEF PingAccepted
  <2>2. CASE PingNotSent \/ PingUnanswered
    BY <2>2, <1>5 DEF PingNotSent, PingUnanswered, handleError
  <2>3. CASE UNCHANGED <<alive, net>>
    BY <2>3, <1>2 DEF net
  <2> QED
    BY <1>11, <2>1, <2>2, <2>3 DEF KeepAlive, ping
<1>12. CASE connect
  BY <1>12, <1>5 DEF connect
<1>13. CASE Reconstruct
  BY <1>13 DEF Reconstruct, PublishedInv
<1>14. ASSUME NEW c \in Clients, BrokerPublish(c)
       PROVE  PublishedInv'
  <2> DEFINE p == [type |-> "PUBLISH", client |-> c]
  <2>1. p \in Packets /\ p.client \in brokerSubs /\ inbox' = Append(inbox, p)
    BY <1>14, PacketTypes DEF BrokerPublish
  <2> QED
    BY <1>14, <2>1, <1>4 DEF BrokerPublish
<1> QED
  BY <1>6, <1>7, <1>8, <1>9, <1>10, <1>11, <1>12, <1>13, <1>14
  DEF Next, Dispatch, Environment

\* A request counts as a SUBSCRIBE of its own client only.
LEMMA SubscribeIsOne ==
  ASSUME NEW request \in Requests
  PROVE  /\ request.client \in Clients
         /\ request.type = "SUBSCRIBE" <=> request = Subscribe(request.client)
         /\ \A c \in Clients : request = Subscribe(c)
              <=> request.type = "SUBSCRIBE" /\ request.client = c
<1>1. PICK type \in RequestTypes, client \in Clients :
        request = [type |-> type, client |-> client]
  BY DEF Requests
<1> QED
  BY <1>1 DEF Subscribe

LEMMA SubscribersEnqueue ==
  ASSUME PoolInv, SubscribersInv, NEW request \in Requests, Enqueue(request),
         \A c \in Clients : request = Subscribe(c) =>
           c \notin subscribers /\ \A s \in Slots : messages[s] # Subscribe(c)
  PROVE  SubscribersInv'
<1>1. /\ UNCHANGED <<pc, inHand, subscribers>>
      /\ \E s \in Slots : s # inHand /\ messages' = [messages EXCEPT ![s] = request]
  BY Enqueued
<1>2. PICK s \in Slots : s # inHand /\ messages' = [messages EXCEPT ![s] = request]
  BY <1>1
<1>3. \A t \in Slots : messages'[t] = IF t = s THEN request ELSE messages[t]
  BY <1>2 DEF PoolInv, TypeOK
<1>4. Finishing \/ pc = "receiveTill" => messages'[inHand] = messages[inHand]
  BY <1>2, <1>3, RequestInHand DEF Finishing
<1>5. \A t \in Slots, c \in Clients :
        messages'[t] = Subscribe(c) /\ c \in subscribers => Finishing /\ t = inHand
  BY <1>2, <1>3 DEF SubscribersInv
<1>6. \A t, u \in Slots, c \in Clients :
        messages'[t] = Subscribe(c) /\ messages'[u] = Subscribe(c) => t = u
  BY <1>2, <1>3 DEF SubscribersInv
<1> QED
  BY <1>1, <1>4, <1>5, <1>6 DEF SubscribersInv, Finishing

LEMMA SubscribersFinished ==
  ASSUME PoolInv, SubscribersInv, ReceiveSuback \/ SubackTimeout
  PROVE  SubscribersInv'
<1>1. /\ pc = "receiveTill" /\ pc' = "callback" /\ UNCHANGED <<messages, inHand>>
      /\ subscribers' = subscribers \cup {messages[inHand].client}
  BY DEF ReceiveSuback, SubackTimeout, SubscribeFinished, pool
<1>2. inHand \in Slots /\ messages[inHand] \in Requests
  BY <1>1, RequestInHand
<1>3. /\ messages[inHand].client \in Clients
      /\ messages[inHand] = Subscribe(messages[inHand].client)
  BY <1>1, <1>2, SubscribeIsOne DEF SubscribersInv
<1>4. ASSUME NEW s \in Slots, NEW c \in Clients, messages[s] = Subscribe(c),
             c \in subscribers'
      PROVE  s = inHand
  BY <1>1, <1>2, <1>3, <1>4 DEF SubscribersInv, Finishing
<1> QED
  BY <1>1, <1>2, <1>3, <1>4 DEF SubscribersInv, Finishing

LEMMA SubscribersFree ==
  ASSUME PoolInv, SubscribersInv, FreeMessage
  PROVE  SubscribersInv'
<1>1. /\ pc' = "keepAlive" /\ UNCHANGED subscribers
      /\ messages' = [messages EXCEPT ![inHand] = Free]
  BY DEF FreeMessage, local
<1>2. inHand \in Slots
  BY RequestInHand DEF FreeMessage
<1>3. \A t \in Slots : messages'[t] = IF t = inHand THEN Free ELSE messages[t]
  BY <1>1, <1>2 DEF PoolInv, TypeOK
<1>4. \A c \in Clients : Free # Subscribe(c)
  BY ConstantsAssumption DEF Subscribe, Requests, RequestTypes
<1> QED
  BY <1>1, <1>3, <1>4 DEF SubscribersInv, Finishing

LEMMA SubscribersStep ==
  ASSUME PoolInv, SubscribersInv, [Next]_vars
  PROVE  SubscribersInv'
<1>1. CASE UNCHANGED <<pc, messages, inHand, subscribers>>
  BY <1>1 DEF SubscribersInv, Finishing
<1>2. CASE UNCHANGED <<messages, subscribers>> /\ ~Finishing /\ ~Finishing'
           /\ pc' # "receiveTill"
  BY <1>2 DEF SubscribersInv
<1>3. CASE ReceiveNothing \/ ReceivePublish \/ InvokeSubscriber \/ ReceivePingresp
           \/ TakeMessage \/ KeepAlive \/ connect \/ loop
  <2>1. UNCHANGED <<messages, subscribers>> /\ ~Finishing /\ ~Finishing' /\ pc' # "receiveTill"
    BY <1>3 DEF ReceiveNothing, ReceivePublish, InvokeSubscriber, ReceivePingresp,
       TakeMessage, KeepAlive, connect, loop, Finishing, pool, local
  <2> QED
    BY <2>1, <1>2
<1>4. CASE sendPublish \/ sendSubscribe \/ SkipPacket
  BY <1>4 DEF sendPublish, sendSubscribe, SkipPacket, SubscribersInv, Finishing, pool, local
<1>5. CASE ReceiveSuback \/ SubackTimeout
  BY <1>5, SubscribersFinished
<1>6. CASE InvokeDone
  BY <1>6 DEF InvokeDone, SubscribersInv, Finishing, pool, local
<1>7. CASE FreeMessage
  BY <1>7, SubscribersFree
<1>8. CASE Reconstruct
  BY <1>8, ConstantsAssumption
  DEF Reconstruct, SubscribersInv, Finishing, Subscribe, Requests, RequestTypes
<1>9. ASSUME NEW c \in Clients, publish(c)
      PROVE  SubscribersInv'
  <2>1. [type |-> "PUBLISH", client |-> c] \in Requests
    BY DEF Requests, RequestTypes
  <2>2. \A d \in Clients : [type |-> "PUBLISH", client |-> c] # Subscribe(d)
    BY DEF Subscribe
  <2> QED
    BY <1>9, <2>1, <2>2, SubscribersEnqueue DEF publish
<1>10. ASSUME NEW c \in Clients, subscribe(c)
       PROVE  SubscribersInv'
  <2>1. Subscribe(c) \in Requests
    BY DEF Subscribe, Requests, RequestTypes
  <2>2. \A d \in Clients : Subscribe(c) = Subscribe(d) => c = d
    BY DEF Subscribe
  <2>3. /\ c \notin subscribers /\ Enqueue(Subscribe(c))
        /\ \A s \in Slots : messages[s] # Subscribe(c)
    BY <1>10 DEF subscribe, Subscribe
  <2> QED
    BY <2>1, <2>2, <2>3, SubscribersEnqueue
<1>11. CASE Tick \/ LinkDies \/ (\E h \in Heartbeats : setPingPeriod(h))
            \/ (\E c \in Clients : BrokerPublish(c)) \/ UNCHANGED vars
  BY <1>11, <1>1 DEF Tick, LinkDies, setPingPeriod, BrokerPublish, vars, pool, local, Finishing
<1> QED
  BY <1>3, <1>4, <1>5, <1>6, <1>7, <1>8, <1>9, <1>10, <1>11 DEF Next, Dispatch, Environment

LEMMA MapInit == Init => MapInv
<1> SUFFICES ASSUME Init PROVE MapInv
  OBVIOUS
<1>1. AnswerInv
  BY AnswerInit
<1>2. SubscribersInv
  BY ConstantsAssumption DEF Init, SubscribersInv, Finishing, Subscribe, Requests, RequestTypes
<1>3. InboundInv /\ PublishedInv
  BY DEF Init, InboundInv, PublishedInv
<1> QED
  BY <1>1, <1>2, <1>3 DEF MapInv

LEMMA MapStep ==
  ASSUME MapInv, [Next]_vars
  PROVE  MapInv'
BY AnswerStep, InboundStep, SubscribersStep, PublishedStep DEF MapInv, AnswerInv, PoolInv

-----------------------------------------------------------------------------
(* The mapped state, piece by piece.                                       *)

\* One request in hand at most, and it comes before those in the queue.
LEMMA MappedTyped ==
  ASSUME PoolInv
  PROVE  /\ InHandRequest = IF inHand \in Slots /\ pc # "free"
                            THEN <<messages[inHand]>> ELSE <<>>
         /\ InHandRequest \in Seq(Requests)
         /\ QueuedRequests \in Seq(Requests)
         /\ Len(QueuedRequests) = Len(upstreamQueue)
         /\ \A i \in 1 .. Len(upstreamQueue) :
              upstreamQueue[i] \in Slots /\ QueuedRequests[i] = messages[upstreamQueue[i]]
         /\ Unanswered \in Seq(Requests)
         /\ Len(Unanswered) = Len(InHandRequest) + Len(upstreamQueue)
<1>1. InHandRequest = IF inHand \in Slots /\ pc # "free" THEN <<messages[inHand]>> ELSE <<>>
  BY ConstantsAssumption DEF InHandRequest, PoolInv, TypeOK
<1>2. inHand \in Slots => messages[inHand] \in Requests
  BY RequestInHand DEF PoolInv, HandInv
<1>3. InHandRequest \in Seq(Requests)
  BY <1>1, <1>2
<1>4. /\ Len(upstreamQueue) \in Nat
      /\ \A i \in 1 .. Len(upstreamQueue) : upstreamQueue[i] \in Slots
  BY DEF PoolInv, TypeOK
<1>5. \A i \in 1 .. Len(upstreamQueue) : messages[upstreamQueue[i]] \in Requests
  BY <1>4 DEF PoolInv, PoolConserved, TypeOK
<1>6. QueuedRequests \in [1 .. Len(upstreamQueue) -> Requests]
  BY <1>5 DEF QueuedRequests
<1>7. QueuedRequests \in Seq(Requests) /\ Len(QueuedRequests) = Len(upstreamQueue)
  BY <1>4, <1>6
<1>8. \A i \in 1 .. Len(upstreamQueue) : QueuedRequests[i] = messages[upstreamQueue[i]]
  BY DEF QueuedRequests
<1>9. /\ Unanswered \in Seq(Requests)
      /\ Len(Unanswered) = Len(InHandRequest) + Len(upstreamQueue)
  <2>1. /\ InHandRequest \o QueuedRequests \in Seq(Requests)
        /\ Len(InHandRequest \o QueuedRequests) = Len(InHandRequest) + Len(QueuedRequests)
    BY <1>3, <1>7, ConcatProperties, Zenon
  <2> QED
    BY <1>7, <2>1 DEF Unanswered
<1> QED
  BY <1>1, <1>3, <1>4, <1>7, <1>8, <1>9

\* A free block is not counted: what is unanswered and the answered request
\* that still has its block leave room for one more.
LEMMA CapacityLeft ==
  ASSUME PoolInv, NEW s \in Slots, messages[s] = Free
  PROVE  Len(Unanswered) + Held < Cardinality(Slots)
<1> DEFINE n == Len(upstreamQueue)
           f == [i \in 1 .. n |-> upstreamQueue[i]]
           rest == (Slots \ {s}) \ {inHand}
<1>1. n \in Nat
  BY DEF PoolInv, TypeOK
<1>2. f \in Injection(1 .. n, rest)
  <2>1. \A i \in 1 .. n : upstreamQueue[i] \in rest
    BY DEF PoolInv, TypeOK, PoolConserved
  <2>2. f \in [1 .. n -> rest]
    BY <2>1
  <2>3. \A i, j \in 1 .. n : f[i] = f[j] => i = j
    BY DEF PoolInv, PoolConserved
  <2> QED
    BY <2>2, <2>3, Zenon DEF Injection, IsInjective
<1>3. /\ IsFiniteSet(Slots \ {s})
      /\ Cardinality(Slots \ {s}) = Cardinality(Slots) - 1
  BY FS_RemoveElement, ConstantsAssumption
<1>4. IsFiniteSet(rest) /\ Cardinality(rest) =
        IF inHand \in Slots \ {s} THEN Cardinality(Slots) - 2 ELSE Cardinality(Slots) - 1
  <2>1. Cardinality(Slots) \in Nat
    BY FS_CardinalityType, ConstantsAssumption
  <2>2. CASE inHand \in Slots \ {s}
    <3>1. IsFiniteSet(rest) /\ Cardinality(rest) = Cardinality(Slots \ {s}) - 1
      BY <1>3, <2>2, FS_RemoveElement
    <3> QED
      BY <1>3, <2>1, <2>2, <3>1
  <2>3. CASE inHand \notin Slots \ {s}
    <3>1. rest = Slots \ {s}
      BY <2>3
    <3> QED
      BY <1>3, <2>3, <3>1
  <2> QED
    BY <2>2, <2>3
<1>5. inHand \in Slots \ {s} <=> inHand \in Slots
  BY DEF PoolInv, PoolConserved
<1>6. n <= Cardinality(rest)
  BY <1>1, <1>2, <1>4, FS_Injection, FS_Interval
<1>7. Len(Unanswered) + Held = n + (IF inHand \in Slots THEN 1 ELSE 0)
  <2>1. Len(InHandRequest) = IF inHand \in Slots /\ pc # "free" THEN 1 ELSE 0
    BY MappedTyped
  <2>2. Held = IF pc = "free" THEN 1 ELSE 0
    BY DEF Held
  <2>3. pc = "free" => inHand \in Slots
    BY DEF PoolInv, HandInv
  <2> QED
    BY <1>1, <2>1, <2>2, <2>3, MappedTyped
<1>8. Cardinality(Slots) \in Nat
  BY FS_CardinalityType, ConstantsAssumption
<1> QED
  BY <1>1, <1>4, <1>5, <1>6, <1>7, <1>8

\* Outside of handleMessageQueue's work on a block no subscriber is pending.
LEMMA NobodyPending ==
  ASSUME pc \notin {"send", "receiveTill", "callback", "free"}
  PROVE  PendingSubscriber = {} /\ Listening = brokerSubs \cap subscribers /\ Held = 0
BY DEF PendingSubscriber, Listening, Held

\* The variables the unanswered requests depend on.
LEMMA UnansweredKept ==
  ASSUME UNCHANGED pool, pc = "free" <=> pc' = "free"
  PROVE  UNCHANGED <<Unanswered, Held>>
BY DEF Unanswered, InHandRequest, QueuedRequests, Held, pool

\* The variables the set of listeners depends on.
LEMMA ListeningKept ==
  ASSUME UNCHANGED <<pc, messageOk, inHand, brokerSubs, subscribers>>,
         pc \in {"send", "receiveTill", "callback", "free"}
           => messages'[inHand] = messages[inHand]
  PROVE  UNCHANGED Listening
BY DEF Listening, PendingSubscriber

-----------------------------------------------------------------------------
(* Each action maps to a step of PubSub, or to none.                       *)

LEMMA MapsEnqueue ==
  ASSUME MapInv, NEW request \in Requests, Enqueue(request)
  PROVE  PS!Accept(request)
<1> DEFINE q == upstreamQueue
           n == Len(upstreamQueue)
<1>1. PoolInv
  BY DEF MapInv, AnswerInv
<1>2. PICK s \in Slots :
        /\ messages[s] = Free /\ s # inHand
        /\ \A i \in 1 .. n : q[i] # s
        /\ messages' = [messages EXCEPT ![s] = request]
        /\ q' = Append(q, s)
  BY <1>1, Enqueued
<1>3. UNCHANGED <<pc, inHand, subscribers, messageOk, inbound, brokerSubs>>
  BY <1>1, Enqueued
<1>4. \A t \in Slots : messages'[t] = IF t = s THEN request ELSE messages[t]
  BY <1>1, <1>2 DEF PoolInv, TypeOK
<1>5. UNCHANGED InHandRequest
  BY <1>1, <1>2, <1>3, <1>4, ConstantsAssumption DEF InHandRequest, PoolInv, TypeOK
<1>6. /\ n \in Nat /\ Len(q') = n + 1 /\ q'[n + 1] = s
      /\ \A i \in 1 .. n : q'[i] = q[i] /\ q[i] \in Slots
  BY <1>1, <1>2 DEF PoolInv, TypeOK
<1>7. QueuedRequests' = Append(QueuedRequests, request)
  <2>1. /\ QueuedRequests \in Seq(Requests) /\ Len(QueuedRequests) = n
        /\ \A i \in 1 .. n : QueuedRequests[i] = messages[q[i]]
    BY <1>1, MappedTyped
  <2>2. QueuedRequests' = [i \in 1 .. n + 1 |-> messages'[q'[i]]]
    BY <1>6 DEF QueuedRequests
  <2>3. \A i \in 1 .. n : messages'[q'[i]] = QueuedRequests[i] /\ QueuedRequests[i] \in Requests
    BY <1>2, <1>4, <1>6, <2>1
  <2>4. messages'[q'[n + 1]] = request
    BY <1>4, <1>6
  <2>5. QueuedRequests' \in [1 .. n + 1 -> Requests]
    BY <1>6, <2>2, <2>3, <2>4
  <2>6. QueuedRequests' \in Seq(Requests) /\ Len(QueuedRequests') = n + 1
    BY <1>6, <2>5
  <2>7. /\ Append(QueuedRequests, request) \in Seq(Requests)
        /\ Len(Append(QueuedRequests, request)) = n + 1
        /\ \A i \in 1 .. n : Append(QueuedRequests, request)[i] = QueuedRequests[i]
        /\ Append(QueuedRequests, request)[n + 1] = request
    BY <2>1
  <2>8. \A i \in 1 .. n + 1 : QueuedRequests'[i] = Append(QueuedRequests, request)[i]
    BY <1>6, <2>2, <2>3, <2>4, <2>7
  <2> QED
    BY <2>6, <2>7, <2>8, SeqEqual
<1>8. Unanswered' = Append(Unanswered, request)
  <2>1. InHandRequest \in Seq(Requests) /\ QueuedRequests \in Seq(Requests)
    BY <1>1, MappedTyped
  <2>2. <<request>> \in Seq(Requests)
    OBVIOUS
  <2>3. Append(QueuedRequests, request) = QueuedRequests \o <<request>>
    BY <2>1, AppendIsConcat
  <2>4. Append(Unanswered, request) = Unanswered \o <<request>>
    BY <1>1, MappedTyped, AppendIsConcat
  <2>5. (InHandRequest \o QueuedRequests) \o <<request>>
          = InHandRequest \o (QueuedRequests \o <<request>>)
    BY <2>1, <2>2, ConcatAssociative
  <2> QED
    BY <1>5, <1>7, <2>3, <2>4, <2>5, Zenon DEF Unanswered
<1>9. UNCHANGED Listening
  <2>1. pc \in {"send", "receiveTill", "callback", "free"} => messages'[inHand] = messages[inHand]
    BY <1>1, <1>2, <1>4, RequestInHand
  <2> QED
    BY <1>3, <2>1, ListeningKept
<1>10. UNCHANGED Held
  BY <1>3 DEF Held
<1>11. Len(Unanswered) + Held < Cardinality(Slots)
  BY <1>1, <1>2, CapacityLeft
<1> QED
  BY <1>3, <1>8, <1>9, <1>10, <1>11 DEF PS!Accept

LEMMA FirstThenRest ==
  ASSUME NEW q \in Seq(Requests), q # <<>>
  PROVE  <<q[1]>> \o Tail(q) = q
<1> DEFINE h == <<q[1]>>
           t == Tail(q)
<1>1. /\ Len(q) \in Nat /\ Len(q) >= 1 /\ q[1] \in Requests
      /\ t \in Seq(Requests) /\ Len(t) = Len(q) - 1
      /\ \A i \in 1 .. Len(q) - 1 : t[i] = q[i + 1]
  OBVIOUS
<1>2. h \in Seq(Requests) /\ Len(h) = 1 /\ h[1] = q[1]
  BY <1>1
<1> HIDE DEF h, t
<1>3. /\ h \o t \in Seq(Requests) /\ Len(h \o t) = Len(h) + Len(t)
      /\ \A i \in 1 .. Len(h) + Len(t) :
           (h \o t)[i] = IF i <= Len(h) THEN h[i] ELSE t[i - Len(h)]
  <2>1. h \in Seq(Requests) /\ t \in Seq(Requests)
    BY <1>1, <1>2
  <2> QED
    BY <2>1, ConcatProperties, Zenon
<1>4. /\ Len(h \o t) = Len(q)
      /\ \A i \in 1 .. Len(q) : (h \o t)[i] = IF i <= 1 THEN h[i] ELSE t[i - 1]
  BY <1>1, <1>2, <1>3
<1>5. \A i \in 1 .. Len(q) : (h \o t)[i] = q[i]
  <2> TAKE i \in 1 .. Len(q)
  <2>1. CASE i = 1
    BY <1>2, <1>4, <2>1
  <2>2. CASE i # 1
    <3>1. ~(i <= 1) /\ i - 1 \in 1 .. Len(q) - 1 /\ (i - 1) + 1 = i
      BY <1>1, <2>2
    <3>2. (h \o t)[i] = t[i - 1]
      BY <1>4, <3>1
    <3> QED
      BY <1>1, <3>1, <3>2
  <2> QED
    BY <2>1, <2>2
<1>6. h \o t = q
  BY <1>3, <1>4, <1>5, SeqEqual, Zenon
<1> QED
  BY <1>6 DEF h, t

LEMMA MapsTake ==
  ASSUME MapInv, TakeMessage
  PROVE  UNCHANGED <<Unanswered, Held, Listening, inbound>>
<1> DEFINE q == upstreamQueue
           n == Len(upstreamQueue)
<1>1. /\ PoolInv /\ pc = "queue"
      /\ UNCHANGED <<messages, subscribers, inbound, brokerSubs>>
  BY DEF MapInv, AnswerInv, TakeMessage, local, net
<1>2. Held = 0 /\ Listening = brokerSubs \cap subscribers
  BY <1>1, NobodyPending
<1>3. CASE q = <<>>
  <2>1. pc' = "keepAlive" /\ UNCHANGED pool
    BY <1>1, <1>3 DEF TakeMessage, pool
  <2>2. UNCHANGED <<Unanswered, Held>>
    BY <1>1, <2>1, UnansweredKept
  <2>3. UNCHANGED Listening
    BY <1>1, <1>2, <2>1 DEF Listening, PendingSubscriber
  <2> QED
    BY <1>1, <2>2, <2>3
<1>4. CASE q # <<>>
  <2>1. inHand' = Head(q) /\ q' = Tail(q) /\ pc' = "send"
    BY <1>4 DEF TakeMessage
  <2>2. /\ n \in Nat /\ n >= 1 /\ Len(q') = n - 1 /\ inHand' = q[1]
        /\ \A i \in 1 .. n - 1 : q'[i] = q[i + 1]
    BY <1>1, <1>4, <2>1 DEF PoolInv, TypeOK
  <2>3. /\ QueuedRequests \in Seq(Requests) /\ Len(QueuedRequests) = n
        /\ \A i \in 1 .. n : q[i] \in Slots /\ QueuedRequests[i] = messages[q[i]]
    BY <1>1, MappedTyped
  <2>4. inHand' \in Slots /\ messages[inHand'] = QueuedRequests[1]
        /\ messages[inHand'] \in Requests
    BY <2>2, <2>3
  <2>5. InHandRequest = <<>>
    BY <1>1, MappedTyped DEF PoolInv, HandInv
  <2>6. InHandRequest' = <<QueuedRequests[1]>>
    BY <1>1, <2>1, <2>4, ConstantsAssumption DEF InHandRequest
  <2>7. QueuedRequests' = Tail(QueuedRequests)
    <3>1. \A i \in 1 .. n - 1 : messages'[q'[i]] = QueuedRequests[i + 1]
      BY <1>1, <2>2, <2>3
    <3>2. QueuedRequests' = [i \in 1 .. n - 1 |-> QueuedRequests[i + 1]]
      BY <2>2, <3>1 DEF QueuedRequests
    <3>3. /\ Tail(QueuedRequests) \in Seq(Requests) /\ Len(Tail(QueuedRequests)) = n - 1
          /\ \A i \in 1 .. n - 1 : Tail(QueuedRequests)[i] = QueuedRequests[i + 1]
      BY <2>2, <2>3
    <3>4. QueuedRequests' \in [1 .. n - 1 -> Requests] /\ n - 1 \in Nat
      BY <2>2, <2>3, <3>2
    <3>5. QueuedRequests' \in Seq(Requests) /\ Len(QueuedRequests') = n - 1
      BY <3>4
    <3>6. \A i \in 1 .. n - 1 : QueuedRequests'[i] = Tail(QueuedRequests)[i]
      BY <3>2, <3>3
    <3> QED
      BY <3>3, <3>5, <3>6, SeqEqual
  <2>8. Unanswered = QueuedRequests
    BY <2>3, <2>5, ConcatEmptySeq DEF Unanswered
  <2>9. Unanswered' = QueuedRequests
    <3>1. QueuedRequests # <<>>
      BY <2>2, <2>3
    <3>2. <<QueuedRequests[1]>> \o Tail(QueuedRequests) = QueuedRequests
      BY <2>3, <3>1, FirstThenRest
    <3> QED
      BY <2>6, <2>7, <3>2 DEF Unanswered
  <2>10. UNCHANGED Held
    BY <1>1, <2>1 DEF Held
  <2>11. UNCHANGED Listening
    <3>1. PendingSubscriber' \cap subscribers = {}
      <4>1. messages[inHand'].type = "SUBSCRIBE" => messages[inHand'].client \notin subscribers
        BY <1>1, <2>4, SubscribeIsOne DEF MapInv, SubscribersInv, Finishing
      <4> QED
        BY <1>1, <2>1, <4>1 DEF PendingSubscriber
    <3> QED
      BY <1>1, <1>2, <3>1 DEF Listening
  <2> QED
    BY <1>1, <2>8, <2>9, <2>10, <2>11
<1> QED
  BY <1>3, <1>4

LEMMA MapsSend ==
  ASSUME MapInv, sendPublish \/ sendSubscribe \/ SkipPacket \/ ReceiveSuback \/ SubackTimeout
  PROVE  UNCHANGED <<Unanswered, Held, Listening, inbound>>
<1> DEFINE c == messages[inHand].client
<1>1. /\ UNCHANGED pool /\ UNCHANGED inbound
      /\ pc \in {"send", "receiveTill"} /\ pc' \in {"receiveTill", "callback"}
  BY DEF sendPublish, sendSubscribe, SkipPacket, ReceiveSuback, SubackTimeout,
     SubscribeFinished, local
<1>2. UNCHANGED <<Unanswered, Held>>
  BY <1>1, UnansweredKept
<1>3. CASE sendPublish
  <2>1. PendingSubscriber = {} /\ PendingSubscriber' = {}
    BY <1>1, <1>3 DEF sendPublish, PendingSubscriber, pool
  <2> QED
    BY <1>1, <1>2, <1>3, <2>1 DEF sendPublish, Listening, net
<1>4. CASE sendSubscribe \/ SkipPacket \/ ReceiveSuback \/ SubackTimeout
  <2>1. messages[inHand].type = "SUBSCRIBE"
    BY <1>4 DEF MapInv, SubscribersInv, sendSubscribe, SkipPacket, ReceiveSuback, SubackTimeout
  <2>2. PendingSubscriber = {c} /\ PendingSubscriber' = {c}
    BY <1>1, <2>1 DEF PendingSubscriber, pool
  <2>3. /\ brokerSubs' \in {brokerSubs, brokerSubs \cup {c}}
        /\ subscribers' \in {subscribers, subscribers \cup {c}}
    BY <1>4 DEF sendSubscribe, SkipPacket, ReceiveSuback, SubackTimeout, SubscribeFinished, local
  <2>4. Listening' = Listening
    BY <2>2, <2>3 DEF Listening
  <2> QED
    BY <1>1, <1>2, <2>4
<1> QED
  BY <1>3, <1>4

LEMMA FirstOfConcat ==
  ASSUME NEW r \in Requests, NEW q \in Seq(Requests)
  PROVE  <<r>> \o q # <<>> /\ Head(<<r>> \o q) = r /\ Tail(<<r>> \o q) = q
OBVIOUS

LEMMA MapsDone ==
  ASSUME MapInv, InvokeDone
  PROVE  PS!Answer(messageOk)
<1> DEFINE r == messages[inHand]
<1>1. /\ PoolInv /\ pc = "callback" /\ pc' = "free"
      /\ UNCHANGED <<messages, upstreamQueue, inHand, messageOk, subscribers, inbound, brokerSubs>>
  BY DEF MapInv, AnswerInv, InvokeDone, pool, local, net
<1>2. inHand \in Slots /\ r \in Requests
  BY <1>1, RequestInHand
<1>3. InHandRequest = <<r>> /\ InHandRequest' = <<>>
  BY <1>1, <1>2, MappedTyped DEF InHandRequest
<1>4. QueuedRequests \in Seq(Requests) /\ UNCHANGED QueuedRequests
  BY <1>1, MappedTyped DEF QueuedRequests
<1>5. Unanswered = <<r>> \o QueuedRequests /\ Unanswered' = QueuedRequests
  BY <1>3, <1>4, ConcatEmptySeq DEF Unanswered
<1>6. Unanswered # <<>> /\ Head(Unanswered) = r /\ Tail(Unanswered) = Unanswered'
  BY <1>2, <1>4, <1>5, FirstOfConcat
<1>7. Held = 0 /\ Held' = 1
  BY <1>1 DEF Held
<1>8. inbound = NoClient
  BY <1>1 DEF MapInv, InboundInv
<1>9. Listening' = IF r.type = "SUBSCRIBE" /\ messageOk THEN Listening \cup {r.client}
                   ELSE Listening
  <2>1. CASE r.type # "SUBSCRIBE"
    BY <1>1, <2>1 DEF Listening, PendingSubscriber
  <2>2. CASE r.type = "SUBSCRIBE" /\ ~messageOk
    BY <1>1, <2>2 DEF Listening, PendingSubscriber
  <2>3. CASE r.type = "SUBSCRIBE" /\ messageOk
    <3>1. r.client \in brokerSubs
      BY <1>1, <2>3 DEF MapInv, AnswerInv, SubscribeAnswerTruthful
    <3>2. r.client \in subscribers
      BY <1>1, <2>3 DEF MapInv, SubscribersInv, Finishing
    <3>3. PendingSubscriber = {r.client} /\ PendingSubscriber' = {}
      BY <1>1, <2>3 DEF PendingSubscriber
    <3> QED
      BY <1>1, <2>3, <3>1, <3>2, <3>3 DEF Listening
  <2> QED
    BY <2>1, <2>2, <2>3
<1> QED
  BY <1>1, <1>6, <1>7, <1>8, <1>9 DEF PS!Answer

LEMMA MapsFree ==
  ASSUME MapInv, FreeMessage
  PROVE  PS!Release
<1>1. /\ PoolInv /\ pc = "free" /\ pc' = "keepAlive" /\ inHand' = NoSlot
      /\ messages' = [messages EXCEPT ![inHand] = Free]
      /\ UNCHANGED <<upstreamQueue, subscribers, inbound>>
  BY DEF MapInv, AnswerInv, FreeMessage, local
<1>2. inHand \in Slots
  BY <1>1, RequestInHand
<1>3. \A i \in 1 .. Len(upstreamQueue) : messages'[upstreamQueue[i]] = messages[upstreamQueue[i]]
  <2>1. \A t \in Slots : t # inHand => messages'[t] = messages[t]
    BY <1>1, <1>2 DEF PoolInv, TypeOK
  <2> QED
    BY <1>1, <2>1, MappedTyped DEF PoolInv, PoolConserved
<1>4. UNCHANGED Unanswered
  <2>1. UNCHANGED QueuedRequests
    BY <1>1, <1>3 DEF QueuedRequests
  <2>2. InHandRequest = <<>> /\ InHandRequest' = <<>>
    BY <1>1 DEF InHandRequest
  <2> QED
    BY <2>1, <2>2 DEF Unanswered
<1>5. Held = 1 /\ Held' = 0
  BY <1>1 DEF Held
<1>6. Listening' \in {Listening, {}}
  <2>1. PendingSubscriber' = {}
    BY <1>1 DEF PendingSubscriber
  <2>2. CASE messageOk
    BY <1>1, <2>1, <2>2 DEF FreeMessage, Listening, PendingSubscriber, net
  <2>3. CASE ~messageOk
    BY <2>3, ConnectingEffect DEF FreeMessage, handleError, Listening
  <2> QED
    BY <2>2, <2>3
<1> QED
  BY <1>1, <1>4, <1>5, <1>6 DEF PS!Release

\* ping() and connect() replace the connection while no request is in hand.
LEMMA MapsConnecting ==
  ASSUME MapInv, KeepAlive \/ connect
  PROVE  PS!Reconnect \/ UNCHANGED <<Unanswered, Held, Listening, inbound>>
<1>1. /\ pc \in {"keepAlive", "constructed"}
      /\ pc' \in {"receive", "ended", "connected", "refused"}
      /\ UNCHANGED pool /\ UNCHANGED <<subscribers, inbound>>
  BY DEF KeepAlive, connect, local
<1>2. UNCHANGED <<Unanswered, Held>>
  BY <1>1, UnansweredKept
<1>3. PendingSubscriber = {} /\ PendingSubscriber' = {} /\ Held = 0
  BY <1>1 DEF PendingSubscriber, Held
<1>4. inbound = NoClient
  BY <1>1 DEF MapInv, InboundInv
<1>5. connecting \/ UNCHANGED brokerSubs
  BY DEF KeepAlive, ping, PingAccepted, PingNotSent, PingUnanswered, handleError, connect, net
<1>6. Listening' = {} \/ UNCHANGED Listening
  BY <1>1, <1>3, <1>5, ConnectingEffect DEF Listening
<1> QED
  BY <1>1, <1>2, <1>3, <1>4, <1>6 DEF PS!Reconnect

LEMMA MapsPublish ==
  ASSUME MapInv, ReceivePublish
  PROVE  \/ \E c \in Clients : PS!DataArrives(c)
         \/ UNCHANGED <<Unanswered, Held, Listening, inbound>>
<1> DEFINE c == Head(inbox).client
<1>1. /\ PoolInv /\ pc = "receive" /\ pc' \in {"deliver", "queue"}
      /\ UNCHANGED pool /\ UNCHANGED <<subscribers, brokerSubs>>
      /\ inbox # <<>> /\ Head(inbox).type = "PUBLISH"
  BY DEF MapInv, AnswerInv, ReceivePublish
<1>2. UNCHANGED <<Unanswered, Held>>
  BY <1>1, UnansweredKept
<1>3. /\ PendingSubscriber = {} /\ PendingSubscriber' = {} /\ Held = 0
      /\ UNCHANGED Listening
  BY <1>1 DEF PendingSubscriber, Held, Listening
<1>4. inbound = NoClient
  BY <1>1 DEF MapInv, InboundInv
<1>5. CASE c \in subscribers
  <2>1. inbound' = c
    BY <1>5 DEF ReceivePublish
  <2>2. c \in Clients
    BY <1>1, <1>5 DEF PoolInv, TypeOK
  <2>3. c \in brokerSubs
    <3>1. Head(inbox) = inbox[1] /\ 1 \in 1 .. Len(inbox)
      BY <1>1 DEF PoolInv, TypeOK
    <3> QED
      BY <1>1, <3>1 DEF MapInv, PublishedInv
  <2>4. c \in Listening
    BY <1>3, <1>5, <2>3 DEF Listening
  <2>5. PS!DataArrives(c)
    BY <1>2, <1>3, <1>4, <2>1, <2>4 DEF PS!DataArrives
  <2> QED
    BY <2>2, <2>5
<1>6. CASE c \notin subscribers
  BY <1>2, <1>3, <1>6 DEF ReceivePublish
<1> QED
  BY <1>5, <1>6

LEMMA MapsDelivered ==
  ASSUME MapInv, InvokeSubscriber
  PROVE  PS!DataDelivered
<1>1. /\ pc = "deliver" /\ pc' = "queue" /\ UNCHANGED pool
      /\ UNCHANGED <<subscribers, brokerSubs>> /\ inbound' = NoClient
  BY DEF InvokeSubscriber, net
<1>2. UNCHANGED <<Unanswered, Held>>
  BY <1>1, UnansweredKept
<1>3. UNCHANGED Listening
  BY <1>1 DEF Listening, PendingSubscriber
<1>4. inbound # NoClient
  BY <1>1 DEF MapInv, InboundInv
<1> QED
  BY <1>1, <1>2, <1>3, <1>4 DEF PS!DataDelivered

LEMMA MapsClose ==
  ASSUME Reconstruct
  PROVE  PS!Close
<1>1. QueuedRequests' = <<>> /\ InHandRequest' = <<>>
  BY DEF Reconstruct, QueuedRequests, InHandRequest
<1>2. Unanswered' = <<>>
  BY <1>1 DEF Unanswered
<1> QED
  BY <1>2 DEF Reconstruct, PS!Close, Held, Listening

\* Steps that touch nothing the mapping looks at.
LEMMA MapsNothing ==
  ASSUME ReceiveNothing \/ ReceivePingresp \/ loop \/ Tick \/ LinkDies \/ UNCHANGED vars
           \/ (\E h \in Heartbeats : setPingPeriod(h))
           \/ (\E c \in Clients : BrokerPublish(c))
  PROVE  UNCHANGED <<Unanswered, Held, Listening, inbound>>
<1>1. UNCHANGED pool /\ UNCHANGED <<messageOk, subscribers, brokerSubs, inbound>>
  BY DEF ReceiveNothing, ReceivePingresp, loop, Tick, LinkDies, setPingPeriod, BrokerPublish,
     vars, local, net
<1>2. \/ pc \in {"receive", "connected"} /\ pc' \in {"receive", "queue"}
      \/ UNCHANGED pc
  BY DEF ReceiveNothing, ReceivePingresp, loop, Tick, LinkDies, setPingPeriod, BrokerPublish, vars
<1>3. UNCHANGED <<Unanswered, Held>>
  BY <1>1, <1>2, UnansweredKept
<1>4. UNCHANGED Listening
  BY <1>1, <1>2 DEF Listening, PendingSubscriber, pool
<1> QED
  BY <1>1, <1>3, <1>4

LEMMA MapsInit ==
  ASSUME Init
  PROVE  PS!PSInit
<1>1. QueuedRequests = <<>> /\ InHandRequest = <<>>
  BY DEF Init, QueuedRequests, InHandRequest
<1>2. Unanswered = <<>>
  BY <1>1 DEF Unanswered
<1> QED
  BY <1>2 DEF Init, PS!PSInit, Held, Listening

LEMMA MapsStep ==
  ASSUME MapInv, [Next]_vars
  PROVE  [PS!PSNext]_(PS!psVars)
<1> USE DEF PS!PSNext, PS!psVars
<1>1. CASE TakeMessage
  BY <1>1, MapsTake
<1>2. CASE sendPublish \/ sendSubscribe \/ SkipPacket \/ ReceiveSuback \/ SubackTimeout
  BY <1>2, MapsSend
<1>3. CASE InvokeDone
  <2>1. messageOk \in BOOLEAN
    BY DEF MapInv, AnswerInv, PoolInv, TypeOK
  <2> QED
    BY <1>3, <2>1, MapsDone
<1>4. CASE FreeMessage
  BY <1>4, MapsFree
<1>5. CASE KeepAlive \/ connect
  BY <1>5, MapsConnecting
<1>6. CASE ReceivePublish
  BY <1>6, MapsPublish
<1>7. CASE InvokeSubscriber
  BY <1>7, MapsDelivered
<1>8. CASE Reconstruct
  BY <1>8, MapsClose
<1>9. ASSUME NEW c \in Clients, publish(c) \/ subscribe(c)
      PROVE  \E request \in PS!Request : PS!Accept(request)
  <2>1. PICK request \in Requests : Enqueue(request)
    BY <1>9 DEF publish, subscribe, Requests, RequestTypes
  <2>2. request \in PS!Request
    BY DEF PS!Request, Requests, RequestTypes
  <2> QED
    BY <2>1, <2>2, MapsEnqueue
<1>10. CASE ReceiveNothing \/ ReceivePingresp \/ loop \/ Tick \/ LinkDies \/ UNCHANGED vars
             \/ (\E h \in Heartbeats : setPingPeriod(h))
             \/ (\E c \in Clients : BrokerPublish(c))
  BY <1>10, MapsNothing
<1> QED
  BY <1>1, <1>2, <1>3, <1>4, <1>5, <1>6, <1>7, <1>8, <1>9, <1>10
  DEF Next, Dispatch, Environment

\* The MQTT client implements the contract its clients rely on: every request it
\* accepts is answered once and in order, one callback at a time, within the
\* capacity of the pool, and data reaches only clients that were told their
\* subscription holds.
THEOREM PubSubImplemented == Spec => ImplementsPubSub
<1>1. Init => MapInv
  BY MapInit
<1>2. MapInv /\ [Next]_vars => MapInv'
  BY MapStep
<1>3. Init => PS!PSInit
  BY MapsInit
<1>4. MapInv /\ [Next]_vars => [PS!PSNext]_(PS!psVars)
  BY MapsStep
<1> QED
  BY <1>1, <1>2, <1>3, <1>4, PTL DEF Spec, ImplementsPubSub, PS!PSSpec
=============================================================================
