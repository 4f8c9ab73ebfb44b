---------------------------- MODULE MqttProtocol ----------------------------
(***************************************************************************)
(* The MQTT client of the board (mqttprotocol.cpp): the message pool and   *)
(* upstream queue its clients fill, the dispatcher thread that drains      *)
(* them, the keep-alive ping and the reconnection after an error.  The     *)
(* broker and the TLS link are the environment: packets towards the board  *)
(* are an ordered channel that any receive may time out on.                *)
(***************************************************************************)
EXTENDS Naturals, Sequences, FiniteSets

CONSTANTS
  Clients,     \* resources that publish and subscribe, each on its own topic
  NoClient,
  Slots,       \* blocks of the pool `messages` (64 in mqttprotocol.h)
  NoSlot,
  Free,        \* content of a block that is not allocated
  QueueSize,   \* capacity of `upstreamQueue` (64 in mqttprotocol.h)
  Heartbeats,  \* values setPingPeriod may be given, in ticks
  MaxTime,     \* bound: keepAliveTimer saturates here
  MaxInbox     \* bound: the broker publishes only below this many packets

RequestTypes == {"PUBLISH", "SUBSCRIBE"}
Requests == [type : RequestTypes, client : Clients]

ASSUME ConstantsAssumption ==
  /\ IsFiniteSet(Slots) /\ NoSlot \notin Slots
  /\ NoClient \notin Clients
  /\ Free \notin Requests
  /\ QueueSize \in Nat /\ Cardinality(Slots) <= QueueSize
  /\ MaxTime \in Nat /\ Heartbeats \subseteq 0 .. MaxTime /\ Heartbeats # {}
  /\ MaxInbox \in Nat

Statuses == {"OK", "NOT_CONNECTED", "TRANSPORT_LAYER_FAILURE",
             "TRANSPORT_LAYER_SEND_FAILURE", "CONNACK_NOT_RECEIVED"}

Packets == [type : {"PUBLISH"}, client : Clients]
           \cup [type : {"SUBACK"}, granted : BOOLEAN]
           \cup [type : {"PINGRESP", "CONNACK"}]

(* Where the protocol object stands: before connect(), after a connect()   *)
(* that failed, between connect() and loop(), in one of the steps of       *)
(* dispatch(), or after dispatch() returned.                               *)
DispatchSteps == {"receive", "deliver", "queue", "send", "receiveTill",
                  "callback", "free", "keepAlive"}
Locations == {"constructed", "refused", "connected", "ended"} \cup DispatchSteps

VARIABLES
  pc,
  error, pingSent, keepAliveTimer, keepAliveHeartbeat,
  messages, upstreamQueue, subscribers,
  inHand,     \* block handleMessageQueue is working on
  messageOk,  \* result of the packet being sent
  inbound,    \* subscriber whose callback is about to be invoked
  link,       \* the transport: "down", "up", or "dead" without the board knowing
  inbox,      \* packets in flight towards the board on this connection
  brokerSubs, \* clients the broker has subscribed on this connection
  lastPing    \* fate of the last PINGREQ sent on this connection

pool  == <<messages, upstreamQueue, inHand>>
local == <<subscribers, messageOk, inbound>>
alive == <<error, pingSent, keepAliveTimer>>
net   == <<link, inbox, brokerSubs, lastPing>>
vars  == <<pc, alive, keepAliveHeartbeat, pool, local, net>>

TypeOK ==
  /\ pc \in Locations
  /\ error \in Statuses
  /\ pingSent \in BOOLEAN
  /\ keepAliveTimer \in 0 .. MaxTime + 1
  /\ keepAliveHeartbeat \in Heartbeats
  /\ messages \in [Slots -> Requests \cup {Free}]
  /\ upstreamQueue \in Seq(Slots)
  /\ subscribers \subseteq Clients
  /\ inHand \in Slots \cup {NoSlot}
  /\ messageOk \in BOOLEAN
  /\ inbound \in Clients \cup {NoClient}
  /\ link \in {"down", "up", "dead"}
  /\ inbox \in Seq(Packets)
  /\ brokerSubs \subseteq Clients
  /\ lastPing \in {"none", "asked", "answered"}

Init ==
  /\ pc = "constructed"
  /\ error = "NOT_CONNECTED"
  /\ pingSent = FALSE
  /\ keepAliveTimer = 0
  /\ keepAliveHeartbeat \in Heartbeats
  /\ messages = [s \in Slots |-> Free]
  /\ upstreamQueue = <<>>
  /\ subscribers = {}
  /\ inHand = NoSlot
  /\ messageOk = TRUE
  /\ inbound = NoClient
  /\ link = "down"
  /\ inbox = <<>>
  /\ brokerSubs = {}
  /\ lastPing = "none"

Running == pc \in DispatchSteps
InUse == Running \/ pc \in {"connected", "ended"}

-----------------------------------------------------------------------------
(* The transport and the broker, as the calls of sendPacket and            *)
(* receivePacket meet them.                                                *)

\* sendPacket(): ok is what it returns, arrives whether the broker gets the
\* packet.  A live link loses nothing it accepted; a dead one may accept.
Transmit(ok, arrives) ==
  /\ ok \in BOOLEAN /\ arrives \in BOOLEAN
  /\ arrives => link = "up"
  /\ ok /\ link = "up" => arrives
  /\ link = "down" => ~ok

\* receivePacket() failing: nothing came before the time-out, or a packet was
\* read in part and is lost.
ReceiveFails == inbox' = inbox \/ (inbox # <<>> /\ inbox' = Tail(inbox))

\* connecting(): a fresh transport connection, CONNECT, and the wait for
\* CONNACK.  The broker starts every connection without subscriptions.
connecting ==
  /\ brokerSubs' = {}
  /\ lastPing' = "none"
  /\ \/ error' = "TRANSPORT_LAYER_FAILURE" /\ link' = "down" /\ inbox' = <<>>
     \/ error' = "TRANSPORT_LAYER_SEND_FAILURE" /\ link' = "dead" /\ inbox' = <<>>
     \/ error' = "CONNACK_NOT_RECEIVED" /\ link' = "dead" /\ inbox' = <<>>
     \/ error' = "CONNACK_NOT_RECEIVED" /\ link' = "up"
        /\ inbox' = <<[type |-> "CONNACK"]>>
     \/ error' = "OK" /\ link' = "up" /\ inbox' = <<>>

\* handleError(): drop the connection and open another; pingSent and
\* keepAliveTimer keep their values.
handleError == connecting

-----------------------------------------------------------------------------
(* Calls from the main thread and from the clients' threads.               *)

connect ==
  /\ pc = "constructed"
  /\ connecting
  /\ pc' = IF error' = "OK" THEN "connected" ELSE "refused"
  /\ UNCHANGED <<pingSent, keepAliveTimer, keepAliveHeartbeat, pool, local>>

loop ==
  /\ pc = "connected"
  /\ pc' = "receive"
  /\ UNCHANGED <<alive, keepAliveHeartbeat, pool, local, net>>

\* End of the object's scope in MainLooper::loop and the construction of the
\* next one.
Reconstruct ==
  /\ pc \in {"refused", "ended"}
  /\ pc' = "constructed"
  /\ error' = "NOT_CONNECTED" /\ pingSent' = FALSE /\ keepAliveTimer' = 0
  /\ keepAliveHeartbeat' \in Heartbeats
  /\ messages' = [s \in Slots |-> Free] /\ upstreamQueue' = <<>> /\ inHand' = NoSlot
  /\ subscribers' = {} /\ messageOk' = TRUE /\ inbound' = NoClient
  /\ link' = "down" /\ inbox' = <<>> /\ brokerSubs' = {} /\ lastPing' = "none"

\* The pool hands out some free block; the queue takes it while it has room.
Enqueue(request) ==
  /\ InUse
  /\ \E s \in Slots :
       /\ messages[s] = Free
       /\ messages' = [messages EXCEPT ![s] = request]
       /\ upstreamQueue' = IF Len(upstreamQueue) < QueueSize
                           THEN Append(upstreamQueue, s) ELSE upstreamQueue
  /\ UNCHANGED <<pc, alive, keepAliveHeartbeat, inHand, local, net>>

publish(c) == Enqueue([type |-> "PUBLISH", client |-> c])

\* A client subscribes once per connection object, from Resource::advertise.
subscribe(c) ==
  /\ c \notin subscribers
  /\ \A s \in Slots : messages[s] # [type |-> "SUBSCRIBE", client |-> c]
  /\ Enqueue([type |-> "SUBSCRIBE", client |-> c])

\* Mutant: the period is taken for seconds.
SetPingPeriodInSeconds(h) ==
  /\ InUse
  /\ keepAliveHeartbeat' = 1000 * (h + 1)
  /\ UNCHANGED <<pc, alive, pool, local, net>>

setPingPeriod(h) ==
  /\ InUse
  /\ keepAliveHeartbeat' = h
  /\ UNCHANGED <<pc, alive, pool, local, net>>

Tick ==
  /\ Running
  /\ keepAliveTimer <= MaxTime
  /\ keepAliveTimer' = keepAliveTimer + 1
  /\ UNCHANGED <<pc, error, pingSent, keepAliveHeartbeat, pool, local, net>>

-----------------------------------------------------------------------------
(* dispatch(), one step per point where another thread or the broker can   *)
(* be observed.  A SUBACK or a CONNACK is never met at the top of its loop  *)
(* (AnswersOnlyWhereAwaited), so the cases that ignore one have no action. *)

ReceiveNothing ==
  /\ pc = "receive"
  /\ ReceiveFails
  /\ pc' = "queue"
  /\ UNCHANGED <<alive, keepAliveHeartbeat, pool, local, link, brokerSubs, lastPing>>

\* A PUBLISH for a topic in subscribers goes on to its callback.
ReceivePublish ==
  /\ pc = "receive"
  /\ inbox # <<>> /\ Head(inbox).type = "PUBLISH"
  /\ inbox' = Tail(inbox)
  /\ LET c == Head(inbox).client IN
       IF c \in subscribers THEN pc' = "deliver" /\ inbound' = c
                            ELSE pc' = "queue" /\ UNCHANGED inbound
  /\ UNCHANGED <<alive, keepAliveHeartbeat, pool, subscribers, messageOk,
                 link, brokerSubs, lastPing>>

InvokeSubscriber ==
  /\ pc = "deliver"
  /\ inbound' = NoClient
  /\ pc' = "queue"
  /\ UNCHANGED <<alive, keepAliveHeartbeat, pool, subscribers, messageOk, net>>

ReceivePingresp ==
  /\ pc = "receive"
  /\ inbox # <<>> /\ Head(inbox).type = "PINGRESP"
  /\ inbox' = Tail(inbox)
  /\ pingSent' = FALSE
  /\ lastPing' = "answered"
  /\ pc' = "queue"
  /\ UNCHANGED <<error, keepAliveTimer, keepAliveHeartbeat, pool, local,
                 link, brokerSubs>>

\* Mutant: the newest message is taken first.
TakeNewestMessage ==
  /\ pc = "queue"
  /\ IF upstreamQueue = <<>>
     THEN pc' = "keepAlive" /\ UNCHANGED <<upstreamQueue, inHand>>
     ELSE /\ inHand' = upstreamQueue[Len(upstreamQueue)]
          /\ upstreamQueue' = SubSeq(upstreamQueue, 1, Len(upstreamQueue) - 1)
          /\ pc' = "send"
  /\ UNCHANGED <<alive, keepAliveHeartbeat, messages, local, net>>

\* upstreamQueue.get(10): a time-out only when the queue is empty.
TakeMessage ==
  /\ pc = "queue"
  /\ IF upstreamQueue = <<>>
     THEN pc' = "keepAlive" /\ UNCHANGED <<upstreamQueue, inHand>>
     ELSE /\ inHand' = Head(upstreamQueue)
          /\ upstreamQueue' = Tail(upstreamQueue)
          /\ pc' = "send"
  /\ UNCHANGED <<alive, keepAliveHeartbeat, messages, local, net>>

sendPublish ==
  /\ pc = "send" /\ messages[inHand].type = "PUBLISH"
  /\ \E ok, arrives \in BOOLEAN : Transmit(ok, arrives) /\ messageOk' = ok
  /\ pc' = "callback"
  /\ UNCHANGED <<alive, keepAliveHeartbeat, pool, subscribers, inbound, net>>

\* The wait for SUBACK follows even when the packet could not be sent.
sendSubscribe ==
  /\ pc = "send" /\ messages[inHand].type = "SUBSCRIBE"
  /\ \E ok, arrives \in BOOLEAN :
       /\ Transmit(ok, arrives)
       /\ messageOk' = ok
       /\ IF arrives
          THEN \E granted \in BOOLEAN :
                 /\ inbox' = Append(inbox, [type |-> "SUBACK", granted |-> granted])
                 /\ brokerSubs' = IF granted
                                  THEN brokerSubs \cup {messages[inHand].client}
                                  ELSE brokerSubs
          ELSE UNCHANGED <<inbox, brokerSubs>>
  /\ pc' = "receiveTill"
  /\ UNCHANGED <<alive, keepAliveHeartbeat, pool, subscribers, inbound,
                 link, lastPing>>

\* The rest of sendSubscribe after receiveTill: whatever the outcome, the
\* callback is added for the topic.
SubscribeFinished(ok) ==
  /\ messageOk' = ok
  /\ subscribers' = subscribers \cup {messages[inHand].client}
  /\ pc' = "callback"

\* receiveTill(SUBACK) discards every other packet it meets.
SkipPacket ==
  /\ pc = "receiveTill"
  /\ inbox # <<>> /\ Head(inbox).type # "SUBACK"
  /\ inbox' = Tail(inbox)
  /\ lastPing' = IF Head(inbox).type = "PINGRESP" THEN "answered" ELSE lastPing
  /\ UNCHANGED <<pc, alive, keepAliveHeartbeat, pool, local, link, brokerSubs>>

\* Mutant: the granted QoS is not looked at.
ReceiveAnySuback ==
  /\ pc = "receiveTill"
  /\ inbox # <<>> /\ Head(inbox).type = "SUBACK"
  /\ inbox' = Tail(inbox)
  /\ SubscribeFinished(messageOk)
  /\ UNCHANGED <<alive, keepAliveHeartbeat, pool, inbound, link, brokerSubs, lastPing>>

ReceiveSuback ==
  /\ pc = "receiveTill"
  /\ inbox # <<>> /\ Head(inbox).type = "SUBACK"
  /\ inbox' = Tail(inbox)
  /\ SubscribeFinished(messageOk /\ Head(inbox).granted)
  /\ UNCHANGED <<alive, keepAliveHeartbeat, pool, inbound, link, brokerSubs, lastPing>>

\* receivePacket failed, or the three seconds are over.
SubackTimeout ==
  /\ pc = "receiveTill"
  /\ ReceiveFails
  /\ SubscribeFinished(FALSE)
  /\ UNCHANGED <<alive, keepAliveHeartbeat, pool, inbound, link, brokerSubs, lastPing>>

\* The client's done callback is invoked with messageOk, before the block is
\* given back.
InvokeDone ==
  /\ pc = "callback"
  /\ pc' = "free"
  /\ UNCHANGED <<alive, keepAliveHeartbeat, pool, local, net>>

\* Mutant: the block of a message that failed is not given back.
FreeMessageWhenOk ==
  /\ pc = "free"
  /\ messages' = IF messageOk THEN [messages EXCEPT ![inHand] = Free] ELSE messages
  /\ inHand' = NoSlot
  /\ IF messageOk THEN UNCHANGED <<error, net>> ELSE handleError
  /\ pc' = "keepAlive"
  /\ UNCHANGED <<pingSent, keepAliveTimer, keepAliveHeartbeat, upstreamQueue, local>>

\* Mutant: a message that failed leaves the connection as it is.
FreeMessageWithoutReconnect ==
  /\ pc = "free"
  /\ messages' = [messages EXCEPT ![inHand] = Free]
  /\ inHand' = NoSlot
  /\ UNCHANGED <<error, net>>
  /\ pc' = "keepAlive"
  /\ UNCHANGED <<pingSent, keepAliveTimer, keepAliveHeartbeat, upstreamQueue, local>>

FreeMessage ==
  /\ pc = "free"
  /\ messages' = [messages EXCEPT ![inHand] = Free]
  /\ inHand' = NoSlot
  /\ IF messageOk THEN UNCHANGED <<error, net>> ELSE handleError
  /\ pc' = "keepAlive"
  /\ UNCHANGED <<pingSent, keepAliveTimer, keepAliveHeartbeat, upstreamQueue, local>>

\* Mutant: PINGREQ is sent again while the last one is unanswered.
PingAcceptedAgain ==
  /\ pingSent' = TRUE
  /\ keepAliveTimer' = 0
  /\ lastPing' = "asked"
  /\ \E arrives \in BOOLEAN :
       /\ Transmit(TRUE, arrives)
       /\ inbox' = IF arrives THEN Append(inbox, [type |-> "PINGRESP"]) ELSE inbox
  /\ UNCHANGED <<error, link, brokerSubs>>

\* Mutant: a ping that could be sent is taken for a sound connection.
PingAcceptedClearsError ==
  /\ ~pingSent
  /\ pingSent' = TRUE
  /\ keepAliveTimer' = 0
  /\ lastPing' = "asked"
  /\ \E arrives \in BOOLEAN :
       /\ Transmit(TRUE, arrives)
       /\ inbox' = IF arrives THEN Append(inbox, [type |-> "PINGRESP"]) ELSE inbox
  /\ error' = "OK"
  /\ UNCHANGED <<link, brokerSubs>>

\* ping(): a second expiry while pingSent still stands is an error.  ping() is
\* called before isConnected() is asked, so it may also send on a connection
\* that was not accepted.
PingAccepted ==
  /\ ~pingSent
  /\ pingSent' = TRUE
  /\ keepAliveTimer' = 0
  /\ lastPing' = "asked"
  /\ \E arrives \in BOOLEAN :
       /\ Transmit(TRUE, arrives)
       /\ inbox' = IF arrives THEN Append(inbox, [type |-> "PINGRESP"]) ELSE inbox
  /\ UNCHANGED <<error, link, brokerSubs>>

PingNotSent ==
  /\ ~pingSent
  /\ \E arrives \in BOOLEAN : Transmit(FALSE, arrives)
  /\ pingSent' = TRUE
  /\ handleError
  /\ UNCHANGED keepAliveTimer

\* Mutant: a missing answer only restarts the timer.
PingUnansweredIgnored ==
  /\ pingSent
  /\ keepAliveTimer' = 0
  /\ UNCHANGED <<error, pingSent, net>>

PingUnanswered ==
  /\ pingSent
  /\ handleError
  /\ UNCHANGED <<pingSent, keepAliveTimer>>

ping == PingAccepted \/ PingNotSent \/ PingUnanswered

\* Mutant: isConnected() is not asked.
KeepAliveForever ==
  /\ pc = "keepAlive"
  /\ IF keepAliveTimer > keepAliveHeartbeat THEN ping ELSE UNCHANGED <<alive, net>>
  /\ pc' = "receive"
  /\ UNCHANGED <<keepAliveHeartbeat, pool, local>>

KeepAlive ==
  /\ pc = "keepAlive"
  /\ IF keepAliveTimer > keepAliveHeartbeat THEN ping ELSE UNCHANGED <<alive, net>>
  /\ pc' = IF error' = "OK" THEN "receive" ELSE "ended"
  /\ UNCHANGED <<keepAliveHeartbeat, pool, local>>

Dispatch ==
  \/ ReceiveNothing \/ ReceivePublish \/ InvokeSubscriber \/ ReceivePingresp
  \/ TakeMessage \/ sendPublish \/ sendSubscribe \/ SkipPacket
  \/ ReceiveSuback \/ SubackTimeout \/ InvokeDone \/ FreeMessage \/ KeepAlive

-----------------------------------------------------------------------------
(* The broker and the network on their own account.                        *)

BrokerPublish(c) ==
  /\ link = "up" /\ c \in brokerSubs
  /\ Len(inbox) < MaxInbox
  /\ inbox' = Append(inbox, [type |-> "PUBLISH", client |-> c])
  /\ UNCHANGED <<pc, alive, keepAliveHeartbeat, pool, local, link, brokerSubs, lastPing>>

LinkDies ==
  /\ link = "up"
  /\ link' = "dead"
  /\ UNCHANGED <<pc, alive, keepAliveHeartbeat, pool, local, inbox, brokerSubs, lastPing>>

Environment ==
  \/ Tick \/ LinkDies
  \/ \E c \in Clients : publish(c) \/ subscribe(c) \/ BrokerPublish(c)
  \/ \E h \in Heartbeats : setPingPeriod(h)

Next == connect \/ loop \/ Reconstruct \/ Dispatch \/ Environment

(* The dispatcher thread is scheduled, time passes, and the timer of       *)
(* receiveTill expires.                                                    *)
Fairness == WF_vars(Dispatch) /\ WF_vars(SubackTimeout) /\ WF_vars(Tick)

Spec == Init /\ [][Next]_vars
FairSpec == Spec /\ Fairness

-----------------------------------------------------------------------------
(* Properties.                                                             *)

\* Blocks of `messages` neither leak nor are handed out twice: a block is
\* allocated exactly while it waits in upstreamQueue, once, or is the one
\* handleMessageQueue works on (publish, subscribe, messages.free).
PoolConserved ==
  /\ \A s \in Slots : messages[s] # Free <=>
        s = inHand \/ \E i \in 1 .. Len(upstreamQueue) : upstreamQueue[i] = s
  /\ \A i, j \in 1 .. Len(upstreamQueue) :
        upstreamQueue[i] = upstreamQueue[j] => i = j
  /\ \A i \in 1 .. Len(upstreamQueue) : upstreamQueue[i] # inHand

\* The done callback of a SUBSCRIBE says TRUE only if the broker holds the
\* subscription on the connection in use: no late SUBACK of an abandoned
\* SUBSCRIBE, and none of another client, is taken for the answer.
SubscribeAnswerTruthful ==
  pc = "callback" /\ messages[inHand].type = "SUBSCRIBE" /\ messageOk
    => messages[inHand].client \in brokerSubs

\* There is never more than one PINGRESP in flight towards the board, and while
\* there is one the dispatcher knows it waits for it: pingSent throttles
\* PINGREQ across reconnections and time-outs.
OnePingInFlight ==
  \A i \in 1 .. Len(inbox) : inbox[i].type = "PINGRESP" =>
    /\ pingSent /\ lastPing = "asked"
    /\ \A j \in 1 .. Len(inbox) : inbox[j].type = "PINGRESP" => i = j

\* dispatch() receives, hands data on, takes messages and sends them only on a
\* connection the broker accepted.  It gets as far as the keep-alive check
\* without one only in the iteration whose own message failed and whose
\* reconnection (handleError, line 345) failed after it.
NoWorkOnBrokenConnection ==
  /\ Running /\ pc # "keepAlive" => error = "OK" /\ link # "down"
  /\ pc = "keepAlive" /\ error # "OK" => ~messageOk

\* A reconnection that failed ends the loop in the same iteration
\* (mqttprotocol.cpp:428, "if this fails, MqttProtocol::loop will end"), with
\* the one exception the order of lines 224-234 makes: when the keep-alive has
\* expired as well, ping() may connect once more, and the loop goes on only if
\* the broker accepted that new connection.
FailedReconnectionEnds ==
  [][pc = "keepAlive" /\ error # "OK" /\ pc' # pc =>
       \/ pc' = "ended"
       \/ /\ keepAliveTimer > keepAliveHeartbeat
          /\ error' = "OK" /\ lastPing' = "none"]_vars

\* mqttprotocol.cpp:208 and 212, CONNACK "should only come in connector thread",
\* SUBACK is "processed synchronously in handleMessageQueue": neither is in the
\* channel when dispatch() receives, however late the broker answered.
AnswersOnlyWhereAwaited ==
  pc = "receive" =>
    \A i \in 1 .. Len(inbox) : inbox[i].type \notin {"SUBACK", "CONNACK"}

\* A connection that died without the transport noticing is found out by the
\* keep-alive and replaced, or the thread ends.
DeadLinkDetected == (link = "dead" /\ Running) ~> (link # "dead" \/ ~Running)

\* A request the pool and the queue accepted is worked off and its block given
\* back, as long as dispatch() runs.
AllServed ==
  \A s \in Slots :
    (messages[s] # Free /\ Running) ~> (messages[s] = Free \/ ~Running)

-----------------------------------------------------------------------------
(* What the comments and the log say of the code, and the code does not do. *)

\* mqttprotocol.cpp:302, "Ping response not received!", is said only of a
\* connection on which PINGREQ was sent and PINGRESP was not received.
PingFailureTruthful ==
  [][pc = "keepAlive" /\ keepAliveTimer > keepAliveHeartbeat /\ PingUnanswered
       => lastPing = "asked"]_vars
=============================================================================
