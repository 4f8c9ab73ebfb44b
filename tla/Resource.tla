------------------------------ MODULE Resource ------------------------------
(***************************************************************************)
(* The resources of the board (resource.cpp), each with a message storage, *)
(* a queue and a worker thread, over the promise of IPubSub (PubSub).  The *)
(* main thread advertises them, runs the protocol's loop and revokes them  *)
(* (MainLooper::loop); sensors, the button and timers publish from their   *)
(* own threads, which know nothing of advertising and revoking.            *)
(***************************************************************************)
EXTENDS Naturals, Sequences, FiniteSets

CONSTANTS
  Resources, NoResource,
  Publishers, \* those with a thread of their own that publishes: all but Info
  Blocks,    \* blocks of msgStorage (4 in resource.h, as the places of msgQueue)
  NoBlock,
  Dangling,  \* address of a block whose storage is no more
  Free,      \* content of a block that is not allocated
  PoolSize   \* requests the protocol has room for (64 in mqttprotocol.h)

MessageTypes == {"SUB_REQ", "PUB_REQ", "ACK_REQ", "SUB_INCOMING"}

\* With a block for each resource and one more the protocol always has room for
\* a request of a worker that has none under way: 64 blocks for 9 resources.
ASSUME ResourceAssumption ==
  /\ NoResource \notin Resources /\ Publishers \subseteq Resources
  /\ IsFiniteSet(Blocks) /\ NoBlock \notin Blocks /\ Dangling \notin Blocks \cup {NoBlock}
  /\ Free \notin MessageTypes
  /\ IsFiniteSet(Resources)
  /\ PoolSize \in Nat /\ Cardinality(Resources) < PoolSize

VARIABLES
  phase,      \* main thread: "advertising", "running" (in loop()) or "revoking";
              \* "undefined" once memory was misused: nothing is known of the board
  msgStorage, msgQueue, subscribed,
  worker,     \* where pubSubThread is, "off" while there is none
  current,    \* the block it works on
  signals,    \* its thread signals
  filling,    \* the block another thread has allocated and not queued yet
  requests, held, listening, inbound  \* the protocol, see PubSub

resVars == <<msgStorage, msgQueue, worker, current, signals, filling>>
psVars  == <<requests, held, listening, inbound>>
vars    == <<phase, subscribed, resVars, psVars>>

Protocol == INSTANCE PubSub WITH
  Clients <- Resources, NoClient <- NoResource,
  Publications <- {"PUB_REQ", "ACK_REQ"}, Capacity <- PoolSize

TypeOK ==
  /\ phase \in {"advertising", "running", "revoking", "undefined"}
  /\ msgStorage \in [Resources -> [Blocks -> MessageTypes \cup {Free}]]
  /\ msgQueue \in [Resources -> Seq(Blocks)]
  /\ subscribed \in [Resources -> BOOLEAN]
  /\ worker \in [Resources -> {"off", "get", "call", "wait", "handle", "ack", "free"}]
  /\ current \in [Resources -> Blocks \cup {NoBlock}]
  /\ signals \in [Resources -> SUBSET {"SUB_ACK", "PUBLISH_DONE", "ACK_DONE"}]
  /\ filling \in [Resources -> Blocks \cup {NoBlock, Dangling}]
  /\ requests \in Seq(Protocol!Request)
  /\ held \in {0, 1}
  /\ listening \subseteq Resources
  /\ inbound \in Resources \cup {NoResource}

Init ==
  /\ phase = "advertising"
  /\ msgStorage = [r \in Resources |-> [b \in Blocks |-> Free]]
  /\ msgQueue = [r \in Resources |-> <<>>]
  /\ subscribed = [r \in Resources |-> FALSE]
  /\ worker = [r \in Resources |-> "off"]
  /\ current = [r \in Resources |-> NoBlock]
  /\ signals = [r \in Resources |-> {}]
  /\ filling = [r \in Resources |-> NoBlock]
  /\ Protocol!PSInit

CurrentType(r) == msgStorage[r][current[r]]

\* The signal the worker waits for after a request of each type.
DoneSignal(type) ==
  CASE type = "SUBSCRIBE" -> "SUB_ACK"
    [] type = "PUB_REQ" -> "PUBLISH_DONE"
    [] type = "ACK_REQ" -> "ACK_DONE"

\* Mutant: the type of the message is handed on as it is.
MessageTypeAsIs(type) == type

RequestType(type) == IF type = "SUB_REQ" THEN "SUBSCRIBE" ELSE type

\* alloc(), filling in and put() by a thread that no revoke can overtake: the
\* main thread, the dispatcher, which has ended by then, and the worker, which
\* is terminated first.  With no block free the message is dropped silently.
Enqueue(r, type) ==
  IF \E b \in Blocks : msgStorage[r][b] = Free
  THEN \E b \in Blocks :
         /\ msgStorage[r][b] = Free
         /\ msgStorage' = [msgStorage EXCEPT ![r][b] = type]
         /\ msgQueue' = [msgQueue EXCEPT ![r] = Append(@, b)]
  ELSE UNCHANGED <<msgStorage, msgQueue>>

\* A use of storage that is no more, or of text without an end, has no defined
\* outcome: the board stands with a fault, or goes on with what it overwrote.
Undefined ==
  /\ phase' = "undefined"
  /\ msgStorage' = [r \in Resources |-> [b \in Blocks |-> Free]]
  /\ msgQueue' = [r \in Resources |-> <<>>]
  /\ subscribed' = [r \in Resources |-> FALSE]
  /\ worker' = [r \in Resources |-> "off"]
  /\ current' = [r \in Resources |-> NoBlock]
  /\ signals' = [r \in Resources |-> {}]
  /\ filling' = [r \in Resources |-> NoBlock]
  /\ Protocol!Close

PowerCycle ==
  /\ phase = "undefined"
  /\ phase' = "advertising"
  /\ UNCHANGED <<subscribed, resVars, psVars>>

-----------------------------------------------------------------------------
(* The main thread.                                                        *)

\* Resource::advertise with the subscribe() every resource makes in its own.
advertise(r) ==
  /\ phase = "advertising" /\ worker[r] = "off"
  /\ Enqueue(r, "SUB_REQ")
  /\ worker' = [worker EXCEPT ![r] = "get"]
  /\ UNCHANGED <<phase, subscribed, current, signals, filling, psVars>>

StartLoop ==
  /\ phase = "advertising" /\ \A r \in Resources : worker[r] # "off"
  /\ phase' = "running"
  /\ UNCHANGED <<subscribed, resVars, psVars>>

\* dispatch() ends between two callbacks.
EndLoop ==
  /\ phase = "running" /\ held = 0 /\ inbound = NoResource
  /\ phase' = "revoking"
  /\ UNCHANGED <<subscribed, resVars, psVars>>

\* The worker is terminated wherever it is, its storage and queue are freed,
\* also under a thread that is just filling a block.
revoke(r) ==
  /\ phase = "revoking" /\ worker[r] # "off"
  /\ worker' = [worker EXCEPT ![r] = "off"]
  /\ msgStorage' = [msgStorage EXCEPT ![r] = [b \in Blocks |-> Free]]
  /\ msgQueue' = [msgQueue EXCEPT ![r] = <<>>]
  /\ current' = [current EXCEPT ![r] = NoBlock]
  /\ signals' = [signals EXCEPT ![r] = {}]
  /\ filling' = [filling EXCEPT ![r] = IF @ = NoBlock THEN NoBlock ELSE Dangling]
  /\ UNCHANGED <<phase, subscribed, psVars>>

Restart ==
  /\ phase = "revoking" /\ \A r \in Resources : worker[r] = "off"
  /\ phase' = "advertising"
  /\ Protocol!Close
  /\ UNCHANGED <<subscribed, resVars>>

-----------------------------------------------------------------------------
(* pubSubThread.                                                           *)

GoTo(r, step) == worker' = [worker EXCEPT ![r] = step]

GetMessage(r) ==
  /\ worker[r] = "get" /\ msgQueue[r] # <<>>
  /\ LET b == Head(msgQueue[r]) IN
       /\ current' = [current EXCEPT ![r] = b]
       /\ GoTo(r, IF msgStorage[r][b] = "SUB_INCOMING" THEN "handle" ELSE "call")
  /\ msgQueue' = [msgQueue EXCEPT ![r] = Tail(@)]
  /\ UNCHANGED <<phase, subscribed, msgStorage, signals, filling, psVars>>

\* Mutant: the worker does not wait for the done callback.
CallProtocolAndGoOn(r) ==
  /\ worker[r] = "call"
  /\ LET request == [type |-> RequestType(CurrentType(r)), client |-> r] IN
       IF Len(requests) + held < PoolSize
       THEN Protocol!Accept(request)
       ELSE UNCHANGED psVars
  /\ GoTo(r, "free")
  /\ UNCHANGED <<phase, subscribed, msgStorage, msgQueue, current, signals, filling>>

\* proto->subscribe or proto->publish; the result is not looked at.
CallProtocol(r) ==
  /\ worker[r] = "call"
  /\ LET request == [type |-> RequestType(CurrentType(r)), client |-> r] IN
       IF Len(requests) + held < PoolSize
       THEN Protocol!Accept(request)
       ELSE UNCHANGED psVars
  /\ GoTo(r, "wait")
  /\ UNCHANGED <<phase, subscribed, msgStorage, msgQueue, current, signals, filling>>

\* Mutant: the signal stays set after the wait.
SignalWaitKept(r) ==
  /\ worker[r] = "wait"
  /\ DoneSignal(RequestType(CurrentType(r))) \in signals[r]
  /\ GoTo(r, "free")
  /\ UNCHANGED <<phase, subscribed, msgStorage, msgQueue, current, signals, filling, psVars>>

\* signal_wait clears the signal it waited for.
SignalWait(r) ==
  /\ worker[r] = "wait"
  /\ LET signal == DoneSignal(RequestType(CurrentType(r))) IN
       /\ signal \in signals[r]
       /\ signals' = [signals EXCEPT ![r] = @ \ {signal}]
  /\ GoTo(r, "free")
  /\ UNCHANGED <<phase, subscribed, msgStorage, msgQueue, current, filling, psVars>>

\* handleSubscription: a command is ignored unless subscribed.  Handling one
\* may publish, and acknowledges at once or leaves that to a later event; so
\* does a message without the two fields.  One that is no JSON or has more than
\* the 16 tokens given to the parser passes for one that is: the parser's error
\* is negative, get() searches memory for the fields, and what it finds may
\* have no length that can be assigned (lines 194, 210).
handleSubscription(r) ==
  /\ worker[r] = "handle"
  /\ \/ /\ \/ GoTo(r, "free") /\ UNCHANGED <<msgStorage, msgQueue>>
           \/ subscribed[r] /\ GoTo(r, "ack") /\ UNCHANGED <<msgStorage, msgQueue>>
           \/ subscribed[r] /\ GoTo(r, "ack") /\ Enqueue(r, "PUB_REQ")
        /\ UNCHANGED <<phase, subscribed, current, signals, filling, psVars>>
     \/ subscribed[r] /\ Undefined

AcknowledgeCommand(r) ==
  /\ worker[r] = "ack"
  /\ Enqueue(r, "ACK_REQ")
  /\ GoTo(r, "free")
  /\ UNCHANGED <<phase, subscribed, current, signals, filling, psVars>>

\* Mutant: the block is not given back to the storage.
FreeMessageNever(r) ==
  /\ worker[r] = "free"
  /\ current' = [current EXCEPT ![r] = NoBlock]
  /\ GoTo(r, "get")
  /\ UNCHANGED <<phase, subscribed, msgStorage, msgQueue, signals, filling, psVars>>

FreeMessage(r) ==
  /\ worker[r] = "free"
  /\ msgStorage' = [msgStorage EXCEPT ![r][current[r]] = Free]
  /\ current' = [current EXCEPT ![r] = NoBlock]
  /\ GoTo(r, "get")
  /\ UNCHANGED <<phase, subscribed, msgQueue, signals, filling, psVars>>

Worker(r) ==
  \/ GetMessage(r) \/ CallProtocol(r) \/ SignalWait(r) \/ handleSubscription(r)
  \/ AcknowledgeCommand(r) \/ FreeMessage(r)

-----------------------------------------------------------------------------
(* Threads of sensors, button and timers, one for a resource; a sensor's   *)
(* late acknowledgements come from the same thread.  Nothing keeps them    *)
(* from running while the resource is revoked.                             *)

\* alloc() by such a thread.  Without storage the call is on a null pointer.
Allocate(r, type) ==
  /\ phase # "undefined" /\ filling[r] = NoBlock
  /\ \/ /\ worker[r] # "off"
        /\ \E b \in Blocks :
             /\ msgStorage[r][b] = Free
             /\ msgStorage' = [msgStorage EXCEPT ![r][b] = type]
             /\ filling' = [filling EXCEPT ![r] = b]
        /\ UNCHANGED <<phase, subscribed, msgQueue, worker, current, signals, psVars>>
     \/ worker[r] = "off" /\ Undefined

publish(r) == Allocate(r, "PUB_REQ")

acknowledge(r) == Allocate(r, "ACK_REQ")

\* put(), when the content is complete.  A block whose storage was revoked in
\* between is written to and queued all the same, by then perhaps in the queue
\* of the next round; at best nothing comes of it.
PutMessage(r) ==
  /\ filling[r] # NoBlock
  /\ \/ /\ IF filling[r] = Dangling THEN UNCHANGED msgQueue
           ELSE msgQueue' = [msgQueue EXCEPT ![r] = Append(@, filling[r])]
        /\ filling' = [filling EXCEPT ![r] = NoBlock]
        /\ UNCHANGED <<phase, subscribed, msgStorage, worker, current, signals, psVars>>
     \/ filling[r] = Dangling /\ Undefined

-----------------------------------------------------------------------------
(* The dispatcher of the protocol and the callbacks it invokes.            *)

\* Mutant: the done callbacks signal success only.
InvokeDoneOnSuccess(ok) ==
  /\ phase = "running"
  /\ Protocol!Answer(ok)
  /\ LET request == Head(requests) IN
       /\ signals' = IF ok THEN [signals EXCEPT ![request.client] = @ \cup {DoneSignal(request.type)}]
                           ELSE signals
       /\ subscribed' = IF request.type = "SUBSCRIBE"
                        THEN [subscribed EXCEPT ![request.client] = ok]
                        ELSE subscribed
  /\ UNCHANGED <<phase, msgStorage, msgQueue, worker, current, filling>>

\* Mutant: every done callback records the status in subscribed.
InvokeDoneRecorded(ok) ==
  /\ phase = "running"
  /\ Protocol!Answer(ok)
  /\ LET request == Head(requests) IN
       /\ signals' = [signals EXCEPT ![request.client] = @ \cup {DoneSignal(request.type)}]
       /\ subscribed' = [subscribed EXCEPT ![request.client] = ok]
  /\ UNCHANGED <<phase, msgStorage, msgQueue, worker, current, filling>>

\* subscribeDone, publishDone and ackDone.
InvokeDone(ok) ==
  /\ phase = "running"
  /\ Protocol!Answer(ok)
  /\ LET request == Head(requests) IN
       /\ signals' = [signals EXCEPT ![request.client] = @ \cup {DoneSignal(request.type)}]
       /\ subscribed' = IF request.type = "SUBSCRIBE"
                        THEN [subscribed EXCEPT ![request.client] = ok]
                        ELSE subscribed
  /\ UNCHANGED <<phase, msgStorage, msgQueue, worker, current, filling>>

\* subscribeCallback: a copy of the data is queued, unless it is too long.
SubscribeCallback ==
  /\ phase = "running"
  /\ Protocol!DataDelivered
  /\ \/ Enqueue(inbound, "SUB_INCOMING")
     \/ UNCHANGED <<msgStorage, msgQueue>>
  /\ UNCHANGED <<phase, subscribed, worker, current, signals, filling>>

ProtocolAlone ==
  /\ phase = "running"
  /\ \/ Protocol!Release
     \/ Protocol!Reconnect
     \/ \E r \in Resources : Protocol!DataArrives(r)
  /\ UNCHANGED <<phase, subscribed, resVars>>

Dispatcher ==
  \/ \E ok \in BOOLEAN : InvokeDone(ok)
  \/ SubscribeCallback
  \/ ProtocolAlone

Next ==
  \/ \E r \in Resources : advertise(r) \/ revoke(r) \/ Worker(r)
  \/ \E r \in Publishers : publish(r) \/ acknowledge(r) \/ PutMessage(r)
  \/ StartLoop \/ EndLoop \/ Restart \/ PowerCycle
  \/ Dispatcher

(* The threads are scheduled.  dispatch() turns to its message queue after *)
(* each packet it received, so data that keeps arriving does not keep it   *)
(* from answering: strong fairness (AllServed of MqttProtocol).            *)
Fairness ==
  /\ \A r \in Resources : WF_vars(Worker(r))
  /\ \A r \in Publishers : WF_vars(PutMessage(r))
  /\ SF_vars(\E ok \in BOOLEAN : InvokeDone(ok))
  /\ WF_vars(SubscribeCallback)
  /\ WF_vars(phase = "running" /\ Protocol!Release /\ UNCHANGED <<phase, subscribed, resVars>>)

Spec == Init /\ [][Next]_vars
FairSpec == Spec /\ Fairness

-----------------------------------------------------------------------------
(* Properties.                                                             *)

\* Blocks of msgStorage neither leak nor are used twice: allocated exactly
\* while in msgQueue, once, in the worker's hands or in those of one other
\* thread, which survive every revoke and advertise except as a dangling
\* address (alloc, put, free).
StorageConserved ==
  \A r \in Resources :
    /\ \A b \in Blocks : msgStorage[r][b] # Free <=>
         b \in {current[r], filling[r]} \/ \E i \in 1 .. Len(msgQueue[r]) : msgQueue[r][i] = b
    /\ \A i, j \in 1 .. Len(msgQueue[r]) : msgQueue[r][i] = msgQueue[r][j] => i = j
    /\ \A i \in 1 .. Len(msgQueue[r]) : msgQueue[r][i] \notin {current[r], filling[r]}
    /\ filling[r] = current[r] => filling[r] \notin Blocks

\* A worker that waits has its request under way, or the signal it waits for
\* is set: the unchecked result of proto->publish never leaves it waiting for
\* nothing (resource.cpp:82, 89, 98).
NoLostWakeup ==
  \A r \in Resources : worker[r] = "wait" =>
    LET type == RequestType(CurrentType(r)) IN
      \/ DoneSignal(type) \in signals[r]
      \/ \E i \in 1 .. Len(requests) : requests[i] = [type |-> type, client |-> r]

\* The data of a request under way stays in place: its resource still waits on
\* the block the protocol was given, for that very request, and has no other.
\* Holds until revoke, which comes after the dispatcher has ended.
DataInPlace ==
  phase = "running" => \A i \in 1 .. Len(requests) :
    LET r == requests[i].client IN
      /\ worker[r] = "wait"
      /\ RequestType(CurrentType(r)) = requests[i].type
      /\ \A j \in 1 .. Len(requests) : requests[j].client = r => j = i

\* No signal is left over that would end a later wait too early.
NoStaleSignal ==
  \A r \in Resources : signals[r] # {} =>
    worker[r] = "wait" /\ signals[r] = {DoneSignal(RequestType(CurrentType(r)))}

\* Data the broker sends is not thrown away by the check of `subscribed`,
\* although that flag keeps its value over revoke and advertise.
NoCommandIgnored ==
  \A r \in Resources : \A b \in Blocks :
    msgStorage[r][b] = "SUB_INCOMING" => subscribed[r]

\* A message queued in a resource is handled and its block freed, as long as
\* the protocol runs.
AllHandled ==
  \A r \in Resources : \A b \in Blocks :
    (msgStorage[r][b] # Free /\ phase = "running")
      ~> (msgStorage[r][b] = Free \/ phase # "running")
=============================================================================
