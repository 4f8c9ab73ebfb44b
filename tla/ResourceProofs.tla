--------------------------- MODULE ResourceProofs ---------------------------
(***************************************************************************)
(* Theorems about Resource for any resources, any storage and any protocol *)
(* with room for one request more than there are resources.                *)
(***************************************************************************)
EXTENDS Resource, TLAPS, FiniteSetTheorems

-----------------------------------------------------------------------------
(* The inductive invariant.                                                *)

\* What the phase of the main thread says of the workers and the protocol.
PhaseInv ==
  /\ phase \in {"advertising", "undefined"} => held = 0 /\ listening = {} /\ inbound = NoResource
  /\ phase = "running" => \A r \in Resources : worker[r] # "off"
  /\ phase = "revoking" => inbound = NoResource

\* A worker has a block in hand exactly while it handles a message; what it
\* hands to the protocol is a request, and a resource without worker is empty.
HandInv ==
  \A r \in Resources :
    /\ current[r] \in Blocks <=> worker[r] \in {"call", "wait", "handle", "ack", "free"}
    /\ worker[r] \in {"call", "wait"} => CurrentType(r) \in {"SUB_REQ", "PUB_REQ", "ACK_REQ"}
    /\ worker[r] = "off" => msgQueue[r] = <<>> /\ filling[r] \notin Blocks

StorageInv == TypeOK /\ PhaseInv /\ HandInv /\ StorageConserved

\* Each request under way belongs to a resource that waits for it and has not
\* been signalled, or that was revoked; no resource has two.
RequestInv ==
  \A i \in 1 .. Len(requests) : \A r \in Resources : requests[i].client = r =>
    /\ \/ /\ worker[r] = "wait" /\ signals[r] = {}
          /\ RequestType(CurrentType(r)) = requests[i].type
       \/ worker[r] = "off" /\ phase = "revoking"
    /\ \A j \in 1 .. Len(requests) : requests[j].client = r => j = i

WaitInv == RequestInv /\ NoStaleSignal /\ NoLostWakeup

\* A SUB_REQ of the resource has not been answered yet.
Subscribing(r) ==
  \E b \in Blocks :
    /\ msgStorage[r][b] = "SUB_REQ"
    /\ ~(b = current[r] /\ (worker[r] = "free" \/ signals[r] # {}))

\* A resource subscribes once; until the answer no data of it is about, and
\* from then on data is about only if the answer was TRUE.
SubscribedInv ==
  \A r \in Resources :
    /\ \A b, c \in Blocks : msgStorage[r][b] = "SUB_REQ" /\ msgStorage[r][c] = "SUB_REQ" => b = c
    /\ Subscribing(r) => /\ r \notin listening /\ r # inbound
                         /\ \A b \in Blocks : msgStorage[r][b] # "SUB_INCOMING"
    /\ r \in listening \/ r = inbound => subscribed[r]
    /\ \A b \in Blocks : msgStorage[r][b] = "SUB_INCOMING" => subscribed[r]

Inv == StorageInv /\ WaitInv /\ SubscribedInv

-----------------------------------------------------------------------------
(* Facts about the parts of the actions.                                   *)

\* The steps of the threads of resource r, the worker and the publishing one.
Threads(r) == Worker(r) \/ publish(r) \/ acknowledge(r) \/ PutMessage(r)

\* The steps of the main thread.
MainThread ==
  \/ \E r \in Resources : advertise(r) \/ revoke(r)
  \/ StartLoop \/ EndLoop \/ Restart \/ PowerCycle

LEMMA NextCases ==
  Next => MainThread \/ Dispatcher \/ \E r \in Resources : Threads(r)
BY ResourceAssumption DEF Next, MainThread, Threads

\* What Enqueue may do to the storage and the queue of its resource, and that
\* it touches no other.
LEMMA EnqueueEffect ==
  ASSUME TypeOK, NEW r \in Resources, NEW type \in MessageTypes, Enqueue(r, type)
  PROVE  /\ msgStorage' \in [Resources -> [Blocks -> MessageTypes \cup {Free}]]
         /\ msgQueue' \in [Resources -> Seq(Blocks)]
         /\ \/ UNCHANGED <<msgStorage, msgQueue>>
            \/ \E b \in Blocks :
                 /\ msgStorage[r][b] = Free
                 /\ msgStorage'[r] = [msgStorage[r] EXCEPT ![b] = type]
                 /\ msgQueue'[r] = Append(msgQueue[r], b)
                 /\ \A q \in Resources \ {r} : /\ msgStorage'[q] = msgStorage[q]
                                               /\ msgQueue'[q] = msgQueue[q]
<1>1. CASE UNCHANGED <<msgStorage, msgQueue>>
  BY <1>1 DEF TypeOK
<1>2. ASSUME NEW b \in Blocks, msgStorage[r][b] = Free,
             msgStorage' = [msgStorage EXCEPT ![r][b] = type],
             msgQueue' = [msgQueue EXCEPT ![r] = Append(@, b)]
      PROVE  /\ msgStorage' \in [Resources -> [Blocks -> MessageTypes \cup {Free}]]
             /\ msgQueue' \in [Resources -> Seq(Blocks)]
             /\ msgStorage'[r] = [msgStorage[r] EXCEPT ![b] = type]
             /\ msgQueue'[r] = Append(msgQueue[r], b)
             /\ \A q \in Resources \ {r} : /\ msgStorage'[q] = msgStorage[q]
                                           /\ msgQueue'[q] = msgQueue[q]
  <2>1. /\ msgStorage \in [Resources -> [Blocks -> MessageTypes \cup {Free}]]
        /\ msgQueue \in [Resources -> Seq(Blocks)]
    BY DEF TypeOK
  <2>2. Append(msgQueue[r], b) \in Seq(Blocks)
    BY <2>1
  <2> QED
    BY <1>2, <2>1, <2>2
<1> QED
  BY <1>1, <1>2 DEF Enqueue

\* What alloc() by another thread does: it takes a block of a resource that has
\* a worker.
LEMMA AllocateEffect ==
  ASSUME TypeOK, NEW r \in Resources, publish(r) \/ acknowledge(r), ~Undefined
  PROVE  \E type \in {"PUB_REQ", "ACK_REQ"} : \E b \in Blocks :
           /\ worker[r] # "off" /\ filling[r] = NoBlock /\ msgStorage[r][b] = Free
           /\ msgStorage' = [msgStorage EXCEPT ![r][b] = type]
           /\ filling' = [filling EXCEPT ![r] = b]
           /\ UNCHANGED <<phase, subscribed, msgQueue, worker, current, signals, psVars>>
BY DEF publish, acknowledge, Allocate

\* What put() by another thread does: it queues the block, if there is one.
LEMMA PutEffect ==
  ASSUME TypeOK, NEW r \in Resources, PutMessage(r), ~Undefined
  PROVE  /\ \/ /\ filling[r] \in Blocks
               /\ msgQueue' = [msgQueue EXCEPT ![r] = Append(@, filling[r])]
            \/ filling[r] \notin Blocks /\ msgQueue' = msgQueue
         /\ filling' = [filling EXCEPT ![r] = NoBlock]
         /\ UNCHANGED <<phase, subscribed, msgStorage, worker, current, signals, psVars>>
<1>1. filling[r] # NoBlock /\ filling[r] \in Blocks \cup {NoBlock, Dangling}
  BY DEF PutMessage, TypeOK
<1>2. Dangling \notin Blocks
  BY ResourceAssumption
<1> QED
  BY <1>1, <1>2 DEF PutMessage

\* The types a request has under way, and the signal its answer sets.
LEMMA RequestTypes ==
  /\ \A type \in {"SUB_REQ", "PUB_REQ", "ACK_REQ"} :
       RequestType(type) \in {"PUB_REQ", "ACK_REQ", "SUBSCRIBE"}
  /\ \A type \in {"PUB_REQ", "ACK_REQ", "SUBSCRIBE"} :
       DoneSignal(type) \in {"SUB_ACK", "PUBLISH_DONE", "ACK_DONE"}
  /\ \A type \in MessageTypes : RequestType(type) = "SUBSCRIBE" <=> type = "SUB_REQ"
BY DEF RequestType, DoneSignal, MessageTypes

LEMMA TypeInit == Init => TypeOK
BY DEF Init, TypeOK, Protocol!PSInit

LEMMA TypeMain ==
  ASSUME TypeOK, MainThread
  PROVE  TypeOK'
<1>1. ASSUME NEW r \in Resources, advertise(r) PROVE TypeOK'
  <2>1. Enqueue(r, "SUB_REQ") /\ "SUB_REQ" \in MessageTypes
    BY <1>1 DEF advertise, MessageTypes
  <2>2. /\ msgStorage' \in [Resources -> [Blocks -> MessageTypes \cup {Free}]]
        /\ msgQueue' \in [Resources -> Seq(Blocks)]
    BY <2>1, EnqueueEffect
  <2> QED
    BY <1>1, <2>2 DEF advertise, TypeOK, psVars
<1>2. ASSUME NEW r \in Resources, revoke(r) PROVE TypeOK'
  BY <1>2 DEF revoke, TypeOK, psVars
<1>3. CASE StartLoop \/ EndLoop \/ PowerCycle
  BY <1>3 DEF StartLoop, EndLoop, PowerCycle, TypeOK, resVars, psVars
<1>4. CASE Restart
  <2>1. requests' = <<>> /\ held' = 0 /\ listening' = {} /\ inbound' = NoResource
    BY <1>4 DEF Restart, Protocol!Close
  <2> QED
    BY <1>4, <2>1 DEF Restart, TypeOK, resVars
<1> QED
  BY <1>1, <1>2, <1>3, <1>4 DEF MainThread

LEMMA TypeThreads ==
  ASSUME TypeOK, HandInv, NEW r \in Resources, Threads(r), ~Undefined
  PROVE  TypeOK'
<1>1. CASE GetMessage(r)
  BY <1>1 DEF GetMessage, GoTo, TypeOK, psVars
<1>2. CASE CallProtocol(r)
  <2> DEFINE request == [type |-> RequestType(CurrentType(r)), client |-> r]
  <2>1. request \in Protocol!Request
    BY <1>2, RequestTypes DEF CallProtocol, HandInv, Protocol!Request
  <2>2. /\ requests' = requests \/ requests' = Append(requests, request)
        /\ UNCHANGED <<held, listening, inbound>>
    BY <1>2 DEF CallProtocol, Protocol!Accept, psVars
  <2> HIDE DEF request
  <2>3. requests' \in Seq(Protocol!Request)
    <3>1. requests \in Seq(Protocol!Request)
      BY DEF TypeOK
    <3>2. Append(requests, request) \in Seq(Protocol!Request)
      BY <2>1, <3>1
    <3> QED
      BY <2>2, <3>1, <3>2
  <2> QED
    BY <1>2, <2>2, <2>3 DEF CallProtocol, GoTo, TypeOK
<1>3. CASE SignalWait(r)
  BY <1>3 DEF SignalWait, GoTo, TypeOK, psVars
<1>4. CASE handleSubscription(r)
  <2>1. /\ msgStorage' \in [Resources -> [Blocks -> MessageTypes \cup {Free}]]
        /\ msgQueue' \in [Resources -> Seq(Blocks)]
    <3>1. CASE Enqueue(r, "PUB_REQ")
      BY <3>1, EnqueueEffect DEF MessageTypes
    <3>2. CASE UNCHANGED <<msgStorage, msgQueue>>
      BY <3>2 DEF TypeOK
    <3> QED
      BY <1>4, <3>1, <3>2 DEF handleSubscription
  <2>2. worker' = [worker EXCEPT ![r] = "ack"] \/ worker' = [worker EXCEPT ![r] = "free"]
    BY <1>4 DEF handleSubscription, GoTo
  <2> QED
    BY <1>4, <2>1, <2>2 DEF handleSubscription, TypeOK, psVars
<1>5. ASSUME NEW type \in {"PUB_REQ", "ACK_REQ"}, Enqueue(r, type),
             worker' \in [Resources -> {"off", "get", "call", "wait", "handle", "ack", "free"}],
             UNCHANGED <<phase, subscribed, current, signals, filling, psVars>>
      PROVE  TypeOK'
  <2>1. /\ msgStorage' \in [Resources -> [Blocks -> MessageTypes \cup {Free}]]
        /\ msgQueue' \in [Resources -> Seq(Blocks)]
    BY <1>5, EnqueueEffect DEF MessageTypes
  <2> QED
    BY <1>5, <2>1 DEF TypeOK, psVars
<1>6. CASE AcknowledgeCommand(r)
  BY <1>5, <1>6 DEF AcknowledgeCommand, GoTo, TypeOK
<1>7. CASE FreeMessage(r)
  BY <1>7 DEF FreeMessage, GoTo, TypeOK, psVars
<1>8. CASE publish(r) \/ acknowledge(r)
  <2>1. PICK type \in {"PUB_REQ", "ACK_REQ"}, b \in Blocks :
          /\ msgStorage' = [msgStorage EXCEPT ![r][b] = type]
          /\ filling' = [filling EXCEPT ![r] = b]
          /\ UNCHANGED <<phase, subscribed, msgQueue, worker, current, signals, psVars>>
    BY <1>8, AllocateEffect
  <2>2. type \in MessageTypes
    BY DEF MessageTypes
  <2> QED
    BY <2>1, <2>2 DEF TypeOK, psVars
<1>9. CASE PutMessage(r)
  <2>1. msgQueue' \in [Resources -> Seq(Blocks)]
    <3>1. msgQueue \in [Resources -> Seq(Blocks)]
      BY DEF TypeOK
    <3>2. filling[r] \in Blocks => Append(msgQueue[r], filling[r]) \in Seq(Blocks)
      BY <3>1
    <3>3. \/ filling[r] \in Blocks /\ msgQueue' = [msgQueue EXCEPT ![r] = Append(@, filling[r])]
          \/ msgQueue' = msgQueue
      BY <1>9, PutEffect
    <3> QED
      BY <3>1, <3>2, <3>3
  <2> QED
    BY <1>9, <2>1, PutEffect DEF TypeOK, psVars
<1> QED
  BY <1>1, <1>2, <1>3, <1>4, <1>6, <1>7, <1>8, <1>9 DEF Worker, Threads

LEMMA TypeDispatcher ==
  ASSUME TypeOK, Dispatcher
  PROVE  TypeOK'
<1>1. ASSUME NEW ok \in BOOLEAN, InvokeDone(ok) PROVE TypeOK'
  <2>1. requests # <<>> /\ requests \in Seq(Protocol!Request)
    BY <1>1 DEF InvokeDone, Protocol!Answer, TypeOK
  <2>2. /\ Head(requests).client \in Resources
        /\ DoneSignal(Head(requests).type) \in {"SUB_ACK", "PUBLISH_DONE", "ACK_DONE"}
        /\ Tail(requests) \in Seq(Protocol!Request)
    <3>1. Head(requests) \in Protocol!Request /\ Tail(requests) \in Seq(Protocol!Request)
      BY <2>1
    <3> QED
      BY <3>1, RequestTypes DEF Protocol!Request
  <2>3. /\ requests' = Tail(requests) /\ held' = 1 /\ inbound' = inbound
        /\ listening' \subseteq Resources
    BY <1>1, <2>2 DEF InvokeDone, Protocol!Answer, TypeOK
  <2>4. signals' \in [Resources -> SUBSET {"SUB_ACK", "PUBLISH_DONE", "ACK_DONE"}]
    BY <1>1, <2>2 DEF InvokeDone, TypeOK
  <2>5. subscribed' \in [Resources -> BOOLEAN]
    BY <1>1 DEF InvokeDone, TypeOK
  <2> QED
    BY <1>1, <2>2, <2>3, <2>4, <2>5 DEF InvokeDone, TypeOK
<1>2. CASE SubscribeCallback
  <2>1. inbound \in Resources
    BY <1>2 DEF SubscribeCallback, Protocol!DataDelivered, TypeOK
  <2>2. /\ msgStorage' \in [Resources -> [Blocks -> MessageTypes \cup {Free}]]
        /\ msgQueue' \in [Resources -> Seq(Blocks)]
    <3>1. CASE Enqueue(inbound, "SUB_INCOMING")
      BY <2>1, <3>1, EnqueueEffect DEF MessageTypes
    <3>2. CASE UNCHANGED <<msgStorage, msgQueue>>
      BY <3>2 DEF TypeOK
    <3> QED
      BY <1>2, <3>1, <3>2 DEF SubscribeCallback
  <2> QED
    BY <1>2, <2>2 DEF SubscribeCallback, Protocol!DataDelivered, TypeOK
<1>3. CASE ProtocolAlone
  BY <1>3 DEF ProtocolAlone, Protocol!Release, Protocol!Reconnect, Protocol!DataArrives, TypeOK,
              resVars
<1> QED
  BY <1>1, <1>2, <1>3 DEF Dispatcher

-----------------------------------------------------------------------------
(* The storage of one resource: what alloc, put, get and free do to it.    *)

\* The blocks in the hands of a worker and of another thread.
Hands(r) == {current[r], filling[r]}

\* StorageConserved for one storage, queue and set of blocks in hand.
Conserved(storage, queue, hands) ==
  /\ \A b \in Blocks : storage[b] # Free <=>
       b \in hands \/ \E i \in 1 .. Len(queue) : queue[i] = b
  /\ \A i, j \in 1 .. Len(queue) : queue[i] = queue[j] => i = j
  /\ \A i \in 1 .. Len(queue) : queue[i] \notin hands

LEMMA StorageByResource ==
  StorageConserved <=> \A r \in Resources :
    /\ Conserved(msgStorage[r], msgQueue[r], Hands(r))
    /\ filling[r] = current[r] => filling[r] \notin Blocks
BY DEF StorageConserved, Conserved, Hands

\* A free block is taken into one more hand and filled.
LEMMA ConservedAlloc ==
  ASSUME NEW storage \in [Blocks -> MessageTypes \cup {Free}], NEW queue \in Seq(Blocks),
         NEW hands, Conserved(storage, queue, hands),
         NEW b \in Blocks, storage[b] = Free, NEW type \in MessageTypes,
         NEW more, \A c \in Blocks : c \in more <=> c \in hands \/ c = b
  PROVE  Conserved([storage EXCEPT ![b] = type], queue, more)
<1>1. \A c \in Blocks : [storage EXCEPT ![b] = type][c] = IF c = b THEN type ELSE storage[c]
  OBVIOUS
<1>2. type # Free
  BY ResourceAssumption
<1>3. \A i \in 1 .. Len(queue) : queue[i] \in Blocks
  OBVIOUS
<1> QED
  BY <1>1, <1>2, <1>3 DEF Conserved

\* A block in hand is queued.
LEMMA ConservedQueue ==
  ASSUME NEW storage, NEW queue \in Seq(Blocks),
         NEW hands, Conserved(storage, queue, hands),
         NEW b \in Blocks, b \in hands,
         NEW less, \A c \in Blocks : c \in less <=> c \in hands /\ c # b
  PROVE  Conserved(storage, Append(queue, b), less)
<1> DEFINE q == Append(queue, b)
           n == Len(queue)
<1>1. /\ n \in Nat /\ Len(q) = n + 1 /\ q[n + 1] = b
      /\ \A i \in 1 .. n : q[i] = queue[i] /\ queue[i] \in Blocks
  OBVIOUS
<1>2. \A i \in 1 .. n : queue[i] # b
  BY DEF Conserved
<1> HIDE DEF q
<1>3. \A c \in Blocks : storage[c] # Free <=> c \in less \/ \E i \in 1 .. Len(q) : q[i] = c
  <2> TAKE c \in Blocks
  <2>1. CASE c = b
    BY <2>1, <1>1 DEF Conserved
  <2>2. CASE c # b
    <3>1. (\E i \in 1 .. n + 1 : q[i] = c) <=> \E i \in 1 .. n : queue[i] = c
      BY <2>2, <1>1
    <3> QED
      BY <2>2, <3>1, <1>1 DEF Conserved
  <2> QED
    BY <2>1, <2>2
<1>4. \A i, j \in 1 .. Len(q) : q[i] = q[j] => i = j
  BY <1>1, <1>2 DEF Conserved
<1>5. \A i \in 1 .. Len(q) : q[i] \notin less
  BY <1>1 DEF Conserved
<1> QED
  BY <1>3, <1>4, <1>5 DEF Conserved, q

\* A free block that is filled and queued.
LEMMA ConservedPut ==
  ASSUME NEW storage \in [Blocks -> MessageTypes \cup {Free}], NEW queue \in Seq(Blocks),
         NEW hands, Conserved(storage, queue, hands),
         NEW b \in Blocks, storage[b] = Free, NEW type \in MessageTypes
  PROVE  Conserved([storage EXCEPT ![b] = type], Append(queue, b), hands)
<1>1. b \notin hands
  BY DEF Conserved
<1>2. Conserved([storage EXCEPT ![b] = type], queue, hands \cup {b})
  BY ConservedAlloc
<1> QED
  BY <1>1, <1>2, ConservedQueue

\* The first block of the queue goes into one more hand.
LEMMA ConservedTake ==
  ASSUME NEW storage, NEW queue \in Seq(Blocks), queue # <<>>,
         NEW hands, Conserved(storage, queue, hands),
         NEW more, \A b \in Blocks : b \in more <=> b \in hands \/ b = Head(queue)
  PROVE  Conserved(storage, Tail(queue), more)
<1> DEFINE q == Tail(queue)
           n == Len(queue)
<1>1. /\ n \in Nat /\ n >= 1 /\ Len(q) = n - 1
      /\ \A i \in 1 .. n - 1 : q[i] = queue[i + 1]
      /\ Head(queue) = queue[1]
      /\ \A i \in 1 .. n : queue[i] \in Blocks
  OBVIOUS
<1> HIDE DEF q
<1>2. \A b \in Blocks : (\E i \in 1 .. n : queue[i] = b)
        <=> (b = queue[1] \/ \E i \in 1 .. n - 1 : q[i] = b)
  <2> TAKE b \in Blocks
  <2>1. ASSUME NEW i \in 1 .. n, queue[i] = b, b # queue[1]
        PROVE  \E k \in 1 .. n - 1 : q[k] = b
    <3>1. i - 1 \in 1 .. n - 1 /\ q[i - 1] = queue[i]
      BY <1>1, <2>1
    <3> QED
      BY <2>1, <3>1
  <2>2. ASSUME NEW i \in 1 .. n - 1, q[i] = b
        PROVE  \E k \in 1 .. n : queue[k] = b
    BY <1>1, <2>2
  <2>3. 1 \in 1 .. n
    BY <1>1
  <2> QED
    BY <2>1, <2>2, <2>3
<1>3. \A b \in Blocks : storage[b] # Free <=>
        b \in more \/ \E i \in 1 .. Len(q) : q[i] = b
  BY <1>1, <1>2 DEF Conserved
<1>4. \A i, j \in 1 .. Len(q) : q[i] = q[j] => i = j
  BY <1>1 DEF Conserved
<1>5. \A i \in 1 .. Len(q) : q[i] \notin more
  BY <1>1 DEF Conserved
<1> QED
  BY <1>3, <1>4, <1>5 DEF Conserved, q

\* A block in hand is given back.
LEMMA ConservedFree ==
  ASSUME NEW storage \in [Blocks -> MessageTypes \cup {Free}], NEW queue \in Seq(Blocks),
         NEW hands, Conserved(storage, queue, hands), NEW b \in Blocks, b \in hands,
         NEW less, \A c \in Blocks : c \in less <=> c \in hands /\ c # b
  PROVE  Conserved([storage EXCEPT ![b] = Free], queue, less)
<1>1. \A c \in Blocks : [storage EXCEPT ![b] = Free][c] = IF c = b THEN Free ELSE storage[c]
  OBVIOUS
<1>2. \A i \in 1 .. Len(queue) : queue[i] \in Blocks
  OBVIOUS
<1> QED
  BY <1>1, <1>2 DEF Conserved

LEMMA ConservedEmpty ==
  ASSUME NEW hands, \A b \in Blocks : b \notin hands
  PROVE  Conserved([b \in Blocks |-> Free], <<>>, hands)
BY DEF Conserved

\* The others are not touched by a step of one resource.
LEMMA StorageOfOne ==
  ASSUME StorageInv, NEW r \in Resources,
         \A q \in Resources \ {r} : /\ msgStorage'[q] = msgStorage[q]
                                    /\ msgQueue'[q] = msgQueue[q]
                                    /\ current'[q] = current[q] /\ filling'[q] = filling[q],
         Conserved(msgStorage'[r], msgQueue'[r], {current'[r], filling'[r]}),
         filling'[r] = current'[r] => filling'[r] \notin Blocks
  PROVE  StorageConserved'
<1>1. \A q \in Resources :
        /\ Conserved(msgStorage'[q], msgQueue'[q], {current'[q], filling'[q]})
        /\ filling'[q] = current'[q] => filling'[q] \notin Blocks
  BY StorageByResource DEF StorageInv, Hands
<1> QED
  BY <1>1 DEF StorageConserved, Conserved

\* A step of a resource that puts a message, or none, keeps its storage.
LEMMA StorageEnqueue ==
  ASSUME StorageInv, NEW r \in Resources, NEW type \in MessageTypes,
         Enqueue(r, type) \/ UNCHANGED <<msgStorage, msgQueue>>, UNCHANGED <<current, filling>>
  PROVE  StorageConserved'
<1> USE DEF StorageInv
<1>1. CASE UNCHANGED <<msgStorage, msgQueue>>
  BY <1>1 DEF StorageConserved
<1>2. CASE Enqueue(r, type) /\ ~UNCHANGED <<msgStorage, msgQueue>>
  <2>1. PICK b \in Blocks :
          /\ msgStorage[r][b] = Free
          /\ msgStorage'[r] = [msgStorage[r] EXCEPT ![b] = type]
          /\ msgQueue'[r] = Append(msgQueue[r], b)
          /\ \A q \in Resources \ {r} : msgStorage'[q] = msgStorage[q] /\ msgQueue'[q] = msgQueue[q]
    BY <1>2, EnqueueEffect
  <2>2. /\ Conserved(msgStorage[r], msgQueue[r], Hands(r))
        /\ filling[r] = current[r] => filling[r] \notin Blocks
    BY StorageByResource
  <2>3. /\ msgStorage[r] \in [Blocks -> MessageTypes \cup {Free}]
        /\ msgQueue[r] \in Seq(Blocks)
    BY DEF TypeOK
  <2>4. Conserved(msgStorage'[r], msgQueue'[r], Hands(r))
    BY <2>1, <2>2, <2>3, ConservedPut
  <2> QED
    BY <1>2, <2>1, <2>2, <2>4, StorageOfOne DEF Hands
<1> QED
  BY <1>1, <1>2

\* Seen from the blocks: at most one that was free, and that no worker has in
\* hand, is filled; no other changes.
Stored(r, type) ==
  \A q \in Resources : \A b \in Blocks :
    \/ msgStorage'[q][b] = msgStorage[q][b]
    \/ /\ q = r /\ b # current[q]
       /\ msgStorage[q][b] = Free /\ msgStorage'[q][b] = type

LEMMA EnqueueStored ==
  ASSUME StorageInv, NEW r \in Resources, NEW type \in MessageTypes,
         Enqueue(r, type) \/ UNCHANGED <<msgStorage, msgQueue>>
  PROVE  /\ Stored(r, type)
         /\ \A q \in Resources \ {r} : msgQueue'[q] = msgQueue[q]
<1> USE DEF StorageInv
<1>1. CASE UNCHANGED <<msgStorage, msgQueue>>
  BY <1>1 DEF Stored
<1>2. CASE Enqueue(r, type) /\ ~UNCHANGED <<msgStorage, msgQueue>>
  <2>1. PICK b \in Blocks :
          /\ msgStorage[r][b] = Free
          /\ msgStorage'[r] = [msgStorage[r] EXCEPT ![b] = type]
          /\ \A q \in Resources \ {r} : msgStorage'[q] = msgStorage[q] /\ msgQueue'[q] = msgQueue[q]
    BY <1>2, EnqueueEffect
  <2>2. b # current[r]
    BY <2>1 DEF StorageConserved
  <2>3. msgStorage[r] \in [Blocks -> MessageTypes \cup {Free}]
    BY DEF TypeOK
  <2> QED
    BY <2>1, <2>2, <2>3 DEF Stored
<1> QED
  BY <1>1, <1>2

\* The two halves of a publication from another thread.
LEMMA ClientStored ==
  ASSUME StorageInv, NEW r \in Resources,
         publish(r) \/ acknowledge(r) \/ PutMessage(r), ~Undefined
  PROVE  /\ \E type \in {"PUB_REQ", "ACK_REQ"} : Stored(r, type)
         /\ UNCHANGED <<phase, subscribed, worker, current, signals, psVars>>
<1> USE DEF StorageInv
<1>1. CASE PutMessage(r)
  BY <1>1, PutEffect DEF Stored
<1>2. CASE publish(r) \/ acknowledge(r)
  <2>1. PICK type \in {"PUB_REQ", "ACK_REQ"}, b \in Blocks :
          /\ msgStorage[r][b] = Free
          /\ msgStorage' = [msgStorage EXCEPT ![r][b] = type]
          /\ UNCHANGED <<phase, subscribed, worker, current, signals, psVars>>
    BY <1>2, AllocateEffect
  <2>2. b # current[r]
    BY <2>1 DEF StorageConserved
  <2> QED
    BY <2>1, <2>2 DEF Stored, TypeOK
<1> QED
  BY <1>1, <1>2

\* What the worker has in hand is not overwritten.
LEMMA HandKept ==
  ASSUME NEW r \in Resources, NEW type, Stored(r, type), UNCHANGED current
  PROVE  \A q \in Resources : current[q] \in Blocks => CurrentType(q)' = CurrentType(q)
BY DEF Stored, CurrentType

-----------------------------------------------------------------------------
(* The storage invariant is inductive.                                     *)

LEMMA StorageInit == Init => StorageInv
<1> SUFFICES ASSUME Init PROVE StorageInv
  OBVIOUS
<1>1. HandInv /\ PhaseInv
  BY ResourceAssumption DEF Init, HandInv, PhaseInv, Protocol!PSInit
<1>2. StorageConserved
  <2>1. \A r \in Resources : \A b \in Blocks : b \notin Hands(r)
    BY ResourceAssumption DEF Init, Hands
  <2>2. \A r \in Resources : /\ msgStorage[r] = [b \in Blocks |-> Free] /\ msgQueue[r] = <<>>
                             /\ filling[r] \notin Blocks
    BY ResourceAssumption DEF Init
  <2>3. \A r \in Resources : Conserved(msgStorage[r], msgQueue[r], Hands(r))
    BY <2>1, <2>2, ConservedEmpty
  <2> QED
    BY <2>2, <2>3, StorageByResource
<1> QED
  BY <1>1, <1>2, TypeInit DEF StorageInv

LEMMA PhaseStep ==
  ASSUME TypeOK, PhaseInv, [Next]_vars, ~Undefined
  PROVE  PhaseInv'
<1> USE DEF TypeOK, PhaseInv
<1>1. ASSUME NEW r \in Resources, advertise(r) \/ revoke(r) PROVE PhaseInv'
  BY <1>1 DEF advertise, revoke, psVars
<1>2. CASE StartLoop \/ EndLoop \/ Restart \/ PowerCycle
  BY <1>2 DEF StartLoop, EndLoop, Restart, PowerCycle, resVars, psVars, Protocol!Close
<1>3. ASSUME NEW r \in Resources, Threads(r) PROVE PhaseInv'
  <2>1. /\ UNCHANGED <<phase, held, listening, inbound>>
        /\ \A q \in Resources : worker[q] # "off" => worker'[q] # "off"
    <3>1. CASE Worker(r)
      BY <3>1 DEF Worker, GetMessage, CallProtocol, SignalWait, handleSubscription,
         AcknowledgeCommand, FreeMessage, GoTo, psVars, Protocol!Accept
    <3>2. CASE publish(r) \/ acknowledge(r)
      BY <3>2, AllocateEffect DEF psVars
    <3>3. CASE PutMessage(r)
      BY <3>3, PutEffect DEF psVars
    <3> QED
      BY <1>3, <3>1, <3>2, <3>3 DEF Threads
  <2> QED
    BY <2>1
<1>4. CASE Dispatcher
  BY <1>4 DEF Dispatcher, InvokeDone, SubscribeCallback, ProtocolAlone, resVars
<1>5. CASE UNCHANGED vars
  BY <1>5 DEF vars, resVars, psVars
<1> QED
  BY <1>1, <1>2, <1>3, <1>4, <1>5, NextCases DEF MainThread

LEMMA StorageMain ==
  ASSUME StorageInv, MainThread
  PROVE  TypeOK' /\ HandInv' /\ StorageConserved'
<1>1. TypeOK'
  BY TypeMain DEF StorageInv
<1>2. ASSUME NEW r \in Resources, advertise(r) PROVE HandInv' /\ StorageConserved'
  <2>1. /\ Enqueue(r, "SUB_REQ") /\ "SUB_REQ" \in MessageTypes /\ worker[r] = "off"
        /\ UNCHANGED <<current, filling>> /\ worker' = [worker EXCEPT ![r] = "get"]
    BY <1>2 DEF advertise, MessageTypes
  <2>2. \A q \in Resources \ {r} : worker'[q] = worker[q] /\ msgQueue'[q] = msgQueue[q]
    BY <2>1, EnqueueStored
  <2>3. worker'[r] = "get"
    BY <2>1 DEF StorageInv, TypeOK
  <2>4. HandInv'
    BY <2>1, <2>2, <2>3, EnqueueStored, HandKept DEF StorageInv, HandInv
  <2> QED
    BY <2>1, <2>4, StorageEnqueue
<1>3. ASSUME NEW r \in Resources, revoke(r) PROVE HandInv' /\ StorageConserved'
  <2>1. /\ msgStorage'[r] = [b \in Blocks |-> Free] /\ msgQueue'[r] = <<>>
        /\ current'[r] = NoBlock /\ worker'[r] = "off"
        /\ filling'[r] \in {NoBlock, Dangling}
        /\ \A q \in Resources \ {r} : /\ msgStorage'[q] = msgStorage[q]
                                      /\ msgQueue'[q] = msgQueue[q]
                                      /\ current'[q] = current[q] /\ filling'[q] = filling[q]
                                      /\ worker'[q] = worker[q]
    BY <1>3 DEF revoke, StorageInv, TypeOK
  <2>2. StorageConserved'
    <3>1. \A b \in Blocks : b \notin {current'[r], filling'[r]}
      BY <2>1, ResourceAssumption
    <3>2. Conserved(msgStorage'[r], msgQueue'[r], {current'[r], filling'[r]})
      BY <2>1, <3>1, ConservedEmpty
    <3> QED
      BY <2>1, <3>1, <3>2, StorageOfOne
  <2>3. HandInv'
    BY <2>1, ResourceAssumption DEF StorageInv, HandInv, CurrentType
  <2> QED
    BY <2>2, <2>3
<1>4. ASSUME UNCHANGED resVars PROVE HandInv' /\ StorageConserved'
  BY <1>4 DEF StorageInv, HandInv, StorageConserved, CurrentType, resVars
<1>5. StartLoop \/ EndLoop \/ Restart \/ PowerCycle => UNCHANGED resVars
  BY DEF StartLoop, EndLoop, Restart, PowerCycle
<1> QED
  BY <1>1, <1>2, <1>3, <1>4, <1>5 DEF StorageInv, MainThread

LEMMA StorageThreads ==
  ASSUME StorageInv, NEW r \in Resources, Threads(r), ~Undefined
  PROVE  TypeOK' /\ HandInv' /\ StorageConserved'
<1> USE DEF StorageInv
<1>1. TypeOK'
  BY TypeThreads
<1>2. CASE GetMessage(r)
  <2>1. /\ worker[r] = "get" /\ msgQueue[r] # <<>> /\ UNCHANGED <<msgStorage, filling>>
        /\ current'[r] = Head(msgQueue[r]) /\ msgQueue'[r] = Tail(msgQueue[r])
        /\ worker'[r] = IF msgStorage[r][Head(msgQueue[r])] = "SUB_INCOMING" THEN "handle" ELSE "call"
        /\ \A q \in Resources \ {r} : /\ msgQueue'[q] = msgQueue[q]
                                      /\ current'[q] = current[q]
                                      /\ worker'[q] = worker[q]
    BY <1>2 DEF GetMessage, GoTo, TypeOK
  <2>2. Conserved(msgStorage[r], msgQueue[r], Hands(r)) /\ current[r] \notin Blocks
    BY <2>1, StorageByResource DEF HandInv, TypeOK
  <2>3. msgQueue[r] \in Seq(Blocks)
    BY DEF TypeOK
  <2>5. Head(msgQueue[r]) \in Blocks /\ Head(msgQueue[r]) # filling[r]
    <3>1. /\ Len(msgQueue[r]) \in Nat /\ 1 \in 1 .. Len(msgQueue[r])
          /\ Head(msgQueue[r]) = msgQueue[r][1] /\ msgQueue[r][1] \in Blocks
      BY <2>1, <2>3
    <3>2. msgQueue[r][1] \notin Hands(r)
      BY <2>2, <3>1 DEF Conserved
    <3> QED
      BY <3>1, <3>2 DEF Hands
  <2>4. StorageConserved'
    <3>1. \A b \in Blocks : b \in {current'[r], filling'[r]} <=>
            b \in Hands(r) \/ b = Head(msgQueue[r])
      BY <2>1, <2>2 DEF Hands
    <3>2. Conserved(msgStorage'[r], msgQueue'[r], {current'[r], filling'[r]})
      BY <2>1, <2>2, <2>3, <3>1, ConservedTake
    <3> QED
      BY <2>1, <2>5, <3>2, StorageOfOne
  <2>6. msgStorage[r][Head(msgQueue[r])] \in MessageTypes
    <3>1. msgStorage'[r][current'[r]] # Free
      BY <2>1, <2>4, <2>5 DEF StorageConserved
    <3> QED
      BY <2>1, <2>5, <3>1 DEF TypeOK
  <2>7. HandInv'
    BY <2>1, <2>5, <2>6 DEF HandInv, CurrentType, MessageTypes
  <2> QED
    BY <1>1, <2>4, <2>7
<1>3. CASE CallProtocol(r) \/ SignalWait(r)
  <2>1. /\ UNCHANGED <<msgStorage, msgQueue, current, filling>>
        /\ worker[r] \in {"call", "wait"} /\ worker'[r] \in {"wait", "free"}
        /\ worker[r] = "wait" => worker'[r] = "free"
        /\ \A q \in Resources \ {r} : worker'[q] = worker[q]
    BY <1>3 DEF CallProtocol, SignalWait, GoTo, TypeOK
  <2>2. HandInv' /\ StorageConserved'
    BY <2>1 DEF HandInv, StorageConserved, CurrentType
  <2> QED
    BY <1>1, <2>2
<1>4. ASSUME NEW type \in {"PUB_REQ", "ACK_REQ"},
             Enqueue(r, type) \/ UNCHANGED <<msgStorage, msgQueue>>, UNCHANGED <<current, filling>>,
             \A q \in Resources \ {r} : worker'[q] = worker[q],
             worker[r] \in {"handle", "ack"}, worker'[r] \in {"ack", "free"}
      PROVE  HandInv' /\ StorageConserved'
  <2>1. type \in MessageTypes
    BY DEF MessageTypes
  <2>2. StorageConserved'
    BY <1>4, <2>1, StorageEnqueue
  <2>3. \A q \in Resources : current[q] \in Blocks => CurrentType(q)' = CurrentType(q)
    BY <1>4, <2>1, EnqueueStored, HandKept
  <2>4. \A q \in Resources \ {r} : msgQueue'[q] = msgQueue[q]
    BY <1>4, <2>1, EnqueueStored
  <2>5. HandInv'
    BY <1>4, <2>3, <2>4 DEF HandInv
  <2> QED
    BY <2>2, <2>5
<1>5. CASE handleSubscription(r)
  BY <1>1, <1>4, <1>5 DEF handleSubscription, GoTo, TypeOK
<1>6. CASE AcknowledgeCommand(r)
  BY <1>1, <1>4, <1>6 DEF AcknowledgeCommand, GoTo, TypeOK
<1>7. CASE publish(r) \/ acknowledge(r)
  <2>1. PICK type \in {"PUB_REQ", "ACK_REQ"}, b \in Blocks :
          /\ worker[r] # "off" /\ filling[r] = NoBlock /\ msgStorage[r][b] = Free
          /\ msgStorage' = [msgStorage EXCEPT ![r][b] = type]
          /\ filling' = [filling EXCEPT ![r] = b]
          /\ UNCHANGED <<msgQueue, worker, current>>
    BY <1>7, AllocateEffect
  <2>2. /\ msgStorage'[r] = [msgStorage[r] EXCEPT ![b] = type] /\ filling'[r] = b
        /\ \A q \in Resources \ {r} : msgStorage'[q] = msgStorage[q] /\ filling'[q] = filling[q]
    BY <2>1 DEF TypeOK
  <2>3. /\ Conserved(msgStorage[r], msgQueue[r], Hands(r))
        /\ msgStorage[r] \in [Blocks -> MessageTypes \cup {Free}] /\ msgQueue[r] \in Seq(Blocks)
    BY StorageByResource DEF TypeOK
  <2>4. type \in MessageTypes /\ b # current[r]
    BY <2>1 DEF MessageTypes, StorageConserved
  <2>5. \A c \in Blocks : c \in {current'[r], filling'[r]} <=> c \in Hands(r) \/ c = b
    BY <2>1, <2>2, ResourceAssumption DEF Hands
  <2>6. Conserved(msgStorage'[r], msgQueue'[r], {current'[r], filling'[r]})
    BY <2>1, <2>2, <2>3, <2>4, <2>5, ConservedAlloc
  <2>7. StorageConserved'
    BY <2>1, <2>2, <2>4, <2>6, StorageOfOne
  <2>8. Stored(r, type)
    BY <2>1, <2>2, <2>3, <2>4 DEF Stored
  <2>9. HandInv'
    BY <2>1, <2>2, <2>8, HandKept DEF HandInv
  <2> QED
    BY <1>1, <2>7, <2>9
<1>9. CASE PutMessage(r)
  <2>1. /\ UNCHANGED <<msgStorage, worker, current>> /\ filling'[r] = NoBlock
        /\ \A q \in Resources \ {r} : msgQueue'[q] = msgQueue[q] /\ filling'[q] = filling[q]
    BY <1>9, PutEffect DEF TypeOK
  <2>2. /\ Conserved(msgStorage[r], msgQueue[r], Hands(r)) /\ msgQueue[r] \in Seq(Blocks)
        /\ filling[r] \in Blocks => filling[r] # current[r]
    BY StorageByResource DEF TypeOK
  <2>3. Conserved(msgStorage'[r], msgQueue'[r], {current'[r], filling'[r]})
    <3>1. CASE filling[r] \in Blocks
      <4>1. msgQueue'[r] = Append(msgQueue[r], filling[r])
        BY <1>9, <3>1, PutEffect DEF TypeOK
      <4>2. \A c \in Blocks : c \in {current'[r], filling'[r]} <=> c \in Hands(r) /\ c # filling[r]
        BY <2>1, <2>2, <3>1, ResourceAssumption DEF Hands
      <4>3. filling[r] \in Hands(r)
        BY DEF Hands
      <4> QED
        BY <2>1, <2>2, <3>1, <4>1, <4>2, <4>3, ConservedQueue
    <3>2. CASE filling[r] \notin Blocks
      <4>1. msgQueue'[r] = msgQueue[r]
        BY <1>9, <3>2, PutEffect
      <4>2. \A c \in Blocks : c \in {current'[r], filling'[r]} <=> c \in Hands(r)
        BY <2>1, <3>2, ResourceAssumption DEF Hands
      <4>3. \A i \in 1 .. Len(msgQueue[r]) : msgQueue[r][i] \in Blocks
        BY <2>2
      <4> QED
        BY <2>1, <2>2, <4>1, <4>2, <4>3 DEF Conserved
    <3> QED
      BY <3>1, <3>2
  <2>4. StorageConserved'
    BY <2>1, <2>3, ResourceAssumption, StorageOfOne
  <2>5. worker[r] = "off" => msgQueue'[r] = msgQueue[r]
    BY <1>9, PutEffect DEF HandInv
  <2>6. HandInv'
    BY <2>1, <2>5, ResourceAssumption DEF HandInv, CurrentType
  <2> QED
    BY <1>1, <2>4, <2>6
<1>8. CASE FreeMessage(r)
  <2>1. /\ worker[r] = "free" /\ UNCHANGED <<msgQueue, filling>> /\ current[r] \in Blocks
        /\ msgStorage'[r] = [msgStorage[r] EXCEPT ![current[r]] = Free]
        /\ current'[r] = NoBlock /\ worker'[r] = "get"
        /\ \A q \in Resources \ {r} : /\ msgStorage'[q] = msgStorage[q]
                                      /\ current'[q] = current[q]
                                      /\ worker'[q] = worker[q]
    BY <1>8 DEF FreeMessage, GoTo, TypeOK, HandInv
  <2>2. /\ Conserved(msgStorage[r], msgQueue[r], Hands(r))
        /\ msgStorage[r] \in [Blocks -> MessageTypes \cup {Free}] /\ msgQueue[r] \in Seq(Blocks)
        /\ filling[r] \in Blocks => filling[r] # current[r]
    BY StorageByResource DEF TypeOK
  <2>3. StorageConserved'
    <3>1. /\ current[r] \in Hands(r)
          /\ \A c \in Blocks : c \in {current'[r], filling'[r]} <=> c \in Hands(r) /\ c # current[r]
      BY <2>1, <2>2, ResourceAssumption DEF Hands
    <3>2. Conserved(msgStorage'[r], msgQueue'[r], {current'[r], filling'[r]})
      BY <2>1, <2>2, <3>1, ConservedFree
    <3> QED
      BY <2>1, <3>2, ResourceAssumption, StorageOfOne
  <2>4. HandInv'
    BY <2>1, ResourceAssumption DEF HandInv, CurrentType
  <2> QED
    BY <1>1, <2>3, <2>4
<1> QED
  BY <1>2, <1>3, <1>5, <1>6, <1>7, <1>8, <1>9 DEF Worker, Threads

LEMMA StorageDispatcher ==
  ASSUME StorageInv, Dispatcher
  PROVE  TypeOK' /\ HandInv' /\ StorageConserved'
<1> USE DEF StorageInv
<1>1. TypeOK'
  BY TypeDispatcher
<1>2. CASE SubscribeCallback
  <2>1. /\ inbound \in Resources /\ "SUB_INCOMING" \in MessageTypes
        /\ Enqueue(inbound, "SUB_INCOMING") \/ UNCHANGED <<msgStorage, msgQueue>>
        /\ UNCHANGED <<worker, current, filling>>
    BY <1>2 DEF SubscribeCallback, Protocol!DataDelivered, TypeOK, MessageTypes
  <2>2. PICK r \in Resources : r = inbound
    BY <2>1
  <2>3. StorageConserved'
    BY <2>1, <2>2, StorageEnqueue
  <2>4. \A q \in Resources : current[q] \in Blocks => CurrentType(q)' = CurrentType(q)
    BY <2>1, <2>2, EnqueueStored, HandKept
  <2>5. \A q \in Resources : worker[q] = "off" => msgQueue'[q] = msgQueue[q]
    BY <1>2 DEF SubscribeCallback, PhaseInv
  <2>6. HandInv'
    BY <2>1, <2>4, <2>5 DEF HandInv
  <2> QED
    BY <1>1, <2>3, <2>6
<1>3. CASE ~SubscribeCallback
  <2>1. UNCHANGED <<msgStorage, msgQueue, worker, current, filling>>
    BY <1>3 DEF Dispatcher, InvokeDone, ProtocolAlone, resVars
  <2>2. HandInv' /\ StorageConserved'
    BY <2>1 DEF HandInv, StorageConserved, CurrentType
  <2> QED
    BY <1>1, <2>2
<1> QED
  BY <1>2, <1>3

LEMMA StorageStep ==
  ASSUME StorageInv, [Next]_vars, ~Undefined
  PROVE  StorageInv'
<1>1. PhaseInv'
  BY PhaseStep DEF StorageInv
<1>2. CASE UNCHANGED vars
  BY <1>1, <1>2 DEF StorageInv, TypeOK, HandInv, StorageConserved, CurrentType, vars, resVars, psVars
<1>3. CASE Next
  BY <1>1, <1>3, NextCases, StorageMain, StorageThreads, StorageDispatcher DEF StorageInv
<1> QED
  BY <1>2, <1>3

-----------------------------------------------------------------------------
(* Waiting for the answer is inductive.                                    *)

LEMMA ClientsKnown ==
  ASSUME TypeOK
  PROVE  \A i \in 1 .. Len(requests) : requests[i].client \in Resources
<1>1. requests \in Seq(Protocol!Request)
  BY DEF TypeOK
<1>2. \A i \in 1 .. Len(requests) : requests[i] \in Protocol!Request
  BY <1>1
<1> QED
  BY <1>2 DEF Protocol!Request

\* The protocol has room for the request of a worker about to call it: every
\* request under way belongs to another resource, and no two to the same.
LEMMA RoomForRequest ==
  ASSUME StorageInv, RequestInv, NEW r \in Resources, worker[r] = "call"
  PROVE  Len(requests) + held < PoolSize
<1> DEFINE n == Len(requests)
           f == [i \in 1 .. n |-> requests[i].client]
<1>1. n \in Nat
  BY DEF StorageInv, TypeOK
<1>2. f \in Injection(1 .. n, Resources \ {r})
  <2>1. \A i \in 1 .. n : requests[i].client \in Resources
    BY ClientsKnown DEF StorageInv
  <2>2. \A i \in 1 .. n : requests[i].client # r
    BY DEF RequestInv
  <2>3. f \in [1 .. n -> Resources \ {r}]
    BY <2>1, <2>2
  <2>4. \A i, j \in 1 .. n : f[i] = f[j] => i = j
    BY <2>1 DEF RequestInv
  <2> QED
    BY <2>3, <2>4, Zenon DEF Injection, IsInjective
<1>3. /\ IsFiniteSet(Resources \ {r})
      /\ Cardinality(Resources \ {r}) = Cardinality(Resources) - 1
  BY FS_RemoveElement, ResourceAssumption
<1>4. Cardinality(1 .. n) <= Cardinality(Resources \ {r})
  BY <1>2, <1>3, FS_Injection
<1>5. Cardinality(1 .. n) = n
  BY <1>1, FS_Interval
<1>6. Cardinality(Resources) \in Nat
  BY FS_CardinalityType, ResourceAssumption
<1>7. held \in {0, 1}
  BY DEF StorageInv, TypeOK
<1> QED
  BY <1>1, <1>3, <1>4, <1>5, <1>6, <1>7, ResourceAssumption

\* A step keeps WaitInv if it changes no request, no signal and no worker that
\* waits, has been called or is off, nor what such a worker has in hand.
LEMMA WaitFrame ==
  ASSUME StorageInv, WaitInv, UNCHANGED <<requests, signals>>,
         phase = "revoking" => phase' = "revoking",
         \A q \in Resources :
           \/ worker'[q] = worker[q] /\ (worker[q] = "wait" => CurrentType(q)' = CurrentType(q))
           \/ worker[q] \notin {"wait", "off"} /\ worker'[q] # "wait"
  PROVE  WaitInv'
<1>1. \A i \in 1 .. Len(requests) : requests[i].client \in Resources
  BY ClientsKnown DEF StorageInv
<1>2. RequestInv'
  BY <1>1 DEF WaitInv, RequestInv
<1>3. NoStaleSignal'
  BY DEF WaitInv, NoStaleSignal
<1>4. NoLostWakeup'
  BY DEF WaitInv, NoLostWakeup
<1> QED
  BY <1>2, <1>3, <1>4 DEF WaitInv

LEMMA WaitInit == Init => WaitInv
BY DEF Init, WaitInv, RequestInv, NoStaleSignal, NoLostWakeup, Protocol!PSInit

LEMMA WaitMain ==
  ASSUME StorageInv, WaitInv, MainThread
  PROVE  WaitInv'
<1>0. \A i \in 1 .. Len(requests) : requests[i].client \in Resources
  BY ClientsKnown DEF StorageInv
<1>1. ASSUME NEW r \in Resources, advertise(r) PROVE WaitInv'
  <2>1. /\ Enqueue(r, "SUB_REQ") /\ "SUB_REQ" \in MessageTypes /\ UNCHANGED current
        /\ UNCHANGED <<phase, requests, signals>> /\ phase = "advertising"
        /\ worker[r] = "off" /\ worker'[r] = "get"
        /\ \A q \in Resources \ {r} : worker'[q] = worker[q]
    BY <1>1 DEF advertise, MessageTypes, psVars, StorageInv, TypeOK
  <2>2. \A q \in Resources : worker[q] = "wait" => CurrentType(q)' = CurrentType(q)
    BY <2>1, EnqueueStored, HandKept DEF StorageInv, HandInv
  <2>3. \A i \in 1 .. Len(requests) : requests[i].client # r
    BY <2>1 DEF WaitInv, RequestInv
  <2>4. RequestInv'
    BY <1>0, <2>1, <2>2, <2>3 DEF WaitInv, RequestInv
  <2>5. NoStaleSignal'
    BY <2>1, <2>2 DEF WaitInv, NoStaleSignal
  <2>6. NoLostWakeup'
    BY <2>1, <2>2 DEF WaitInv, NoLostWakeup
  <2> QED
    BY <2>4, <2>5, <2>6 DEF WaitInv
<1>2. ASSUME NEW r \in Resources, revoke(r) PROVE WaitInv'
  <2>1. /\ UNCHANGED <<phase, requests>> /\ phase = "revoking"
        /\ worker'[r] = "off" /\ signals'[r] = {}
        /\ \A q \in Resources \ {r} : /\ worker'[q] = worker[q] /\ signals'[q] = signals[q]
                                      /\ CurrentType(q)' = CurrentType(q)
    BY <1>2 DEF revoke, psVars, StorageInv, TypeOK, CurrentType
  <2>2. RequestInv'
    <3> SUFFICES ASSUME NEW i \in 1 .. Len(requests), NEW q \in Resources, requests[i].client = q
                 PROVE  /\ \/ /\ worker'[q] = "wait" /\ signals'[q] = {}
                              /\ RequestType(CurrentType(q)') = requests[i].type
                           \/ worker'[q] = "off"
                        /\ \A j \in 1 .. Len(requests) : requests[j].client = q => j = i
      BY <2>1 DEF RequestInv, RequestType
    <3>1. CASE q = r
      BY <2>1, <3>1 DEF WaitInv, RequestInv
    <3>2. CASE q # r
      BY <2>1, <3>2 DEF WaitInv, RequestInv
    <3> QED
      BY <3>1, <3>2
  <2>3. NoStaleSignal'
    BY <2>1 DEF WaitInv, NoStaleSignal
  <2>4. NoLostWakeup'
    BY <2>1 DEF WaitInv, NoLostWakeup
  <2> QED
    BY <2>2, <2>3, <2>4 DEF WaitInv
<1>3. CASE StartLoop \/ EndLoop \/ PowerCycle
  BY <1>3, WaitFrame DEF StartLoop, EndLoop, PowerCycle, resVars, psVars, CurrentType
<1>4. CASE Restart
  <2>1. /\ requests' = <<>> /\ UNCHANGED <<worker, signals>>
        /\ \A r \in Resources : worker[r] = "off"
    BY <1>4 DEF Restart, Protocol!Close, resVars
  <2> QED
    BY <2>1 DEF WaitInv, RequestInv, NoStaleSignal, NoLostWakeup
<1> QED
  BY <1>1, <1>2, <1>3, <1>4 DEF MainThread

\* The request goes to the end of the queue, and the worker waits for it.
LEMMA WaitCall ==
  ASSUME StorageInv, WaitInv, NEW r \in Resources, CallProtocol(r)
  PROVE  WaitInv'
<1> DEFINE request == [type |-> RequestType(CurrentType(r)), client |-> r]
           n == Len(requests)
<1>1. /\ worker[r] = "call" /\ worker'[r] = "wait"
      /\ \A q \in Resources \ {r} : worker'[q] = worker[q]
      /\ UNCHANGED <<phase, msgStorage, current, signals>>
  BY DEF CallProtocol, GoTo, StorageInv, TypeOK
<1>2. requests' = Append(requests, request)
  BY <1>1, RoomForRequest DEF CallProtocol, Protocol!Accept, WaitInv
<1>3. n \in Nat /\ requests \in Seq(Protocol!Request)
  BY DEF StorageInv, TypeOK
<1>others. \A i \in 1 .. n : requests[i].client # r
  BY <1>1 DEF WaitInv, RequestInv
<1>4. request.client = r /\ request.type = RequestType(CurrentType(r))
  OBVIOUS
<1> HIDE DEF request
<1>5. /\ Len(requests') = n + 1 /\ requests'[n + 1] = request
      /\ \A i \in 1 .. n : requests'[i] = requests[i]
  BY <1>2, <1>3
<1>6. signals[r] = {}
  BY <1>1 DEF WaitInv, NoStaleSignal
<1>7. \A q \in Resources : CurrentType(q)' = CurrentType(q)
  BY <1>1 DEF CurrentType
<1>8. RequestInv'
  <2> SUFFICES ASSUME NEW i \in 1 .. n + 1, NEW q \in Resources, requests'[i].client = q
               PROVE  /\ \/ /\ worker'[q] = "wait" /\ signals'[q] = {}
                            /\ RequestType(CurrentType(q)') = requests'[i].type
                         \/ worker'[q] = "off" /\ phase' = "revoking"
                      /\ \A j \in 1 .. n + 1 : requests'[j].client = q => j = i
    BY <1>5 DEF RequestInv
  <2>1. CASE i = n + 1
    BY <2>1, <1>1, <1>others, <1>3, <1>4, <1>5, <1>6, <1>7
  <2>2. CASE i \in 1 .. n
    <3>1. requests[i].client = q /\ q # r /\ requests'[i] = requests[i]
      BY <2>2, <1>others, <1>5
    <3>2. /\ \/ worker[q] = "wait" /\ signals[q] = {} /\ RequestType(CurrentType(q)) = requests[i].type
             \/ worker[q] = "off" /\ phase = "revoking"
          /\ \A j \in 1 .. n : requests[j].client = q => j = i
      BY <2>2, <3>1 DEF WaitInv, RequestInv
    <3>3. \A j \in 1 .. n + 1 : requests'[j].client = q => j = i
      BY <3>1, <3>2, <1>3, <1>4, <1>5
    <3> QED
      BY <3>1, <3>2, <3>3, <1>1, <1>7
  <2> QED
    BY <1>3, <2>1, <2>2
<1>9. NoStaleSignal'
  BY <1>1, <1>6, <1>7 DEF WaitInv, NoStaleSignal
<1>10. NoLostWakeup'
  <2> SUFFICES ASSUME NEW q \in Resources, worker'[q] = "wait"
               PROVE  LET type == RequestType(CurrentType(q)') IN
                 \/ DoneSignal(type) \in signals'[q]
                 \/ \E i \in 1 .. n + 1 : requests'[i] = [type |-> type, client |-> q]
    BY <1>5 DEF NoLostWakeup
  <2>1. CASE q = r
    BY <2>1, <1>3, <1>5, <1>7 DEF request
  <2>2. CASE q # r
    BY <2>2, <1>1, <1>3, <1>5, <1>7 DEF WaitInv, NoLostWakeup
  <2> QED
    BY <2>1, <2>2
<1> QED
  BY <1>8, <1>9, <1>10 DEF WaitInv

\* The signal ends the wait; nothing of this worker is under way any more.
LEMMA WaitSignal ==
  ASSUME StorageInv, WaitInv, NEW r \in Resources, SignalWait(r)
  PROVE  WaitInv'
<1> DEFINE signal == DoneSignal(RequestType(CurrentType(r)))
<1>1. /\ worker[r] = "wait" /\ worker'[r] = "free" /\ signal \in signals[r]
      /\ signals'[r] = signals[r] \ {signal}
      /\ \A q \in Resources \ {r} : worker'[q] = worker[q] /\ signals'[q] = signals[q]
      /\ UNCHANGED <<phase, msgStorage, current, requests>>
  BY DEF SignalWait, GoTo, StorageInv, TypeOK, psVars
<1>2. signals'[r] = {}
  BY <1>1 DEF WaitInv, NoStaleSignal
<1>3. \A i \in 1 .. Len(requests) : requests[i].client # r
  BY <1>1 DEF WaitInv, RequestInv
<1>4. \A q \in Resources : CurrentType(q)' = CurrentType(q)
  BY <1>1 DEF CurrentType
<1>5. RequestInv'
  BY <1>1, <1>3, <1>4 DEF WaitInv, RequestInv
<1>6. NoStaleSignal'
  BY <1>1, <1>2, <1>4 DEF WaitInv, NoStaleSignal
<1>7. NoLostWakeup'
  BY <1>1, <1>4 DEF WaitInv, NoLostWakeup
<1> QED
  BY <1>5, <1>6, <1>7 DEF WaitInv

LEMMA WaitThreads ==
  ASSUME StorageInv, WaitInv, NEW r \in Resources, Threads(r), ~Undefined
  PROVE  WaitInv'
<1>1. CASE GetMessage(r) \/ FreeMessage(r)
  <2>1. /\ worker[r] \in {"get", "free"} /\ worker'[r] \in {"handle", "call", "get"}
        /\ \A q \in Resources \ {r} : worker'[q] = worker[q] /\ CurrentType(q)' = CurrentType(q)
        /\ UNCHANGED <<phase, requests, signals>>
    BY <1>1 DEF GetMessage, FreeMessage, GoTo, StorageInv, TypeOK, psVars, CurrentType
  <2> QED
    BY <2>1, WaitFrame
<1>2. ASSUME NEW type \in MessageTypes, Enqueue(r, type) \/ UNCHANGED <<msgStorage, msgQueue>>,
             UNCHANGED <<phase, current, signals, requests>>,
             \A q \in Resources \ {r} : worker'[q] = worker[q],
             worker[r] \in {"handle", "ack"}, worker'[r] # "wait"
      PROVE  WaitInv'
  <2>1. \A q \in Resources : worker[q] = "wait" => CurrentType(q)' = CurrentType(q)
    BY <1>2, EnqueueStored, HandKept DEF StorageInv, HandInv
  <2> QED
    BY <1>2, <2>1, WaitFrame
<1>3. "PUB_REQ" \in MessageTypes /\ "ACK_REQ" \in MessageTypes
  BY DEF MessageTypes
<1>4. CASE handleSubscription(r)
  <2>1. /\ UNCHANGED <<phase, current, signals, requests>>
        /\ worker[r] = "handle" /\ worker'[r] # "wait"
        /\ \A q \in Resources \ {r} : worker'[q] = worker[q]
        /\ Enqueue(r, "PUB_REQ") \/ UNCHANGED <<msgStorage, msgQueue>>
    BY <1>4 DEF handleSubscription, GoTo, StorageInv, TypeOK, psVars
  <2> QED
    BY <1>2, <1>3, <2>1
<1>5. CASE AcknowledgeCommand(r)
  <2>1. /\ UNCHANGED <<phase, current, signals, requests>>
        /\ worker[r] = "ack" /\ worker'[r] # "wait"
        /\ \A q \in Resources \ {r} : worker'[q] = worker[q]
        /\ Enqueue(r, "ACK_REQ")
    BY <1>5 DEF AcknowledgeCommand, GoTo, StorageInv, TypeOK, psVars
  <2> QED
    BY <1>2, <1>3, <2>1
<1>6. CASE publish(r) \/ acknowledge(r) \/ PutMessage(r)
  <2>1. UNCHANGED <<phase, worker, current, signals, requests>>
    BY <1>6, ClientStored DEF psVars
  <2>2. \A q \in Resources : worker[q] = "wait" => CurrentType(q)' = CurrentType(q)
    BY <1>6, <2>1, ClientStored, HandKept DEF StorageInv, HandInv
  <2> QED
    BY <2>1, <2>2, WaitFrame
<1> QED
  BY <1>1, <1>4, <1>5, <1>6, WaitCall, WaitSignal DEF Worker, Threads

\* The oldest request is answered: its resource waits for exactly this signal.
LEMMA WaitDone ==
  ASSUME StorageInv, WaitInv, NEW ok \in BOOLEAN, InvokeDone(ok)
  PROVE  WaitInv'
<1> DEFINE request == Head(requests)
           n == Len(requests)
<1>1. /\ phase = "running" /\ requests # <<>> /\ requests' = Tail(requests)
      /\ UNCHANGED <<phase, msgStorage, worker, current>>
      /\ signals' = [signals EXCEPT ![request.client] = @ \cup {DoneSignal(request.type)}]
  BY DEF InvokeDone, Protocol!Answer
<1>2. requests \in Seq(Protocol!Request)
  BY DEF StorageInv, TypeOK
<1>3. /\ n \in Nat /\ n >= 1 /\ request = requests[1]
      /\ Len(requests') = n - 1 /\ \A i \in 1 .. n - 1 : requests'[i] = requests[i + 1]
  BY <1>1, <1>2
<1>4. PICK r \in Resources : r = request.client
  BY <1>3, ClientsKnown DEF StorageInv
<1>5. /\ worker[r] = "wait" /\ signals[r] = {}
      /\ RequestType(CurrentType(r)) = request.type
      /\ \A j \in 1 .. n : requests[j].client = r => j = 1
  <2>1. 1 \in 1 .. n /\ requests[1].client = r
    BY <1>3, <1>4
  <2>2. ~(worker[r] = "off" /\ phase = "revoking")
    BY <1>1
  <2> QED
    BY <1>3, <2>1, <2>2 DEF WaitInv, RequestInv
<1>6. /\ signals'[r] = {DoneSignal(request.type)}
      /\ \A q \in Resources \ {r} : signals'[q] = signals[q]
  BY <1>1, <1>4, <1>5 DEF StorageInv, TypeOK
<1>7. \A q \in Resources : CurrentType(q)' = CurrentType(q)
  BY <1>1 DEF CurrentType
<1> HIDE DEF request
<1>8. RequestInv'
  <2> SUFFICES ASSUME NEW i \in 1 .. n - 1, NEW q \in Resources, requests'[i].client = q
               PROVE  /\ \/ /\ worker'[q] = "wait" /\ signals'[q] = {}
                            /\ RequestType(CurrentType(q)') = requests'[i].type
                         \/ worker'[q] = "off" /\ phase' = "revoking"
                      /\ \A j \in 1 .. n - 1 : requests'[j].client = q => j = i
    BY <1>3 DEF RequestInv
  <2>1. i + 1 \in 1 .. n /\ requests'[i] = requests[i + 1] /\ q # r
    BY <1>3, <1>5
  <2>2. /\ \/ worker[q] = "wait" /\ signals[q] = {} /\ RequestType(CurrentType(q)) = requests[i + 1].type
           \/ worker[q] = "off" /\ phase = "revoking"
        /\ \A j \in 1 .. n : requests[j].client = q => j = i + 1
    BY <2>1 DEF WaitInv, RequestInv
  <2>3. ASSUME NEW j \in 1 .. n - 1, requests'[j].client = q PROVE j = i
    <3>1. j + 1 \in 1 .. n /\ requests[j + 1].client = q
      BY <1>3, <2>3
    <3>2. j + 1 = i + 1
      BY <2>2, <3>1
    <3> QED
      BY <1>3, <3>2
  <2> QED
    BY <1>1, <1>6, <1>7, <2>1, <2>2, <2>3
<1>9. NoStaleSignal'
  BY <1>1, <1>5, <1>6, <1>7 DEF WaitInv, NoStaleSignal
<1>10. NoLostWakeup'
  <2> SUFFICES ASSUME NEW q \in Resources, worker'[q] = "wait"
               PROVE  LET type == RequestType(CurrentType(q)') IN
                 \/ DoneSignal(type) \in signals'[q]
                 \/ \E i \in 1 .. n - 1 : requests'[i] = [type |-> type, client |-> q]
    BY <1>3 DEF NoLostWakeup
  <2>1. CASE q = r
    BY <2>1, <1>5, <1>6, <1>7
  <2>2. CASE q # r
    <3> DEFINE type == RequestType(CurrentType(q))
    <3>1. CASE DoneSignal(type) \in signals[q]
      BY <2>2, <3>1, <1>6, <1>7
    <3>2. ASSUME NEW i \in 1 .. n, requests[i] = [type |-> type, client |-> q]
          PROVE  \E k \in 1 .. n - 1 : requests'[k] = [type |-> type, client |-> q]
      <4>1. requests[i].client = q
        BY <3>2
      <4>2. i # 1
        BY <4>1, <2>2, <1>3, <1>4
      <4>3. i - 1 \in 1 .. n - 1 /\ requests'[i - 1] = requests[i]
        BY <4>2, <1>3
      <4> QED
        BY <4>3, <3>2
    <3>3. DoneSignal(type) \in signals[q] \/ \E i \in 1 .. n : requests[i] = [type |-> type, client |-> q]
      BY <1>1 DEF WaitInv, NoLostWakeup
    <3> QED
      BY <3>1, <3>2, <3>3, <1>7
  <2> QED
    BY <2>1, <2>2
<1> QED
  BY <1>8, <1>9, <1>10 DEF WaitInv

LEMMA WaitStep ==
  ASSUME StorageInv, WaitInv, [Next]_vars, ~Undefined
  PROVE  WaitInv'
<1>1. CASE SubscribeCallback
  <2>1. PICK r \in Resources : r = inbound
    BY <1>1 DEF SubscribeCallback, Protocol!DataDelivered, StorageInv, TypeOK
  <2>2. /\ Enqueue(r, "SUB_INCOMING") \/ UNCHANGED <<msgStorage, msgQueue>>
        /\ "SUB_INCOMING" \in MessageTypes
        /\ UNCHANGED <<phase, worker, current, signals, requests>>
    BY <1>1, <2>1 DEF SubscribeCallback, Protocol!DataDelivered, MessageTypes
  <2>3. \A q \in Resources : worker[q] = "wait" => CurrentType(q)' = CurrentType(q)
    BY <2>2, EnqueueStored, HandKept DEF StorageInv, HandInv
  <2> QED
    BY <2>2, <2>3, WaitFrame
<1>2. CASE ProtocolAlone \/ UNCHANGED vars
  <2>1. UNCHANGED <<phase, msgStorage, worker, current, signals, requests>>
    BY <1>2 DEF ProtocolAlone, Protocol!Release, Protocol!Reconnect, Protocol!DataArrives,
       vars, resVars, psVars
  <2> QED
    BY <2>1, WaitFrame DEF CurrentType
<1> QED
  BY <1>1, <1>2, NextCases, WaitMain, WaitThreads, WaitDone DEF Dispatcher

-----------------------------------------------------------------------------
(* Subscribing once, before any data, is inductive.                        *)

\* A step that stores no SUB_REQ, and SUB_INCOMING only for a resource with a
\* subscription that stands, keeps SubscribedInv, if it moves no answered
\* SUB_REQ back and changes neither the flags nor what the protocol delivers.
LEMMA SubscribedFrame ==
  ASSUME SubscribedInv, UNCHANGED subscribed,
         listening' \subseteq listening, inbound' \in {inbound, NoResource},
         NoResource \notin Resources,
         \A q \in Resources : \A b \in Blocks :
           /\ msgStorage'[q][b] = "SUB_REQ" => msgStorage[q][b] = "SUB_REQ"
           /\ msgStorage'[q][b] = "SUB_INCOMING" =>
                msgStorage[q][b] = "SUB_INCOMING" \/ (subscribed[q] /\ ~Subscribing(q)),
         \A q \in Resources : Subscribing(q)' => Subscribing(q)
  PROVE  SubscribedInv'
<1> SUFFICES ASSUME NEW r \in Resources
             PROVE  /\ \A b, c \in Blocks :
                         msgStorage'[r][b] = "SUB_REQ" /\ msgStorage'[r][c] = "SUB_REQ" => b = c
                    /\ Subscribing(r)' => /\ r \notin listening' /\ r # inbound'
                                          /\ \A b \in Blocks : msgStorage'[r][b] # "SUB_INCOMING"
                    /\ r \in listening' \/ r = inbound' => subscribed'[r]
                    /\ \A b \in Blocks : msgStorage'[r][b] = "SUB_INCOMING" => subscribed'[r]
  BY DEF SubscribedInv
<1>1. /\ \A b, c \in Blocks : msgStorage[r][b] = "SUB_REQ" /\ msgStorage[r][c] = "SUB_REQ" => b = c
      /\ Subscribing(r) => /\ r \notin listening /\ r # inbound
                           /\ \A b \in Blocks : msgStorage[r][b] # "SUB_INCOMING"
      /\ r \in listening \/ r = inbound => subscribed[r]
      /\ \A b \in Blocks : msgStorage[r][b] = "SUB_INCOMING" => subscribed[r]
  BY DEF SubscribedInv
<1> QED
  BY <1>1

LEMMA SubscribedInit == Init => SubscribedInv
<1> SUFFICES ASSUME Init PROVE SubscribedInv
  OBVIOUS
<1>1. /\ \A r \in Resources, b \in Blocks : msgStorage[r][b] = Free
      /\ listening = {} /\ inbound = NoResource
  BY DEF Init, Protocol!PSInit
<1> QED
  BY <1>1, ResourceAssumption DEF SubscribedInv, Subscribing, MessageTypes

\* The only SUB_REQ is stored in an empty storage before the loop runs.
LEMMA SubscribedAdvertise ==
  ASSUME StorageInv, SubscribedInv, NEW r \in Resources, advertise(r)
  PROVE  SubscribedInv'
<1>1. /\ phase = "advertising" /\ worker[r] = "off" /\ worker'[r] = "get"
      /\ Enqueue(r, "SUB_REQ") /\ "SUB_REQ" \in MessageTypes
      /\ \A q \in Resources \ {r} : worker'[q] = worker[q]
      /\ UNCHANGED <<subscribed, current, signals, listening, inbound>>
  BY DEF advertise, psVars, MessageTypes, StorageInv, TypeOK
<1>2. listening = {} /\ inbound = NoResource
  BY <1>1 DEF StorageInv, PhaseInv
<1>3. \A b \in Blocks : msgStorage[r][b] = Free
  <2>1. msgQueue[r] = <<>> /\ current[r] \notin Blocks /\ filling[r] \notin Blocks
    BY <1>1 DEF StorageInv, HandInv
  <2> QED
    BY <2>1 DEF StorageInv, StorageConserved
<1>4. /\ \A b, c \in Blocks : msgStorage'[r][b] = "SUB_REQ" /\ msgStorage'[r][c] = "SUB_REQ" => b = c
      /\ \A b \in Blocks : msgStorage'[r][b] # "SUB_INCOMING"
      /\ \A q \in Resources \ {r} : msgStorage'[q] = msgStorage[q]
  <2>1. CASE UNCHANGED <<msgStorage, msgQueue>>
    BY <2>1, <1>3, ResourceAssumption DEF MessageTypes
  <2>2. CASE ~UNCHANGED <<msgStorage, msgQueue>>
    <3>1. PICK b \in Blocks :
            /\ msgStorage'[r] = [msgStorage[r] EXCEPT ![b] = "SUB_REQ"]
            /\ \A q \in Resources \ {r} : msgStorage'[q] = msgStorage[q]
      BY <2>2, <1>1, EnqueueEffect DEF StorageInv
    <3>2. \A c \in Blocks : msgStorage'[r][c] = IF c = b THEN "SUB_REQ" ELSE Free
      BY <3>1, <1>3 DEF StorageInv, TypeOK
    <3> QED
      BY <3>1, <3>2, ResourceAssumption DEF MessageTypes
  <2> QED
    BY <2>1, <2>2
<1>5. \A q \in Resources \ {r} : Subscribing(q)' <=> Subscribing(q)
  BY <1>1, <1>4 DEF Subscribing
<1> QED
  BY <1>1, <1>2, <1>4, <1>5, ResourceAssumption DEF SubscribedInv

LEMMA SubscribedMain ==
  ASSUME StorageInv, SubscribedInv,
         (\E r \in Resources : revoke(r)) \/ StartLoop \/ EndLoop \/ Restart \/ PowerCycle
  PROVE  SubscribedInv'
<1>1. ASSUME NEW r \in Resources, revoke(r) PROVE SubscribedInv'
  <2>1. /\ \A b \in Blocks : msgStorage'[r][b] = Free
        /\ \A q \in Resources \ {r} : /\ msgStorage'[q] = msgStorage[q] /\ current'[q] = current[q]
                                      /\ worker'[q] = worker[q] /\ signals'[q] = signals[q]
        /\ UNCHANGED <<subscribed, listening, inbound>>
    BY <1>1 DEF revoke, psVars, StorageInv, TypeOK
  <2>2. Free # "SUB_REQ" /\ Free # "SUB_INCOMING"
    BY ResourceAssumption DEF MessageTypes
  <2>3. \A q \in Resources : Subscribing(q)' => Subscribing(q)
    BY <2>1, <2>2 DEF Subscribing
  <2> QED
    BY <2>1, <2>2, <2>3, SubscribedFrame, ResourceAssumption
<1>2. CASE StartLoop \/ EndLoop \/ Restart \/ PowerCycle
  <2>1. /\ UNCHANGED <<subscribed, msgStorage, worker, current, signals>>
        /\ listening' \subseteq listening /\ inbound' \in {inbound, NoResource}
    BY <1>2 DEF StartLoop, EndLoop, Restart, PowerCycle, Protocol!Close, resVars, psVars
  <2> QED
    BY <2>1, SubscribedFrame, ResourceAssumption DEF Subscribing
<1> QED
  BY <1>1, <1>2

LEMMA SubscribedThreads ==
  ASSUME StorageInv, WaitInv, SubscribedInv, NEW r \in Resources, Threads(r), ~Undefined
  PROVE  SubscribedInv'
<1>1. /\ UNCHANGED <<subscribed, listening, inbound>>
      /\ \A q \in Resources \ {r} : /\ worker'[q] = worker[q] /\ current'[q] = current[q]
                                    /\ signals'[q] = signals[q]
  <2>1. CASE Worker(r)
    BY <2>1 DEF Worker, GetMessage, CallProtocol, SignalWait, handleSubscription,
       AcknowledgeCommand, FreeMessage, GoTo, Protocol!Accept, psVars, StorageInv, TypeOK
  <2>2. CASE ~Worker(r)
    BY <2>2, ClientStored DEF psVars, Threads
  <2> QED
    BY <2>1, <2>2
<1>2. CASE GetMessage(r) \/ CallProtocol(r) \/ SignalWait(r)
  <2>1. /\ msgStorage' = msgStorage
        /\ \/ worker[r] = "get" /\ signals'[r] = signals[r]
           \/ worker[r] = "call" /\ signals'[r] = signals[r] /\ current'[r] = current[r]
           \/ worker[r] = "wait" /\ worker'[r] = "free" /\ signals[r] # {} /\ current'[r] = current[r]
    BY <1>2 DEF GetMessage, CallProtocol, SignalWait, GoTo, StorageInv, TypeOK
  <2>2. \A q \in Resources \ {r} : Subscribing(q)' <=> Subscribing(q)
    BY <1>1, <2>1 DEF Subscribing
  <2>3. Subscribing(r)' => Subscribing(r)
    <3>1. worker[r] \in {"get", "call"} => signals[r] = {}
      BY DEF WaitInv, NoStaleSignal
    <3>2. worker[r] = "get" => current[r] \notin Blocks
      BY DEF StorageInv, HandInv
    <3> QED
      BY <2>1, <3>1, <3>2 DEF Subscribing
  <2> QED
    BY <1>1, <2>1, <2>2, <2>3, SubscribedFrame, ResourceAssumption
<1>3. CASE FreeMessage(r)
  <2>1. /\ worker[r] = "free" /\ current[r] \in Blocks /\ signals' = signals
        /\ \A b \in Blocks : msgStorage'[r][b] = IF b = current[r] THEN Free ELSE msgStorage[r][b]
        /\ \A q \in Resources \ {r} : msgStorage'[q] = msgStorage[q]
    BY <1>3 DEF FreeMessage, GoTo, StorageInv, TypeOK, HandInv
  <2>2. Free # "SUB_REQ" /\ Free # "SUB_INCOMING"
    BY ResourceAssumption DEF MessageTypes
  <2>3. \A q \in Resources : Subscribing(q)' => Subscribing(q)
    BY <1>1, <2>1, <2>2 DEF Subscribing
  <2> QED
    BY <1>1, <2>1, <2>2, <2>3, SubscribedFrame, ResourceAssumption
<1>4. ASSUME NEW type \in {"PUB_REQ", "ACK_REQ"}, Stored(r, type),
             UNCHANGED <<current, signals>>,
             worker[r] # "free" \/ worker'[r] = "free"
      PROVE  SubscribedInv'
  <2>1. \A q \in Resources : Subscribing(q)' => Subscribing(q)
    BY <1>1, <1>4 DEF Subscribing, Stored
  <2> QED
    BY <1>1, <1>4, <2>1, SubscribedFrame, ResourceAssumption DEF Stored
<1>5. CASE handleSubscription(r) \/ AcknowledgeCommand(r)
  <2>1. /\ \/ Enqueue(r, "PUB_REQ") \/ Enqueue(r, "ACK_REQ") \/ UNCHANGED <<msgStorage, msgQueue>>
        /\ UNCHANGED <<current, signals>>
        /\ worker[r] # "free" \/ worker'[r] = "free"
    BY <1>5 DEF handleSubscription, AcknowledgeCommand, GoTo
  <2>2. "PUB_REQ" \in MessageTypes /\ "ACK_REQ" \in MessageTypes
    BY DEF MessageTypes
  <2> QED
    BY <1>4, <2>1, <2>2, EnqueueStored
<1>6. CASE publish(r) \/ acknowledge(r) \/ PutMessage(r)
  BY <1>4, <1>6, ClientStored
<1> QED
  BY <1>2, <1>3, <1>5, <1>6 DEF Worker, Threads

\* The answer to SUBSCRIBE settles the flag before the first data.
LEMMA SubscribedDone ==
  ASSUME StorageInv, WaitInv, SubscribedInv, NEW ok \in BOOLEAN, InvokeDone(ok)
  PROVE  SubscribedInv'
<1> DEFINE request == Head(requests)
<1>1. /\ phase = "running" /\ requests # <<>> /\ inbound' = inbound
      /\ UNCHANGED <<msgStorage, worker, current>>
      /\ signals' = [signals EXCEPT ![request.client] = @ \cup {DoneSignal(request.type)}]
      /\ subscribed' = IF request.type = "SUBSCRIBE"
                       THEN [subscribed EXCEPT ![request.client] = ok] ELSE subscribed
      /\ listening' = IF request.type = "SUBSCRIBE" /\ ok
                      THEN listening \cup {request.client} ELSE listening
  BY DEF InvokeDone, Protocol!Answer
<1>2. Len(requests) \in Nat /\ 1 \in 1 .. Len(requests) /\ request = requests[1]
  <2>1. requests \in Seq(Protocol!Request)
    BY DEF StorageInv, TypeOK
  <2> QED
    BY <1>1, <2>1
<1>3. PICK r \in Resources : r = request.client
  BY <1>2, ClientsKnown DEF StorageInv
<1>4. worker[r] = "wait" /\ signals[r] = {} /\ RequestType(CurrentType(r)) = request.type
  BY <1>1, <1>2, <1>3 DEF WaitInv, RequestInv
<1> HIDE DEF request
<1>5. /\ current[r] \in Blocks
      /\ request.type = "SUBSCRIBE" <=> msgStorage[r][current[r]] = "SUB_REQ"
  <2>1. current[r] \in Blocks /\ CurrentType(r) \in MessageTypes
    BY <1>4 DEF StorageInv, HandInv, MessageTypes
  <2> QED
    BY <1>4, <2>1, RequestTypes DEF CurrentType
<1>6. /\ signals'[r] # {}
      /\ \A q \in Resources \ {r} : signals'[q] = signals[q]
  BY <1>1, <1>3 DEF StorageInv, TypeOK
<1>7. \A q \in Resources : Subscribing(q)' => Subscribing(q)
  BY <1>1, <1>4, <1>6 DEF Subscribing
<1>8. CASE request.type # "SUBSCRIBE"
  BY <1>1, <1>7, <1>8, SubscribedFrame, ResourceAssumption
<1>9. CASE request.type = "SUBSCRIBE"
  <2>1. Subscribing(r)
    BY <1>4, <1>5, <1>9 DEF Subscribing
  <2>2. ~Subscribing(r)'
    BY <1>1, <1>5, <1>6, <1>9 DEF Subscribing, SubscribedInv
  <2>3. /\ subscribed'[r] = ok /\ (r \in listening' <=> ok)
        /\ \A q \in Resources \ {r} : /\ subscribed'[q] = subscribed[q]
                                      /\ q \in listening' <=> q \in listening
    BY <1>1, <1>3, <1>9, <2>1 DEF StorageInv, TypeOK, SubscribedInv
  <2>4. r # inbound /\ \A b \in Blocks : msgStorage[r][b] # "SUB_INCOMING"
    BY <2>1 DEF SubscribedInv
  <2> QED
    BY <1>1, <1>7, <2>2, <2>3, <2>4 DEF SubscribedInv
<1> QED
  BY <1>8, <1>9

LEMMA SubscribedStep ==
  ASSUME StorageInv, WaitInv, SubscribedInv, [Next]_vars, ~Undefined
  PROVE  SubscribedInv'
<1>1. CASE SubscribeCallback
  <2>1. PICK r \in Resources : r = inbound
    BY <1>1 DEF SubscribeCallback, Protocol!DataDelivered, StorageInv, TypeOK
  <2>2. /\ Enqueue(r, "SUB_INCOMING") \/ UNCHANGED <<msgStorage, msgQueue>>
        /\ inbound' = NoResource
        /\ UNCHANGED <<subscribed, listening, worker, current, signals>>
    BY <1>1, <2>1 DEF SubscribeCallback, Protocol!DataDelivered
  <2>3. Stored(r, "SUB_INCOMING")
    BY <2>2, EnqueueStored DEF MessageTypes
  <2>4. subscribed[r] /\ ~Subscribing(r)
    BY <2>1 DEF SubscribedInv
  <2>5. \A q \in Resources : Subscribing(q)' => Subscribing(q)
    BY <2>2, <2>3 DEF Subscribing, Stored
  <2> QED
    BY <2>2, <2>3, <2>4, <2>5, SubscribedFrame, ResourceAssumption DEF Stored
<1>2. CASE ProtocolAlone \/ UNCHANGED vars
  <2>1. UNCHANGED <<subscribed, msgStorage, worker, current, signals>>
    BY <1>2 DEF ProtocolAlone, vars, resVars
  <2>2. \A q \in Resources : Subscribing(q)' => Subscribing(q)
    BY <2>1 DEF Subscribing
  <2>3. CASE \E c \in Resources : Protocol!DataArrives(c)
    <3>1. PICK c \in Resources : c \in listening /\ inbound' = c /\ listening' = listening
      BY <2>3 DEF Protocol!DataArrives
    <3>2. subscribed[c] /\ ~Subscribing(c)
      BY <3>1 DEF SubscribedInv
    <3> QED
      BY <2>1, <2>2, <3>1, <3>2 DEF SubscribedInv
  <2>4. CASE ~\E c \in Resources : Protocol!DataArrives(c)
    <3>1. listening' \subseteq listening /\ inbound' = inbound
      BY <1>2, <2>4 DEF ProtocolAlone, Protocol!Release, Protocol!Reconnect, vars, psVars
    <3> QED
      BY <2>1, <2>2, <3>1, SubscribedFrame, ResourceAssumption
  <2> QED
    BY <2>3, <2>4
<1> QED
  BY <1>1, <1>2, NextCases, SubscribedAdvertise, SubscribedMain, SubscribedThreads, SubscribedDone
  DEF MainThread, Dispatcher

-----------------------------------------------------------------------------
(* Theorems.                                                               *)

\* Nothing is claimed of what the board does after a misuse of memory: it is
\* as after Init once it was switched off and on again.
LEMMA AfterUndefined == ASSUME Undefined PROVE Inv'
<1>1. /\ phase' = "undefined"
      /\ \A r \in Resources :
           /\ msgStorage'[r] = [b \in Blocks |-> Free] /\ msgQueue'[r] = <<>>
           /\ subscribed'[r] = FALSE /\ worker'[r] = "off" /\ signals'[r] = {}
           /\ current'[r] = NoBlock /\ filling'[r] = NoBlock
      /\ requests' = <<>> /\ held' = 0 /\ listening' = {} /\ inbound' = NoResource
  BY DEF Undefined, Protocol!Close
<1>2. TypeOK'
  BY <1>1 DEF Undefined, TypeOK
<1>3. PhaseInv' /\ HandInv'
  BY <1>1, ResourceAssumption DEF PhaseInv, HandInv
<1>4. StorageConserved'
  <2>1. NoBlock \notin Blocks /\ Len(<<>>) = 0
    BY ResourceAssumption
  <2> QED
    BY <1>1, <2>1 DEF StorageConserved
<1>5. WaitInv'
  BY <1>1 DEF WaitInv, RequestInv, NoStaleSignal, NoLostWakeup
<1>6. SubscribedInv'
  BY <1>1, ResourceAssumption DEF SubscribedInv, Subscribing, MessageTypes
<1> QED
  BY <1>2, <1>3, <1>4, <1>5, <1>6 DEF Inv, StorageInv

LEMMA Invariance == Spec => []Inv
<1>1. Init => Inv
  BY StorageInit, WaitInit, SubscribedInit DEF Inv
<1>2. Inv /\ [Next]_vars => Inv'
  BY AfterUndefined, StorageStep, WaitStep, SubscribedStep DEF Inv
<1> QED
  BY <1>1, <1>2, PTL DEF Spec

\* The variables keep their types, whatever the number of resources and blocks.
THEOREM TypeCorrect == Spec => []TypeOK
<1>1. Inv => TypeOK
  BY DEF Inv, StorageInv
<1> QED
  BY <1>1, Invariance, PTL

\* No block of a resource's storage leaks or is used twice, over any number of
\* commands, publications, revocations and reconnections (alloc, put, free).
THEOREM StorageSafe == Spec => []StorageConserved
<1>1. Inv => StorageConserved
  BY DEF Inv, StorageInv
<1> QED
  BY <1>1, Invariance, PTL

\* No worker waits for a callback that will not come, although pubSubThread
\* does not look at what proto->publish and proto->subscribe return: the pool
\* of the protocol has room for every resource's request.
THEOREM NoWakeupLost == Spec => []NoLostWakeup
<1>1. Inv => NoLostWakeup
  BY DEF Inv, WaitInv
<1> QED
  BY <1>1, Invariance, PTL

\* A resource keeps the block it handed to the protocol until the request is
\* answered: the dispatcher never reads data of a message that was freed.
THEOREM DataStaysInPlace == Spec => []DataInPlace
<1>1. Inv => DataInPlace
  <2> SUFFICES ASSUME Inv, phase = "running", NEW i \in 1 .. Len(requests)
               PROVE  LET r == requests[i].client IN
                        /\ worker[r] = "wait"
                        /\ RequestType(CurrentType(r)) = requests[i].type
                        /\ \A j \in 1 .. Len(requests) : requests[j].client = r => j = i
    BY DEF DataInPlace
  <2>1. PICK r \in Resources : requests[i].client = r
    BY ClientsKnown DEF Inv, StorageInv
  <2> QED
    BY <2>1 DEF Inv, WaitInv, RequestInv
<1> QED
  BY <1>1, Invariance, PTL

\* No callback leaves a signal behind that would end the wait for a later
\* request before its answer.
THEOREM NoSignalStale == Spec => []NoStaleSignal
<1>1. Inv => NoStaleSignal
  BY DEF Inv, WaitInv
<1> QED
  BY <1>1, Invariance, PTL

\* A command the broker delivers finds its resource subscribed, although the
\* flag is not reset by revoke or advertise.
THEOREM CommandsHandled == Spec => []NoCommandIgnored
<1>1. Inv => NoCommandIgnored
  BY DEF Inv, SubscribedInv, NoCommandIgnored
<1> QED
  BY <1>1, Invariance, PTL
=============================================================================
