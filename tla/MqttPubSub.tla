----------------------------- MODULE MqttPubSub -----------------------------
(***************************************************************************)
(* The refinement mapping of MqttProtocol to PubSub: which requests are    *)
(* still unanswered, which answered one still takes its place, and whose   *)
(* data is delivered.                                                      *)
(***************************************************************************)
EXTENDS MqttProtocol

\* The request of the block in hand is unanswered until its callback ran.
InHandRequest ==
  IF inHand # NoSlot /\ pc # "free" THEN <<messages[inHand]>> ELSE <<>>

QueuedRequests == [i \in 1 .. Len(upstreamQueue) |-> messages[upstreamQueue[i]]]

Unanswered == InHandRequest \o QueuedRequests

Held == IF pc = "free" THEN 1 ELSE 0

\* A SUBSCRIBE that is not answered, or was answered FALSE, does not count.
PendingSubscriber ==
  IF /\ pc \in {"send", "receiveTill", "callback", "free"}
     /\ messages[inHand].type = "SUBSCRIBE"
     /\ ~(pc = "free" /\ messageOk)
  THEN {messages[inHand].client} ELSE {}

Listening == (brokerSubs \cap subscribers) \ PendingSubscriber

PS == INSTANCE PubSub WITH
  Publications <- {"PUBLISH"},
  Capacity  <- Cardinality(Slots),
  requests  <- Unanswered,
  held      <- Held,
  listening <- Listening

\* The dispatcher, its pool and its queue implement the promise of IPubSub:
\* every accepted request is answered once and in order, one callback at a
\* time, and data reaches only clients that were told their subscription holds.
ImplementsPubSub == PS!PSSpec
=============================================================================
