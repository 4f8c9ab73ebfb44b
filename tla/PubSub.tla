------------------------------- MODULE PubSub -------------------------------
(***************************************************************************)
(* What IPubSub promises its clients.  Requests are accepted up to a       *)
(* capacity and answered once each, in order; callbacks come one at a      *)
(* time; data reaches a client only while its subscription, answered with  *)
(* TRUE, stands.  A reconnection may silently end every subscription.      *)
(***************************************************************************)
EXTENDS Naturals, Sequences

CONSTANTS
  Clients, NoClient,
  Publications, \* what may be published: one tag per done callback
  Capacity      \* requests that may be under way at once

VARIABLES
  requests,   \* accepted and not answered, oldest first
  held,       \* 1 while an answered request still takes its place
  listening,  \* clients whose data is delivered
  inbound     \* client whose data callback is being invoked

psVars == <<requests, held, listening, inbound>>

Request == [type : Publications \cup {"SUBSCRIBE"}, client : Clients]

PSInit ==
  /\ requests = <<>>
  /\ held = 0
  /\ listening = {}
  /\ inbound = NoClient

Accept(request) ==
  /\ Len(requests) + held < Capacity
  /\ requests' = Append(requests, request)
  /\ UNCHANGED <<held, listening, inbound>>

Answer(ok) ==
  /\ requests # <<>> /\ held = 0 /\ inbound = NoClient
  /\ requests' = Tail(requests)
  /\ held' = 1
  /\ listening' = IF Head(requests).type = "SUBSCRIBE" /\ ok
                  THEN listening \cup {Head(requests).client} ELSE listening
  /\ UNCHANGED inbound

\* The place of the answered request is free again; if the request failed
\* the connection was replaced first.
Release ==
  /\ held = 1
  /\ held' = 0
  /\ listening' \in {listening, {}}
  /\ UNCHANGED <<requests, inbound>>

Reconnect ==
  /\ held = 0 /\ inbound = NoClient
  /\ listening' = {}
  /\ UNCHANGED <<requests, held, inbound>>

DataArrives(c) ==
  /\ c \in listening /\ inbound = NoClient /\ held = 0
  /\ inbound' = c
  /\ UNCHANGED <<requests, held, listening>>

DataDelivered ==
  /\ inbound # NoClient
  /\ inbound' = NoClient
  /\ UNCHANGED <<requests, held, listening>>

\* The object is destroyed with whatever it still holds.
Close ==
  /\ requests' = <<>> /\ held' = 0 /\ listening' = {} /\ inbound' = NoClient

PSNext ==
  \/ \E request \in Request : Accept(request)
  \/ \E ok \in BOOLEAN : Answer(ok)
  \/ Release \/ Reconnect \/ DataDelivered \/ Close
  \/ \E c \in Clients : DataArrives(c)

PSSpec == PSInit /\ [][PSNext]_psVars
=============================================================================
