--------------------------- MODULE MCMqttProtocol ---------------------------
(* MqttProtocol with its refinement of PubSub, for TLC.                    *)
EXTENDS MqttPubSub, TLC

Symmetry == Permutations(Clients) \cup Permutations(Slots)
=============================================================================
