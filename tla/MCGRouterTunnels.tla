-------------------------- MODULE MCGRouterTunnels --------------------------
(***************************************************************************)
(* Instances of GRouterTunnels for TLC: messages that share one hash.      *)
(***************************************************************************)
EXTENDS GRouterTunnels

CONSTANTS hash

OneHash == [m \in Msg |-> hash]
=============================================================================
