--------------------------- MODULE MCGatewayNonce ----------------------------
(* Instances of GatewayNonce for TLC: messages in progress are interchangeable. *)
EXTENDS GatewayNonce, TLC

Symmetry == Permutations(Handlers)
=============================================================================
