-------------------------- MODULE MCGatewayConfig --------------------------
(* Instances of GatewayConfig small enough for TLC. *)
EXTENDS GatewayConfig, TLC

\* No property tells one connection or one workstation from another.
Symmetry == Permutations(Conn) \cup Permutations(Agent)
============================================================================
