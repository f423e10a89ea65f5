------------------------- MODULE MCGatewayRegistry -------------------------
(* Small instances of GatewayRegistry for TLC. *)
EXTENDS GatewayRegistry, TLC

Symmetry == Permutations(Lookups) \cup Permutations(Loads) \cup Permutations(Writers)
=============================================================================
