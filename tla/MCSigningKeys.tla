--------------------------- MODULE MCSigningKeys ---------------------------
(* Small instances of SigningKeys for TLC. *)
EXTENDS SigningKeys, TLC

Symmetry == Permutations(Keys) \cup Permutations(Rotators)
=============================================================================
