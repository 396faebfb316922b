---------------------------- MODULE MCDynamicPGM ----------------------------
(***************************************************************************)
(* Instances of DynamicPGM for TLC. Updates only compare keys for equality *)
(* and never look at a value, so both are symmetric.                       *)
(***************************************************************************)
EXTENDS DynamicPGM, TLC

Symmetry == Permutations(Key) \cup Permutations(Value)
=============================================================================
