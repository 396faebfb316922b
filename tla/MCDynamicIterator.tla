-------------------------- MODULE MCDynamicIterator --------------------------
(***************************************************************************)
(* Instances of DynamicIterator for TLC, on an integer type of few values. *)
(***************************************************************************)
EXTENDS DynamicIterator

IntegerKeys == 1..3
=============================================================================
