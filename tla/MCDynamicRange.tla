--------------------------- MODULE MCDynamicRange ---------------------------
(***************************************************************************)
(* Instances of DynamicRange for TLC.                                      *)
(***************************************************************************)
EXTENDS DynamicRange

Keys == 1..4
Seeks == 0..5
ThreeKeys == 1..3

\* None below, none above, a single key, the wrong order.
SomeRanges == {<<1, 2>>, <<2, 3>>, <<2, 2>>, <<3, 1>>}
=============================================================================
