----------------------------- MODULE OrderedMap -----------------------------
(***************************************************************************)
(* What a DynamicPGMIndex promises: "a sorted associative container that   *)
(* contains key-value pairs with unique keys" (pgm_index_dynamic.hpp:36).  *)
(* A partial map from keys to values, two updates, and the ordered queries *)
(* as state functions. The module knows nothing of levels, tombstones or   *)
(* indexes; DynamicPGM is shown to implement it.                           *)
(***************************************************************************)
EXTENDS Integers

CONSTANTS Key,      \* the keys, a set of integers
          Value,    \* the values that may be stored
          Absent    \* stands for "no value"

VARIABLE map        \* the value of each key, or Absent

Init == map \in [Key -> Value \cup {Absent}]

\* insert_or_assign: adds the pair, or replaces the value of the key.
InsertOrAssign(k, v) == map' = [map EXCEPT ![k] = v]

\* erase: removes the key; erasing a missing key changes nothing.
Erase(k) == map' = [map EXCEPT ![k] = Absent]

Next == \E k \in Key : Erase(k) \/ \E v \in Value : InsertOrAssign(k, v)

Spec == Init /\ [][Next]_map

-----------------------------------------------------------------------------
(* The ordered queries.                                                    *)

Live == {k \in Key : map[k] # Absent}

\* r is the first key that is not less than k; there is none past the last key.
IsLowerBound(k, r) == r \in Live /\ r >= k /\ \A l \in Live : l >= k => r <= l
NoLowerBound(k) == \A l \in Live : l < k

\* The pairs with key between lo and hi, both included.
RangeOf(lo, hi) == {<<l, map[l]>> : l \in {j \in Live : lo <= j /\ j <= hi}}
=============================================================================
