----------------------------- MODULE LevelArrays -----------------------------
(***************************************************************************)
(* The two algorithms on the sorted arrays of DynamicPGMIndex              *)
(* (src/include/pgm/pgm_index_dynamic.hpp): merge, the loop that merges an *)
(* older array below a newer one, and lower_bound_bl, the branchless       *)
(* binary search. The other modules take a level for a map from keys to    *)
(* items; this one shows what the algorithms do to such maps. A pair's     *)
(* value is the number of the level it was inserted at.                    *)
(*                                                                         *)
(* Two uses of merge differ in SkipDeleted: a flush into the last level in *)
(* use drops an erased key together with its older item.                   *)
(***************************************************************************)
EXTENDS Integers, Sequences, FiniteSets, FiniteSetsExt

CONSTANTS
    Key,        \* the keys, a set of integers
    Sought,     \* the keys searched for, also between and beyond those stored
    Deleted     \* the item of an erased key

ASSUME KeyAssumption == Key \subseteq Int /\ Sought \subseteq Int

VARIABLES
    newer,          \* the range [first1, last1)
    older,          \* the range [first2, last2)
    SkipDeleted,    \* the template parameter
    first1,         \* index of the next item of newer
    first2,         \* index of the next item of older
    result,         \* what has been written to the output
    merging         \* merge has not returned

merge_vars == <<newer, older, SkipDeleted, first1, first2, result, merging>>

\* A sorted array with unique keys.
IsLevel(a) == \A i, j \in DOMAIN a : i < j => a[i].key < a[j].key

\* The arrays a level over some keys may hold. A pair's value is the level's number.
ArraysAt(level, keys) ==
    {a \in UNION {[1..n -> [key : keys, item : {level, Deleted}]] : n \in 0..Cardinality(keys)} :
        IsLevel(a)}

\* The map an array stands for.
KeysIn(a) == {a[i].key : i \in DOMAIN a}
ItemOf(a, k) == a[CHOOSE i \in DOMAIN a : a[i].key = k].item

\* A call of merge on arrays of any two levels.
MergeInit ==
    /\ newer \in ArraysAt(0, Key)
    /\ older \in ArraysAt(1, Key)
    /\ SkipDeleted \in BOOLEAN
    /\ first1 = 1
    /\ first2 = 1
    /\ result = << >>
    /\ merging = TRUE

-----------------------------------------------------------------------------
(* merge *)

InLoop == merging /\ first1 <= Len(newer) /\ first2 <= Len(older)

TakeOlder ==
    /\ InLoop
    /\ older[first2].key < newer[first1].key
    /\ result' = Append(result, older[first2])
    /\ first2' = first2 + 1
    /\ UNCHANGED <<newer, older, SkipDeleted, first1, merging>>

TakeNewer ==
    /\ InLoop
    /\ newer[first1].key < older[first2].key
    /\ result' = Append(result, newer[first1])
    /\ first1' = first1 + 1
    /\ UNCHANGED <<newer, older, SkipDeleted, first2, merging>>

SameKey == InLoop /\ newer[first1].key = older[first2].key

\* Variant for testing the properties: an older item survives an erased one.
SkipBoth_NewerOnly ==
    /\ SameKey
    /\ SkipDeleted /\ newer[first1].item = Deleted
    /\ first1' = first1 + 1
    /\ UNCHANGED <<newer, older, SkipDeleted, first2, result, merging>>

SkipBoth ==
    /\ SameKey
    /\ SkipDeleted /\ newer[first1].item = Deleted
    /\ first1' = first1 + 1
    /\ first2' = first2 + 1
    /\ UNCHANGED <<newer, older, SkipDeleted, result, merging>>

\* Variant for testing the properties: the older item is left to be taken later.
ReplaceOlder_KeepBoth ==
    /\ SameKey
    /\ ~(SkipDeleted /\ newer[first1].item = Deleted)
    /\ result' = Append(result, newer[first1])
    /\ first1' = first1 + 1
    /\ UNCHANGED <<newer, older, SkipDeleted, first2, merging>>

ReplaceOlder ==
    /\ SameKey
    /\ ~(SkipDeleted /\ newer[first1].item = Deleted)
    /\ result' = Append(result, newer[first1])
    /\ first1' = first1 + 1
    /\ first2' = first2 + 1
    /\ UNCHANGED <<newer, older, SkipDeleted, merging>>

\* One of the ranges is at its end: the rest of the other is copied.
CopyRest ==
    /\ merging /\ ~InLoop
    /\ result' = result \o SubSeq(newer, first1, Len(newer)) \o SubSeq(older, first2, Len(older))
    /\ merging' = FALSE
    /\ UNCHANGED <<newer, older, SkipDeleted, first1, first2>>

Merge == TakeOlder \/ TakeNewer \/ SkipBoth \/ ReplaceOlder \/ CopyRest

-----------------------------------------------------------------------------
(* lower_bound_bl on the range [first, last) of array a, as 0-based offsets *)

\* Variant for testing the properties: goes on with the smaller half.
Narrow_SmallerHalf(a, range, x) ==
    IF range.n <= 1 THEN range
    ELSE LET half == range.n \div 2
         IN  [first |-> IF a[range.first + half + 1].key < x THEN range.first + half ELSE range.first,
              n |-> half]

\* An iteration of the loop on the n elements from first; first[half] is at the 1-based
\* index first + half + 1.
Narrow(a, range, x) ==
    IF range.n <= 1 THEN range
    ELSE LET half == range.n \div 2
         IN  [first |-> IF a[range.first + half + 1].key < x THEN range.first + half ELSE range.first,
              n |-> range.n - half]

lower_bound_bl(a, first, last, x) ==
    LET narrowed[steps \in 0..(last - first)] ==
            IF steps = 0 THEN [first |-> first, n |-> last - first]
                         ELSE Narrow(a, narrowed[steps - 1], x)
        at == narrowed[last - first].first
    IN  IF first = last THEN first
        ELSE at + (IF a[at + 1].key < x THEN 1 ELSE 0)

-----------------------------------------------------------------------------
(* Correctness.                                                            *)

\* The output is sorted with unique keys at every point, and never longer than
\* the buffer of both ranges' length it is written to.
OutputIsLevel ==
    /\ IsLevel(result)
    /\ Len(result) <= Len(newer) + Len(older)

\* A key is in the output with its newest item; it is left out if it was in
\* neither range, or, with SkipDeleted, if the newer range erases it and the
\* older one has it. A tombstone with nothing to erase stays.
MergesNewestFirst ==
    ~merging =>
        LET dropped == {k \in KeysIn(newer) \cap KeysIn(older) :
                            SkipDeleted /\ ItemOf(newer, k) = Deleted}
        IN  /\ KeysIn(result) = (KeysIn(newer) \cup KeysIn(older)) \ dropped
            /\ \A k \in KeysIn(result) :
                   ItemOf(result, k) = IF k \in KeysIn(newer) THEN ItemOf(newer, k)
                                                              ELSE ItemOf(older, k)

\* lower_bound_bl finds the position std::lower_bound is defined to find, in any
\* part of an array a merge starts from, the empty ones included.
FindsLowerBound ==
    merging /\ result = << >> =>
        \A first, last \in 0..Len(newer), x \in Sought :
            first <= last =>
                LET found == lower_bound_bl(newer, first, last, x)
                IN  /\ found \in first..last
                    /\ \A j \in (first + 1)..found : newer[j].key < x
                    /\ \A j \in (found + 1)..last : newer[j].key >= x
=============================================================================
