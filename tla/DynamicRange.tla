---------------------------- MODULE DynamicRange ----------------------------
(***************************************************************************)
(* DynamicPGMIndex::range (src/include/pgm/pgm_index_dynamic.hpp): finds   *)
(* the slice of each level, newest level first, and merges it below those  *)
(* found so far with the merge of LevelArrays. The calls of merge a flush  *)
(* makes are here too, each on its own.                                    *)
(***************************************************************************)
EXTENDS LevelArrays

CONSTANTS
    NumLevels,  \* used_levels - min_level: the levels 0 (newest) .. NumLevels - 1
    Ranges,     \* the pairs <<lo, hi>> range is called with; it throws if lo > hi
    RangeKey,   \* bound: the keys of the levels range is called on
    Absent      \* "this map has no pair of that key"

ASSUME RangeAssumption ==
    /\ NumLevels \in Nat
    /\ Ranges \subseteq Int \X Int
    /\ RangeKey \subseteq Key
    /\ Deleted \notin Nat /\ Absent \notin Nat

VARIABLES
    call,       \* "merge"; "range"; "returned" from range; "thrown"
    levels,     \* the arrays of the levels
    lo, hi,
    i,          \* the level the loop has come to
    pairs       \* what range returns

range_vars == <<call, levels, lo, hi, i, pairs>>
vars == <<merge_vars, range_vars>>

Level == 0..(NumLevels - 1)
RangeArrays == [l \in Level |-> ArraysAt(l, RangeKey)]
Contents == {c \in [Level -> UNION {RangeArrays[l] : l \in Level}] :
                \A l \in Level : c[l] \in RangeArrays[l]}
NoLevels == [l \in Level |-> << >>]

MergeCall ==
    /\ MergeInit
    /\ call = "merge"
    /\ levels = NoLevels /\ lo = 0 /\ hi = 0

RangeCall ==
    /\ newer = << >> /\ older = << >> /\ result = << >>
    /\ SkipDeleted = FALSE /\ first1 = 1 /\ first2 = 1 /\ merging = FALSE
    /\ call = "range"
    /\ levels \in Contents
    /\ \E range \in Ranges : lo = range[1] /\ hi = range[2]

Init == (MergeCall \/ RangeCall) /\ i = 0 /\ pairs = << >>

Throw ==
    /\ call = "range" /\ lo > hi
    /\ call' = "thrown"
    /\ UNCHANGED <<merge_vars, levels, lo, hi, i, pairs>>

\* The loop of range has come to a level.
AtLevel == call = "range" /\ lo <= hi /\ ~merging /\ i < NumLevels

\* std::upper_bound from an offset to the end of an array.
upper_bound(a, first, x) ==
    Min({p \in first..Len(a) : \A q \in (p + 1)..Len(a) : a[q].key > x})

\* The part of the current level with keys from lo to hi. In a level with an index the
\* bounds are looked for in windows that are sure to hold them.
Slice ==
    LET a == levels[i]
        it_lo == lower_bound_bl(a, 0, Len(a), lo)
    IN  SubSeq(a, it_lo + 1, upper_bound(a, it_lo, hi))

NothingThere ==
    /\ AtLevel /\ Slice = << >>
    /\ i' = i + 1
    /\ UNCHANGED <<merge_vars, call, levels, lo, hi, pairs>>

\* Variant for testing the properties: the slice is merged over what was found so far.
StartMerge_Over ==
    /\ AtLevel /\ Slice # << >>
    /\ newer' = Slice /\ older' = result
    /\ SkipDeleted' = FALSE /\ first1' = 1 /\ first2' = 1 /\ result' = << >>
    /\ merging' = TRUE
    /\ i' = i + 1
    /\ UNCHANGED <<call, levels, lo, hi, pairs>>

\* tmp_a and tmp_b take turns: what one merge has written is read by the next.
StartMerge ==
    /\ AtLevel /\ Slice # << >>
    /\ newer' = result /\ older' = Slice
    /\ SkipDeleted' = FALSE /\ first1' = 1 /\ first2' = 1 /\ result' = << >>
    /\ merging' = TRUE
    /\ i' = i + 1
    /\ UNCHANGED <<call, levels, lo, hi, pairs>>

\* The items that are not erased, copied in a loop.
live_pairs(a) ==
    LET copied[n \in 0..Len(a)] ==
            IF n = 0 THEN << >>
            ELSE IF a[n].item = Deleted THEN copied[n - 1] ELSE Append(copied[n - 1], a[n])
    IN  copied[Len(a)]

Return ==
    /\ call = "range" /\ lo <= hi /\ ~merging /\ i = NumLevels
    /\ pairs' = live_pairs(result)
    /\ call' = "returned"
    /\ UNCHANGED <<merge_vars, levels, lo, hi, i>>

Next == (Merge /\ UNCHANGED range_vars) \/ Throw \/ NothingThere \/ StartMerge \/ Return

Spec == Init /\ [][Next]_vars

-----------------------------------------------------------------------------
(* The ordered map the levels stand for: the newest item of each key.      *)

HoldersOf(k) == {l \in Level : k \in KeysIn(levels[l])}
NewestItem(k) == IF HoldersOf(k) = {} THEN Deleted ELSE ItemOf(levels[Min(HoldersOf(k))], k)

Map == INSTANCE OrderedMap WITH
           Value <- Level,
           map <- [k \in Key |-> IF NewestItem(k) = Deleted THEN Absent ELSE NewestItem(k)]

\* range returns the live pairs with key between lo and hi, both included, each once, in
\* order, and with its newest value (documentation at 263-268).
RangeIsExact ==
    call = "returned" =>
        /\ IsLevel(pairs)
        /\ {<<pairs[j].key, pairs[j].item>> : j \in DOMAIN pairs} = Map!RangeOf(lo, hi)
=============================================================================
