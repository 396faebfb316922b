------------------------- MODULE BucketingPGMIndex -------------------------
(***************************************************************************)
(* BucketingPGMIndex (src/include/pgm/pgm_index_variants.hpp): the         *)
(* segments of a PGMIndex of one level, under a table with the first       *)
(* segment of each of TopLevelSize equal parts of the keys.                *)
(*                                                                         *)
(* K is an unsigned type at least as wide as int, whose arithmetic wraps   *)
(* around. A TopLevelSize of 1 shifts by the width of K and is left out.   *)
(***************************************************************************)
EXTENDS PGMIndex

VARIABLES
    top_level,  \* the table, empty until it is built
    step        \* how many keys a part has

bucketing_vars == <<top_level, step>>

TopLevelSize == instance.TopLevelSize
TopLevelBitSize == instance.TopLevelBitSize    \* 0: as many bits as it takes

pow_two_top_level == \E i \in 1..TopLevelSize : 2^i = TopLevelSize
last_key == data[n]
CEIL_INT_DIV(x, y) == (x + y - 1) \div y
BIT_WIDTH(x) == CHOOSE w \in 0..x : x < 2^w /\ \A v \in 0..(w - 1) : 2^v <= x
InK(x) == x % (KeyMax + 1)

BucketingInit == top_level = << >> /\ step = 0

\* The cells from 0 on: the first segment at or above the start of each part, and the
\* end in the last.
Table(width, size) ==
    LET count == Len(segments)
        cell[i \in 0..(size - 1)] ==
            CASE i = 0 -> 0
              [] i = size - 1 -> count
              [] OTHER ->
                   Min({j \in Max({1, cell[i - 1]})..count :
                           j = count \/ At(j).key - first_key >= InK(InK(i) * width)})
    IN  [i \in 1..size |-> cell[i - 1]]

\* build_top_level.
BuildTopLevel ==
    /\ pc = "built" /\ top_level = << >>
    /\ LET universe == last_key - first_key
           width == IF pow_two_top_level THEN (KeyMax + 1) \div TopLevelSize
                    ELSE Max({CEIL_INT_DIV(universe, TopLevelSize), 1})
           size == IF pow_two_top_level THEN CEIL_INT_DIV(universe, width) + 2
                   ELSE TopLevelSize + 2
       IN  /\ step' = width
           /\ IF TopLevelBitSize # 0 /\ TopLevelBitSize < BIT_WIDTH(Len(segments))
              THEN pc' = "invalid_argument" /\ UNCHANGED top_level
              ELSE top_level' = Table(width, size) /\ UNCHANGED pc
    /\ UNCHANGED <<index, query>>

\* Variant for testing the properties: the first segment of the part is taken.
segment_for_key_First(x) ==
    LET j == (x - first_key) \div step
    IN  top_level[j + 1]

\* segment_for_key: the last segment in the part of x that does not begin above it, or
\* the one before the part.
segment_for_key(x) ==
    LET j == (x - first_key) \div step
        first == top_level[j + 1]
        last == top_level[j + 2]
    IN  first + Cardinality({i \in first..(last - 1) : At(i).key <= x}) - 1

\* search up to the segment. PGMIndex's Answer goes on from there.
BucketingSearch ==
    /\ pc = "built" /\ top_level # << >>
    /\ \E x \in Sought(data) :
          /\ key' = x
          /\ IF x < first_key \/ x > last_key
             THEN LET end == IF x < first_key THEN 0 ELSE n
                  IN  /\ pc' = "answered"
                      /\ answer' = [pos |-> end, lo |-> end, hi |-> end]
                      /\ UNCHANGED it
             ELSE /\ pc' = "found"
                  /\ it' = segment_for_key(x)
                  /\ UNCHANGED answer
    /\ UNCHANGED <<index, level, bucketing_vars>>

\* What is to hold of a search is stated in PGMIndex. It fails where the start of the
\* last part is a multiple of step that K cannot represent: the start wraps around to
\* zero, and the cell keeps the value of the one before.
TableWraps == \E i \in 1..(Len(top_level) - 2) : i * step > KeyMax
=============================================================================
