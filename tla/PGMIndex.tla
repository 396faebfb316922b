------------------------------ MODULE PGMIndex ------------------------------
(***************************************************************************)
(* PGMIndex (src/include/pgm/pgm_index.hpp): built over a sorted sequence  *)
(* of unsigned keys as levels of linear segments, each level segmenting    *)
(* the first keys of the one below, and searched from the top level down   *)
(* to a range of positions.                                                *)
(*                                                                         *)
(* Positions and the entries of levels_offsets count from 0 as in the      *)
(* code, so position i of a sequence s is s[i + 1].                        *)
(*                                                                         *)
(* A segment keeps its slope as the fraction dy / dx. Floating says what   *)
(* is made of it: "SoftFloat" divides and multiplies as that type does,    *)
(* dx and the distance of a key narrowed to an int; "float" is a built-in  *)
(* type, which a SoftFloat can only be converted to by way of int64_t (its *)
(* own rounding, of products beyond 2^24, is left out).                    *)
(***************************************************************************)
EXTENDS PiecewiseLinearModel, SoftFloat

CONSTANTS
    Inputs(_),         \* the sorted, nonempty sequences an instance is built on
    Sought(_),         \* the keys searched for in a sequence
    KeyMax,            \* numeric_limits<K>::max()
    Epsilon,
    Instances,         \* the choices of EpsilonRecursive, linear_search_threshold (which
                       \* depends on K), Floating and the number of threads; variants of
                       \* the index add choices of their own
    ParallelFrom       \* from how many points on they do: 2^15

ASSUME ParametersAssumption ==
    /\ KeyMax \in Nat /\ Epsilon \in Nat \ {0} /\ ParallelFrom \in Nat \ {0}
    /\ \A i \in Instances :
          /\ i.EpsilonRecursive \in Nat /\ i.linear_search_threshold \in Nat
          /\ i.Floating \in {"SoftFloat", "float"}
          /\ i.parallelism \in Nat \ {0}
    /\ \A s \in UNION {Inputs(i) : i \in Instances} :
          /\ s \in Seq(0..KeyMax) \ {<< >>}
          /\ \A j \in 1..(Len(s) - 1) : s[j] <= s[j + 1]
          /\ Sought(s) \subseteq 0..KeyMax

VARIABLES
    instance,       \* the choice of parameters the index is an instance of
    guard_bit0,     \* what SoftFloat(uint64_t) finds in that variable if it sets none
    pc,             \* "build", "built", "descend", "found", "answered", or how it failed
    data,           \* the keys
    first_key,      \* the smallest of them
    segments,       \* the segments of all levels, each level closed by a sentinel
    levels_offsets, \* where each level starts in segments, bottom up
    last_n,         \* how many keys the next level indexes
    key,            \* the key searched for
    level,          \* the level the descent has reached
    it,             \* the position in segments it has reached
    answer          \* the ApproxPos

NoAnswer == [pos |-> 0, lo |-> 0, hi |-> 0]

EpsilonRecursive == instance.EpsilonRecursive \* 0: the first level alone, bisected
linear_search_threshold == instance.linear_search_threshold
Floating == instance.Floating
parallelism == instance.parallelism

parameters == <<instance, guard_bit0>>
index == <<parameters, data, first_key, segments, levels_offsets, last_n>>
query == <<key, level, it, answer>>
vars == <<pc, index, query>>

Segment(k, dy, dx, intercept) == [key |-> k, dy |-> dy, dx |-> dx, intercept |-> intercept]
Sentinel(n) == Segment(KeyMax, 0, 1, n)
At(i) == segments[i + 1]                       \* segments[i]
n == Len(data)
k == Max({first_key, key})                     \* the key search looks for

height == Len(levels_offsets) - 1
LevelBegin(l) == levels_offsets[l + 1]
segments_count == levels_offsets[2] - 1

-----------------------------------------------------------------------------
(* build                                                                   *)

\* Variant for testing the properties: the key of the sentinel is indexed as well.
ignore_last_Never == 0

\* Whether the index leaves out the last key, which is the sentinel's.
ignore_last == IF data[n] = KeyMax THEN 1 ELSE 0
LastKey == data[n - ignore_last]               \* *std::prev(last)

\* Variant for testing the properties: duplicates are not adjusted for.
in_fun_NoFlag(i) == Point(data[i + 1], i)

\* The point of position i. The end of a run of duplicates, if a gap follows,
\* stands for the keys in the gap.
in_fun(i) ==
    LET x == data[i + 1]
        flag == i > 0 /\ i + 1 < n /\ x = data[i] /\ x # data[i + 2] /\ x + 1 # data[i + 2]
    IN  Point(IF flag THEN x + 1 ELSE x, i)

\* Variant for testing the properties: no extra segment after a level line.
Closed_NoExtra(out) == Append(out, Sentinel(last_n))

\* (SoftFloat)dy / dx, where the slope of one point is SoftFloat(0).
SoftSlope(s) ==
    IF s.dy = 0 THEN FromInt(0, guard_bit0)
    ELSE OverInt(FromInt(s.dy, guard_bit0), s.dx, guard_bit0)

\* slope == 0, where SoftFloat cannot tell zero from one.
IsLevel(s) ==
    CASE Floating = "SoftFloat" -> SoftSlope(s) = FromInt(0, guard_bit0)
      [] Floating = "float" -> ToInt(SoftSlope(s)) = 0

\* A level: its segments and the sentinel, and between them, if the last segment is
\* level, one that sends the keys above LastKey to the end.
Closed(out) ==
    IF last_n > 1 /\ IsLevel(out[Len(out)])
    THEN out \o <<Segment((LastKey + 1) % (KeyMax + 1), 0, 1, last_n), Sentinel(last_n)>>
    ELSE Append(out, Sentinel(last_n))

\* add_point refuses an x below the one before with a logic_error.
Increasing(points) == \A i \in 1..(Len(points) - 1) : points[i].x <= points[i + 1].x

Segmented(epsilon, points) ==
    LET out == make_segmentation_par(epsilon, points, parallelism, ParallelFrom)
    IN  [i \in DOMAIN out |-> get_floating_point_segment(out[i])]

BuildLevel(epsilon, points) ==
    /\ IF ~Increasing(points)
       THEN pc' = "logic_error" /\ UNCHANGED index
       ELSE \E out \in {Closed(Segmented(epsilon, points))} :
                /\ segments' = segments \o out
                /\ last_n' = Len(out) - 1
                /\ levels_offsets' = Append(levels_offsets, Len(segments) + Len(out))
                /\ UNCHANGED <<pc, parameters, data, first_key>>
    /\ UNCHANGED query

\* Before build is called.
Empty ==
    /\ instance \in Instances
    /\ data \in Inputs(instance)
    /\ guard_bit0 \in IF Floating = "SoftFloat" THEN {0, 1} ELSE {0}
    /\ pc = "build"
    /\ segments = << >>
    /\ levels_offsets = <<0>>
    /\ last_n = n - ignore_last
    /\ key = 0 /\ level = 0 /\ it = 0
    /\ answer = NoAnswer

Init == Empty /\ first_key = data[1]

BuildFirstLevel ==
    /\ pc = "build" /\ segments = << >>
    /\ BuildLevel(Epsilon, [i \in 1..last_n |-> in_fun(i - 1)])

HasUpperLevel == EpsilonRecursive > 0 /\ last_n > 1

BuildUpperLevel ==
    /\ pc = "build" /\ segments # << >> /\ HasUpperLevel
    /\ LET offset == levels_offsets[Len(levels_offsets) - 1]
           in_fun_rec(i) == Point(At(offset + i).key, i)
       IN  BuildLevel(EpsilonRecursive, [i \in 1..last_n |-> in_fun_rec(i - 1)])

Built ==
    /\ pc = "build" /\ segments # << >> /\ ~HasUpperLevel
    /\ pc' = "built"
    /\ UNCHANGED <<index, query>>

Build == BuildFirstLevel \/ BuildUpperLevel \/ Built

-----------------------------------------------------------------------------
(* search                                                                  *)

\* Variant for testing the properties: a range that starts one position late.
PGM_SUB_EPS_Late(x, epsilon) == IF x < epsilon THEN 0 ELSE x - epsilon + 1

PGM_SUB_EPS(x, epsilon) == IF x <= epsilon THEN 0 ELSE x - epsilon

PGM_ADD_EPS(x, epsilon, size) == Min({x + epsilon + 2, size})

\* int64_t(slope * (x - key)) of segment s, the distance being a K.
Product(s, x) ==
    LET distance == (x - s.key) % (KeyMax + 1)
    IN  CASE Floating = "SoftFloat" -> ToInt(TimesInt(SoftSlope(s), distance, guard_bit0))
          [] Floating = "float" -> ToInt(SoftSlope(s)) * distance

\* The position segment i, limited by the next one's intercept, gives for k.
Position(i) == Min({Max({0, Product(At(i), k) + At(i).intercept}), At(i + 1).intercept})

\* Reading past the end of segments may give anything: the behavior ends here.
OutOfBounds ==
    /\ pc' = "out_of_bounds"
    /\ UNCHANGED <<index, query>>

\* std::upper_bound over the segments of positions lo..hi - 1.
upper_bound(lo, hi) == lo + Cardinality({i \in lo..(hi - 1) : At(i).key <= k})

\* search starts: from the top level, or in the only one.
StartSearch ==
    /\ pc = "built"
    /\ key' \in Sought(data)
    /\ pc' = "descend"
    /\ level' = height - 1
    /\ it' = LevelBegin(height - 1)
    /\ answer' = NoAnswer
    /\ UNCHANGED index

Bisect ==
    /\ pc = "descend" /\ EpsilonRecursive = 0
    /\ it' = upper_bound(0, segments_count) - 1
    /\ pc' = "found"
    /\ UNCHANGED <<index, key, level, answer>>

\* The scan of a level: the first position from lo on whose next key is above k.
ScanEnds(lo) == {i \in lo..(Len(segments) - 2) : At(i + 1).key > k}

ScanFrom(begin, pos) == begin + PGM_SUB_EPS(pos, EpsilonRecursive + 1)

Descend ==
    /\ pc = "descend" /\ EpsilonRecursive > 0 /\ level > 0
    /\ \E pos \in {Position(it)} :
          LET begin == LevelBegin(level - 1)
              lo == ScanFrom(begin, pos)
              size == LevelBegin(level) - begin - 1
              hi == begin + PGM_ADD_EPS(pos, EpsilonRecursive, size)
          IN  IF EpsilonRecursive > linear_search_threshold
              THEN /\ it' = upper_bound(lo, hi) - 1
                   /\ level' = level - 1
                   /\ UNCHANGED <<pc, index, key, answer>>
              ELSE IF ScanEnds(lo) = {} THEN OutOfBounds
              ELSE /\ it' = Min(ScanEnds(lo))
                   /\ level' = level - 1
                   /\ UNCHANGED <<pc, index, key, answer>>

AtTheBottom ==
    /\ pc = "descend" /\ EpsilonRecursive > 0 /\ level = 0
    /\ pc' = "found"
    /\ UNCHANGED <<index, query>>

Answer ==
    /\ pc = "found"
    /\ IF it < 0 \/ it + 1 >= Len(segments) THEN OutOfBounds
       ELSE /\ \E pos \in {Position(it)} :
                  answer' = [pos |-> pos, lo |-> PGM_SUB_EPS(pos, Epsilon),
                             hi |-> PGM_ADD_EPS(pos, Epsilon, n)]
            /\ pc' = "answered"
            /\ UNCHANGED <<index, key, level, it>>

\* search has returned; the index is as it was.
Return ==
    /\ pc = "answered"
    /\ pc' = "built"
    /\ key' = 0 /\ level' = 0 /\ it' = 0 /\ answer' = NoAnswer
    /\ UNCHANGED index

Search == StartSearch \/ Bisect \/ Descend \/ AtTheBottom \/ Answer

Next == Build \/ Search \/ Return

Spec == Init /\ [][Next]_vars

-----------------------------------------------------------------------------
(* Correctness.                                                            *)

\* The position of the first key not less than x.
Rank(x) == Cardinality({i \in DOMAIN data : data[i] < x})

\* The segments that serve k, on all levels.
Serving ==
    {i \in 0..(Len(segments) - 2) :
        At(i).key <= k /\ (k < At(i + 1).key \/ At(i + 1).key = At(i).key)}

\* A product is that of slope and distance with an error below a half, truncated. (A
\* level segment has one point, its key; beyond it the next intercept decides.)
WithinHalf(s, x) ==
    LET exact == s.dy * (x - s.key)
        product == Product(s, x)
    IN  IF s.dy = 0 THEN x = s.key => product <= 1
        ELSE 2 * s.dx * product < 2 * exact + s.dx /\ 2 * exact < 2 * s.dx * product + 3 * s.dx

\* No segment that serves k is led astray by the arithmetic of Floating.
Accurate == \A i \in Serving : WithinHalf(At(i), k)

\* What SoftFloat can hold: a product with four bits to spare of numbers that pass
\* through int and the mantissa unchanged. The distance 0 becomes a one.
Representable(s, x) ==
    LET distance == x - s.key
    IN  /\ distance > 0 \/ 2 * s.dy <= s.dx
        /\ s.dy < MANT_UPPER
        /\ {s.dx, distance} \subseteq 0..(Min({MANT_UPPER, 2^(INT_BITS - 1)}) - 1)
        /\ s.dy * distance < s.dx * 2^(MANT_BITS - 4)

\* Dividing, multiplying and truncating, each with its own rounding, normalization and
\* exponent, keep the error of a prediction below a half wherever nothing is lost to a
\* width: on such keys the properties below say what SoftFloat finds.
ProductsAccurate ==
    pc \in {"descend", "found"} /\ Floating = "SoftFloat" =>
        \A i \in Serving : Representable(At(i), k) => WithinHalf(At(i), k)

\* search raises a key below the first one to first_key, if that has been set.
NotRaised == data # << >> /\ k < data[1]

Unpredicted == NotRaised \/ ~Accurate

\* segment_for_key ends in the rightmost segment of the first level with a key not
\* above the sought one, as its comment says, although each level is only searched
\* around the position the level above predicts.
SegmentFound ==
    pc = "found" =>
        /\ it \in 0..(segments_count - 1)
        /\ At(it).key <= k
        /\ At(it + 1).key > k
RightmostSegment == Unpredicted \/ SegmentFound

\* The first occurrence of a key that is present lies in the range searched.
FirstOccurrenceFound ==
    pc = "answered" /\ key \in Range(data) =>
        answer.lo <= Rank(key) /\ Rank(key) < answer.hi
FirstOccurrenceInRange == Unpredicted \/ FirstOccurrenceFound

\* Searching the range alone finds the position of the first key not less than an
\* absent one, if there is such a key: the range holds it or ends there. Above the last
\* key it reaches past the first occurrence of that one.
LowerBoundInRange ==
    pc = "answered" /\ key \notin Range(data) /\ ~Unpredicted =>
        /\ key < data[n] => answer.lo <= Rank(key) /\ Rank(key) <= answer.hi
        /\ key > data[n] => Rank(data[n]) < answer.hi

\* "... or n if no such key is found": above the last key the range ends at n.
EndInRange == pc = "answered" /\ key > data[n] => answer.hi = n

\* The same where no run of equal keys ends the data, as in a level of the dynamic
\* index, whose lower_bound relies on it.
RunAtTheEnd == n > 1 /\ data[n] = data[n - 1] /\ data[n] # data[1]
EndInRangeUnlessRun == RunAtTheEnd \/ Unpredicted \/ EndInRange
=============================================================================
