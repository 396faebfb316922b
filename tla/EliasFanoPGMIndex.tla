------------------------- MODULE EliasFanoPGMIndex -------------------------
(***************************************************************************)
(* EliasFanoPGMIndex (src/include/pgm/pgm_index_variants.hpp): the         *)
(* segments of a PGMIndex of one level, their keys less the first one kept *)
(* in an sd_vector, in whose bits the search looks for the segment.        *)
(***************************************************************************)
EXTENDS PGMIndex, SparseVector

VARIABLES
    ef,         \* the segments' keys, the sentinel's left out, or NoVector
    origin      \* the key of the segment found, as pred put it together

ef_vars == <<ef, origin>>

NoVector == [size |-> 0, wl |-> 0, low |-> << >>, high |-> << >>]

EliasFanoInit == ef = NoVector /\ origin = 0

\* The rest of the constructor, after PGMIndex::build.
BuildVector ==
    /\ pc = "built" /\ ef = NoVector
    /\ ef' = sd_vector([i \in 1..(Len(segments) - 1) |-> segments[i].key - first_key])
    /\ UNCHANGED <<pc, index, query, origin>>

\* The last of the numbers and its index, counting from 0.
LastOf(v) == LET j == Len(v.low) IN [rank |-> j - 1, key |-> select1(v, j)]

\* Variant for testing the properties: the high bits are those searched for.
HighBits_Same(v, above, position, rank) == above \div 2^v.wl

\* The high bits of the number found at a position of high with rank ones before it:
\* those of above if it is a one, and else those of the one before, found by counting.
HighBits(v, above, position, rank) ==
    IF v.high[position + 1] = 1 THEN above \div 2^v.wl
    ELSE Max({j \in Occurrences(v, 1) : j <= position}) - rank

\* pred: the index and the value of the last number that does not exceed i, which is
\* the last one below i + 1.
pred(v, i) ==
    LET above == i + 1
        sel == SelHigh(v, above)
        rank == RankLow(v, above)
        d == StepsDown(v, sel, rank, above % 2^v.wl)
    IN  IF i > v.size THEN LastOf(v)
        ELSE IF rank = 0 THEN [rank |-> 0, key |-> v.low[1] + (above \div 2^v.wl) * 2^v.wl]
        ELSE IF d > sel
        THEN [rank |-> 0, key |-> v.low[1] + (IF (above \div 2^v.wl) < v.wl THEN 1 ELSE 0)]
        ELSE [rank |-> rank - d, key |-> v.low[rank - d + 1]
                                             + HighBits(v, above, sel - d, rank - d) * 2^v.wl]

\* pred asks for a zero of high beyond its last one: select asserts that there is one.
PredOutOfBounds(v, i) == i <= v.size /\ ~HasZeros(v, ((i + 1) \div 2^v.wl) + 1)

\* search up to the segment.
EliasFanoSearch ==
    /\ pc = "built" /\ ef # NoVector
    /\ \E x \in Sought(data) :
          LET i == Max({first_key, x}) - first_key
          IN  /\ key' = x
              /\ IF PredOutOfBounds(ef, i)
                 THEN pc' = "out_of_bounds" /\ UNCHANGED <<it, origin>>
                 ELSE \E p \in {pred(ef, i)} :
                          pc' = "found" /\ it' = p.rank /\ origin' = p.key
    /\ UNCHANGED <<index, level, answer, ef>>

\* ... and from there, with the key pred has found.
EliasFanoAnswer ==
    /\ pc = "found"
    /\ LET s == [At(it) EXCEPT !.key = origin + first_key]
           pos == Min({Max({0, Product(s, k) + s.intercept}), At(it + 1).intercept})
       IN  answer' = [pos |-> pos, lo |-> PGM_SUB_EPS(pos, Epsilon),
                      hi |-> PGM_ADD_EPS(pos, Epsilon, n)]
    /\ pc' = "answered"
    /\ UNCHANGED <<index, key, level, it, ef_vars>>

EliasFanoReturn == Return /\ origin' = 0 /\ UNCHANGED ef

-----------------------------------------------------------------------------
(* Correctness.                                                            *)

\* The numbers ef stands for.
Numbers == {segments[i].key - first_key : i \in 1..(Len(segments) - 1)}

\* Every support structure of the vector answers for the keys put into it: membership,
\* rank and both selects, at every position it has.
VectorHoldsKeys ==
    pc = "built" /\ ef # NoVector =>
        /\ \A i \in 0..(ef.size - 1) :
              /\ At1(ef, i) <=> i \in Numbers
              /\ rank1(ef, i) = Cardinality({x \in Numbers : x < i})
        /\ \A x \in Numbers : select1(ef, Cardinality({y \in Numbers : y <= x})) = x
        /\ \A x \in (0..(ef.size - 1)) \ Numbers :
              select0(ef, x + 1 - Cardinality({y \in Numbers : y <= x})) = x

\* The number just above the last one takes more high bits than the numbers have.
EndsBelowPowerOfTwo == k - first_key = ef.size /\ \E j \in 1..ef.size : 2^j = ef.size + 1

\* The key pred puts together from the high and the low bits is the segment's: slopes
\* are multiplied by the distance from it.
PredRecoversKey == pc = "found" /\ ef # NoVector => origin + first_key = At(it).key
=============================================================================
