---------------------------- MODULE SparseVector ----------------------------
(***************************************************************************)
(* sdsl::sd_vector (src/include/pgm/sdsl.hpp): a set of numbers in the     *)
(* Elias-Fano representation. The low wl bits of each are kept as they     *)
(* are, the high bits in unary: the bit vector high has a one for each     *)
(* number, after as many zeros as its high bits say.                       *)
(*                                                                         *)
(* The numbers are given as a strictly increasing sequence. Positions      *)
(* count from 0 and occurrences from 1, as in the library; the select      *)
(* structures over high are taken for what they answer.                    *)
(***************************************************************************)
EXTENDS Integers, Sequences, FiniteSets, FiniteSetsExt

\* bits::hi, the position of the highest one in x > 0.
hi(x) == CHOOSE i \in 0..x : 2^i <= x /\ x < 2^(i + 1)

\* sd_vector(begin, end).
sd_vector(numbers) ==
    LET m == Len(numbers)
        size == numbers[m] + 1
        logn == hi(size) + 1
        logm == IF hi(m) + 1 = logn THEN hi(m) ELSE hi(m) + 1
        wl == logn - logm
        ones == {(numbers[i] \div 2^wl) + i - 1 : i \in 1..m}
    IN  [size |-> size, wl |-> wl,
         low |-> [i \in 1..m |-> numbers[i] % 2^wl],
         high |-> [j \in 1..(m + 2^logm) |-> IF j - 1 \in ones THEN 1 ELSE 0]]

Occurrences(v, bit) == {j \in 0..(Len(v.high) - 1) : v.high[j + 1] = bit}

\* The position of the i-th occurrence of bit in high, if there are so many.
high_select(v, bit, i) ==
    CHOOSE j \in Occurrences(v, bit) :
        Cardinality({h \in Occurrences(v, bit) : h <= j}) = i
HasZeros(v, i) == Cardinality(Occurrences(v, 0)) >= i

\* Variant for testing the properties: goes on over a number with the low bits themselves.
StepsDown_Over(v, sel, rank, least) ==
    Min({sel + 1} \cup
        {d \in 1..sel : \/ v.high[sel - d + 1] = 0
                        \/ d <= rank /\ v.low[rank - d + 1] < least - 1})

\* How many positions the search below position sel of high, with rank ones before it,
\* goes down: over the ones whose low bits are at least least. It passes sel if none stops it.
StepsDown(v, sel, rank, least) ==
    Min({sel + 1} \cup
        {d \in 1..sel : \/ v.high[sel - d + 1] = 0
                        \/ d <= rank /\ v.low[rank - d + 1] < least})

\* Where the numbers with the high bits of i end in high, and how many numbers do
\* not exceed those.
SelHigh(v, i) == high_select(v, 0, (i \div 2^v.wl) + 1)
RankLow(v, i) == SelHigh(v, i) - (i \div 2^v.wl)

\* operator[]: whether i, below size, is one of the numbers.
At1(v, i) ==
    LET sel == SelHigh(v, i)
        rank == RankLow(v, i)
        val_low == i % 2^v.wl
        d == StepsDown(v, sel, rank, val_low + 1)
    IN  rank # 0 /\ d <= sel /\ v.high[sel - d + 1] = 1 /\ v.low[rank - d + 1] = val_low

\* rank_support_sd::rank: how many of the numbers are below i.
rank1(v, i) ==
    LET sel == SelHigh(v, i)
        rank == RankLow(v, i)
        d == StepsDown(v, sel, rank, i % 2^v.wl)
    IN  IF rank = 0 \/ d > sel THEN 0 ELSE rank - d + 1

\* select_support_sd: the i-th number.
select1(v, i) == v.low[i] + (high_select(v, 1, i) + 1 - i) * 2^v.wl

\* select_support_sd for zeros: the i-th number left out. The bisection over the numbers
\* ends behind the last one with fewer than i numbers left out below it.
select0(v, i) ==
    LET LeftOutBelow(j) == select1(v, j) + 1 - j
        last == Max({0} \cup {j \in 1..Len(v.low) : LeftOutBelow(j) < i})
    IN  IF last = 0 THEN i - 1 ELSE select1(v, last) + i - LeftOutBelow(last)
=============================================================================
