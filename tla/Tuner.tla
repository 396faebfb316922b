------------------------------- MODULE Tuner -------------------------------
(***************************************************************************)
(* The two searches of the tuner (src/tuner/tuner.hpp): for the smallest   *)
(* index whose lookups take no more than max_time, and for the fastest one *)
(* of no more than max_space. Both measure one epsilon after the other and *)
(* narrow the bounds lo, hi.                                               *)
(*                                                                         *)
(* An index of a larger epsilon is never larger. Lookup times are measured *)
(* on a running machine and may be anything, the guesses of the second     *)
(* search come from floating-point root finding and may be anything too.   *)
(* A tolerance is an amount here: max_time * tolerance in the code.        *)
(*                                                                         *)
(* A measurement builds a PGMIndex with double slopes and upper levels,    *)
(* and that may never end: it is a step begun and, if  *)
(* it ends, another step.                                                  *)
(***************************************************************************)
EXTENDS Integers

CONSTANTS
    lo_eps, hi_eps,         \* the smallest and largest epsilon to consider
    starting_i,             \* 2048
    half_line,              \* cache_line / 2
    max_time, time_slack, Times,    \* max_time * tolerance; the times measured
    max_space, space_slack,         \* max_space * tolerance
    TimedSizes, Sizes,      \* functions from epsilons to bytes, for the two searches
    guess_steps_threshold

ASSUME TunerAssumption ==
    /\ lo_eps \in Nat \ {0} /\ hi_eps \in Nat /\ lo_eps < hi_eps
    /\ starting_i \in Nat \ {0} /\ half_line \in Nat
    /\ guess_steps_threshold \in Nat /\ max_space \in Nat
    /\ \A size \in TimedSizes \cup Sizes, e \in lo_eps..hi_eps :
          /\ size[e] \in Nat
          /\ \A d \in lo_eps..e : size[d] >= size[e]

VARIABLES
    pc,             \* the step of the search, or how it ended
    bytes,          \* the size of the index by epsilon: a property of the data
    measuring,      \* the epsilon of the index being built and measured; 0: none
    all_stats,      \* the measurements, and the last of them
    back,
    eps_start, i,
    lo, hi,
    guess_steps,
    set_to          \* the epsilon reported; 0: none

measurements == <<measuring, all_stats, back>>
vars == <<pc, bytes, measurements, eps_start, i, lo, hi, guess_steps, set_to>>

\* IndexStats begins to build an index, and it has measured it.
Measure(e) == measuring = 0 /\ measuring' = e /\ UNCHANGED <<all_stats, back>>
Measured(time) ==
    /\ measuring # 0 /\ measuring' = 0
    /\ back' = [epsilon |-> measuring, bytes |-> bytes[measuring], lookup_ns |-> time]
    /\ all_stats' = all_stats \cup {back'}

Init ==
    /\ \/ pc = "start" /\ bytes \in TimedSizes
       \/ pc = "guess" /\ bytes \in Sizes
    /\ measuring = 0 /\ all_stats = {} /\ back = << >>
    /\ eps_start = 0 /\ i = starting_i
    /\ lo = lo_eps /\ hi = hi_eps
    /\ guess_steps = 0
    /\ set_to = 0

-----------------------------------------------------------------------------
(* minimize_space_given_time                                               *)

\* The epsilon a formula gives for max_time, clamped to the bounds.
Start ==
    /\ pc = "start"
    /\ eps_start' \in lo_eps..hi_eps
    /\ Measure(eps_start')
    /\ UNCHANGED <<pc, bytes, i, lo, hi, guess_steps, set_to>>

Started ==
    /\ pc = "start"
    /\ \E time \in Times :
          /\ Measured(time)
          /\ pc' = IF time < max_time THEN "grow" ELSE "shrink"
    /\ UNCHANGED <<bytes, eps_start, i, lo, hi, guess_steps, set_to>>

\* Variant for testing the properties: the next step is compared before it is doubled.
MayGrow_Late == eps_start + i < hi_eps /\ back.lookup_ns < max_time + time_slack

MayGrow == eps_start + 2 * i < hi_eps /\ back.lookup_ns < max_time + time_slack

Grow ==
    /\ pc = "grow" /\ MayGrow
    /\ i' = 2 * i
    /\ Measure(eps_start + i')
    /\ UNCHANGED <<pc, bytes, eps_start, lo, hi, guess_steps, set_to>>

GrowFurther ==
    /\ pc = "grow"
    /\ \E time \in Times : Measured(time)
    /\ lo' = eps_start + i \div 2
    /\ hi' = eps_start + i
    /\ UNCHANGED <<pc, bytes, eps_start, i, guess_steps, set_to>>

Grown ==
    /\ pc = "grow" /\ measuring = 0 /\ ~MayGrow
    /\ lo' = IF i <= 2 * starting_i THEN eps_start ELSE eps_start + i \div 2
    /\ pc' = "bisect"
    /\ UNCHANGED <<bytes, measurements, eps_start, i, hi, guess_steps, set_to>>

MayShrink == eps_start > 2 * i + lo_eps /\ back.lookup_ns > max_time - time_slack

Shrink ==
    /\ pc = "shrink" /\ MayShrink
    /\ i' = 2 * i
    /\ Measure(eps_start - i')
    /\ UNCHANGED <<pc, bytes, eps_start, lo, hi, guess_steps, set_to>>

ShrinkFurther ==
    /\ pc = "shrink"
    /\ \E time \in Times : Measured(time)
    /\ lo' = eps_start - i
    /\ hi' = eps_start - i \div 2
    /\ UNCHANGED <<pc, bytes, eps_start, i, guess_steps, set_to>>

Shrunk ==
    /\ pc = "shrink" /\ measuring = 0 /\ ~MayShrink
    /\ hi' = IF i <= 2 * starting_i THEN eps_start ELSE eps_start - i \div 2
    /\ pc' = "bisect"
    /\ UNCHANGED <<bytes, measurements, eps_start, i, lo, guess_steps, set_to>>

Bisect ==
    /\ pc = "bisect" /\ hi - lo > half_line
    /\ i' = (hi + lo) \div 2
    /\ Measure(i')
    /\ UNCHANGED <<pc, bytes, eps_start, lo, hi, guess_steps, set_to>>

Bisected ==
    /\ pc = "bisect"
    /\ \E time \in Times :
          /\ Measured(time)
          /\ IF time > max_time THEN hi' = i /\ UNCHANGED lo
                                ELSE lo' = i + 1 /\ UNCHANGED hi
    /\ UNCHANGED <<pc, bytes, eps_start, i, guess_steps, set_to>>

pred(a) == a.lookup_ns <= max_time + time_slack

\* Variant for testing the properties: compares the sizes only.
cmp_Sizes(a, b) == pred(a) /\ a.bytes < b.bytes

cmp(a, b) == ~pred(b) \/ (pred(a) /\ a.bytes < b.bytes)

\* std::min_element, which gives the first of several.
Best == {a \in all_stats : ~\E b \in all_stats : cmp(b, a)}

ReportBest ==
    /\ pc = "bisect" /\ measuring = 0 /\ hi - lo <= half_line
    /\ \/ /\ \E a \in all_stats : pred(a)
          /\ \E a \in Best : set_to' = a.epsilon
          /\ pc' = "time_met"
       \/ /\ \A a \in all_stats : ~pred(a)
          /\ pc' = "impossible"
          /\ UNCHANGED set_to
    /\ UNCHANGED <<bytes, measurements, eps_start, i, lo, hi, guess_steps>>

-----------------------------------------------------------------------------
(* minimize_time_given_space                                               *)

\* std::clamp(guess, lo + 1, hi - 1), undefined where lo + 1 is above hi - 1: then
\* it gives one of the two.
Clamped == IF lo + 1 <= hi - 1 THEN (lo + 1)..(hi - 1) ELSE {lo + 1, hi - 1}

\* The middle, drawn to a guess the less the more guesses there were.
Biased(mid, guess) ==
    IF guess_steps <= 1 THEN guess
    ELSE (mid * guess_steps + guess * (guess_steps_threshold - guess_steps))
             \div guess_steps_threshold

\* The loop goes on: the bounds are apart and the size is not within the tolerance.
Continue(mid) == IF lo' < hi' /\ bytes[mid] \notin (max_space - space_slack)..(max_space + space_slack)
                 THEN pc' = "guess" ELSE pc' = "report"

\* Variant for testing the properties: an epsilon that is too small stays in the bounds.
Narrow_KeepMid(mid) ==
    /\ IF bytes[mid] <= max_space THEN hi' = mid /\ UNCHANGED lo ELSE lo' = mid /\ UNCHANGED hi
    /\ Continue(mid)

\* Variant for testing the properties: an epsilon that fits is left out of the bounds.
Narrow_BelowMid(mid) ==
    /\ IF bytes[mid] <= max_space THEN hi' = mid - 1 /\ UNCHANGED lo ELSE lo' = mid + 1 /\ UNCHANGED hi
    /\ Continue(mid)

Narrow(mid) ==
    /\ IF bytes[mid] <= max_space THEN hi' = mid /\ UNCHANGED lo ELSE lo' = mid + 1 /\ UNCHANGED hi
    /\ Continue(mid)

Guess ==
    /\ pc = "guess" /\ guess_steps < guess_steps_threshold
    /\ \E guess \in Clamped : Measure(Biased((lo + hi) \div 2, guess))
    /\ guess_steps' = guess_steps + 1
    /\ UNCHANGED <<pc, bytes, eps_start, i, lo, hi, set_to>>

Halve ==
    /\ pc = "guess" /\ guess_steps >= guess_steps_threshold
    /\ Measure((lo + hi) \div 2)
    /\ UNCHANGED <<pc, bytes, eps_start, i, lo, hi, guess_steps, set_to>>

\* Times make no difference here.
Tried ==
    /\ pc = "guess"
    /\ Measured(max_time)
    /\ Narrow(measuring)
    /\ UNCHANGED <<bytes, eps_start, i, guess_steps, set_to>>

ReportLo ==
    /\ pc = "report"
    /\ pc' = "space_met"
    /\ set_to' = lo
    /\ UNCHANGED <<bytes, measurements, eps_start, i, lo, hi, guess_steps>>

SpaceGivenTime ==
    \/ Start \/ Grow \/ Grown \/ Shrink \/ Shrunk \/ Bisect \/ ReportBest
    \/ Started \/ GrowFurther \/ ShrinkFurther \/ Bisected
TimeGivenSpace == Guess \/ Halve \/ Tried \/ ReportLo

Next == SpaceGivenTime \/ TimeGivenSpace

\* Both are loops that run until they return. That a measurement ends is not promised.
Spec == Init /\ [][Next]_vars /\ WF_vars(measuring = 0 /\ Next)

-----------------------------------------------------------------------------

\* Only epsilons between the two bounds are measured, although the steps are doubled,
\* subtracted and clamped.
MeasuresInBounds == \A a \in all_stats : a.epsilon \in lo_eps..hi_eps

\* The epsilon reported for a time meets it, and so did no smaller index measured.
ReportsSmallestInTime ==
    pc = "time_met" =>
        \E a \in all_stats :
            /\ a.epsilon = set_to /\ pred(a)
            /\ \A b \in all_stats : pred(b) => b.bytes >= a.bytes

\* A search for a space that ended with its bounds closed reports the least epsilon,
\* so the fastest index, that fits: all smaller ones are too large, and it fits itself
\* unless none below the upper bound does.
ReportsFastestThatFits ==
    pc = "space_met" /\ lo >= hi =>
        /\ \A e \in lo_eps..hi_eps : e < set_to => bytes[e] > max_space
        /\ set_to < hi_eps => bytes[set_to] <= max_space

\* Both searches end, whatever is measured and guessed, unless a measurement does not.
SearchEnds == <>(pc \in {"time_met", "impossible", "space_met"}) \/ <>[](measuring # 0)
=============================================================================
