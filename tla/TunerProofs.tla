----------------------------- MODULE TunerProofs -----------------------------
(***************************************************************************)
(* The safety properties of Tuner, for any bounds, measurements, guesses   *)
(* and sizes. The two searches share the variables lo and hi: the first    *)
(* one needs of them that they stay between the bounds, the second one     *)
(* also what is known of the epsilons outside them.                        *)
(***************************************************************************)
EXTENDS Tuner, TLAPS

Epsilon == lo_eps..hi_eps
Stats == [epsilon : Epsilon, bytes : Nat, lookup_ns : Times \cup {max_time}]

Searching == {"grow", "shrink", "bisect"}
Guessing == {"guess", "report", "space_met"}

TypeInv ==
    /\ pc \in {"start", "time_met", "impossible"} \cup Searching \cup Guessing
    /\ bytes \in TimedSizes \cup Sizes
    /\ all_stats \in SUBSET Stats
    /\ i \in Nat /\ eps_start \in Nat /\ guess_steps \in Nat
    /\ lo \in Int /\ lo >= lo_eps
    /\ hi \in Int /\ hi <= hi_eps
    /\ pc \in Searching => eps_start \in Epsilon
    /\ measuring \in Epsilon \cup {0}

\* What is being measured, if anything is, is where the step of its search goes.
MeasuringInv ==
    measuring # 0 =>
        \/ pc = "start" /\ measuring = eps_start
        \/ pc = "grow" /\ measuring = eps_start + i
        \/ pc = "shrink" /\ measuring = eps_start - i
        \/ pc = "bisect" /\ measuring = i /\ i \in lo..(hi - 1)
        \/ pc = "guess" /\ measuring \in lo..hi

\* What the second search knows: the epsilons below lo are too small, and the upper
\* bound is one that fits, unless it is still the first one.
BoundsInv ==
    pc \in Guessing =>
        /\ hi >= lo_eps /\ lo <= hi + 1
        /\ pc = "guess" => lo < hi
        /\ \A e \in Epsilon : e < lo => bytes[e] > max_space
        /\ hi < hi_eps => bytes[hi] <= max_space
        /\ pc = "space_met" => set_to = lo

\* What the first search reports is the best of what it measured.
ReportInv == pc = "time_met" => /\ \E a \in all_stats : pred(a)
                                /\ \E a \in Best : set_to = a.epsilon

IInv == TypeInv /\ MeasuringInv /\ BoundsInv /\ ReportInv

LEMMA SizeFacts ==
    ASSUME bytes \in TimedSizes \cup Sizes, NEW e \in Epsilon
    PROVE  bytes[e] \in Nat /\ \A d \in Epsilon : d <= e => bytes[d] >= bytes[e]
BY TunerAssumption DEF Epsilon

(* An average of two numbers, of any weights, lies between them.           *)
LEMMA WeightedMean ==
    ASSUME NEW l \in Nat, NEW h \in Nat, NEW a \in l..h, NEW b \in l..h,
           NEW t \in Nat \ {0}, NEW g \in 0..t
    PROVE  (a * g + b * (t - g)) \div t \in l..h
<1>1. g \in Nat /\ t - g \in Nat
  OBVIOUS
<1>2. a * g >= l * g /\ b * (t - g) >= l * (t - g)
  BY <1>1
<1>3. a * g <= h * g /\ b * (t - g) <= h * (t - g)
  BY <1>1
<1>4. l * g + l * (t - g) = l * t /\ h * g + h * (t - g) = h * t
  OBVIOUS
<1>5. PICK s \in Int : s = a * g + b * (t - g)
  OBVIOUS
<1>6. s >= l * t /\ s <= h * t
  BY <1>1, <1>2, <1>3, <1>4, <1>5
<1>7. s \div t \in l..h
  BY <1>6
<1> QED
  BY <1>5, <1>7

-----------------------------------------------------------------------------
(* The inductive invariant.                                                *)

LEMMA InitInv == Init => IInv
BY TunerAssumption DEF Init, IInv, TypeInv, MeasuringInv, BoundsInv, ReportInv, Searching, Guessing, Epsilon

(* A measurement that has been made is one of the statistics.             *)
LEMMA MeasureType ==
    ASSUME TypeInv, NEW time \in Times \cup {max_time}, Measured(time)
    PROVE  /\ measuring \in Epsilon /\ measuring' = 0
           /\ all_stats' \in SUBSET Stats
<1>1. measuring \in Epsilon /\ measuring' = 0
  BY DEF TypeInv, Measured
<1>2. back' \in Stats
  <2>1. bytes[measuring] \in Nat
    BY <1>1, SizeFacts DEF TypeInv
  <2> QED BY <1>1, <2>1 DEF Measured, Stats
<1> QED
  BY <1>1, <1>2 DEF Measured, TypeInv

LEMMA GrowInv ==
    ASSUME IInv, Start \/ Started \/ Grow \/ GrowFurther \/ Grown
    PROVE  IInv'
<1> USE DEF IInv, Searching, Guessing
<1> USE TunerAssumption
<1>1. CASE Start
  <2>1. PICK e \in Epsilon : eps_start' = e /\ measuring' = e /\ UNCHANGED all_stats
    BY <1>1 DEF Start, Measure, Epsilon
  <2> QED BY <1>1, <2>1 DEF Start, TypeInv, MeasuringInv, BoundsInv, ReportInv, Epsilon
<1>2. CASE Started
  <2>1. PICK time \in Times : Measured(time) /\ pc' \in {"grow", "shrink"}
    BY <1>2 DEF Started
  <2>2. /\ measuring \in Epsilon /\ measuring' = 0
        /\ all_stats' \in SUBSET Stats
    BY <2>1, MeasureType
  <2>3. eps_start' \in Epsilon
    BY <1>2, <2>2 DEF Started, MeasuringInv, Epsilon
  <2> QED BY <1>2, <2>1, <2>2, <2>3 DEF Started, TypeInv, MeasuringInv, BoundsInv, ReportInv, Epsilon
<1>3. CASE Grow
  <2>1. /\ i' = 2 * i /\ eps_start + 2 * i < hi_eps /\ measuring' = eps_start + i'
        /\ pc = "grow" /\ UNCHANGED <<pc, bytes, eps_start, lo, hi, guess_steps, set_to, all_stats>>
    BY <1>3 DEF Grow, MayGrow, Measure
  <2>2. measuring' \in Epsilon /\ i' \in Nat
    BY <2>1 DEF TypeInv, Epsilon
  <2> QED BY <2>1, <2>2 DEF TypeInv, MeasuringInv, BoundsInv, ReportInv, Epsilon
<1>4. CASE GrowFurther
  <2>1. PICK time \in Times : Measured(time)
    BY <1>4 DEF GrowFurther
  <2>2. /\ measuring \in Epsilon /\ measuring' = 0
        /\ all_stats' \in SUBSET Stats
    BY <2>1, MeasureType
  <2>3. eps_start + i \in Epsilon /\ eps_start \in Epsilon /\ i \div 2 \in Nat
    BY <1>4, <2>2 DEF GrowFurther, TypeInv, MeasuringInv, Epsilon
  <2> QED BY <1>4, <2>2, <2>3 DEF GrowFurther, TypeInv, MeasuringInv, BoundsInv, ReportInv, Epsilon
<1>5. CASE Grown
  <2>1. i \div 2 \in Nat
    BY DEF TypeInv
  <2> QED BY <1>5, <2>1 DEF Grown, TypeInv, MeasuringInv, BoundsInv, ReportInv, Epsilon, measurements
<1> QED
  BY <1>1, <1>2, <1>3, <1>4, <1>5

LEMMA ShrinkInv ==
    ASSUME IInv, Shrink \/ ShrinkFurther \/ Shrunk
    PROVE  IInv'
<1> USE DEF IInv, Searching, Guessing
<1> USE TunerAssumption
<1>1. CASE Shrink
  <2>1. /\ i' = 2 * i /\ eps_start > 2 * i + lo_eps /\ measuring' = eps_start - i'
        /\ pc = "shrink" /\ UNCHANGED <<pc, bytes, eps_start, lo, hi, guess_steps, set_to, all_stats>>
    BY <1>1 DEF Shrink, MayShrink, Measure
  <2>2. measuring' \in Epsilon /\ i' \in Nat
    BY <2>1 DEF TypeInv, Epsilon
  <2> QED BY <2>1, <2>2 DEF TypeInv, MeasuringInv, BoundsInv, ReportInv, Epsilon
<1>2. CASE ShrinkFurther
  <2>1. PICK time \in Times : Measured(time)
    BY <1>2 DEF ShrinkFurther
  <2>2. /\ measuring \in Epsilon /\ measuring' = 0
        /\ all_stats' \in SUBSET Stats
    BY <2>1, MeasureType
  <2>3. eps_start - i \in Epsilon /\ eps_start \in Epsilon /\ i \div 2 \in Nat
    BY <1>2, <2>2 DEF ShrinkFurther, TypeInv, MeasuringInv, Epsilon
  <2> QED BY <1>2, <2>2, <2>3 DEF ShrinkFurther, TypeInv, MeasuringInv, BoundsInv, ReportInv, Epsilon
<1>3. CASE Shrunk
  <2>1. i \div 2 \in Nat
    BY DEF TypeInv
  <2> QED BY <1>3, <2>1 DEF Shrunk, TypeInv, MeasuringInv, BoundsInv, ReportInv, Epsilon, measurements
<1> QED
  BY <1>1, <1>2, <1>3

LEMMA BisectInv ==
    ASSUME IInv, Bisect \/ Bisected \/ ReportBest
    PROVE  IInv'
<1> USE DEF IInv, Searching, Guessing
<1> USE TunerAssumption
<1>1. CASE Bisect
  <2>1. /\ pc = "bisect" /\ hi - lo > half_line /\ i' = (hi + lo) \div 2 /\ measuring' = i'
        /\ UNCHANGED <<pc, bytes, eps_start, lo, hi, guess_steps, set_to, all_stats>>
    BY <1>1 DEF Bisect, Measure
  <2>2. i' \in lo..(hi - 1)
    BY <2>1 DEF TypeInv
  <2>3. i' \in Epsilon /\ i' \in Nat
    BY <2>2 DEF TypeInv, Epsilon
  <2> QED BY <2>1, <2>2, <2>3 DEF TypeInv, MeasuringInv, BoundsInv, ReportInv, Epsilon
<1>2. CASE Bisected
  <2>1. PICK time \in Times :
           /\ Measured(time)
           /\ \/ hi' = i /\ lo' = lo
              \/ lo' = i + 1 /\ hi' = hi
    BY <1>2 DEF Bisected
  <2>2. /\ measuring \in Epsilon /\ measuring' = 0
        /\ all_stats' \in SUBSET Stats
    BY <2>1, MeasureType
  <2>3. i \in lo..(hi - 1) /\ i \in Epsilon
    BY <1>2, <2>2 DEF Bisected, MeasuringInv, Epsilon
  <2> QED BY <1>2, <2>1, <2>2, <2>3 DEF Bisected, TypeInv, MeasuringInv, BoundsInv, ReportInv, Epsilon
<1>3. CASE ReportBest
  <2>1. all_stats' = all_stats /\ measuring' = 0 /\ Best' = Best
    BY <1>3 DEF ReportBest, measurements, Best, cmp, pred
  <2>2. ReportInv'
    BY <1>3, <2>1 DEF ReportBest, ReportInv, pred
  <2> QED BY <1>3, <2>1, <2>2 DEF ReportBest, TypeInv, MeasuringInv, BoundsInv, Epsilon, measurements
<1> QED
  BY <1>1, <1>2, <1>3

(* A guess or a middle lies in the current bounds.                         *)
LEMMA GuessInv ==
    ASSUME IInv, Guess \/ Halve
    PROVE  IInv'
<1>1. /\ lo \in Nat /\ hi \in Nat /\ lo < hi /\ guess_steps \in Nat
      /\ pc = "guess" /\ lo \in Epsilon /\ hi \in Epsilon
  BY TunerAssumption DEF Guess, Halve, IInv, TypeInv, BoundsInv, Guessing, Epsilon
<1>2. (lo + hi) \div 2 \in lo..hi
  BY <1>1
<1>3. measuring' \in lo..hi
  <2>1. CASE Guess
    <3>1. PICK guess \in Clamped : measuring' = Biased((lo + hi) \div 2, guess)
      BY <2>1 DEF Guess, Measure
    <3>2. guess \in lo..hi
      BY <1>1 DEF Clamped
    <3>3. guess_steps_threshold \in Nat \ {0} /\ guess_steps \in 0..guess_steps_threshold
      BY <1>1, <2>1, TunerAssumption DEF Guess
    <3> QED BY <1>1, <1>2, <3>1, <3>2, <3>3, WeightedMean DEF Biased
  <2>2. CASE Halve
    BY <1>2, <2>2 DEF Halve, Measure
  <2> QED BY <2>1, <2>2
<1>4. /\ guess_steps' \in Nat
      /\ UNCHANGED <<pc, bytes, eps_start, i, lo, hi, set_to, all_stats>>
  BY <1>1 DEF Guess, Halve, Measure
<1>5. measuring' \in Epsilon
  BY <1>1, <1>3, TunerAssumption DEF Epsilon
<1> QED
  BY <1>1, <1>3, <1>4, <1>5, TunerAssumption
     DEF IInv, TypeInv, MeasuringInv, BoundsInv, ReportInv, Searching, Guessing

(* What comes of an epsilon of the current bounds keeps what is known of   *)
(* those outside: all up to one that is too small are, and one that fits   *)
(* may become the upper bound.                                             *)
LEMMA TriedInv ==
    ASSUME IInv, Tried
    PROVE  IInv'
<1> USE DEF IInv, Searching, Guessing
<1> USE TunerAssumption
<1> DEFINE mid == measuring
<1>1. /\ pc = "guess" /\ Measured(max_time) /\ Narrow(mid)
      /\ bytes' = bytes /\ eps_start' = eps_start /\ i' = i /\ guess_steps' = guess_steps
  BY DEF Tried
<1>2. mid \in Epsilon /\ measuring' = 0 /\ all_stats' \in SUBSET Stats
  BY <1>1, MeasureType
<1>3. mid \in lo..hi /\ lo < hi /\ mid \in Int
  BY <1>1, <1>2 DEF TypeInv, MeasuringInv, BoundsInv, Epsilon
<1>4. bytes[mid] \in Nat /\ \A d \in Epsilon : d <= mid => bytes[d] >= bytes[mid]
  BY <1>2, SizeFacts DEF TypeInv
<1>5. pc' \in {"guess", "report"} /\ (pc' = "guess" => lo' < hi')
  BY <1>1 DEF Narrow, Continue
<1> HIDE DEF mid
<1>6. CASE bytes[mid] <= max_space
  <2>1. hi' = mid /\ lo' = lo
    BY <1>1, <1>6 DEF Narrow
  <2>2. BoundsInv'
    BY <1>1, <1>2, <1>3, <1>5, <1>6, <2>1 DEF BoundsInv, TypeInv, Epsilon
  <2> QED BY <1>1, <1>2, <1>3, <1>5, <2>1, <2>2 DEF TypeInv, MeasuringInv, ReportInv, Epsilon
<1>7. CASE ~(bytes[mid] <= max_space)
  <2>1. hi' = hi /\ lo' = mid + 1
    BY <1>1, <1>7 DEF Narrow
  <2>2. \A e \in Epsilon : e < lo' => bytes[e] > max_space
    <3> TAKE e \in Epsilon
    <3> HAVE e < lo'
    <3>1. e <= mid
      BY <1>3, <2>1 DEF Epsilon
    <3> QED BY <1>4, <1>7, <3>1, SizeFacts DEF TypeInv
  <2>3. BoundsInv'
    BY <1>1, <1>2, <1>3, <1>5, <2>1, <2>2 DEF BoundsInv, TypeInv, Epsilon
  <2> QED BY <1>1, <1>2, <1>3, <1>5, <2>1, <2>3 DEF TypeInv, MeasuringInv, ReportInv, Epsilon
<1> QED
  BY <1>6, <1>7

LEMMA ReportLoInv ==
    ASSUME IInv, ReportLo
    PROVE  IInv'
BY DEF IInv, ReportLo, TypeInv, MeasuringInv, BoundsInv, ReportInv, Searching, Guessing, Epsilon, measurements

THEOREM AlwaysIInv == Spec => []IInv
<1>1. IInv /\ [Next]_vars => IInv'
  <2> SUFFICES ASSUME IInv, [Next]_vars PROVE IInv'
    OBVIOUS
  <2>1. CASE UNCHANGED vars
    BY <2>1 DEF vars, measurements, IInv, TypeInv, MeasuringInv, BoundsInv, ReportInv, Best, cmp, pred
  <2> QED BY <2>1, GrowInv, ShrinkInv, BisectInv, GuessInv, TriedInv, ReportLoInv
             DEF Next, SpaceGivenTime, TimeGivenSpace
<1> QED
  BY <1>1, InitInv, PTL DEF Spec

-----------------------------------------------------------------------------

(* No epsilon is measured outside the bounds, however the steps of the     *)
(* first search are doubled and the guesses of the second are weighted.    *)
THEOREM AlwaysMeasuresInBounds == Spec => []MeasuresInBounds
<1>1. IInv => MeasuresInBounds
  BY DEF IInv, TypeInv, Stats, Epsilon, MeasuresInBounds
<1> QED
  BY <1>1, AlwaysIInv, PTL

(* std::min_element with the comparison of the first search gives a        *)
(* measurement that meets the time, if there is one, and the smallest such.*)
THEOREM AlwaysReportsSmallestInTime == Spec => []ReportsSmallestInTime
<1>1. IInv => ReportsSmallestInTime
  <2> SUFFICES ASSUME IInv, pc = "time_met"
               PROVE  \E a \in all_stats :
                         /\ a.epsilon = set_to /\ pred(a)
                         /\ \A b \in all_stats : pred(b) => b.bytes >= a.bytes
    BY DEF ReportsSmallestInTime
  <2>1. PICK a \in Best : set_to = a.epsilon
    BY DEF IInv, ReportInv
  <2>2. a \in all_stats /\ \A b \in all_stats : ~cmp(b, a)
    BY DEF Best
  <2>3. pred(a)
    BY <2>2 DEF IInv, ReportInv, cmp
  <2>4. \A b \in all_stats : pred(b) => b.bytes >= a.bytes
    BY <2>2 DEF cmp, IInv, TypeInv, Stats
  <2> QED BY <2>1, <2>2, <2>3, <2>4
<1> QED
  BY <1>1, AlwaysIInv, PTL

(* A search for a space that closes its bounds has found the least epsilon *)
(* that fits, whatever it guessed.                                         *)
THEOREM AlwaysReportsFastestThatFits == Spec => []ReportsFastestThatFits
<1>1. IInv => ReportsFastestThatFits
  BY TunerAssumption
     DEF IInv, TypeInv, BoundsInv, Guessing, Epsilon, ReportsFastestThatFits
<1> QED
  BY <1>1, AlwaysIInv, PTL
=============================================================================
