------------------------------ MODULE MCTuner ------------------------------
(***************************************************************************)
(* Instances of Tuner for TLC.                                             *)
(***************************************************************************)
EXTENDS Tuner

\* An index can be built for any epsilon, also for one beyond the bounds.
Epsilons == 0..(2 * hi_eps)

\* Sizes that are far too large up to one epsilon, slightly up to another, and so on.
StepSizes ==
    {[e \in Epsilons |-> IF e < c[1] THEN 9 ELSE IF e < c[2] THEN 5 ELSE IF e < c[3] THEN 3 ELSE 1] :
        c \in {d \in [1..3 -> lo_eps..(hi_eps + 1)] : d[1] <= d[2] /\ d[2] <= d[3]}}

\* Sizes that tell all epsilons apart, or some.
SlopedSizes == {[e \in Epsilons |-> 2 * hi_eps - e], [e \in Epsilons |-> (2 * hi_eps - e) \div 3]}

\* Far below max_time, below it by less than the slack, equal, above it, far above.
SomeTimes == {1, 3, 4, 5, 7}
=============================================================================
