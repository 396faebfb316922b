---------------------------- MODULE Segmentation ----------------------------
(***************************************************************************)
(* internal::make_segmentation (src/include/pgm/piecewise_linear_model.hpp)*)
(* point by point: every sequence of points a bounded grid allows is fed   *)
(* to the model, and the hulls it keeps are compared with a direct test    *)
(* for a line through all the intervals.                                   *)
(*                                                                         *)
(* The same input can be handed to make_segmentation_par, whose threads    *)
(* segment a chunk each, in any order, before their results are joined.    *)
(***************************************************************************)
EXTENDS PiecewiseLinearModel

CONSTANTS
    epsilon,    \* the largest error allowed
    MaxPoints,  \* bound: points added in a behavior
    StepsX,     \* the distances in x between successive points, 0 for a duplicate
    StepsY,     \* the distances in y between successive points
    StartsY,    \* the y of the first point
    Parallelisms \* the smallest of processors, threads and 20

VARIABLES
    opt,        \* the model
    points,     \* history: the points of the segment being built
    refused,    \* history: those points and the last one refused
    input,      \* history: all the points, duplicates included
    parallelism, \* how many threads there are, 0 before there are any
    results,    \* what the threads found for the chunks they have finished
    out         \* the segments

sequential == <<opt, points, refused>>
vars == <<sequential, input, parallelism, results, out>>

Chunks == 0..(parallelism - 1)
Finished == DOMAIN results

ASSUME ParametersAssumption ==
    /\ epsilon \in Nat \ {0} /\ MaxPoints \in Nat
    /\ StepsX \subseteq Nat /\ StepsY \subseteq Nat /\ StartsY \subseteq Nat
    /\ Parallelisms \subseteq Nat \ {0, 1}

-----------------------------------------------------------------------------
(* make_segmentation feeds the model: an x equal to the one before is      *)
(* skipped, and a refused point starts the next segment.                   *)

Init ==
    \E y \in StartsY :
        /\ opt = add_point(NewModel(epsilon), 0, y).model
        /\ points = <<Point(0, y)>>
        /\ refused = << >>
        /\ input = points
        /\ parallelism = 0
        /\ results = << >>
        /\ out = << >>

\* The next point of the input.
NextPoint(dx, dy) == Point(input[Len(input)].x + dx, input[Len(input)].y + dy)

AddPoint ==
    /\ Len(input) < MaxPoints /\ parallelism = 0
    /\ \E dx \in StepsX, dy \in StepsY :
          LET p == NextPoint(dx, dy)
              tried == add_point(opt, p.x, p.y)
          IN  /\ input' = Append(input, p)
              /\ IF dx = 0
                 THEN UNCHANGED sequential
                 ELSE IF tried.ok
                 THEN /\ opt' = tried.model
                      /\ points' = Append(points, p)
                      /\ UNCHANGED refused
                 ELSE /\ opt' = add_point(tried.model, p.x, p.y).model
                      /\ points' = <<p>>
                      /\ refused' = Append(points, p)
    /\ UNCHANGED <<parallelism, results, out>>

-----------------------------------------------------------------------------
(* make_segmentation_par on the input, above the threshold.                *)

StartThreads ==
    /\ Len(input) = MaxPoints /\ parallelism = 0
    /\ parallelism' \in Parallelisms
    /\ UNCHANGED <<sequential, input, results, out>>

\* A thread's iteration touches nothing but its own slot of results.
SegmentChunk(i) ==
    /\ i \notin Finished
    /\ results' = [j \in Finished \cup {i} |->
                     IF j = i THEN SegmentedChunk(epsilon, input, parallelism, i)
                     ELSE results[j]]
    /\ UNCHANGED <<sequential, input, parallelism, out>>

Join ==
    /\ parallelism > 0 /\ out = << >>
    /\ Finished = Chunks
    /\ out' = Concatenated([i \in 1..parallelism |-> results[i - 1]])
    /\ UNCHANGED <<sequential, input, parallelism, results>>

Next == AddPoint \/ StartThreads \/ (\E i \in Chunks : SegmentChunk(i)) \/ Join

Spec == Init /\ [][Next]_vars

-----------------------------------------------------------------------------
(* Correctness.                                                            *)

\* The model accepts no point too many: a line passes within epsilon of all the
\* points of a segment. The hulls, pruned at every step, must not have lost the
\* point that the next test depends on.
AcceptsOnlyStabbable == Stabbable(epsilon, points)

\* Nor one too few, so that a segmentation has as few segments as can be: a
\* refused point leaves no line.
RefusesOnlyUnstabbable == refused # << >> => ~Stabbable(epsilon, refused)

\* The line of a segment passes within epsilon and a half of each of its points: the
\* intercept at the first key comes from another point, by way of a rounded division.
LineWithinEpsilon ==
    \A i \in DOMAIN points :
        Approximates(epsilon, get_floating_point_segment(get_segment(opt)), points[i])

\* The first point of each x in the input.
Distinct == {input[i] : i \in {j \in DOMAIN input : j = 1 \/ input[j].x # input[j - 1].x}}

\* Joined, the chunks' segments are one segmentation of the whole input: wherever the
\* chunks were cut, also inside a run of duplicates or leaving chunks without points,
\* the last segment that begins at or below the x of a point approximates the point.
ThreadsCoverInput ==
    out # << >> =>
        \A p \in Distinct :
            \E i \in DOMAIN out :
                /\ out[i].first <= p.x
                /\ i < Len(out) => out[i + 1].first > p.x
                /\ Approximates(epsilon, get_floating_point_segment(out[i]), p)

\* The segments are in strictly increasing order of their first x, as the levels above
\* and every search require, and the cuts cost at most one segment each.
ThreadsKeepOrder ==
    out # << >> =>
        /\ \A i \in 1..(Len(out) - 1) : out[i].first < out[i + 1].first
        /\ Len(out) <= Len(make_segmentation(epsilon, input)) + parallelism - 1
=============================================================================
