------------------------ MODULE SegmentationProofs ------------------------
(***************************************************************************)
(* Proofs about Segmentation: what make_segmentation keeps true point by   *)
(* point, and what make_segmentation_par joins from its threads' chunks.   *)
(***************************************************************************)
EXTENDS Segmentation, PiecewiseLinearModelProofs

-----------------------------------------------------------------------------
(* The inductive invariant of Spec.                                        *)

Threads ==
    /\ parallelism \in Nat
    /\ parallelism = 0 => Finished = {} /\ out = << >>
    /\ \A i \in Finished : results[i] = SegmentedChunk(epsilon, input, parallelism, i)
    /\ out # << >> => out = Concatenated(Results(epsilon, input, parallelism))

IInv ==
    /\ Ordered(input) /\ input # << >>
    /\ Sorted(points) /\ points # << >>
    /\ points[Len(points)].x = input[Len(input)].x
    /\ points[Len(points)].y <= input[Len(input)].y
    /\ Models(epsilon, opt, points)
    /\ refused # << >> => ~Stabbable(epsilon, refused)
    /\ Threads

LEMMA EpsilonPositive == epsilon \in Nat \ {0}
BY ParametersAssumption

LEMMA InitIInv == Init => IInv
<1> SUFFICES ASSUME Init PROVE IInv
  OBVIOUS
<1>1. PICK y \in StartsY : /\ opt = add_point(NewModel(epsilon), 0, y).model
                           /\ points = <<Point(0, y)>>
                           /\ refused = << >> /\ input = points
                           /\ parallelism = 0 /\ results = << >> /\ out = << >>
  BY DEF Init
<1>2. PICK p : p = Point(0, y)
  OBVIOUS
<1>3. p \in InputPoint /\ p.x = 0 /\ p.y = y
  <2>1. y \in Nat
    BY ParametersAssumption
  <2> QED BY <1>2, <2>1 DEF Point, InputPoint
<1>4. Models(epsilon, opt, points)
  <2>1. Models(epsilon, add_point(NewModel(epsilon), p.x, p.y).model, <<p>>)
    <3>1. PICK new : new = NewModel(epsilon) /\ new \in Model(epsilon) /\ new.points_in_hull = 0
      BY EpsilonPositive, NewModelIsModel
    <3> QED BY <1>3, <3>1, EpsilonPositive, FirstAdded
  <2> QED BY <1>1, <1>2, <1>3, <2>1
<1>5. points = <<p>> /\ input = <<p>>
  BY <1>1, <1>2
<1>6. Sorted(points) /\ points # << >> /\ points[Len(points)] = p
  BY <1>3, <1>5, OnePointSorted
<1>7. Ordered(input) /\ input # << >> /\ input[Len(input)] = p
  <2>1. input \in Seq(InputPoint) /\ Len(input) = 1 /\ input[1] = p
    BY <1>3, <1>5
  <2>2. p.x <= p.x /\ p.y <= p.y
    BY <1>3 DEF InputPoint
  <2> QED BY <2>1, <2>2 DEF Ordered
<1>8. p.y <= p.y
  BY <1>3 DEF InputPoint
<1>9. Threads
  <2>1. DOMAIN results = {}
    BY <1>1
  <2> QED BY <1>1, <2>1 DEF Threads, Finished
<1> QED
  BY <1>1, <1>4, <1>6, <1>7, <1>8, <1>9 DEF IInv

(* The next point of the input does not come before the last.              *)
LEMMA OrderedAppended ==
    ASSUME NEW s, Ordered(s), s # << >>, NEW p \in InputPoint,
           s[Len(s)].x <= p.x, s[Len(s)].y <= p.y
    PROVE  Ordered(Append(s, p)) /\ Append(s, p) # << >> /\ Append(s, p)[Len(Append(s, p))] = p
<1>1. PICK n \in Nat : n = Len(s) /\ n >= 1 /\ n \in 1..n
  BY OrderedFacts DEF Ordered
<1>2. PICK t : t = Append(s, p)
  OBVIOUS
<1>3. /\ t \in Seq(InputPoint) /\ Len(t) = n + 1 /\ t[n + 1] = p
      /\ \A j \in 1..n : t[j] = s[j]
  BY <1>1, <1>2 DEF Ordered
<1>4. p.x \in Nat /\ p.y \in Nat /\ \A j \in 1..n : s[j].x \in Nat /\ s[j].y \in Nat
  BY <1>1, OrderedFacts, EndFacts
<1>5. ASSUME NEW j \in 1..(n + 1), NEW k \in 1..(n + 1), j <= k
      PROVE  t[j].x <= t[k].x /\ t[j].y <= t[k].y
  <2>1. CASE k \in 1..n
    <3>1. j \in 1..n
      BY <1>5, <2>1
    <3> QED BY <1>1, <1>3, <1>5, <2>1, <3>1, OrderedFacts
  <2>2. CASE k = n + 1 /\ j \in 1..n
    <3>1. s[j].x <= s[n].x /\ s[j].y <= s[n].y
      BY <1>1, <2>2, OrderedFacts
    <3> QED BY <1>1, <1>3, <1>4, <2>2, <3>1
  <2>3. CASE k = n + 1 /\ j = n + 1
    BY <1>3, <1>4, <2>3
  <2>4. k \in 1..n \/ (k = n + 1 /\ (j \in 1..n \/ j = n + 1))
    BY <1>1
  <2> QED BY <2>1, <2>2, <2>3, <2>4
<1> QED
  BY <1>1, <1>2, <1>3, <1>5 DEF Ordered

(* What feeding a point to the model keeps true.                           *)
LEMMA FedIInv ==
    ASSUME IInv, AddPoint
    PROVE  IInv'
<1>1. PICK dx \in StepsX, dy \in StepsY :
          LET p == NextPoint(dx, dy)
              tried == add_point(opt, p.x, p.y)
          IN  /\ input' = Append(input, p)
              /\ IF dx = 0
                 THEN UNCHANGED sequential
                 ELSE IF tried.ok
                 THEN /\ opt' = tried.model
                      /\ points' = Append(points, p)
                      /\ UNCHANGED refused
                 ELSE /\ opt' = add_point(tried.model, p.x, p.y).model
                      /\ points' = <<p>>
                      /\ refused' = Append(points, p)
  BY DEF AddPoint
<1>2. PICK p, tried : p = NextPoint(dx, dy) /\ tried = add_point(opt, p.x, p.y)
  OBVIOUS
<1>3. dx \in Nat /\ dy \in Nat
  BY ParametersAssumption
<1>4. PICK q : q = input[Len(input)]
  OBVIOUS
<1>5. /\ q \in InputPoint /\ q.x \in Nat /\ q.y \in Nat
      /\ points[Len(points)].x = q.x /\ points[Len(points)].y <= q.y
      /\ Sorted(points) /\ points # << >> /\ Models(epsilon, opt, points)
  <2>1. PICK n \in Nat : n = Len(input) /\ n >= 1
    BY OrderedFacts DEF IInv, Ordered
  <2>2. input[n] \in InputPoint
    BY <2>1, OrderedFacts DEF IInv
  <2> QED BY <1>4, <2>1, <2>2 DEF IInv, InputPoint
<1>6. p \in InputPoint /\ p.x = q.x + dx /\ p.y = q.y + dy
  <2>1. p = Point(q.x + dx, q.y + dy)
    BY <1>2, <1>4 DEF NextPoint
  <2> QED BY <1>3, <1>5, <2>1 DEF Point, InputPoint
<1>7. Ordered(input)' /\ input' # << >> /\ input'[Len(input')] = p
  <2>1. input' = Append(input, p) /\ Ordered(input) /\ input # << >>
    BY <1>1, <1>2 DEF IInv
  <2>2. q.x <= p.x /\ q.y <= p.y
    BY <1>3, <1>5, <1>6
  <2>3. Ordered(Append(input, p)) /\ Append(input, p) # << >> /\ Append(input, p)[Len(Append(input, p))] = p
    BY <1>4, <1>6, <2>1, <2>2, OrderedAppended
  <2> QED BY <2>1, <2>3 DEF Ordered
<1>12. Threads'
  <2>1. parallelism = 0 /\ UNCHANGED <<parallelism, results, out>>
    BY DEF AddPoint
  <2> QED BY <2>1 DEF IInv, Threads, Finished
<1>8. points[Len(points)].y \in Nat
  <2>1. PICK n \in Nat : n = Len(points) /\ n >= 1
    BY <1>5 DEF Sorted
  <2>2. points[n] \in InputPoint
    BY <1>5, <2>1, EndsOfPoints
  <2> QED BY <2>1, <2>2 DEF InputPoint
<1>9. points[Len(points)].y <= p.y
  BY <1>3, <1>5, <1>6, <1>8
<1>10. CASE dx = 0
  <2>1. UNCHANGED <<opt, points, refused>>
    BY <1>1, <1>10 DEF sequential
  <2>2. p.x = q.x
    BY <1>3, <1>5, <1>6, <1>10
  <2> QED BY <1>5, <1>7, <1>9, <1>12, <2>1, <2>2 DEF IInv
<1>11. CASE dx # 0
  <2>1. Sorted(Append(points, p))
    <3>1. points[Len(points)].x < p.x
      BY <1>3, <1>5, <1>6, <1>11
    <3> QED BY <1>5, <1>6, <1>9, <3>1, NextAppended
  <2>2. Sorted(<<p>>) /\ <<p>> # << >> /\ <<p>>[Len(<<p>>)] = p
    BY <1>6, OnePointSorted
  <2>3. Append(points, p) # << >> /\ Append(points, p)[Len(Append(points, p))] = p
    BY <1>5, <1>6 DEF Sorted
  <2>4. p.y <= p.y
    BY <1>6 DEF InputPoint
  <2>5. CASE tried.ok
    <3>1. opt' = tried.model /\ points' = Append(points, p) /\ UNCHANGED refused
      BY <1>1, <1>2, <1>11, <2>5
    <3>2. Models(epsilon, tried.model, Append(points, p))
      BY <1>2, <1>5, <2>1, <2>5, EpsilonPositive, NextAdded
    <3> QED BY <1>7, <1>12, <2>1, <2>3, <2>4, <3>1, <3>2 DEF IInv
  <2>6. CASE ~tried.ok
    <3>1. /\ opt' = add_point(tried.model, p.x, p.y).model
          /\ points' = <<p>> /\ refused' = Append(points, p)
      BY <1>1, <1>2, <1>11, <2>6
    <3>2. /\ Models(epsilon, add_point(tried.model, p.x, p.y).model, <<p>>)
          /\ ~Stabbable(epsilon, Append(points, p))
      BY <1>2, <1>5, <2>1, <2>6, EpsilonPositive, NextAdded
    <3> QED BY <1>7, <1>12, <2>2, <2>4, <3>1, <3>2 DEF IInv
  <2> QED BY <2>5, <2>6
<1> QED
  BY <1>10, <1>11

(* What a thread does, and the joining of the threads' results.            *)
LEMMA ThreadsIInv ==
    ASSUME IInv, UNCHANGED <<sequential, input>>,
           StartThreads \/ (\E i \in Chunks : SegmentChunk(i)) \/ Join
    PROVE  Threads'
<1>1. /\ parallelism \in Nat
      /\ parallelism = 0 => Finished = {} /\ out = << >>
      /\ \A i \in Finished : results[i] = SegmentedChunk(epsilon, input, parallelism, i)
      /\ out # << >> => out = Concatenated(Results(epsilon, input, parallelism))
      /\ input' = input
  BY DEF IInv, Threads
<1>2. CASE StartThreads
  <2>1. /\ parallelism = 0 /\ parallelism' \in Nat /\ parallelism' # 0
        /\ results' = results /\ out' = out
    BY <1>2, ParametersAssumption DEF StartThreads
  <2>2. Finished' = {} /\ out' = << >>
    BY <1>1, <2>1 DEF Finished
  <2> QED BY <2>1, <2>2 DEF Threads
<1>3. CASE \E i \in Chunks : SegmentChunk(i)
  <2>1. PICK i \in Chunks : SegmentChunk(i)
    BY <1>3
  <2>2. PICK found : found = SegmentedChunk(epsilon, input, parallelism, i)
    OBVIOUS
  <2>3. /\ results' = [j \in Finished \cup {i} |-> IF j = i THEN found ELSE results[j]]
        /\ parallelism' = parallelism /\ out' = out /\ i \notin Finished
    BY <2>1, <2>2 DEF SegmentChunk
  <2>4. Finished' = Finished \cup {i}
    BY <2>3 DEF Finished
  <2>5. \A j \in Finished : results'[j] = results[j]
    BY <2>3
  <2>6. results'[i] = found
    BY <2>3
  <2>7. parallelism # 0
    BY <1>1 DEF Chunks
  <2>8. \A j \in Finished' : results'[j] = SegmentedChunk(epsilon, input, parallelism, j)
    BY <1>1, <2>2, <2>4, <2>5, <2>6
  <2> QED BY <1>1, <2>3, <2>7, <2>8 DEF Threads
<1>4. CASE Join
  <2>1. /\ parallelism > 0 /\ Finished = Chunks
        /\ out' = Concatenated([i \in 1..parallelism |-> results[i - 1]])
        /\ parallelism' = parallelism /\ results' = results
    BY <1>4 DEF Join
  <2>2. \A i \in 1..parallelism : i - 1 \in Finished
    BY <1>1, <2>1 DEF Chunks
  <2>3. \A i \in 1..parallelism : results[i - 1] = SegmentedChunk(epsilon, input, parallelism, i - 1)
    BY <1>1, <2>2
  <2>4. [i \in 1..parallelism |-> results[i - 1]] = Results(epsilon, input, parallelism)
    BY <2>3 DEF Results
  <2>5. Finished' = Finished
    BY <2>1 DEF Finished
  <2>6. out' = Concatenated(Results(epsilon, input, parallelism))
    BY <2>1, <2>4
  <2> QED BY <1>1, <2>1, <2>5, <2>6 DEF Threads
<1> QED
  BY <1>2, <1>3, <1>4

LEMMA NextIInv == IInv /\ [Next]_vars => IInv'
<1> SUFFICES ASSUME IInv, [Next]_vars PROVE IInv'
  OBVIOUS
<1>1. CASE AddPoint
  BY <1>1, FedIInv
<1>2. CASE StartThreads \/ (\E i \in Chunks : SegmentChunk(i)) \/ Join
  <2>1. UNCHANGED <<sequential, input>>
    BY <1>2 DEF StartThreads, SegmentChunk, Join
  <2>2. Threads'
    BY <1>2, <2>1, ThreadsIInv
  <2> QED BY <2>1, <2>2 DEF sequential, IInv
<1>3. CASE UNCHANGED vars
  BY <1>3 DEF vars, sequential, IInv, Threads, Finished
<1> QED
  BY <1>1, <1>2, <1>3 DEF Next

(* The model kept by make_segmentation has the hulls of the points of the  *)
(* segment being built, and what it refused no line passes.                *)
THEOREM AlwaysIInv == Spec => []IInv
<1> QED
  BY InitIInv, NextIInv, PTL DEF Spec

(* However many points add_point has accepted for a segment, a line passes *)
(* within epsilon of all of them: what the hull updates dropped decided    *)
(* nothing.                                                                *)
THEOREM AlwaysAcceptsOnlyStabbable == Spec => []AcceptsOnlyStabbable
<1>1. IInv => AcceptsOnlyStabbable
  BY EpsilonPositive, AcceptedStabbable DEF IInv, AcceptsOnlyStabbable
<1> QED
  BY <1>1, AlwaysIInv, PTL

(* add_point refuses a point only if no line passes within epsilon of it   *)
(* and of all the points before it in its segment: the segmentation is as  *)
(* short as one that goes from left to right can be.                       *)
THEOREM AlwaysRefusesOnlyUnstabbable == Spec => []RefusesOnlyUnstabbable
<1>1. IInv => RefusesOnlyUnstabbable
  BY DEF IInv, RefusesOnlyUnstabbable
<1> QED
  BY <1>1, AlwaysIInv, PTL

(* The line of the segment that get_floating_point_segment makes of the    *)
(* model, its intercept rounded, misses the interval of epsilon around an  *)
(* accepted point by no more than half a position.                         *)
THEOREM AlwaysLineWithinEpsilon == Spec => []LineWithinEpsilon
<1>1. ASSUME IInv PROVE LineWithinEpsilon
  <2>1. Models(epsilon, opt, points) /\ Sorted(points) /\ points # << >>
    BY <1>1 DEF IInv
  <2>2. DOMAIN points = 1..Len(points)
    BY <2>1 DEF Sorted
  <2>3. \A i \in 1..Len(points) :
           Approximates(epsilon, get_floating_point_segment(get_segment(opt)), points[i])
    BY <2>1, EpsilonPositive, SegmentFollows, EndsOfPoints, FollowsApproximates
  <2> QED BY <2>1, <2>2, <2>3 DEF LineWithinEpsilon
<1> QED
  BY <1>1, AlwaysIInv, PTL

(* The segments the threads' results are joined to.                        *)
LEMMA JoinedOutput ==
    ASSUME IInv, out # << >>
    PROVE  Joined(epsilon, out, Distinct, make_segmentation(epsilon, input), parallelism)
<1>1. Ordered(input) /\ input # << >> /\ parallelism \in Nat \ {0}
  BY DEF IInv, Threads
<1>2. out = Concatenated(Results(epsilon, input, parallelism))
  BY DEF IInv, Threads
<1>3. Distinct = Firsts(input, 1, Len(input))
  <2>1. DOMAIN input = 1..Len(input)
    BY <1>1 DEF Ordered
  <2> QED BY <2>1 DEF Distinct, Firsts, IsFirst
<1> QED
  BY <1>1, <1>2, <1>3, EpsilonPositive, ChunksJoined

(* However the input is cut into chunks, and in whatever order the threads *)
(* of make_segmentation_par finish them, the joined segments are a          *)
(* segmentation of the whole input: the last that begins at or below the x *)
(* of a point approximates it.                                             *)
THEOREM AlwaysThreadsCoverInput == Spec => []ThreadsCoverInput
<1>1. ASSUME IInv PROVE ThreadsCoverInput
  <2> SUFFICES ASSUME out # << >>, NEW p \in Distinct
               PROVE  \E i \in DOMAIN out :
                          /\ out[i].first <= p.x
                          /\ i < Len(out) => out[i + 1].first > p.x
                          /\ Approximates(epsilon, get_floating_point_segment(out[i]), p)
    BY DEF ThreadsCoverInput
  <2>1. Joined(epsilon, out, Distinct, make_segmentation(epsilon, input), parallelism)
    BY <1>1, JoinedOutput
  <2>2. out \in Seq(SegmentsOf(epsilon)) /\ \E i \in 1..Len(out) : Covers(epsilon, out, i, p)
    BY <2>1 DEF Joined
  <2>3. DOMAIN out = 1..Len(out)
    BY <2>2
  <2>4. p \in InputPoint
    <3>1. input \in Seq(InputPoint)
      BY <1>1 DEF IInv, Threads, Ordered
    <3> QED BY <3>1 DEF Distinct
  <2>5. PICK i \in 1..Len(out) : Covers(epsilon, out, i, p)
    BY <2>2
  <2>6. Approximates(epsilon, get_floating_point_segment(out[i]), p)
    BY <2>4, <2>5, EpsilonPositive, FollowsApproximates DEF Covers
  <2> QED BY <2>2, <2>3, <2>5, <2>6 DEF Covers
<1> QED
  BY <1>1, AlwaysIInv, PTL

(* The joined segments are in strictly increasing order of their first x,  *)
(* and each cut made by make_segmentation_par costs at most one segment:    *)
(* between two successive segments of a chunk, which no line can replace,   *)
(* begins a segment of the sequential segmentation.                        *)
THEOREM AlwaysThreadsKeepOrder == Spec => []ThreadsKeepOrder
<1>1. ASSUME IInv PROVE ThreadsKeepOrder
  <2> SUFFICES ASSUME out # << >>
               PROVE  /\ \A i \in 1..(Len(out) - 1) : out[i].first < out[i + 1].first
                      /\ Len(out) <= Len(make_segmentation(epsilon, input)) + parallelism - 1
    BY DEF ThreadsKeepOrder
  <2>1. PICK g : g = make_segmentation(epsilon, input)
    OBVIOUS
  <2>2. Joined(epsilon, out, Distinct, g, parallelism)
    BY <1>1, <2>1, JoinedOutput
  <2>3. /\ Len(out) \in Nat
        /\ \A m, n \in 1..Len(out) : m < n => out[m].first < out[n].first
    BY <2>2 DEF Joined
  <2>4. \A i \in 1..(Len(out) - 1) : i \in 1..Len(out) /\ i + 1 \in 1..Len(out) /\ i < i + 1
    BY <2>3
  <2>5. PICK k \in 1..Len(g) : Len(out) <= k + parallelism - 1
    BY <2>2 DEF Joined
  <2>6. Len(g) \in Nat /\ parallelism \in Nat
    <3>1. Ordered(input) /\ input # << >> /\ parallelism \in Nat
      BY <1>1 DEF IInv, Threads
    <3>2. IsSegmentation(epsilon, g, Firsts(input, 1, Len(input)))
      BY <2>1, <3>1, EpsilonPositive, MakeSegmentation
    <3> QED BY <3>1, <3>2 DEF IsSegmentation
  <2> QED BY <2>1, <2>3, <2>4, <2>5, <2>6
<1> QED
  BY <1>1, AlwaysIInv, PTL
=============================================================================
