------------------------ MODULE PiecewiseLinearModel ------------------------
(***************************************************************************)
(* internal::OptimalPiecewiseLinearModel                                   *)
(* (src/include/pgm/piecewise_linear_model.hpp): points are added one by   *)
(* one as long as some line passes within epsilon of all of them; the      *)
(* model keeps the two hulls and the rectangle of the extreme lines, and   *)
(* turns them into a segment when a point is refused.                      *)
(*                                                                         *)
(* The model is a record of the class's members, indexes into hulls and    *)
(* rectangle counting from 1. Coordinates are exact integers and slopes    *)
(* exact fractions: the widths of int64_t and __int128 are not modelled.   *)
(***************************************************************************)
EXTENDS Integers, Sequences, FiniteSets, FiniteSetsExt, SequencesExt

Point(x, y) == [x |-> x, y |-> y]
Slope(p, q) == [dx |-> p.x - q.x, dy |-> p.y - q.y]      \* p - q
Less(s, t) == s.dy * t.dx < s.dx * t.dy
Greater(s, t) == s.dy * t.dx > s.dx * t.dy

cross(O, A, B) ==
    LET OA == Slope(A, O)
        OB == Slope(B, O)
    IN  OA.dx * OB.dy - OA.dy * OB.dx

\* The ends of the interval around y: y + epsilon and y - epsilon, which an
\* unsigned y keeps from falling below zero.
Above(epsilon, x, y) == Point(x, y + epsilon)
Below(epsilon, x, y) == Point(x, IF y <= epsilon THEN 0 ELSE y - epsilon)

NewModel(epsilon) ==
    [epsilon |-> epsilon, lower |-> << >>, upper |-> << >>, lower_start |-> 1, upper_start |-> 1,
     rectangle |-> << >>, points_in_hull |-> 0, first_x |-> 0]

-----------------------------------------------------------------------------
(* add_point: what the model becomes, and whether it refuses the point.    *)

\* Where the search along a hull for an extreme slope to p stops: at the first
\* point whose slope to p turns out worse than that of the point before.
MinSlopeAt(hull, start, p) ==
    Max({i \in start..Len(hull) :
            \A j \in (start + 1)..i : ~Greater(Slope(hull[j], p), Slope(hull[j - 1], p))})
MaxSlopeAt(hull, start, p) ==
    Max({i \in start..Len(hull) :
            \A j \in (start + 1)..i : ~Less(Slope(hull[j], p), Slope(hull[j - 1], p))})

\* Hull update: the points that p makes inner ones go, then p is appended.
UpperHull(hull, start, p) ==
    LET end == Max({e \in start..Len(hull) : e = start \/ cross(hull[e - 1], hull[e], p) > 0})
    IN  Append(SubSeq(hull, 1, end), p)
LowerHull(hull, start, p) ==
    LET end == Max({e \in start..Len(hull) : e = start \/ cross(hull[e - 1], hull[e], p) < 0})
    IN  Append(SubSeq(hull, 1, end), p)

\* Variant for testing the properties: refuses a point on the line as well.
Outside_OrOn(m, p1, p2) ==
    \/ ~Greater(Slope(p1, m.rectangle[3]), Slope(m.rectangle[3], m.rectangle[1]))
    \/ ~Less(Slope(p2, m.rectangle[4]), Slope(m.rectangle[4], m.rectangle[2]))

\* The interval is below the line of least slope or above that of greatest slope.
Outside(m, p1, p2) ==
    \/ Less(Slope(p1, m.rectangle[3]), Slope(m.rectangle[3], m.rectangle[1]))
    \/ Greater(Slope(p2, m.rectangle[4]), Slope(m.rectangle[4], m.rectangle[2]))

\* The upper end p1 lowers the line of greatest slope.
WithUpperEnd(m, p1) ==
    IF ~Less(Slope(p1, m.rectangle[2]), Slope(m.rectangle[4], m.rectangle[2])) THEN m
    ELSE LET i == MinSlopeAt(m.lower, m.lower_start, p1)
         IN  [m EXCEPT !.rectangle[2] = m.lower[i], !.rectangle[4] = p1,
                       !.lower_start = i,
                       !.upper = UpperHull(m.upper, m.upper_start, p1)]

\* Variant for testing the properties: does not move on along the upper hull.
WithLowerEnd_KeepStart(m, p2, slope1) ==
    IF ~Greater(Slope(p2, m.rectangle[1]), slope1) THEN m
    ELSE [m EXCEPT !.rectangle[3] = p2,
                   !.lower = LowerHull(m.lower, m.lower_start, p2)]

\* The lower end p2 raises the line of least slope, slope1 before the call.
WithLowerEnd(m, p2, slope1) ==
    IF ~Greater(Slope(p2, m.rectangle[1]), slope1) THEN m
    ELSE LET i == MaxSlopeAt(m.upper, m.upper_start, p2)
         IN  [m EXCEPT !.rectangle[1] = m.upper[i], !.rectangle[3] = p2,
                       !.upper_start = i,
                       !.lower = LowerHull(m.lower, m.lower_start, p2)]

FirstPoint(m, x, p1, p2) ==
    [m EXCEPT !.first_x = x, !.rectangle = <<p1, p2, p1, p2>>,
              !.upper = <<p1>>, !.lower = <<p2>>,
              !.upper_start = 1, !.lower_start = 1]

add_point(m, x, y) ==
    LET p1 == Above(m.epsilon, x, y)
        p2 == Below(m.epsilon, x, y)
        slope1 == Slope(m.rectangle[3], m.rectangle[1])
        Accept(n) == [ok |-> TRUE, model |-> [n EXCEPT !.points_in_hull = @ + 1]]
    IN  CASE m.points_in_hull = 0 ->
                 Accept(FirstPoint(m, x, p1, p2))
          [] m.points_in_hull = 1 ->
                 Accept([m EXCEPT !.rectangle[3] = p2, !.rectangle[4] = p1,
                                  !.upper = Append(@, p1), !.lower = Append(@, p2)])
          [] OTHER ->
                 IF Outside(m, p1, p2)
                 THEN [ok |-> FALSE, model |-> [m EXCEPT !.points_in_hull = 0]]
                 ELSE Accept(WithLowerEnd(WithUpperEnd(m, p1), p2, slope1))

-----------------------------------------------------------------------------
(* CanonicalSegment: the rectangle and the first x of a segment.           *)

CanonicalSegment(rectangle, first) == [rectangle |-> rectangle, first |-> first]

get_segment(m) ==
    LET r == m.rectangle
    IN  CanonicalSegment(IF m.points_in_hull = 1 THEN <<r[1], r[2], r[1], r[2]>> ELSE r, m.first_x)

one_point(cs) ==
    cs.rectangle[1] = cs.rectangle[3] /\ cs.rectangle[2] = cs.rectangle[4]

\* Integer division as the code does it, towards zero.
Quotient(a, b) == IF a >= 0 THEN a \div b ELSE -((-a) \div b)

\* Variant for testing the properties: rounds the intercept up.
RoundedIntercept_Up(slope, n) == Quotient(n + slope.dx, slope.dx)

\* n / slope.dx, rounded to the nearest.
RoundedIntercept(slope, n) ==
    Quotient(n + Quotient(IF n < 0 THEN -slope.dx ELSE slope.dx, 2), slope.dx)

\* get_floating_point_segment(first): the slope of the steepest line (a fraction
\* dy / dx) and the rounded intercept of that line at first. One point makes a level line.
get_floating_point_segment(cs) ==
    LET r == cs.rectangle
        slope == Slope(r[4], r[2])
    IN  IF one_point(cs)
        THEN [key |-> cs.first, dy |-> 0, dx |-> 1, intercept |-> (r[1].y + r[2].y) \div 2]
        ELSE [key |-> cs.first, dy |-> slope.dy, dx |-> slope.dx,
              intercept |-> RoundedIntercept(slope, slope.dy * (cs.first - r[2].x)) + r[2].y]

-----------------------------------------------------------------------------
(* make_segmentation over a sequence of points: the model fed, the x of    *)
(* the last point fed and the segments closed so far.                      *)

Started(epsilon, p) ==
    [opt |-> add_point(NewModel(epsilon), p.x, p.y).model, x |-> p.x, out |-> << >>]

\* Equal x are skipped, a refused point ends a segment and starts the next.
Fed(acc, p) ==
    LET tried == add_point(acc.opt, p.x, p.y)
    IN  IF p.x = acc.x THEN acc
        ELSE IF tried.ok THEN [acc EXCEPT !.opt = tried.model, !.x = p.x]
        ELSE [opt |-> add_point(tried.model, p.x, p.y).model, x |-> p.x,
              out |-> Append(acc.out, get_segment(acc.opt))]

make_segmentation(epsilon, points) ==
    LET fed[i \in 1..Len(points)] ==
            IF i = 1 THEN Started(epsilon, points[1]) ELSE Fed(fed[i - 1], points[i])
        end == fed[Len(points)]
    IN  IF points = << >> THEN << >> ELSE Append(end.out, get_segment(end.opt))

-----------------------------------------------------------------------------
(* make_segmentation_par: the points are cut into chunks, one per thread.  *)
(* Positions count from 0.                                                 *)

ChunkBegin(size, parallelism, i) == i * (size \div parallelism)

\* Variant for testing the properties: the last chunk leaves out the remainder.
ChunkEnd_Even(size, parallelism, i) ==
    ChunkBegin(size, parallelism, i) + size \div parallelism

ChunkEnd(size, parallelism, i) ==
    IF i = parallelism - 1 THEN size
    ELSE ChunkBegin(size, parallelism, i) + size \div parallelism

\* Variant for testing the properties: the chunk begins with a duplicate of the last
\* point of the one before.
ChunkFirst_KeepDuplicates(points, parallelism, i) == ChunkBegin(Len(points), parallelism, i)

\* Where the chunk begins once the duplicates of the point before it are skipped:
\* its end, if it has no other points.
ChunkFirst(points, parallelism, i) ==
    LET begin == ChunkBegin(Len(points), parallelism, i)
        end == ChunkEnd(Len(points), parallelism, i)
    IN  IF begin = 0 THEN begin
        ELSE Min({end} \cup {j \in begin..(end - 1) : points[j + 1].x # points[j].x})

\* What a thread puts into results[i]. (A chunk that starts at 0 is never left out,
\* and without points it gives nothing.)
SegmentedChunk(epsilon, points, parallelism, i) ==
    make_segmentation(epsilon, SubSeq(points, ChunkFirst(points, parallelism, i) + 1,
                                      ChunkEnd(Len(points), parallelism, i)))

\* The results of the threads in the order of the chunks.
Concatenated(results) == FlattenSeq(results)

make_segmentation_par(epsilon, points, parallelism, threshold) ==
    IF parallelism = 1 \/ Len(points) < threshold THEN make_segmentation(epsilon, points)
    ELSE Concatenated([i \in 1..parallelism |->
                           SegmentedChunk(epsilon, points, parallelism, i - 1)])

-----------------------------------------------------------------------------
(* What is expected of the model and of a segment.                         *)

\* Some line passes through all the intervals around the points of sequence s:
\* each bound its pairs of points put from below on the slope is at most each
\* bound they put from above.
Stabbable(epsilon, s) ==
    LET lo(i) == Below(epsilon, s[i].x, s[i].y)
        hi(i) == Above(epsilon, s[i].x, s[i].y)
        pairs == {p \in (1..Len(s)) \X (1..Len(s)) : p[1] < p[2]}
    IN  \A p, q \in pairs :
            ~Greater(Slope(lo(p[2]), hi(p[1])), Slope(hi(q[2]), lo(q[1])))

\* By how much the line of a segment may miss a point: with its rounded intercept by
\* half a position more than epsilon. (What SoftFloat makes of the slope is apart.)
Approximates(epsilon, segment, p) ==
    LET dx == segment.dx
        line == 2 * (segment.dy * (p.x - segment.key) + dx * segment.intercept)
    IN  /\ line + dx >= 2 * dx * Below(epsilon, p.x, p.y).y
        /\ line - dx <= 2 * dx * Above(epsilon, p.x, p.y).y
=============================================================================
