--------------------- MODULE PiecewiseLinearModelProofs ---------------------
(***************************************************************************)
(* The hulls of OptimalPiecewiseLinearModel decide whether a line passes   *)
(* within epsilon of all the points, and give such a line, for every       *)
(* epsilon and any number of points.                                       *)
(*                                                                         *)
(* The two ends of a point's interval are treated alike up to a reflection *)
(* of the y axis, so the argument is made once, for a side that is 1 or -1. *)
(***************************************************************************)
EXTENDS PiecewiseLinearModel, NaturalLemmas

Sides == {1, -1}
IntPoint == [x : Int, y : Int]

\* Positive if b is above the line from o to a, seen from that side.
Turn(side, o, a, b) == side * cross(o, a, b)

\* p comes before q: to its left or, at the same x, below it as that side sees it.
Before(side, p, q) == p.x < q.x \/ (p.x = q.x /\ side * p.y < side * q.y)

-----------------------------------------------------------------------------
(* Arithmetic of vectors.                                                  *)

LEMMA ProductSign ==
    ASSUME NEW a \in Int, NEW b \in Int, a >= 0, b >= 0
    PROVE  a * b >= 0
OBVIOUS

LEMMA CancelPositive ==
    ASSUME NEW a \in Int, NEW b \in Int, a > 0
    PROVE  /\ a * b >= 0 => b >= 0
           /\ a * b > 0 => b > 0
<1>1. CASE b < 0
  <2>1. PICK c \in Int : c = -b
    OBVIOUS
  <2>2. a * (c - 1) >= 0
    BY <1>1, <2>1, ProductSign
  <2>3. a * b = -(a * (c - 1)) - a
    BY <2>1
  <2> QED BY <2>2, <2>3
<1>2. CASE b = 0
  BY <1>2
<1> QED
  BY <1>1, <1>2

(* Of three vectors that point to the right, or up, the middle one's slope *)
(* is between those of the others.                                         *)
LEMMA VectorOrder ==
    ASSUME NEW ux \in Int, NEW uy \in Int, NEW vx \in Int, NEW vy \in Int,
           NEW wx \in Int, NEW wy \in Int, ux >= 0, vx > 0, wx >= 0,
           ux * vy - uy * vx >= 0, vx * wy - vy * wx >= 0
    PROVE  /\ ux * wy - uy * wx >= 0
           /\ ux > 0 /\ vx * wy - vy * wx > 0 => ux * wy - uy * wx > 0
           /\ wx > 0 /\ ux * vy - uy * vx > 0 => ux * wy - uy * wx > 0
<1>1. PICK k \in Int : k = ux * wy - uy * wx
  OBVIOUS
<1>2. PICK m \in Int : m = vx * wy - vy * wx
  OBVIOUS
<1>3. PICK n \in Int : n = ux * vy - uy * vx
  OBVIOUS
<1>4. vx * k = ux * m + wx * n
  BY <1>1, <1>2, <1>3
<1>5. m >= 0 /\ n >= 0
  BY <1>2, <1>3
<1>6. ux * m >= 0 /\ wx * n >= 0
  BY <1>5, ProductSign
<1>7. k >= 0
  <2>1. vx * k >= 0
    BY <1>4, <1>6
  <2> QED BY <2>1, CancelPositive
<1>8. ASSUME ux > 0, m > 0 PROVE k > 0
  <2>1. ux * m > 0
    BY <1>8
  <2>2. vx * k > 0
    BY <1>4, <1>6, <2>1
  <2> QED BY <2>2, CancelPositive
<1>9. ASSUME wx > 0, n > 0 PROVE k > 0
  <2>1. wx * n > 0
    BY <1>9
  <2>2. vx * k > 0
    BY <1>4, <1>6, <2>1
  <2> QED BY <2>2, CancelPositive
<1> QED
  BY <1>1, <1>2, <1>3, <1>7, <1>8, <1>9

-----------------------------------------------------------------------------
(* Turns of integer points.                                                *)

LEMMA PointFacts ==
    ASSUME NEW p \in IntPoint
    PROVE  p.x \in Int /\ p.y \in Int
BY DEF IntPoint

LEMMA CrossLaws ==
    ASSUME NEW o \in IntPoint, NEW a \in IntPoint, NEW b \in IntPoint
    PROVE  /\ cross(o, a, b) \in Int
           /\ cross(a, b, o) = cross(o, a, b)
           /\ cross(a, o, b) = -cross(o, a, b)
           /\ cross(o, b, a) = -cross(o, a, b)
           /\ cross(o, a, a) = 0
           /\ cross(o, o, a) = 0
           /\ cross(o, a, o) = 0
<1>1. PICK ox \in Int, oy \in Int : o.x = ox /\ o.y = oy
  BY PointFacts
<1>2. PICK ax \in Int, ay \in Int : a.x = ax /\ a.y = ay
  BY PointFacts
<1>3. PICK bx \in Int, by \in Int : b.x = bx /\ b.y = by
  BY PointFacts
<1>4. /\ cross(o, a, b) = (ax - ox) * (by - oy) - (ay - oy) * (bx - ox)
      /\ cross(a, b, o) = (bx - ax) * (oy - ay) - (by - ay) * (ox - ax)
      /\ cross(a, o, b) = (ox - ax) * (by - ay) - (oy - ay) * (bx - ax)
      /\ cross(o, b, a) = (bx - ox) * (ay - oy) - (by - oy) * (ax - ox)
  BY <1>1, <1>2, <1>3 DEF cross, Slope
<1>5. /\ cross(o, a, a) = (ax - ox) * (ay - oy) - (ay - oy) * (ax - ox)
      /\ cross(o, o, a) = (ox - ox) * (ay - oy) - (oy - oy) * (ax - ox)
      /\ cross(o, a, o) = (ax - ox) * (oy - oy) - (ay - oy) * (ox - ox)
  BY <1>1, <1>2 DEF cross, Slope
<1> QED
  BY <1>4, <1>5

\* A point as a side sees it.
Seen(side, p) == [x |-> p.x, y |-> side * p.y]

LEMMA SeenPoint ==
    ASSUME NEW side \in Sides, NEW p \in IntPoint
    PROVE  /\ Seen(side, p) \in IntPoint
           /\ Seen(side, p).x = p.x
           /\ Seen(side, p).y = side * p.y
<1>1. side * p.y \in Int
  <2>1. PICK y \in Int : y = p.y
    BY PointFacts
  <2>2. side \in Int
    BY DEF Sides
  <2> QED BY <2>1, <2>2
<1> QED
  BY <1>1, PointFacts DEF Seen, IntPoint

LEMMA TurnSeen ==
    ASSUME NEW side \in Sides, NEW o \in IntPoint, NEW a \in IntPoint, NEW b \in IntPoint
    PROVE  Turn(side, o, a, b) = cross(Seen(side, o), Seen(side, a), Seen(side, b))
<1>1. PICK ox \in Int, oy \in Int : o.x = ox /\ o.y = oy
  BY PointFacts
<1>2. PICK ax \in Int, ay \in Int : a.x = ax /\ a.y = ay
  BY PointFacts
<1>3. PICK bx \in Int, by \in Int : b.x = bx /\ b.y = by
  BY PointFacts
<1>4. cross(o, a, b) = (ax - ox) * (by - oy) - (ay - oy) * (bx - ox)
  BY <1>1, <1>2, <1>3 DEF cross, Slope
<1>5. cross(Seen(side, o), Seen(side, a), Seen(side, b))
        = (ax - ox) * (side * by - side * oy) - (side * ay - side * oy) * (bx - ox)
  BY <1>1, <1>2, <1>3 DEF cross, Slope, Seen
<1>6. CASE side = 1
  BY <1>4, <1>5, <1>6 DEF Turn
<1>7. CASE side = -1
  BY <1>4, <1>5, <1>7 DEF Turn
<1> QED
  BY <1>6, <1>7 DEF Sides

(* A turn is a number, the same from each of its points on, and of the     *)
(* other sign in the other order and from the other side.                  *)
LEMMA TurnLaws ==
    ASSUME NEW side \in Sides, NEW o \in IntPoint, NEW a \in IntPoint, NEW b \in IntPoint
    PROVE  /\ Turn(side, o, a, b) \in Int
           /\ Turn(side, a, b, o) = Turn(side, o, a, b)
           /\ Turn(side, a, o, b) = -Turn(side, o, a, b)
           /\ Turn(side, o, b, a) = -Turn(side, o, a, b)
           /\ Turn(side, o, a, a) = 0
           /\ Turn(side, o, o, a) = 0
           /\ Turn(side, o, a, o) = 0
<1>1. Seen(side, o) \in IntPoint /\ Seen(side, a) \in IntPoint /\ Seen(side, b) \in IntPoint
  BY SeenPoint
<1> QED
  BY <1>1, CrossLaws, TurnSeen

LEMMA OtherSide ==
    ASSUME NEW side \in Sides
    PROVE  /\ -side \in Sides
           /\ -(-side) = side
           /\ \A o, a, b \in IntPoint : Turn(-side, o, a, b) = -Turn(side, o, a, b)
<1>1. side \in Int /\ (side = 1 \/ side = -1)
  BY DEF Sides
<1>2. -side \in Sides /\ -(-side) = side
  <2>1. -side = 1 \/ -side = -1
    BY <1>1
  <2> QED BY <1>1, <2>1 DEF Sides
<1>3. ASSUME NEW o \in IntPoint, NEW a \in IntPoint, NEW b \in IntPoint
      PROVE  Turn(-side, o, a, b) = -Turn(side, o, a, b)
  <2>1. PICK c \in Int : c = cross(o, a, b)
    BY CrossLaws
  <2>2. CASE side = 1
    BY <2>1, <2>2 DEF Turn
  <2>3. CASE side = -1
    BY <2>1, <2>3 DEF Turn
  <2> QED BY <1>1, <2>2, <2>3
<1> QED
  BY <1>2, <1>3

-----------------------------------------------------------------------------
(* Slopes of the lines from a point to three others.                       *)

(* The others are to its left.                                             *)
LEMMA SlopesFromRight ==
    ASSUME NEW side \in Sides, NEW q \in IntPoint,
           NEW a \in IntPoint, NEW b \in IntPoint, NEW c \in IntPoint,
           a.x <= q.x, b.x < q.x, c.x <= q.x,
           Turn(side, a, b, q) >= 0, Turn(side, b, c, q) >= 0
    PROVE  Turn(side, a, c, q) >= 0
<1>1. PICK qx \in Int, qy \in Int : Seen(side, q).x = qx /\ Seen(side, q).y = qy
  BY SeenPoint, PointFacts
<1>2. PICK ax \in Int, ay \in Int : Seen(side, a).x = ax /\ Seen(side, a).y = ay
  BY SeenPoint, PointFacts
<1>3. PICK bx \in Int, by \in Int : Seen(side, b).x = bx /\ Seen(side, b).y = by
  BY SeenPoint, PointFacts
<1>4. PICK cx \in Int, cy \in Int : Seen(side, c).x = cx /\ Seen(side, c).y = cy
  BY SeenPoint, PointFacts
<1>5. /\ Turn(side, a, b, q) = (bx - ax) * (qy - ay) - (by - ay) * (qx - ax)
      /\ Turn(side, b, c, q) = (cx - bx) * (qy - by) - (cy - by) * (qx - bx)
      /\ Turn(side, a, c, q) = (cx - ax) * (qy - ay) - (cy - ay) * (qx - ax)
  BY <1>1, <1>2, <1>3, <1>4, TurnSeen DEF cross, Slope
<1>6. ax <= qx /\ bx < qx /\ cx <= qx
  BY <1>1, <1>2, <1>3, <1>4, SeenPoint
<1>7. PICK ux \in Int, uy \in Int : ux = qx - ax /\ uy = qy - ay
  OBVIOUS
<1>8. PICK vx \in Int, vy \in Int : vx = qx - bx /\ vy = qy - by
  OBVIOUS
<1>9. PICK wx \in Int, wy \in Int : wx = qx - cx /\ wy = qy - cy
  OBVIOUS
<1>10. ux >= 0 /\ vx > 0 /\ wx >= 0
  BY <1>6, <1>7, <1>8, <1>9
<1>11. /\ ux * vy - uy * vx >= 0
       /\ vx * wy - vy * wx >= 0
       /\ Turn(side, a, c, q) = ux * wy - uy * wx
  BY <1>5, <1>7, <1>8, <1>9
<1> QED
  BY <1>10, <1>11, VectorOrder

(* The others are to its right.                                            *)
LEMMA SlopesFromLeft ==
    ASSUME NEW side \in Sides, NEW p \in IntPoint,
           NEW a \in IntPoint, NEW b \in IntPoint, NEW c \in IntPoint,
           p.x <= a.x, p.x < b.x, p.x <= c.x,
           Turn(side, p, a, b) >= 0, Turn(side, p, b, c) >= 0
    PROVE  Turn(side, p, a, c) >= 0
<1>1. PICK px \in Int, py \in Int : Seen(side, p).x = px /\ Seen(side, p).y = py
  BY SeenPoint, PointFacts
<1>2. PICK ax \in Int, ay \in Int : Seen(side, a).x = ax /\ Seen(side, a).y = ay
  BY SeenPoint, PointFacts
<1>3. PICK bx \in Int, by \in Int : Seen(side, b).x = bx /\ Seen(side, b).y = by
  BY SeenPoint, PointFacts
<1>4. PICK cx \in Int, cy \in Int : Seen(side, c).x = cx /\ Seen(side, c).y = cy
  BY SeenPoint, PointFacts
<1>5. /\ Turn(side, p, a, b) = (ax - px) * (by - py) - (ay - py) * (bx - px)
      /\ Turn(side, p, b, c) = (bx - px) * (cy - py) - (by - py) * (cx - px)
      /\ Turn(side, p, a, c) = (ax - px) * (cy - py) - (ay - py) * (cx - px)
  <2>1. Turn(side, p, a, b) = (ax - px) * (by - py) - (ay - py) * (bx - px)
    BY <1>1, <1>2, <1>3, <1>4, TurnSeen DEF cross, Slope
  <2>2. Turn(side, p, b, c) = (bx - px) * (cy - py) - (by - py) * (cx - px)
    BY <1>1, <1>2, <1>3, <1>4, TurnSeen DEF cross, Slope
  <2>3. Turn(side, p, a, c) = (ax - px) * (cy - py) - (ay - py) * (cx - px)
    BY <1>1, <1>2, <1>3, <1>4, TurnSeen DEF cross, Slope
  <2> QED BY <2>1, <2>2, <2>3
<1>6. /\ p.x = px
      /\ a.x = ax
      /\ b.x = bx
      /\ c.x = cx
  BY <1>1, <1>2, <1>3, <1>4, SeenPoint
<1>7. PICK ux \in Int, uy \in Int : ux = ax - px /\ uy = ay - py
  OBVIOUS
<1>8. PICK vx \in Int, vy \in Int : vx = bx - px /\ vy = by - py
  OBVIOUS
<1>9. PICK wx \in Int, wy \in Int : wx = cx - px /\ wy = cy - py
  OBVIOUS
<1>10. ux >= 0 /\ vx > 0 /\ wx >= 0
  BY <1>6, <1>7, <1>8, <1>9
<1>11. /\ ux * vy - uy * vx >= 0
       /\ vx * wy - vy * wx >= 0
       /\ Turn(side, p, a, c) = ux * wy - uy * wx
  BY <1>5, <1>7, <1>8, <1>9
<1> QED
  BY <1>10, <1>11, VectorOrder

(* One is to its left and the slope between the others' is to its right.   *)
LEMMA SlopesOnward ==
    ASSUME NEW side \in Sides, NEW p \in IntPoint,
           NEW l \in IntPoint, NEW a \in IntPoint, NEW c \in IntPoint,
           l.x <= p.x, p.x < a.x, p.x <= c.x,
           Turn(side, l, p, a) >= 0, Turn(side, p, a, c) >= 0
    PROVE  Turn(side, l, p, c) >= 0
<1>1. PICK px \in Int, py \in Int : Seen(side, p).x = px /\ Seen(side, p).y = py
  BY SeenPoint, PointFacts
<1>2. PICK lx \in Int, ly \in Int : Seen(side, l).x = lx /\ Seen(side, l).y = ly
  BY SeenPoint, PointFacts
<1>3. PICK ax \in Int, ay \in Int : Seen(side, a).x = ax /\ Seen(side, a).y = ay
  BY SeenPoint, PointFacts
<1>4. PICK cx \in Int, cy \in Int : Seen(side, c).x = cx /\ Seen(side, c).y = cy
  BY SeenPoint, PointFacts
<1>5. /\ Turn(side, l, p, a) = (px - lx) * (ay - ly) - (py - ly) * (ax - lx)
      /\ Turn(side, p, a, c) = (ax - px) * (cy - py) - (ay - py) * (cx - px)
      /\ Turn(side, l, p, c) = (px - lx) * (cy - ly) - (py - ly) * (cx - lx)
  <2>1. Turn(side, l, p, a) = (px - lx) * (ay - ly) - (py - ly) * (ax - lx)
    BY <1>1, <1>2, <1>3, <1>4, TurnSeen DEF cross, Slope
  <2>2. Turn(side, p, a, c) = (ax - px) * (cy - py) - (ay - py) * (cx - px)
    BY <1>1, <1>2, <1>3, <1>4, TurnSeen DEF cross, Slope
  <2>3. Turn(side, l, p, c) = (px - lx) * (cy - ly) - (py - ly) * (cx - lx)
    BY <1>1, <1>2, <1>3, <1>4, TurnSeen DEF cross, Slope
  <2> QED BY <2>1, <2>2, <2>3
<1>6. /\ p.x = px
      /\ l.x = lx
      /\ a.x = ax
      /\ c.x = cx
  BY <1>1, <1>2, <1>3, <1>4, SeenPoint
<1>7. PICK ux \in Int, uy \in Int : ux = px - lx /\ uy = py - ly
  OBVIOUS
<1>8. PICK vx \in Int, vy \in Int : vx = ax - px /\ vy = ay - py
  OBVIOUS
<1>9. PICK wx \in Int, wy \in Int : wx = cx - px /\ wy = cy - py
  OBVIOUS
<1>10. ux >= 0 /\ vx > 0 /\ wx >= 0
  BY <1>6, <1>7, <1>8, <1>9
<1>11. /\ ux * vy - uy * vx >= 0
       /\ vx * wy - vy * wx >= 0
       /\ Turn(side, l, p, c) = ux * wy - uy * wx
  BY <1>5, <1>7, <1>8, <1>9
<1> QED
  BY <1>10, <1>11, VectorOrder

(* One is to its left and its slope is between the others'.                *)
LEMMA SlopesAcross ==
    ASSUME NEW side \in Sides, NEW p \in IntPoint,
           NEW l \in IntPoint, NEW a \in IntPoint, NEW c \in IntPoint,
           l.x < p.x, p.x <= a.x, p.x <= c.x,
           Turn(side, l, p, a) <= 0, Turn(side, l, p, c) >= 0
    PROVE  /\ Turn(side, p, a, c) >= 0
           /\ p.x < a.x /\ Turn(side, l, p, c) > 0 => Turn(side, p, a, c) > 0
<1>1. PICK px \in Int, py \in Int : Seen(side, p).x = px /\ Seen(side, p).y = py
  BY SeenPoint, PointFacts
<1>2. PICK lx \in Int, ly \in Int : Seen(side, l).x = lx /\ Seen(side, l).y = ly
  BY SeenPoint, PointFacts
<1>3. PICK ax \in Int, ay \in Int : Seen(side, a).x = ax /\ Seen(side, a).y = ay
  BY SeenPoint, PointFacts
<1>4. PICK cx \in Int, cy \in Int : Seen(side, c).x = cx /\ Seen(side, c).y = cy
  BY SeenPoint, PointFacts
<1>5. /\ Turn(side, l, p, a) = (px - lx) * (ay - ly) - (py - ly) * (ax - lx)
      /\ Turn(side, l, p, c) = (px - lx) * (cy - ly) - (py - ly) * (cx - lx)
      /\ Turn(side, p, a, c) = (ax - px) * (cy - py) - (ay - py) * (cx - px)
  <2>1. Turn(side, l, p, a) = (px - lx) * (ay - ly) - (py - ly) * (ax - lx)
    BY <1>1, <1>2, <1>3, <1>4, TurnSeen DEF cross, Slope
  <2>2. Turn(side, l, p, c) = (px - lx) * (cy - ly) - (py - ly) * (cx - lx)
    BY <1>1, <1>2, <1>3, <1>4, TurnSeen DEF cross, Slope
  <2>3. Turn(side, p, a, c) = (ax - px) * (cy - py) - (ay - py) * (cx - px)
    BY <1>1, <1>2, <1>3, <1>4, TurnSeen DEF cross, Slope
  <2> QED BY <2>1, <2>2, <2>3
<1>6. /\ p.x = px
      /\ l.x = lx
      /\ a.x = ax
      /\ c.x = cx
  BY <1>1, <1>2, <1>3, <1>4, SeenPoint
<1>7. PICK ux \in Int, uy \in Int : ux = ax - px /\ uy = ay - py
  OBVIOUS
<1>8. PICK vx \in Int, vy \in Int : vx = px - lx /\ vy = py - ly
  OBVIOUS
<1>9. PICK wx \in Int, wy \in Int : wx = cx - px /\ wy = cy - py
  OBVIOUS
<1>10. ux >= 0 /\ vx > 0 /\ wx >= 0 /\ (p.x < a.x => ux > 0)
  BY <1>6, <1>7, <1>8, <1>9
<1>11. /\ ux * vy - uy * vx >= 0
       /\ vx * wy - vy * wx >= 0
       /\ Turn(side, l, p, c) = vx * wy - vy * wx
       /\ Turn(side, p, a, c) = ux * wy - uy * wx
  BY <1>5, <1>7, <1>8, <1>9
<1> QED
  BY <1>6, <1>10, <1>11, VectorOrder

(* Two are to its left, the second of a slope between the others'.         *)
LEMMA SlopesBack ==
    ASSUME NEW side \in Sides, NEW p \in IntPoint,
           NEW l \in IntPoint, NEW k \in IntPoint, NEW c \in IntPoint,
           l.x <= p.x, k.x < p.x, p.x <= c.x,
           Turn(side, l, k, p) >= 0, Turn(side, k, p, c) >= 0
    PROVE  Turn(side, l, p, c) >= 0
<1>1. PICK px \in Int, py \in Int : Seen(side, p).x = px /\ Seen(side, p).y = py
  BY SeenPoint, PointFacts
<1>2. PICK lx \in Int, ly \in Int : Seen(side, l).x = lx /\ Seen(side, l).y = ly
  BY SeenPoint, PointFacts
<1>3. PICK kx \in Int, ky \in Int : Seen(side, k).x = kx /\ Seen(side, k).y = ky
  BY SeenPoint, PointFacts
<1>4. PICK cx \in Int, cy \in Int : Seen(side, c).x = cx /\ Seen(side, c).y = cy
  BY SeenPoint, PointFacts
<1>5. /\ Turn(side, l, k, p) = (kx - lx) * (py - ly) - (ky - ly) * (px - lx)
      /\ Turn(side, k, p, c) = (px - kx) * (cy - ky) - (py - ky) * (cx - kx)
      /\ Turn(side, l, p, c) = (px - lx) * (cy - ly) - (py - ly) * (cx - lx)
  <2>1. Turn(side, l, k, p) = (kx - lx) * (py - ly) - (ky - ly) * (px - lx)
    BY <1>1, <1>2, <1>3, <1>4, TurnSeen DEF cross, Slope
  <2>2. Turn(side, k, p, c) = (px - kx) * (cy - ky) - (py - ky) * (cx - kx)
    BY <1>1, <1>2, <1>3, <1>4, TurnSeen DEF cross, Slope
  <2>3. Turn(side, l, p, c) = (px - lx) * (cy - ly) - (py - ly) * (cx - lx)
    BY <1>1, <1>2, <1>3, <1>4, TurnSeen DEF cross, Slope
  <2> QED BY <2>1, <2>2, <2>3
<1>6. /\ p.x = px
      /\ l.x = lx
      /\ k.x = kx
      /\ c.x = cx
  BY <1>1, <1>2, <1>3, <1>4, SeenPoint
<1>7. PICK ux \in Int, uy \in Int : ux = px - lx /\ uy = py - ly
  OBVIOUS
<1>8. PICK vx \in Int, vy \in Int : vx = px - kx /\ vy = py - ky
  OBVIOUS
<1>9. PICK wx \in Int, wy \in Int : wx = cx - px /\ wy = cy - py
  OBVIOUS
<1>10. ux >= 0 /\ vx > 0 /\ wx >= 0
  BY <1>6, <1>7, <1>8, <1>9
<1>11. /\ ux * vy - uy * vx >= 0
       /\ vx * wy - vy * wx >= 0
       /\ Turn(side, l, p, c) = ux * wy - uy * wx
  BY <1>5, <1>7, <1>8, <1>9
<1> QED
  BY <1>10, <1>11, VectorOrder

-----------------------------------------------------------------------------
(* The side of the line from t to a that a point k is on, from the sides   *)
(* of another line, from l to m, that t, a and k are on.                   *)

LEMMA LineThrough ==
    ASSUME NEW side \in Sides, NEW l \in IntPoint, NEW m \in IntPoint,
           NEW t \in IntPoint, NEW a \in IntPoint, NEW k \in IntPoint
    PROVE  (m.x - l.x) * Turn(side, t, a, k)
             = (a.x - t.x) * (Turn(side, l, m, k) - Turn(side, l, m, t))
                 - (k.x - t.x) * (Turn(side, l, m, a) - Turn(side, l, m, t))
<1>1. PICK lx \in Int, ly \in Int : Seen(side, l).x = lx /\ Seen(side, l).y = ly
  BY SeenPoint, PointFacts
<1>2. PICK mx \in Int, my \in Int : Seen(side, m).x = mx /\ Seen(side, m).y = my
  BY SeenPoint, PointFacts
<1>3. PICK tx \in Int, ty \in Int : Seen(side, t).x = tx /\ Seen(side, t).y = ty
  BY SeenPoint, PointFacts
<1>4. PICK ax \in Int, ay \in Int : Seen(side, a).x = ax /\ Seen(side, a).y = ay
  BY SeenPoint, PointFacts
<1>5. PICK kx \in Int, ky \in Int : Seen(side, k).x = kx /\ Seen(side, k).y = ky
  BY SeenPoint, PointFacts
<1>6. /\ l.x = lx /\ m.x = mx /\ t.x = tx
      /\ a.x = ax /\ k.x = kx
  BY <1>1, <1>2, <1>3, <1>4, <1>5, SeenPoint
<1>7. Turn(side, t, a, k) = (ax - tx) * (ky - ty) - (ay - ty) * (kx - tx)
  BY <1>3, <1>4, <1>5, TurnSeen DEF cross, Slope
<1>8. Turn(side, l, m, k) = (mx - lx) * (ky - ly) - (my - ly) * (kx - lx)
  BY <1>1, <1>2, <1>5, TurnSeen DEF cross, Slope
<1>9. Turn(side, l, m, t) = (mx - lx) * (ty - ly) - (my - ly) * (tx - lx)
  BY <1>1, <1>2, <1>3, TurnSeen DEF cross, Slope
<1>10. Turn(side, l, m, a) = (mx - lx) * (ay - ly) - (my - ly) * (ax - lx)
  BY <1>1, <1>2, <1>4, TurnSeen DEF cross, Slope
<1>11. PICK dx \in Int, dy \in Int : dx = mx - lx /\ dy = my - ly
  OBVIOUS
<1>12. PICK Ax \in Int, Ay \in Int : Ax = ax - tx /\ Ay = ay - ty
  OBVIOUS
<1>13. PICK Kx \in Int, Ky \in Int : Kx = kx - tx /\ Ky = ky - ty
  OBVIOUS
<1>14. Turn(side, l, m, k) - Turn(side, l, m, t) = dx * Ky - dy * Kx
  BY <1>8, <1>9, <1>11, <1>13
<1>15. Turn(side, l, m, a) - Turn(side, l, m, t) = dx * Ay - dy * Ax
  BY <1>9, <1>10, <1>11, <1>12
<1>16. Turn(side, t, a, k) = Ax * Ky - Ay * Kx
  BY <1>7, <1>12, <1>13
<1>17. dx * (Ax * Ky - Ay * Kx) = Ax * (dx * Ky - dy * Kx) - Kx * (dx * Ay - dy * Ax)
  OBVIOUS
<1>18. m.x - l.x = dx /\ a.x - t.x = Ax /\ k.x - t.x = Kx
  BY <1>6, <1>11, <1>12, <1>13
<1> QED
  BY <1>14, <1>15, <1>16, <1>17, <1>18

(* k is behind t: the line crosses the other one upwards.                  *)
LEMMA BehindLine ==
    ASSUME NEW side \in Sides, NEW l \in IntPoint, NEW m \in IntPoint,
           NEW t \in IntPoint, NEW a \in IntPoint, NEW k \in IntPoint,
           l.x < m.x, t.x < a.x, k.x <= t.x,
           Turn(side, l, m, k) >= 0, Turn(side, l, m, t) <= 0, Turn(side, l, m, a) >= 0
    PROVE  Turn(side, t, a, k) >= 0
<1>1. PICK dx \in Int, Ax \in Int, Kx \in Int :
          dx = m.x - l.x /\ Ax = a.x - t.x /\ Kx = t.x - k.x
  BY PointFacts
<1>2. PICK fk \in Int, ft \in Int, fa \in Int :
          fk = Turn(side, l, m, k) /\ ft = Turn(side, l, m, t) /\ fa = Turn(side, l, m, a)
  BY TurnLaws
<1>3. PICK n \in Int : n = Turn(side, t, a, k)
  BY TurnLaws
<1>4. k.x - t.x = -Kx
  BY <1>1, PointFacts
<1>5. dx * n = Ax * (fk - ft) - (-Kx) * (fa - ft)
  BY <1>1, <1>2, <1>3, <1>4, LineThrough
<1>6. dx > 0 /\ Ax >= 0 /\ Kx >= 0 /\ fk - ft >= 0 /\ fa - ft >= 0
  BY <1>1, <1>2, PointFacts
<1>7. Ax * (fk - ft) >= 0 /\ Kx * (fa - ft) >= 0
  BY <1>6, ProductSign
<1>8. (-Kx) * (fa - ft) = -(Kx * (fa - ft))
  OBVIOUS
<1>9. dx * n >= 0
  BY <1>5, <1>7, <1>8
<1> QED
  BY <1>3, <1>6, <1>9, CancelPositive

(* k is between t and a: the line is below the other one there.            *)
LEMMA BelowLine ==
    ASSUME NEW side \in Sides, NEW l \in IntPoint, NEW m \in IntPoint,
           NEW t \in IntPoint, NEW a \in IntPoint, NEW k \in IntPoint,
           l.x < m.x, t.x < a.x, t.x <= k.x, k.x <= a.x,
           Turn(side, l, m, k) >= 0, Turn(side, l, m, t) <= 0, Turn(side, l, m, a) <= 0
    PROVE  Turn(side, t, a, k) >= 0
<1>1. PICK dx \in Int, Ax \in Int, Kx \in Int, Rx \in Int :
          dx = m.x - l.x /\ Ax = a.x - t.x /\ Kx = k.x - t.x /\ Rx = a.x - k.x
  BY PointFacts
<1>2. PICK fk \in Int, ft \in Int, fa \in Int :
          fk = Turn(side, l, m, k) /\ ft = Turn(side, l, m, t) /\ fa = Turn(side, l, m, a)
  BY TurnLaws
<1>3. PICK n \in Int : n = Turn(side, t, a, k)
  BY TurnLaws
<1>4. Ax = Kx + Rx
  BY <1>1, PointFacts
<1>5. dx * n = Ax * (fk - ft) - Kx * (fa - ft)
  BY <1>1, <1>2, <1>3, LineThrough
<1>6. dx > 0 /\ Ax >= 0 /\ Kx >= 0 /\ Rx >= 0 /\ fk >= 0 /\ -ft >= 0 /\ -fa >= 0
  BY <1>1, <1>2, PointFacts
<1>7. Ax * fk >= 0 /\ Rx * (-ft) >= 0 /\ Kx * (-fa) >= 0
  BY <1>6, ProductSign
<1>8. dx * n = Ax * fk + Rx * (-ft) + Kx * (-fa)
  BY <1>4, <1>5
<1>9. dx * n >= 0
  BY <1>7, <1>8
<1> QED
  BY <1>3, <1>6, <1>9, CancelPositive

-----------------------------------------------------------------------------
(* The hulls. A chain is a sequence of points from left to right that from *)
(* position s on turns to the given side only.                             *)

Chain(side, c, s, P) ==
    /\ c \in Seq(P) /\ s \in 1..Len(c)
    /\ \A j, k \in 1..Len(c) : j < k => c[j].x < c[k].x
    /\ \A j \in (s + 1)..(Len(c) - 1) : Turn(side, c[j - 1], c[j], c[j + 1]) > 0

\* The line from o to a has no point of P above it and none of Q below it.
Separates(side, o, a, P, Q) ==
    /\ o.x < a.x
    /\ \A b \in P : Turn(side, o, a, b) <= 0
    /\ \A b \in Q : Turn(side, o, a, b) >= 0

\* The line to q with the least slope from a point of P starts on the chain.
Reaches(side, c, s, P, q) ==
    \A b \in P : \E j \in s..Len(c) : Turn(side, c[j], b, q) >= 0

\* P are the lower ends and Q the upper ends of the intervals, as the side sees them, h
\* and g their hulls, V the points that may come. The steepest line between them goes
\* from h[s] to the end of g, the least steep one from g[t] to the end of h; and of what
\* may come between these two lines, the hulls know enough.
Hulls(side, P, Q, h, s, g, t, V) ==
    /\ P \subseteq IntPoint /\ Q \subseteq IntPoint /\ V \subseteq IntPoint
    /\ Chain(-side, h, s, P) /\ Chain(side, g, t, Q)
    /\ Separates(side, h[s], g[Len(g)], P, Q)
    /\ Separates(side, g[t], h[Len(h)], P, Q)
    /\ \A q \in V : /\ \A b \in P : Before(side, b, q)
                    /\ \A b \in Q : Before(-side, b, q)
    /\ \A q \in V : Turn(side, h[s], g[Len(g)], q) <= 0 /\ Turn(side, g[t], h[Len(h)], q) >= 0 =>
           Reaches(side, h, s, P, q) /\ Reaches(-side, g, t, Q, q)

(* The two sides are alike.                                                *)
LEMMA HullsMirrored ==
    ASSUME NEW side \in Sides, NEW P, NEW Q, NEW h, NEW s, NEW g, NEW t, NEW V,
           Hulls(side, P, Q, h, s, g, t, V)
    PROVE  Hulls(-side, Q, P, g, t, h, s, V)
<1>1. side = -(-side) /\ -side \in Sides
  BY OtherSide
<1>2. P \subseteq IntPoint /\ Q \subseteq IntPoint /\ V \subseteq IntPoint
  BY DEF Hulls
<1>3. Chain(-side, h, s, P) /\ Chain(-(-side), g, t, Q)
  BY <1>1 DEF Hulls
<1>4. /\ h[s] \in IntPoint /\ h[Len(h)] \in IntPoint
      /\ g[t] \in IntPoint /\ g[Len(g)] \in IntPoint
  <2>1. h \in Seq(IntPoint) /\ s \in 1..Len(h) /\ g \in Seq(IntPoint) /\ t \in 1..Len(g)
    BY <1>2, <1>3 DEF Chain
  <2> QED BY <2>1
<1>5. \A b \in IntPoint : /\ Turn(side, h[s], g[Len(g)], b) \in Int
                          /\ Turn(side, g[t], h[Len(h)], b) \in Int
                          /\ Turn(-side, h[s], g[Len(g)], b) = -Turn(side, h[s], g[Len(g)], b)
                          /\ Turn(-side, g[t], h[Len(h)], b) = -Turn(side, g[t], h[Len(h)], b)
  <2>1. \A o, a, b \in IntPoint : /\ Turn(side, o, a, b) \in Int
                                 /\ Turn(-side, o, a, b) = -Turn(side, o, a, b)
    BY OtherSide, TurnLaws
  <2> QED BY <1>4, <2>1
<1>6. /\ Separates(-side, h[s], g[Len(g)], Q, P)
      /\ Separates(-side, g[t], h[Len(h)], Q, P)
  BY <1>2, <1>5 DEF Hulls, Separates
<1>7. \A q \in V : /\ \A b \in P : Before(-(-side), b, q)
                   /\ \A b \in Q : Before(-side, b, q)
  BY <1>1 DEF Hulls
<1>8. \A q \in V : Turn(-side, g[t], h[Len(h)], q) <= 0 /\ Turn(-side, h[s], g[Len(g)], q) >= 0 =>
          Reaches(-side, g, t, Q, q) /\ Reaches(-(-side), h, s, P, q)
  BY <1>1, <1>2, <1>5 DEF Hulls
<1> QED
  BY <1>2, <1>3, <1>6, <1>7, <1>8 DEF Hulls

(* Slopes to a point that may be right above one of the others.            *)
LEMMA ReachedThrough ==
    ASSUME NEW side \in Sides, NEW q \in IntPoint,
           NEW a \in IntPoint, NEW b \in IntPoint, NEW c \in IntPoint,
           a.x <= q.x, Before(side, b, q), Before(side, c, q),
           Turn(side, a, b, q) >= 0, Turn(side, b, c, q) >= 0
    PROVE  Turn(side, a, c, q) >= 0
<1>1. CASE b.x < q.x
  <2>1. c.x <= q.x
    BY PointFacts DEF Before
  <2> QED BY <1>1, <2>1, SlopesFromRight
<1>2. CASE b.x = q.x /\ side * b.y < side * q.y
  <2>1. PICK qx \in Int, qy \in Int : Seen(side, q).x = qx /\ Seen(side, q).y = qy
    BY SeenPoint, PointFacts
  <2>2. PICK ax \in Int, ay \in Int : Seen(side, a).x = ax /\ Seen(side, a).y = ay
    BY SeenPoint, PointFacts
  <2>3. PICK bx \in Int, by \in Int : Seen(side, b).x = bx /\ Seen(side, b).y = by
    BY SeenPoint, PointFacts
  <2>4. PICK cx \in Int, cy \in Int : Seen(side, c).x = cx /\ Seen(side, c).y = cy
    BY SeenPoint, PointFacts
  <2>5. Turn(side, b, c, q) = (cx - bx) * (qy - by) - (cy - by) * (qx - bx)
    BY <2>1, <2>3, <2>4, TurnSeen DEF cross, Slope
  <2>6. Turn(side, a, c, q) = (cx - ax) * (qy - ay) - (cy - ay) * (qx - ax)
    BY <2>1, <2>2, <2>4, TurnSeen DEF cross, Slope
  <2>7. bx = qx /\ by < qy /\ ax <= qx /\ (cx < qx \/ (cx = qx /\ cy < qy))
    BY <1>2, <2>1, <2>2, <2>3, <2>4, SeenPoint DEF Before
  <2>8. (cx - qx) * (qy - by) >= 0
    BY <2>5, <2>7
  <2>9. cx = qx /\ cy < qy
    <3>1. ASSUME cx < qx PROVE FALSE
      <4>1. PICK m \in Int, n \in Int : m = qx - cx /\ n = qy - by
        OBVIOUS
      <4>2. m > 0 /\ n > 0 /\ (-m) * n >= 0
        BY <2>7, <2>8, <3>1, <4>1
      <4>3. (m - 1) * n >= 0
        BY <4>2, ProductSign
      <4>4. (m - 1) * n = -((-m) * n) - n
        OBVIOUS
      <4> QED BY <4>2, <4>3, <4>4
    <3> QED BY <2>7, <3>1
  <2>10. Turn(side, a, c, q) = (qx - ax) * (qy - cy)
    BY <2>6, <2>9
  <2>11. qx - ax >= 0 /\ qy - cy >= 0
    BY <2>7, <2>9
  <2> QED BY <2>10, <2>11, ProductSign
<1> QED
  BY <1>1, <1>2 DEF Before

-----------------------------------------------------------------------------
(* The search along a hull for the tangent, and the pruning of the other   *)
(* hull.                                                                   *)

StopsAt(side, c, s, p, i) ==
    /\ i \in s..Len(c)
    /\ \A j \in (s + 1)..i : Turn(side, c[j - 1], c[j], p) <= 0
    /\ i < Len(c) => Turn(side, c[i], c[i + 1], p) > 0

KeptTo(side, c, s, p, e) ==
    /\ e \in s..Len(c)
    /\ e > s => Turn(side, c[e - 1], c[e], p) > 0
    /\ \A j \in (e + 1)..Len(c) : Turn(side, c[j - 1], c[j], p) <= 0

LEMMA ChainFacts ==
    ASSUME NEW side \in Sides, NEW c, NEW s, NEW P \in SUBSET IntPoint, Chain(side, c, s, P)
    PROVE  /\ c \in Seq(P) /\ Len(c) \in Nat /\ s \in 1..Len(c)
           /\ \A j \in 1..Len(c) : c[j] \in P /\ c[j] \in IntPoint /\ c[j].x \in Int
           /\ \A j, k \in 1..Len(c) : j < k => c[j].x < c[k].x
           /\ \A j \in (s + 1)..(Len(c) - 1) : Turn(side, c[j - 1], c[j], c[j + 1]) > 0
<1>1. c \in Seq(P) /\ Len(c) \in Nat /\ s \in 1..Len(c)
  BY DEF Chain
<1>2. \A j \in 1..Len(c) : c[j] \in P
  BY <1>1
<1>3. \A j \in 1..Len(c) : c[j] \in IntPoint /\ c[j].x \in Int
  BY <1>2, PointFacts
<1> QED
  BY <1>1, <1>2, <1>3 DEF Chain

(* The point the search stops at sees p at the least slope of the chain:   *)
(* the slopes fall up to it and, as the chain turns away, rise from it on. *)
LEMMA Tangent ==
    ASSUME NEW side \in Sides, NEW c, NEW s, NEW P \in SUBSET IntPoint, Chain(-side, c, s, P),
           NEW p \in IntPoint, \A j \in 1..Len(c) : c[j].x <= p.x,
           NEW i, StopsAt(side, c, s, p, i)
    PROVE  \A j \in s..Len(c) : Turn(side, c[i], c[j], p) >= 0
<1>1. -side \in Sides
  BY OtherSide
<1>2. /\ Len(c) \in Nat /\ s \in 1..Len(c)
      /\ \A j \in 1..Len(c) : c[j] \in IntPoint /\ c[j].x \in Int
      /\ \A j, k \in 1..Len(c) : j < k => c[j].x < c[k].x
      /\ \A j \in (s + 1)..(Len(c) - 1) : Turn(-side, c[j - 1], c[j], c[j + 1]) > 0
  BY <1>1, ChainFacts
<1>3. /\ i \in s..Len(c) /\ i \in Int /\ s \in Int
      /\ \A j \in (s + 1)..i : Turn(side, c[j - 1], c[j], p) <= 0
      /\ i < Len(c) => Turn(side, c[i], c[i + 1], p) > 0
  BY <1>2 DEF StopsAt
<1>4. \A j \in 1..(Len(c) - 1) : c[j] \in IntPoint /\ c[j + 1] \in IntPoint /\ c[j].x < c[j + 1].x /\ c[j].x < p.x
  <2> SUFFICES ASSUME NEW j \in 1..(Len(c) - 1)
               PROVE  c[j] \in IntPoint /\ c[j + 1] \in IntPoint /\ c[j].x < c[j + 1].x /\ c[j].x < p.x
    OBVIOUS
  <2>1. j \in 1..Len(c) /\ j + 1 \in 1..Len(c) /\ j < j + 1
    BY <1>2
  <2>2. PICK ax \in Int, bx \in Int, px \in Int : ax = c[j].x /\ bx = c[j + 1].x /\ px = p.x
    BY <1>2, <2>1, PointFacts
  <2>3. ax < bx /\ bx <= px
    BY <1>2, <2>1, <2>2
  <2> QED BY <1>2, <2>1, <2>2, <2>3
<1>5. \A j \in s..i : Turn(side, c[i], c[j], p) >= 0
  <2> DEFINE S == {n \in s..i : \A j \in s..n : Turn(side, c[n], c[j], p) >= 0}
  <2>1. s \in S
    <3>1. s \in s..i /\ \A j \in s..s : j = s
      BY <1>3
    <3>2. Turn(side, c[s], c[s], p) = 0
      BY <1>2, TurnLaws
    <3> QED BY <3>1, <3>2
  <2>2. ASSUME NEW n \in s..(i - 1), n \in S PROVE n + 1 \in S
    <3>1. n + 1 \in (s + 1)..i /\ n + 1 \in s..i /\ (n + 1) - 1 = n /\ n \in 1..(Len(c) - 1)
      BY <1>2, <1>3
    <3>2. c[n] \in IntPoint /\ c[n + 1] \in IntPoint /\ c[n + 1].x <= p.x /\ c[n].x < p.x
      BY <1>2, <1>4, <3>1
    <3>3. Turn(side, c[n], c[n + 1], p) <= 0
      BY <1>3, <3>1
    <3>4. Turn(side, c[n + 1], c[n], p) >= 0
      BY <3>2, <3>3, TurnLaws
    <3>5. ASSUME NEW j \in s..(n + 1) PROVE Turn(side, c[n + 1], c[j], p) >= 0
      <4>1. CASE j = n + 1
        BY <3>2, <4>1, TurnLaws
      <4>2. CASE j # n + 1
        <5>1. j \in s..n /\ j \in 1..Len(c)
          BY <1>2, <1>3, <4>2
        <5>2. c[j] \in IntPoint /\ c[j].x <= p.x /\ Turn(side, c[n], c[j], p) >= 0
          BY <1>2, <2>2, <5>1
        <5> QED BY <3>2, <3>4, <5>2, SlopesFromRight
      <4> QED BY <4>1, <4>2
    <3> QED BY <3>1, <3>5
  <2>3. \A n \in s..i : n \in S
    <3> HIDE DEF S
    <3> QED BY <1>3, <2>1, <2>2, IntervalInduction
  <2>4. i \in s..i
    BY <1>3
  <2> QED BY <2>3, <2>4
<1>6. \A j \in i..(Len(c) - 1) : Turn(side, c[j], c[j + 1], p) > 0
  <2> DEFINE S == {n \in i..(Len(c) - 1) : Turn(side, c[n], c[n + 1], p) > 0}
  <2> SUFFICES ASSUME i < Len(c) PROVE \A n \in i..(Len(c) - 1) : n \in S
    BY <1>2, <1>3
  <2>1. i \in S
    BY <1>2, <1>3
  <2>2. ASSUME NEW n \in i..((Len(c) - 1) - 1), n \in S PROVE n + 1 \in S
    <3>1. /\ n \in 1..(Len(c) - 1) /\ n + 1 \in 1..(Len(c) - 1) /\ n + 1 \in i..(Len(c) - 1)
          /\ n + 1 \in (s + 1)..(Len(c) - 1) /\ (n + 1) - 1 = n
      BY <1>2, <1>3
    <3>2. PICK a \in IntPoint, b \in IntPoint, d \in IntPoint :
              a = c[n] /\ b = c[n + 1] /\ d = c[(n + 1) + 1]
      BY <1>4, <3>1
    <3>3. a.x < b.x /\ b.x < d.x /\ b.x < p.x
      BY <1>4, <3>1, <3>2
    <3>4. Turn(side, a, b, p) > 0
      BY <2>2, <3>2
    <3>5. Turn(side, a, b, d) <= 0
      <4>1. Turn(-side, a, b, d) > 0
        BY <1>2, <3>1, <3>2
      <4>2. Turn(-side, a, b, d) = -Turn(side, a, b, d) /\ Turn(side, a, b, d) \in Int
        BY OtherSide, TurnLaws
      <4> QED BY <4>1, <4>2
    <3>6. a.x \in Int /\ b.x \in Int /\ d.x \in Int /\ p.x \in Int /\ Turn(side, a, b, p) \in Int
      BY PointFacts, TurnLaws
    <3>7. Turn(side, b, d, p) > 0
      BY <3>3, <3>4, <3>5, <3>6, SlopesAcross
    <3> QED BY <3>1, <3>2, <3>7
  <2>3. i \in Int /\ Len(c) - 1 \in Int
    BY <1>2, <1>3
  <2> HIDE DEF S
  <2> QED BY <2>1, <2>2, <2>3, IntervalInduction
<1>7. \A j \in i..Len(c) : Turn(side, c[i], c[j], p) >= 0
  <2> DEFINE S == {n \in i..Len(c) : Turn(side, c[i], c[n], p) >= 0}
  <2>1. i \in S
    <3>1. i \in i..Len(c) /\ i \in 1..Len(c)
      BY <1>2, <1>3
    <3>2. Turn(side, c[i], c[i], p) = 0
      BY <1>2, <3>1, TurnLaws
    <3> QED BY <3>1, <3>2
  <2>2. ASSUME NEW n \in i..(Len(c) - 1), n \in S PROVE n + 1 \in S
    <3>1. n \in 1..(Len(c) - 1) /\ n + 1 \in i..Len(c) /\ n + 1 \in 1..Len(c) /\ i \in 1..Len(c)
      BY <1>2, <1>3
    <3>2. PICK a \in IntPoint, b \in IntPoint, d \in IntPoint : a = c[i] /\ b = c[n] /\ d = c[n + 1]
      BY <1>2, <1>4, <3>1
    <3>3. a.x <= p.x /\ b.x < p.x /\ d.x <= p.x
      BY <1>4, <3>1, <3>2
    <3>4. Turn(side, a, b, p) >= 0
      BY <2>2, <3>2
    <3>5. Turn(side, b, d, p) >= 0
      <4>1. Turn(side, b, d, p) > 0 /\ Turn(side, b, d, p) \in Int
        BY <1>6, <3>2, TurnLaws
      <4> QED BY <4>1
    <3>6. Turn(side, a, d, p) >= 0
      BY <3>3, <3>4, <3>5, SlopesFromRight
    <3> QED BY <3>1, <3>2, <3>6
  <2>3. i \in Int /\ Len(c) \in Int
    BY <1>2, <1>3
  <2>4. \A n \in i..Len(c) : n \in S
    <3> HIDE DEF S
    <3> QED BY <2>1, <2>2, <2>3, IntervalInduction
  <2> QED BY <2>4
<1>8. \A j \in s..Len(c) : j \in s..i \/ j \in i..Len(c)
  BY <1>2, <1>3
<1> QED
  BY <1>5, <1>7, <1>8

(* What is pruned is covered by the last point kept or by the new one.     *)
LEMMA Pruned ==
    ASSUME NEW side \in Sides, NEW c, NEW s, NEW P \in SUBSET IntPoint, Chain(side, c, s, P),
           NEW p \in IntPoint, \A j \in 1..Len(c) : c[j].x < p.x,
           NEW e, KeptTo(side, c, s, p, e), NEW q \in IntPoint, p.x <= q.x
    PROVE  \A j \in e..Len(c) : \/ Turn(-side, c[e], c[j], q) >= 0
                                \/ Turn(-side, p, c[j], q) >= 0
<1>1. -side \in Sides
  BY OtherSide
<1>2. /\ Len(c) \in Nat /\ s \in 1..Len(c)
      /\ \A j \in 1..Len(c) : c[j] \in IntPoint /\ c[j].x \in Int
      /\ \A j, k \in 1..Len(c) : j < k => c[j].x < c[k].x
  BY <1>1, ChainFacts
<1>3. /\ e \in s..Len(c) /\ e \in Int /\ e \in 1..Len(c)
      /\ \A j \in (e + 1)..Len(c) : Turn(side, c[j - 1], c[j], p) <= 0
  BY <1>2 DEF KeptTo
<1>4. \A j \in 1..Len(c) : c[j].x < q.x
  BY <1>2, PointFacts
<1> DEFINE S == {n \in e..Len(c) : \/ Turn(-side, c[e], c[n], q) >= 0
                                   \/ Turn(-side, p, c[n], q) >= 0}
<1>5. e \in S
  <2>1. Turn(-side, c[e], c[e], q) = 0
    BY <1>1, <1>2, <1>3, TurnLaws
  <2>2. e \in e..Len(c)
    BY <1>3
  <2> QED BY <2>1, <2>2
<1>6. ASSUME NEW n \in e..(Len(c) - 1), n \in S PROVE n + 1 \in S
  <2>1. /\ n + 1 \in e..Len(c) /\ n + 1 \in (e + 1)..Len(c) /\ (n + 1) - 1 = n
        /\ n \in 1..Len(c) /\ n + 1 \in 1..Len(c) /\ n < n + 1
    BY <1>2, <1>3
  <2>2. PICK a \in IntPoint, b \in IntPoint, d \in IntPoint : a = c[e] /\ b = c[n] /\ d = c[n + 1]
    BY <1>2, <1>3, <2>1
  <2>3. a.x < q.x /\ b.x < q.x /\ d.x < q.x /\ b.x < d.x /\ d.x < p.x
    BY <1>2, <1>3, <1>4, <2>1, <2>2
  <2>4. Turn(side, b, d, p) <= 0
    BY <1>3, <2>1, <2>2
  <2>5. Turn(-side, a, b, q) >= 0 \/ Turn(-side, p, b, q) >= 0
    BY <1>6, <2>2
  <2>6. /\ a.x <= q.x /\ b.x <= q.x /\ d.x <= q.x /\ b.x <= d.x
    BY <2>3, PointFacts
  <2>7. CASE Turn(-side, p, d, q) >= 0
    BY <2>1, <2>2, <2>7
  <2>8. CASE ~(Turn(-side, p, d, q) >= 0)
    <3>1. Turn(-side, d, p, q) >= 0
      <4>1. Turn(-side, d, p, q) = -Turn(-side, p, d, q) /\ Turn(-side, p, d, q) \in Int
        BY <1>1, TurnLaws
      <4> QED BY <2>8, <4>1
    <3>2. Turn(-side, b, d, p) >= 0
      <4>1. Turn(side, b, d, p) \in Int
        BY TurnLaws
      <4>2. Turn(-side, b, d, p) = -Turn(side, b, d, p)
        BY OtherSide
      <4> QED BY <2>4, <4>1, <4>2
    <3>3. Turn(-side, b, d, q) >= 0
      BY <1>1, <2>3, <2>6, <3>1, <3>2, SlopesOnward
    <3>4. CASE Turn(-side, a, b, q) >= 0
      <4>1. Turn(-side, a, d, q) >= 0
        BY <1>1, <2>3, <2>6, <3>3, <3>4, SlopesFromRight
      <4> QED BY <2>1, <2>2, <4>1
    <3>5. CASE Turn(-side, p, b, q) >= 0
      <4>1. Turn(-side, p, d, q) >= 0
        BY <1>1, <2>3, <2>6, <3>3, <3>5, SlopesFromRight
      <4> QED BY <2>8, <4>1
    <3> QED BY <2>5, <3>4, <3>5
  <2> QED BY <2>7, <2>8
<1>7. \A n \in e..Len(c) : n \in S
  <2>1. e \in Int /\ Len(c) \in Int
    BY <1>2, <1>3
  <2> HIDE DEF S
  <2> QED BY <1>5, <1>6, <2>1, IntervalInduction
<1> QED
  BY <1>7

\* The chain d is c up to position e, and p.
IsPruned(side, c, s, P, p, e, d) ==
    /\ Chain(side, d, s, P \cup {p})
    /\ Len(d) = e + 1 /\ d[e + 1] = p
    /\ \A j \in 1..e : d[j] = c[j]
    /\ e \in s..Len(c)

LEMMA PrunedChain ==
    ASSUME NEW side \in Sides, NEW c, NEW s, NEW P \in SUBSET IntPoint, Chain(side, c, s, P),
           NEW p \in IntPoint, \A j \in 1..Len(c) : c[j].x < p.x,
           NEW e, KeptTo(side, c, s, p, e), NEW d, d = Append(SubSeq(c, 1, e), p)
    PROVE  IsPruned(side, c, s, P, p, e, d)
<1>1. /\ Len(c) \in Nat /\ s \in 1..Len(c) /\ c \in Seq(P)
      /\ \A j \in 1..Len(c) : c[j] \in P /\ c[j] \in IntPoint /\ c[j].x \in Int
      /\ \A j, k \in 1..Len(c) : j < k => c[j].x < c[k].x
      /\ \A j \in (s + 1)..(Len(c) - 1) : Turn(side, c[j - 1], c[j], c[j + 1]) > 0
  BY ChainFacts
<1>2. /\ e \in s..Len(c) /\ e \in Nat /\ e \in 1..Len(c)
      /\ e > s => Turn(side, c[e - 1], c[e], p) > 0
  BY <1>1 DEF KeptTo
<1> DEFINE k == SubSeq(c, 1, e)
<1>3. /\ k \in Seq(P) /\ Len(k) = e
      /\ \A j \in 1..e : k[j] = c[j]
  BY <1>1, <1>2
<1>4. /\ Len(d) = e + 1 /\ d[e + 1] = p
      /\ \A j \in 1..e : d[j] = k[j]
      /\ d \in Seq(P \cup {p})
  <2>1. k \in Seq(P \cup {p}) /\ p \in P \cup {p}
    BY <1>3
  <2> HIDE DEF k
  <2> QED BY <1>2, <1>3, <2>1
<1>5. \A j \in 1..e : d[j] = c[j]
  BY <1>3, <1>4
<1>6. \A j, l \in 1..Len(d) : j < l => d[j].x < d[l].x
  <2> SUFFICES ASSUME NEW j \in 1..(e + 1), NEW l \in 1..(e + 1), j < l PROVE d[j].x < d[l].x
    BY <1>4
  <2>1. j \in 1..e /\ j \in 1..Len(c) /\ d[j] = c[j]
    BY <1>2, <1>5
  <2>2. CASE l = e + 1
    BY <1>4, <2>1, <2>2
  <2>3. CASE l # e + 1
    <3>1. l \in 1..e /\ l \in 1..Len(c) /\ d[l] = c[l]
      BY <1>2, <1>5, <2>3
    <3> QED BY <1>1, <2>1, <3>1
  <2> QED BY <2>2, <2>3
<1>7. \A j \in (s + 1)..(Len(d) - 1) : Turn(side, d[j - 1], d[j], d[j + 1]) > 0
  <2> SUFFICES ASSUME NEW j \in (s + 1)..e PROVE Turn(side, d[j - 1], d[j], d[j + 1]) > 0
    <3>1. Len(d) - 1 = e
      BY <1>2, <1>4
    <3> QED BY <3>1
  <2>1. d[j - 1] = c[j - 1] /\ d[j] = c[j]
    <3>1. j - 1 \in 1..e /\ j \in 1..e
      BY <1>1, <1>2
    <3> QED BY <1>5, <3>1
  <2>2. CASE j = e
    <3>1. e > s /\ d[j + 1] = p
      BY <1>1, <1>2, <1>4, <2>2
    <3> QED BY <1>2, <2>1, <2>2, <3>1
  <2>3. CASE j # e
    <3>1. j + 1 \in 1..e /\ j \in (s + 1)..(Len(c) - 1)
      BY <1>1, <1>2, <2>3
    <3>2. d[j + 1] = c[j + 1]
      BY <1>5, <3>1
    <3> QED BY <1>1, <2>1, <3>1, <3>2
  <2> QED BY <2>2, <2>3
<1>8. s \in 1..Len(d)
  BY <1>1, <1>2, <1>4
<1> QED
  BY <1>2, <1>4, <1>5, <1>6, <1>7, <1>8 DEF Chain, IsPruned

-----------------------------------------------------------------------------
(* A new end a of an interval, and the points q that may come after it.    *)

LEMMA Signs ==
    ASSUME NEW side \in Sides
    PROVE  \A o, a, b \in IntPoint :
               /\ Turn(side, o, a, b) \in Int /\ Turn(-side, o, a, b) \in Int
               /\ Turn(-side, o, a, b) = -Turn(side, o, a, b)
               /\ Turn(side, a, o, b) = -Turn(side, o, a, b)
               /\ Turn(side, o, b, a) = -Turn(side, o, a, b)
<1>1. \A o, a, b \in IntPoint :
          /\ Turn(side, o, a, b) \in Int
          /\ Turn(side, a, o, b) = -Turn(side, o, a, b)
          /\ Turn(side, o, b, a) = -Turn(side, o, a, b)
  BY TurnLaws
<1>2. \A o, a, b \in IntPoint : Turn(-side, o, a, b) = -Turn(side, o, a, b)
  BY OtherSide
<1> QED
  BY <1>1, <1>2

(* What is below the new steepest line is below the old one.               *)
LEMMA SteepestFalls ==
    ASSUME NEW side \in Sides, NEW o \in IntPoint, NEW l \in IntPoint, NEW n \in IntPoint,
           NEW a \in IntPoint, NEW q \in IntPoint,
           o.x <= l.x, o.x < a.x, n.x < a.x, a.x <= q.x,
           Turn(side, n, o, a) >= 0, Turn(side, o, l, a) <= 0, Turn(side, n, a, q) <= 0
    PROVE  Turn(side, o, l, q) <= 0
<1>1. -side \in Sides
  BY OtherSide
<1>2. /\ Turn(-side, o, n, a) >= 0
      /\ Turn(-side, o, l, a) >= 0
      /\ Turn(-side, n, a, q) >= 0
  BY Signs
<1>3. o.x <= a.x /\ o.x <= q.x
  BY PointFacts
<1>4. Turn(-side, o, a, q) >= 0
  BY <1>1, <1>2, <1>3, SlopesBack
<1>5. Turn(-side, o, l, q) >= 0
  BY <1>1, <1>2, <1>3, <1>4, SlopesFromLeft
<1> QED
  BY <1>5, Signs

(* A point the search has passed over is not needed later.                 *)
LEMMA PassedOver ==
    ASSUME NEW side \in Sides, NEW o \in IntPoint, NEW n \in IntPoint,
           NEW a \in IntPoint, NEW q \in IntPoint,
           o.x <= n.x, n.x < a.x, a.x <= q.x,
           Turn(side, n, o, a) >= 0, Turn(side, n, a, q) <= 0
    PROVE  Turn(side, n, o, q) >= 0
<1>1. -side \in Sides
  BY OtherSide
<1>2. Turn(-side, o, n, a) >= 0 /\ Turn(-side, n, a, q) >= 0
  BY Signs
<1>3. n.x <= q.x
  BY PointFacts
<1>4. Turn(-side, o, n, q) >= 0
  BY <1>1, <1>2, <1>3, SlopesOnward
<1> QED
  BY <1>4, Signs

(* A point above the steepest line is covered by the end of that line.     *)
LEMMA EndCovers ==
    ASSUME NEW side \in Sides, NEW o \in IntPoint, NEW l \in IntPoint,
           NEW a \in IntPoint, NEW q \in IntPoint,
           o.x < l.x, l.x < a.x, a.x <= q.x,
           Turn(side, o, l, a) >= 0, Turn(side, o, l, q) <= 0
    PROVE  Turn(-side, l, a, q) >= 0
<1>1. l.x <= a.x /\ l.x <= q.x
  BY PointFacts
<1>2. Turn(side, l, q, a) >= 0
  BY <1>1, SlopesAcross
<1> QED
  BY <1>2, Signs

(* A point right below a one is not the start of the least slope to it.    *)
LEMMA NotFromBelow ==
    ASSUME NEW side \in Sides, NEW o \in IntPoint, NEW n \in IntPoint, NEW a \in IntPoint,
           o.x < a.x, Before(side, n, a), Turn(side, n, o, a) >= 0
    PROVE  n.x < a.x
<1> SUFFICES ASSUME n.x = a.x, side * n.y < side * a.y PROVE FALSE
  BY DEF Before
<1>1. PICK ox \in Int, oy \in Int : Seen(side, o).x = ox /\ Seen(side, o).y = oy
  BY SeenPoint, PointFacts
<1>2. PICK nx \in Int, ny \in Int : Seen(side, n).x = nx /\ Seen(side, n).y = ny
  BY SeenPoint, PointFacts
<1>3. PICK ax \in Int, ay \in Int : Seen(side, a).x = ax /\ Seen(side, a).y = ay
  BY SeenPoint, PointFacts
<1>4. Turn(side, n, o, a) = (ox - nx) * (ay - ny) - (oy - ny) * (ax - nx)
  BY <1>1, <1>2, <1>3, TurnSeen DEF cross, Slope
<1>5. nx = ax /\ ny < ay /\ ox < ax
  BY <1>1, <1>2, <1>3, SeenPoint
<1>6. PICK u \in Int, v \in Int : u = (nx - ox) - 1 /\ v = ay - ny
  OBVIOUS
<1>7. u >= 0 /\ v > 0
  BY <1>5, <1>6
<1>8. u * v >= 0
  BY <1>7, ProductSign
<1>9. Turn(side, n, o, a) = -(u * v) - v
  BY <1>4, <1>5, <1>6
<1> QED
  BY <1>7, <1>8, <1>9

(* What the hulls say of the points.                                       *)
LEMMA HullFacts ==
    ASSUME NEW side \in Sides, NEW P, NEW Q, NEW h, NEW s, NEW g, NEW t, NEW V,
           Hulls(side, P, Q, h, s, g, t, V)
    PROVE  /\ P \subseteq IntPoint /\ Q \subseteq IntPoint /\ V \subseteq IntPoint
           /\ Len(h) \in Nat /\ s \in 1..Len(h) /\ Len(h) \in 1..Len(h)
           /\ Len(g) \in Nat /\ t \in 1..Len(g) /\ Len(g) \in 1..Len(g)
           /\ \A j \in 1..Len(h) : h[j] \in P /\ h[j] \in IntPoint
           /\ \A j \in 1..Len(g) : g[j] \in Q /\ g[j] \in IntPoint
<1>1. P \subseteq IntPoint /\ Q \subseteq IntPoint /\ V \subseteq IntPoint
  BY DEF Hulls
<1>2. Len(h) \in Nat /\ s \in 1..Len(h) /\ \A j \in 1..Len(h) : h[j] \in P
  <2>1. -side \in Sides /\ Chain(-side, h, s, P) /\ P \in SUBSET IntPoint
    BY <1>1, OtherSide DEF Hulls
  <2> QED BY <2>1, ChainFacts
<1>3. Len(g) \in Nat /\ t \in 1..Len(g) /\ \A j \in 1..Len(g) : g[j] \in Q
  <2>1. Chain(side, g, t, Q) /\ Q \in SUBSET IntPoint
    BY <1>1 DEF Hulls
  <2> QED BY <2>1, ChainFacts
<1>4. Len(h) \in 1..Len(h) /\ Len(g) \in 1..Len(g)
  BY <1>2, <1>3
<1> QED
  BY <1>1, <1>2, <1>3, <1>4

(* An upper end a above the steepest line, as the side sees it: the hulls  *)
(* stay as they are.                                                       *)
LEMMA HullsStay ==
    ASSUME NEW side \in Sides, NEW P, NEW Q, NEW h, NEW s, NEW g, NEW t, NEW V,
           Hulls(side, P, Q, h, s, g, t, V),
           NEW a \in V, \A b \in Q : b.x < a.x,
           Turn(side, g[t], h[Len(h)], a) >= 0, Turn(side, h[s], g[Len(g)], a) >= 0,
           NEW W \in SUBSET V, \A q \in W : Before(-side, a, q)
    PROVE  Hulls(side, P, Q \cup {a}, h, s, g, t, W)
<1>1. /\ P \subseteq IntPoint /\ Q \subseteq IntPoint /\ V \subseteq IntPoint
      /\ Len(h) \in Nat /\ s \in 1..Len(h) /\ Len(h) \in 1..Len(h)
      /\ Len(g) \in Nat /\ t \in 1..Len(g) /\ Len(g) \in 1..Len(g)
      /\ \A j \in 1..Len(h) : h[j] \in P /\ h[j] \in IntPoint
      /\ \A j \in 1..Len(g) : g[j] \in Q /\ g[j] \in IntPoint
  BY HullFacts
<1>2. a \in IntPoint /\ Q \cup {a} \subseteq IntPoint /\ W \subseteq IntPoint
  BY <1>1
<1>3. Chain(-side, h, s, P) /\ Chain(side, g, t, Q \cup {a})
  <2>1. g \in Seq(Q) => g \in Seq(Q \cup {a})
    BY <1>1
  <2> QED BY <2>1 DEF Hulls, Chain
<1>4. /\ Separates(side, h[s], g[Len(g)], P, Q \cup {a})
      /\ Separates(side, g[t], h[Len(h)], P, Q \cup {a})
  BY DEF Hulls, Separates
<1>5. \A q \in W : /\ \A b \in P : Before(side, b, q)
                   /\ \A b \in Q \cup {a} : Before(-side, b, q)
  BY DEF Hulls
<1>6. ASSUME NEW q \in W,
             Turn(side, h[s], g[Len(g)], q) <= 0, Turn(side, g[t], h[Len(h)], q) >= 0
      PROVE  Reaches(side, h, s, P, q) /\ Reaches(-side, g, t, Q \cup {a}, q)
  <2>1. Reaches(side, h, s, P, q) /\ Reaches(-side, g, t, Q, q)
    BY <1>6 DEF Hulls
  <2>2. PICK o \in IntPoint, l \in IntPoint : o = h[s] /\ l = g[Len(g)]
    BY <1>1
  <2>3. o.x < l.x /\ l.x < a.x /\ a.x <= q.x /\ q \in IntPoint
    <3>1. o.x < l.x
      BY <2>2 DEF Hulls, Separates
    <3>2. l.x < a.x
      BY <1>1, <2>2
    <3>3. a.x <= q.x /\ q \in IntPoint
      BY <1>2, <1>5, PointFacts DEF Before
    <3> QED BY <3>1, <3>2, <3>3
  <2>4. Turn(-side, l, a, q) >= 0
    BY <1>2, <1>6, <2>2, <2>3, EndCovers
  <2>5. Len(g) \in t..Len(g)
    BY <1>1
  <2> QED BY <2>1, <2>2, <2>4, <2>5 DEF Reaches
<1> QED
  BY <1>1, <1>2, <1>3, <1>4, <1>5, <1>6 DEF Hulls

(* The line from n to a, the tangent to what is below, separates all       *)
(* intervals.                                                              *)
LEMMA NewSteepest ==
    ASSUME NEW side \in Sides, NEW P, NEW Q, NEW h, NEW s, NEW g, NEW t, NEW V,
           Hulls(side, P, Q, h, s, g, t, V),
           NEW a \in V, \A b \in Q : b.x < a.x,
           Turn(side, g[t], h[Len(h)], a) >= 0, Turn(side, h[s], g[Len(g)], a) <= 0,
           NEW n \in P, n.x < a.x, \A b \in P : Turn(side, n, b, a) >= 0
    PROVE  Separates(side, n, a, P, Q \cup {a})
<1>1. /\ P \subseteq IntPoint /\ Q \subseteq IntPoint /\ V \subseteq IntPoint
      /\ Len(h) \in Nat /\ s \in 1..Len(h) /\ Len(h) \in 1..Len(h)
      /\ Len(g) \in Nat /\ t \in 1..Len(g) /\ Len(g) \in 1..Len(g)
      /\ \A j \in 1..Len(h) : h[j] \in P /\ h[j] \in IntPoint
      /\ \A j \in 1..Len(g) : g[j] \in Q /\ g[j] \in IntPoint
  BY HullFacts
<1>2. a \in IntPoint /\ n \in IntPoint
  BY <1>1
<1>3. ASSUME NEW b \in P PROVE Turn(side, n, a, b) <= 0
  <2>1. b \in IntPoint /\ Turn(side, n, b, a) >= 0
    BY <1>1
  <2>2. Turn(side, n, a, b) = -Turn(side, n, b, a) /\ Turn(side, n, b, a) \in Int
    BY <1>2, <2>1, TurnLaws
  <2> QED BY <2>1, <2>2
<1>4. ASSUME NEW b \in Q PROVE Turn(side, n, a, b) >= 0
  <2>1. PICK o \in IntPoint, l \in IntPoint : o = h[s] /\ l = g[Len(g)]
    BY <1>1
  <2>2. PICK u \in IntPoint, v \in IntPoint : u = g[t] /\ v = h[Len(h)]
    BY <1>1
  <2>3. Separates(side, o, l, P, Q) /\ Separates(side, u, v, P, Q)
    BY <2>1, <2>2 DEF Hulls
  <2>4. /\ o.x < l.x /\ Turn(side, o, l, b) >= 0 /\ Turn(side, o, l, n) <= 0
        /\ u.x < v.x /\ Turn(side, u, v, b) >= 0 /\ Turn(side, u, v, n) <= 0
    BY <2>3 DEF Separates
  <2>5. Turn(side, o, l, a) <= 0 /\ Turn(side, u, v, a) >= 0
    BY <2>1, <2>2
  <2>6. b \in IntPoint /\ b.x <= a.x
    BY <1>1, <1>2, PointFacts
  <2>7. CASE b.x <= n.x
    BY <1>2, <2>4, <2>5, <2>6, <2>7, BehindLine
  <2>8. CASE n.x <= b.x
    BY <1>2, <2>4, <2>5, <2>6, <2>8, BelowLine
  <2>9. b.x <= n.x \/ n.x <= b.x
    BY <1>2, <2>6, PointFacts
  <2> QED BY <2>7, <2>8, <2>9
<1>5. Turn(side, n, a, a) >= 0
  BY <1>2, TurnLaws
<1> QED
  BY <1>3, <1>4, <1>5 DEF Separates

(* An upper end a below the steepest line: the search finds the new one,   *)
(* and a replaces the end of the upper hull.                               *)
LEMMA HullsTurn ==
    ASSUME NEW side \in Sides, NEW P, NEW Q, NEW h, NEW s, NEW g, NEW t, NEW V,
           Hulls(side, P, Q, h, s, g, t, V),
           NEW a \in V, \A b \in Q : b.x < a.x,
           Turn(side, g[t], h[Len(h)], a) >= 0, Turn(side, h[s], g[Len(g)], a) < 0,
           NEW W \in SUBSET V, \A q \in W : Before(-side, a, q),
           NEW i, StopsAt(side, h, s, a, i),
           NEW e, KeptTo(side, g, t, a, e), NEW f, f = Append(SubSeq(g, 1, e), a)
    PROVE  Hulls(side, P, Q \cup {a}, h, i, f, t, W)
<1>1. /\ P \subseteq IntPoint /\ Q \subseteq IntPoint /\ V \subseteq IntPoint
      /\ Len(h) \in Nat /\ s \in 1..Len(h) /\ Len(h) \in 1..Len(h)
      /\ Len(g) \in Nat /\ t \in 1..Len(g) /\ Len(g) \in 1..Len(g)
      /\ \A j \in 1..Len(h) : h[j] \in P /\ h[j] \in IntPoint
      /\ \A j \in 1..Len(g) : g[j] \in Q /\ g[j] \in IntPoint
  BY HullFacts
<1>2. a \in IntPoint /\ Q \cup {a} \subseteq IntPoint /\ W \subseteq IntPoint /\ -side \in Sides
  BY <1>1, OtherSide
<1>3. Chain(-side, h, s, P) /\ Chain(side, g, t, Q)
  BY DEF Hulls
<1>4. \A b \in P : Before(side, b, a) /\ b.x <= a.x
  <2>1. \A b \in P : Before(side, b, a)
    BY DEF Hulls
  <2> QED BY <1>1, <1>2, <2>1, PointFacts DEF Before
<1>5. i \in s..Len(h) /\ i \in 1..Len(h) /\ i \in Int
  BY <1>1 DEF StopsAt
<1>6. PICK n \in IntPoint, o \in IntPoint, l \in IntPoint : n = h[i] /\ o = h[s] /\ l = g[Len(g)]
  BY <1>1, <1>5
<1>7. \A j \in s..Len(h) : Turn(side, n, h[j], a) >= 0
  <2>1. \A j \in 1..Len(h) : h[j].x <= a.x
    BY <1>1, <1>4
  <2>2. P \in SUBSET IntPoint
    BY <1>1
  <2> QED BY <1>2, <1>3, <1>6, <2>1, <2>2, Tangent
<1>8. o \in P /\ n \in P /\ o.x < l.x /\ l.x < a.x /\ o.x < a.x /\ o.x <= l.x
  <2>1. o \in P /\ n \in P /\ l \in Q
    BY <1>1, <1>5, <1>6
  <2>2. o.x < l.x
    BY <1>6 DEF Hulls, Separates
  <2>3. l.x < a.x
    BY <2>1
  <2> QED BY <1>2, <2>1, <2>2, <2>3, PointFacts
<1>9. Turn(side, n, o, a) >= 0
  <2>1. s \in s..Len(h)
    BY <1>1
  <2> QED BY <1>6, <1>7, <2>1
<1>10. n.x < a.x
  BY <1>2, <1>4, <1>8, <1>9, NotFromBelow
<1>11. Turn(side, o, l, a) <= 0
  <2>1. Turn(side, o, l, a) < 0 /\ Turn(side, o, l, a) \in Int
    BY <1>2, <1>6, TurnLaws
  <2> QED BY <2>1
<1>12. \A b \in P : Turn(side, n, b, a) >= 0
  <2> SUFFICES ASSUME NEW b \in P PROVE Turn(side, n, b, a) >= 0
    OBVIOUS
  <2>1. Reaches(side, h, s, P, a)
    BY <1>6, <1>11 DEF Hulls
  <2>2. PICK j \in s..Len(h) : Turn(side, h[j], b, a) >= 0
    BY <2>1 DEF Reaches
  <2>3. j \in 1..Len(h)
    BY <1>1
  <2>4. PICK c \in IntPoint : c = h[j] /\ c \in P
    BY <1>1, <2>3
  <2>5. Turn(side, n, c, a) >= 0 /\ Turn(side, c, b, a) >= 0
    BY <1>7, <2>2, <2>4
  <2>6. n.x <= a.x /\ Before(side, c, a) /\ Before(side, b, a) /\ b \in IntPoint
    BY <1>1, <1>4, <1>8, <2>4
  <2> QED BY <1>2, <2>5, <2>6, ReachedThrough
<1>13. Separates(side, n, a, P, Q \cup {a})
  BY <1>6, <1>8, <1>10, <1>11, <1>12, NewSteepest
<1>14. /\ Chain(side, f, t, Q \cup {a})
       /\ Len(f) = e + 1 /\ f[e + 1] = a
       /\ \A j \in 1..e : f[j] = g[j]
       /\ e \in t..Len(g) /\ e \in Int
  <2>1. \A j \in 1..Len(g) : g[j].x < a.x
    BY <1>1
  <2>2. Q \in SUBSET IntPoint
    BY <1>1
  <2>3. IsPruned(side, g, t, Q, a, e, f)
    BY <1>2, <1>3, <2>1, <2>2, PrunedChain
  <2> QED BY <1>1, <2>3 DEF IsPruned
<1>15. f[Len(f)] = a /\ f[t] = g[t]
  <2>1. t \in 1..e
    BY <1>1, <1>14
  <2> QED BY <1>14, <2>1
<1>16. Chain(-side, h, i, P)
  <2>1. \A j \in (i + 1)..(Len(h) - 1) : j \in (s + 1)..(Len(h) - 1)
    BY <1>1, <1>5
  <2> QED BY <1>3, <1>5, <2>1 DEF Chain
<1>17. Separates(side, g[t], h[Len(h)], P, Q \cup {a})
  BY DEF Hulls, Separates
<1>18. \A q \in W : /\ \A b \in P : Before(side, b, q)
                    /\ \A b \in Q \cup {a} : Before(-side, b, q)
  BY DEF Hulls
<1>19. ASSUME NEW q \in W,
              Turn(side, n, a, q) <= 0, Turn(side, g[t], h[Len(h)], q) >= 0
       PROVE  Reaches(side, h, i, P, q) /\ Reaches(-side, f, t, Q \cup {a}, q)
  <2>1. q \in IntPoint /\ a.x <= q.x /\ Before(-side, a, q)
    BY <1>2, <1>18, PointFacts DEF Before
  <2>2. Turn(side, o, l, q) <= 0
    BY <1>2, <1>8, <1>9, <1>10, <1>11, <1>19, <2>1, SteepestFalls
  <2>3. Reaches(side, h, s, P, q) /\ Reaches(-side, g, t, Q, q)
    BY <1>6, <1>19, <2>2 DEF Hulls
  <2>4. ASSUME NEW b \in P PROVE \E j \in i..Len(h) : Turn(side, h[j], b, q) >= 0
    <3>1. PICK j \in s..Len(h) : Turn(side, h[j], b, q) >= 0
      BY <2>3 DEF Reaches
    <3>2. j \in 1..Len(h) /\ j \in Int
      BY <1>1
    <3>3. CASE j >= i
      <4>1. j \in i..Len(h)
        BY <1>5, <3>2, <3>3
      <4> QED BY <3>1, <4>1
    <3>4. CASE j < i
      <4>1. PICK c \in IntPoint : c = h[j] /\ c \in P
        BY <1>1, <3>2
      <4>2. c.x <= n.x
        <5>1. c.x < n.x
          BY <1>3, <1>5, <1>6, <3>2, <3>4, <4>1 DEF Chain
        <5> QED BY <5>1, PointFacts
      <4>3. Turn(side, n, c, a) >= 0
        BY <1>7, <4>1
      <4>4. Turn(side, n, c, q) >= 0
        BY <1>2, <1>10, <1>19, <2>1, <4>2, <4>3, PassedOver
      <4>5. n.x <= q.x
        BY <1>2, <1>10, <2>1, PointFacts
      <4>6. Before(side, c, q) /\ Before(side, b, q) /\ b \in IntPoint
        BY <1>1, <1>18, <4>1
      <4>7. Turn(side, n, b, q) >= 0
        BY <2>1, <3>1, <4>1, <4>4, <4>5, <4>6, ReachedThrough
      <4>8. i \in i..Len(h)
        BY <1>5
      <4> QED BY <1>6, <4>7, <4>8
    <3> QED BY <1>5, <3>2, <3>3, <3>4
  <2>5. ASSUME NEW b \in Q \cup {a} PROVE \E j \in t..Len(f) : Turn(-side, f[j], b, q) >= 0
    <3>1. e + 1 \in t..Len(f) /\ e \in t..Len(f) /\ e \in 1..e
      BY <1>1, <1>14
    <3>2. CASE b = a
      <4>1. Turn(-side, a, a, q) = 0
        BY <1>2, <2>1, TurnLaws
      <4> QED BY <1>14, <3>1, <3>2, <4>1
    <3>3. CASE b \in Q
      <4>1. PICK j \in t..Len(g) : Turn(-side, g[j], b, q) >= 0
        BY <2>3, <3>3 DEF Reaches
      <4>2. j \in 1..Len(g) /\ j \in Int
        BY <1>1
      <4>3. CASE j <= e
        <5>1. j \in t..Len(f) /\ j \in 1..e
          BY <1>1, <1>14, <4>2, <4>3
        <5> QED BY <1>14, <4>1, <5>1
      <4>4. CASE j > e
        <5>1. PICK c \in IntPoint, k \in IntPoint : c = g[j] /\ c \in Q /\ k = g[e] /\ k \in Q
          BY <1>1, <1>14, <4>2
        <5>2. Turn(-side, k, c, q) >= 0 \/ Turn(-side, a, c, q) >= 0
          <6>1. j \in e..Len(g)
            BY <1>14, <4>2, <4>4
          <6>2. \A m \in 1..Len(g) : g[m].x < a.x
            BY <1>1
          <6>3. Q \in SUBSET IntPoint
            BY <1>1
          <6>4. \A m \in e..Len(g) : Turn(-side, g[e], g[m], q) >= 0 \/ Turn(-side, a, g[m], q) >= 0
            BY <1>2, <1>3, <2>1, <6>2, <6>3, Pruned
          <6> QED BY <5>1, <6>1, <6>4
        <5>3. Before(-side, c, q) /\ Before(-side, b, q) /\ b \in IntPoint
          BY <1>1, <1>18, <3>3, <5>1
        <5>4. Turn(-side, c, b, q) >= 0
          BY <4>1, <5>1
        <5>5. k.x <= q.x
          <6>1. Before(-side, k, q)
            BY <1>18, <5>1
          <6> QED BY <2>1, <6>1, PointFacts DEF Before
        <5>6. CASE Turn(-side, k, c, q) >= 0
          <6>1. Turn(-side, k, b, q) >= 0
            BY <1>2, <2>1, <5>3, <5>4, <5>5, <5>6, ReachedThrough
          <6> QED BY <1>14, <3>1, <5>1, <6>1
        <5>7. CASE Turn(-side, a, c, q) >= 0
          <6>1. Turn(-side, a, b, q) >= 0
            BY <1>2, <2>1, <5>3, <5>4, <5>7, ReachedThrough
          <6> QED BY <1>14, <3>1, <6>1
        <5> QED BY <5>2, <5>6, <5>7
      <4>5. j <= e \/ j > e
        BY <1>14, <4>2
      <4> QED BY <4>3, <4>4, <4>5
    <3> QED BY <3>2, <3>3
  <2> QED BY <2>4, <2>5 DEF Reaches
<1> QED
  BY <1>1, <1>2, <1>6, <1>13, <1>14, <1>15, <1>16, <1>17, <1>18, <1>19 DEF Hulls

-----------------------------------------------------------------------------
(* The comparisons of slopes are turns.                                    *)

LEMMA SlopeTurns ==
    ASSUME NEW a \in IntPoint, NEW b \in IntPoint, NEW p \in IntPoint
    PROVE  /\ Greater(Slope(b, p), Slope(a, p)) <=> Turn(1, a, b, p) > 0
           /\ Less(Slope(b, p), Slope(a, p)) <=> Turn(-1, a, b, p) > 0
           /\ Less(Slope(p, b), Slope(b, a)) <=> Turn(1, a, b, p) < 0
           /\ Greater(Slope(p, b), Slope(b, a)) <=> Turn(-1, a, b, p) < 0
           /\ Less(Slope(p, a), Slope(b, a)) <=> Turn(1, a, b, p) < 0
           /\ Greater(Slope(p, a), Slope(b, a)) <=> Turn(-1, a, b, p) < 0
<1>1. PICK ax \in Int, ay \in Int : a.x = ax /\ a.y = ay
  BY PointFacts
<1>2. PICK bx \in Int, by \in Int : b.x = bx /\ b.y = by
  BY PointFacts
<1>3. PICK px \in Int, py \in Int : p.x = px /\ p.y = py
  BY PointFacts
<1>4. PICK k \in Int : k = (bx - ax) * (py - ay) - (by - ay) * (px - ax)
  OBVIOUS
<1>5. Turn(1, a, b, p) = k /\ Turn(-1, a, b, p) = -k
  <2>1. cross(a, b, p) = k
    BY <1>1, <1>2, <1>3, <1>4 DEF cross, Slope
  <2> QED BY <2>1 DEF Turn
<1>6. /\ Greater(Slope(b, p), Slope(a, p)) <=> (by - py) * (ax - px) > (bx - px) * (ay - py)
      /\ Less(Slope(b, p), Slope(a, p)) <=> (by - py) * (ax - px) < (bx - px) * (ay - py)
  BY <1>1, <1>2, <1>3 DEF Greater, Less, Slope
<1>7. /\ Less(Slope(p, b), Slope(b, a)) <=> (py - by) * (bx - ax) < (px - bx) * (by - ay)
      /\ Greater(Slope(p, b), Slope(b, a)) <=> (py - by) * (bx - ax) > (px - bx) * (by - ay)
  BY <1>1, <1>2, <1>3 DEF Greater, Less, Slope
<1>8. /\ Less(Slope(p, a), Slope(b, a)) <=> (py - ay) * (bx - ax) < (px - ax) * (by - ay)
      /\ Greater(Slope(p, a), Slope(b, a)) <=> (py - ay) * (bx - ax) > (px - ax) * (by - ay)
  BY <1>1, <1>2, <1>3 DEF Greater, Less, Slope
<1>9. /\ (by - py) * (ax - px) - (bx - px) * (ay - py) = k
      /\ (py - by) * (bx - ax) - (px - bx) * (by - ay) = k
      /\ (py - ay) * (bx - ax) - (px - ax) * (by - ay) = k
  BY <1>4
<1>10. /\ (by - py) * (ax - px) > (bx - px) * (ay - py) <=> k > 0
       /\ (by - py) * (ax - px) < (bx - px) * (ay - py) <=> k < 0
       /\ (py - by) * (bx - ax) < (px - bx) * (by - ay) <=> k < 0
       /\ (py - by) * (bx - ax) > (px - bx) * (by - ay) <=> k > 0
       /\ (py - ay) * (bx - ax) < (px - ax) * (by - ay) <=> k < 0
       /\ (py - ay) * (bx - ax) > (px - ax) * (by - ay) <=> k > 0
  <2>1. PICK m1 \in Int, m2 \in Int, m3 \in Int, m4 \in Int, m5 \in Int, m6 \in Int :
            /\ m1 = (by - py) * (ax - px) /\ m2 = (bx - px) * (ay - py)
            /\ m3 = (py - by) * (bx - ax) /\ m4 = (px - bx) * (by - ay)
            /\ m5 = (py - ay) * (bx - ax) /\ m6 = (px - ax) * (by - ay)
    OBVIOUS
  <2>2. m1 - m2 = k /\ m3 - m4 = k /\ m5 - m6 = k
    BY <1>9, <2>1
  <2>3. /\ m1 > m2 <=> k > 0
        /\ m1 < m2 <=> k < 0
        /\ m3 < m4 <=> k < 0
        /\ m3 > m4 <=> k > 0
        /\ m5 < m6 <=> k < 0
        /\ m5 > m6 <=> k > 0
    BY <2>2
  <2> QED BY <2>1, <2>3
<1>11. -k > 0 <=> k < 0
  OBVIOUS
<1>12. -k < 0 <=> k > 0
  OBVIOUS
<1> QED
  BY <1>5, <1>6, <1>7, <1>8, <1>10, <1>11, <1>12

(* Where the searches stop, and what is kept of a hull.                    *)
LEMMA SearchStops ==
    ASSUME NEW side \in Sides, NEW c \in Seq(IntPoint), NEW s \in 1..Len(c), NEW p \in IntPoint
    PROVE  StopsAt(side, c, s, p,
                   Max({i \in s..Len(c) :
                           \A j \in (s + 1)..i : ~(Turn(side, c[j - 1], c[j], p) > 0)}))
<1> DEFINE T == {i \in s..Len(c) : \A j \in (s + 1)..i : ~(Turn(side, c[j - 1], c[j], p) > 0)}
<1>1. Len(c) \in Nat /\ s \in Nat /\ s \in 1..Len(c)
  OBVIOUS
<1>2. s \in T
  BY <1>1
<1>3. Max(T) \in T /\ \A y \in T : y <= Max(T)
  <2>1. T \in SUBSET Int /\ T # {} /\ Len(c) \in Int /\ \A y \in T : y <= Len(c)
    BY <1>1, <1>2
  <2> HIDE DEF T
  <2> QED BY <2>1, GreatestElement
<1>4. PICK i \in T : i = Max(T)
  BY <1>3
<1>5. \A j \in (s + 1)..Len(c) : Turn(side, c[j - 1], c[j], p) \in Int
  <2> SUFFICES ASSUME NEW j \in (s + 1)..Len(c) PROVE Turn(side, c[j - 1], c[j], p) \in Int
    OBVIOUS
  <2>1. j \in 1..Len(c) /\ j - 1 \in 1..Len(c)
    BY <1>1
  <2>2. c[j] \in IntPoint /\ c[j - 1] \in IntPoint
    BY <2>1
  <2> QED BY <2>2, TurnLaws
<1>6. \A j \in (s + 1)..i : Turn(side, c[j - 1], c[j], p) <= 0
  <2> SUFFICES ASSUME NEW j \in (s + 1)..i PROVE Turn(side, c[j - 1], c[j], p) <= 0
    OBVIOUS
  <2>1. j \in (s + 1)..Len(c)
    BY <1>1
  <2>2. PICK k \in Int : k = Turn(side, c[j - 1], c[j], p)
    BY <1>5, <2>1
  <2>3. ~(k > 0)
    BY <2>2
  <2> QED BY <2>2, <2>3
<1>7. ASSUME i < Len(c) PROVE Turn(side, c[i], c[i + 1], p) > 0
  <2>1. i + 1 \in s..Len(c) /\ ~(i + 1 <= i)
    BY <1>1, <1>7
  <2>2. i + 1 \notin T
    BY <1>3, <1>4, <2>1
  <2>3. PICK j \in (s + 1)..(i + 1) : Turn(side, c[j - 1], c[j], p) > 0
    BY <2>1, <2>2
  <2>4. j = i + 1
    <3>1. ASSUME j # i + 1 PROVE FALSE
      <4>1. j \in (s + 1)..i
        BY <1>1, <3>1
      <4> QED BY <2>3, <4>1
    <3> QED BY <3>1
  <2>5. j - 1 = i
    BY <1>1, <2>4
  <2> QED BY <2>3, <2>4, <2>5
<1>8. StopsAt(side, c, s, p, i)
  BY <1>6, <1>7 DEF StopsAt
<1> QED
  BY <1>4, <1>8

LEMMA PruningStops ==
    ASSUME NEW side \in Sides, NEW c \in Seq(IntPoint), NEW s \in 1..Len(c), NEW p \in IntPoint
    PROVE  KeptTo(side, c, s, p,
                  Max({e \in s..Len(c) : e = s \/ Turn(side, c[e - 1], c[e], p) > 0}))
<1> DEFINE T == {e \in s..Len(c) : e = s \/ Turn(side, c[e - 1], c[e], p) > 0}
<1>1. Len(c) \in Nat /\ s \in Nat /\ s \in 1..Len(c)
  OBVIOUS
<1>2. s \in T
  BY <1>1
<1>3. Max(T) \in T /\ \A y \in T : y <= Max(T)
  <2>1. T \in SUBSET Int /\ T # {} /\ Len(c) \in Int /\ \A y \in T : y <= Len(c)
    BY <1>1, <1>2
  <2> HIDE DEF T
  <2> QED BY <2>1, GreatestElement
<1>4. PICK e \in T : e = Max(T)
  BY <1>3
<1>5. e \in s..Len(c) /\ (e > s => Turn(side, c[e - 1], c[e], p) > 0)
  BY <1>1
<1>6. ASSUME NEW j \in (e + 1)..Len(c) PROVE Turn(side, c[j - 1], c[j], p) <= 0
  <2>1. j \in s..Len(c) /\ j \in 1..Len(c) /\ j - 1 \in 1..Len(c) /\ ~(j <= e) /\ j # s
    BY <1>1, <1>5
  <2>2. c[j] \in IntPoint /\ c[j - 1] \in IntPoint
    BY <2>1
  <2>3. PICK k \in Int : k = Turn(side, c[j - 1], c[j], p)
    BY <2>2, TurnLaws
  <2>4. j \notin T
    BY <1>3, <1>4, <2>1
  <2>5. ~(k > 0)
    BY <2>1, <2>3, <2>4
  <2> QED BY <2>3, <2>5
<1>7. KeptTo(side, c, s, p, e)
  BY <1>5, <1>6 DEF KeptTo
<1> QED
  BY <1>4, <1>7

LEMMA HullOperators ==
    ASSUME NEW c \in Seq(IntPoint), NEW s \in 1..Len(c), NEW p \in IntPoint
    PROVE  /\ StopsAt(1, c, s, p, MinSlopeAt(c, s, p))
           /\ StopsAt(-1, c, s, p, MaxSlopeAt(c, s, p))
           /\ \E e : KeptTo(1, c, s, p, e) /\ UpperHull(c, s, p) = Append(SubSeq(c, 1, e), p)
           /\ \E e : KeptTo(-1, c, s, p, e) /\ LowerHull(c, s, p) = Append(SubSeq(c, 1, e), p)
<1>1. 1 \in Sides /\ -1 \in Sides
  BY DEF Sides
<1>2. \A j \in (s + 1)..Len(c) : c[j - 1] \in IntPoint /\ c[j] \in IntPoint
  <2> SUFFICES ASSUME NEW j \in (s + 1)..Len(c) PROVE c[j - 1] \in IntPoint /\ c[j] \in IntPoint
    OBVIOUS
  <2>1. j \in 1..Len(c) /\ j - 1 \in 1..Len(c)
    OBVIOUS
  <2> QED BY <2>1
<1>3. \A j \in (s + 1)..Len(c) :
          /\ Greater(Slope(c[j], p), Slope(c[j - 1], p)) <=> Turn(1, c[j - 1], c[j], p) > 0
          /\ Less(Slope(c[j], p), Slope(c[j - 1], p)) <=> Turn(-1, c[j - 1], c[j], p) > 0
  BY <1>2, SlopeTurns
<1>4. \A i \in s..Len(c) : (s + 1)..i \subseteq (s + 1)..Len(c)
  OBVIOUS
<1>5. StopsAt(1, c, s, p, MinSlopeAt(c, s, p))
  <2>1. {i \in s..Len(c) : \A j \in (s + 1)..i : ~Greater(Slope(c[j], p), Slope(c[j - 1], p))}
          = {i \in s..Len(c) : \A j \in (s + 1)..i : ~(Turn(1, c[j - 1], c[j], p) > 0)}
    BY <1>3, <1>4
  <2> QED BY <1>1, <2>1, SearchStops DEF MinSlopeAt
<1>6. StopsAt(-1, c, s, p, MaxSlopeAt(c, s, p))
  <2>1. {i \in s..Len(c) : \A j \in (s + 1)..i : ~Less(Slope(c[j], p), Slope(c[j - 1], p))}
          = {i \in s..Len(c) : \A j \in (s + 1)..i : ~(Turn(-1, c[j - 1], c[j], p) > 0)}
    BY <1>3, <1>4
  <2> QED BY <1>1, <2>1, SearchStops DEF MaxSlopeAt
<1>7. \A e \in s..Len(c) : e # s =>
          /\ cross(c[e - 1], c[e], p) > 0 <=> Turn(1, c[e - 1], c[e], p) > 0
          /\ cross(c[e - 1], c[e], p) < 0 <=> Turn(-1, c[e - 1], c[e], p) > 0
  <2> SUFFICES ASSUME NEW e \in s..Len(c), e # s
               PROVE  /\ cross(c[e - 1], c[e], p) > 0 <=> Turn(1, c[e - 1], c[e], p) > 0
                      /\ cross(c[e - 1], c[e], p) < 0 <=> Turn(-1, c[e - 1], c[e], p) > 0
    OBVIOUS
  <2>1. e \in (s + 1)..Len(c)
    OBVIOUS
  <2>2. PICK k \in Int : k = cross(c[e - 1], c[e], p)
    BY <1>2, <2>1, CrossLaws
  <2>3. Turn(1, c[e - 1], c[e], p) = k /\ Turn(-1, c[e - 1], c[e], p) = -k
    BY <2>2 DEF Turn
  <2>4. -k > 0 <=> k < 0
    OBVIOUS
  <2> QED BY <2>2, <2>3, <2>4
<1>8. \E e : KeptTo(1, c, s, p, e) /\ UpperHull(c, s, p) = Append(SubSeq(c, 1, e), p)
  <2>1. {e \in s..Len(c) : e = s \/ cross(c[e - 1], c[e], p) > 0}
          = {e \in s..Len(c) : e = s \/ Turn(1, c[e - 1], c[e], p) > 0}
    BY <1>7
  <2>2. PICK m : m = Max({e \in s..Len(c) : e = s \/ cross(c[e - 1], c[e], p) > 0})
    OBVIOUS
  <2>3. KeptTo(1, c, s, p, m)
    BY <1>1, <2>1, <2>2, PruningStops
  <2> QED BY <2>2, <2>3 DEF UpperHull
<1>9. \E e : KeptTo(-1, c, s, p, e) /\ LowerHull(c, s, p) = Append(SubSeq(c, 1, e), p)
  <2>1. {e \in s..Len(c) : e = s \/ cross(c[e - 1], c[e], p) < 0}
          = {e \in s..Len(c) : e = s \/ Turn(-1, c[e - 1], c[e], p) > 0}
    BY <1>7
  <2>2. PICK m : m = Max({e \in s..Len(c) : e = s \/ cross(c[e - 1], c[e], p) < 0})
    OBVIOUS
  <2>3. KeptTo(-1, c, s, p, m)
    BY <1>1, <2>1, <2>2, PruningStops
  <2> QED BY <2>2, <2>3 DEF LowerHull
<1> QED
  BY <1>5, <1>6, <1>8, <1>9

-----------------------------------------------------------------------------
(* The model.                                                              *)

Model(epsilon) == [epsilon : {epsilon}, lower : Seq(IntPoint), upper : Seq(IntPoint),
          lower_start : Nat, upper_start : Nat, rectangle : Seq(IntPoint),
          points_in_hull : Nat, first_x : Int]

\* The model's hulls are those of lower ends P and upper ends Q, its rectangle their
\* extreme lines.
HasHulls(m, P, Q, V) ==
    /\ Hulls(1, P, Q, m.lower, m.lower_start, m.upper, m.upper_start, V)
    /\ m.rectangle = <<m.upper[m.upper_start], m.lower[m.lower_start],
                       m.lower[Len(m.lower)], m.upper[Len(m.upper)]>>

SameCounts(n, m) == n.points_in_hull = m.points_in_hull /\ n.first_x = m.first_x

LEMMA KeptThenAppended ==
    ASSUME NEW S, NEW c \in Seq(S), NEW e \in 1..Len(c), NEW p \in S,
           NEW f, f = Append(SubSeq(c, 1, e), p)
    PROVE  /\ f \in Seq(S) /\ Len(f) = e + 1 /\ f[Len(f)] = p
           /\ \A j \in 1..e : f[j] = c[j]
<1>1. PICK k : k = SubSeq(c, 1, e)
  OBVIOUS
<1>2. k \in Seq(S) /\ Len(k) = e /\ e \in Nat /\ \A j \in 1..e : k[j] = c[j]
  BY <1>1
<1>3. f = Append(k, p)
  BY <1>1
<1> QED
  BY <1>2, <1>3

LEMMA RectangleUpdates ==
    ASSUME NEW a, NEW b, NEW c, NEW d, NEW k, NEW l
    PROVE  /\ [<<a, b, c, d>> EXCEPT ![2] = k, ![4] = l] = <<a, k, c, l>>
           /\ [<<a, b, c, d>> EXCEPT ![1] = k, ![3] = l] = <<k, b, l, d>>
OBVIOUS

LEMMA UpperEndTried ==
    ASSUME NEW epsilon \in Nat \ {0},
           NEW m \in Model(epsilon), NEW P, NEW Q, NEW V, HasHulls(m, P, Q, V),
           NEW a \in V, \A c \in Q : c.x < a.x,
           Turn(1, m.rectangle[1], m.rectangle[3], a) >= 0,
           NEW W \in SUBSET V, \A q \in W : Before(-1, a, q),
           NEW n, n = WithUpperEnd(m, a)
    PROVE  /\ n \in Model(epsilon) /\ SameCounts(n, m)
           /\ HasHulls(n, P, Q \cup {a}, W)
           /\ n.rectangle[1] = m.rectangle[1] /\ n.rectangle[3] = m.rectangle[3]
           /\ n = m \/ n.rectangle[4] = a
<1> DEFINE h == m.lower
           s == m.lower_start
           g == m.upper
           t == m.upper_start
<1>1. 1 \in Sides /\ Hulls(1, P, Q, h, s, g, t, V)
  BY DEF Sides, HasHulls
<1>2. /\ P \subseteq IntPoint /\ Q \subseteq IntPoint /\ V \subseteq IntPoint
      /\ Len(h) \in Nat /\ s \in 1..Len(h) /\ Len(h) \in 1..Len(h)
      /\ Len(g) \in Nat /\ t \in 1..Len(g) /\ Len(g) \in 1..Len(g)
      /\ \A j \in 1..Len(h) : h[j] \in P /\ h[j] \in IntPoint
      /\ \A j \in 1..Len(g) : g[j] \in Q /\ g[j] \in IntPoint
  BY <1>1, HullFacts
<1>3. h \in Seq(IntPoint) /\ g \in Seq(IntPoint) /\ a \in IntPoint
  BY <1>2 DEF Model
<1>4. m.rectangle = <<g[t], h[s], h[Len(h)], g[Len(g)]>>
  BY DEF HasHulls
<1>5. /\ m.rectangle[1] = g[t] /\ m.rectangle[2] = h[s]
      /\ m.rectangle[3] = h[Len(h)] /\ m.rectangle[4] = g[Len(g)]
  BY <1>4
<1>6. Less(Slope(a, m.rectangle[2]), Slope(m.rectangle[4], m.rectangle[2]))
        <=> Turn(1, h[s], g[Len(g)], a) < 0
  BY <1>2, <1>3, <1>5, SlopeTurns
<1>7. CASE ~(Turn(1, h[s], g[Len(g)], a) < 0)
  <2>1. n = m
    BY <1>6, <1>7 DEF WithUpperEnd
  <2>2. Turn(1, h[s], g[Len(g)], a) >= 0
    <3>1. Turn(1, h[s], g[Len(g)], a) \in Int
      BY <1>1, <1>2, <1>3, TurnLaws
    <3> QED BY <1>7, <3>1
  <2>3. Hulls(1, P, Q \cup {a}, h, s, g, t, W)
    BY <1>1, <1>5, <2>2, HullsStay
  <2> QED BY <1>4, <2>1, <2>3 DEF HasHulls, SameCounts
<1>8. CASE Turn(1, h[s], g[Len(g)], a) < 0
  <2> DEFINE i == MinSlopeAt(h, s, a)
  <2>1. StopsAt(1, h, s, a, i)
    BY <1>2, <1>3, HullOperators
  <2>2. PICK e : KeptTo(1, g, t, a, e) /\ UpperHull(g, t, a) = Append(SubSeq(g, 1, e), a)
    BY <1>2, <1>3, HullOperators
  <2> DEFINE f == UpperHull(g, t, a)
  <2>3. i \in 1..Len(h) /\ i \in Nat /\ e \in t..Len(g) /\ e \in Nat
    BY <1>2, <2>1, <2>2 DEF StopsAt, KeptTo
  <2>4. f \in Seq(IntPoint) /\ Len(f) = e + 1 /\ f[Len(f)] = a /\ f[t] = g[t]
    <3>1. e \in 1..Len(g) /\ t \in 1..e
      BY <1>2, <2>3
    <3> QED BY <1>3, <2>2, <3>1, KeptThenAppended
  <2>5. Hulls(1, P, Q \cup {a}, h, i, f, t, W)
    BY <1>1, <1>5, <1>8, <2>1, <2>2, HullsTurn
  <2>6. n = [m EXCEPT !.rectangle[2] = h[i], !.rectangle[4] = a,
                      !.lower_start = i, !.upper = f]
    BY <1>6, <1>8 DEF WithUpperEnd
  <2> HIDE DEF i, f
  <2>7. /\ n.lower = h /\ n.lower_start = i /\ n.upper = f /\ n.upper_start = t
        /\ n.epsilon = m.epsilon /\ SameCounts(n, m)
        /\ n.rectangle = [m.rectangle EXCEPT ![2] = h[i], ![4] = a]
    BY <2>6 DEF Model, SameCounts
  <2>8. n.rectangle = <<g[t], h[i], h[Len(h)], a>>
    BY <1>4, <2>7, RectangleUpdates
  <2>9. n \in Model(epsilon)
    <3>1. n.rectangle \in Seq(IntPoint)
      BY <1>2, <1>3, <2>3, <2>8
    <3> QED BY <1>3, <2>3, <2>4, <2>6, <2>7, <3>1 DEF Model
  <2>10. HasHulls(n, P, Q \cup {a}, W)
    BY <2>4, <2>5, <2>7, <2>8 DEF HasHulls
  <2>11. n.rectangle[1] = g[t] /\ n.rectangle[3] = h[Len(h)] /\ n.rectangle[4] = a
    BY <2>8
  <2> QED BY <1>5, <2>7, <2>9, <2>10, <2>11
<1> QED
  BY <1>7, <1>8

LEMMA LowerEndTried ==
    ASSUME NEW epsilon \in Nat \ {0},
           NEW m \in Model(epsilon), NEW P, NEW Q, NEW V, HasHulls(m, P, Q, V),
           NEW a \in V, \A b \in P : b.x < a.x,
           Turn(1, m.rectangle[2], m.rectangle[4], a) <= 0,
           NEW W \in SUBSET V, \A q \in W : Before(1, a, q),
           NEW n, n = WithLowerEnd(m, a, Slope(m.rectangle[3], m.rectangle[1]))
    PROVE  /\ n \in Model(epsilon) /\ SameCounts(n, m)
           /\ HasHulls(n, P \cup {a}, Q, W)
<1> DEFINE h == m.lower
           s == m.lower_start
           g == m.upper
           t == m.upper_start
<1>1. 1 \in Sides /\ -1 \in Sides /\ -(-1) = 1 /\ Hulls(1, P, Q, h, s, g, t, V)
  <2>1. 1 \in Sides
    BY DEF Sides
  <2>2. -(-1) = 1
    BY <2>1, OtherSide, Zenon
  <2> QED BY <2>1, <2>2 DEF Sides, HasHulls
<1>2. /\ P \subseteq IntPoint /\ Q \subseteq IntPoint /\ V \subseteq IntPoint
      /\ Len(h) \in Nat /\ s \in 1..Len(h) /\ Len(h) \in 1..Len(h)
      /\ Len(g) \in Nat /\ t \in 1..Len(g) /\ Len(g) \in 1..Len(g)
      /\ \A j \in 1..Len(h) : h[j] \in P /\ h[j] \in IntPoint
      /\ \A j \in 1..Len(g) : g[j] \in Q /\ g[j] \in IntPoint
  BY <1>1, HullFacts
<1>3. h \in Seq(IntPoint) /\ g \in Seq(IntPoint) /\ a \in IntPoint
  BY <1>2 DEF Model
<1>4. m.rectangle = <<g[t], h[s], h[Len(h)], g[Len(g)]>>
  BY DEF HasHulls
<1>5. /\ m.rectangle[1] = g[t] /\ m.rectangle[2] = h[s]
      /\ m.rectangle[3] = h[Len(h)] /\ m.rectangle[4] = g[Len(g)]
  BY <1>4
<1>6. Greater(Slope(a, m.rectangle[1]), Slope(m.rectangle[3], m.rectangle[1]))
        <=> Turn(-1, g[t], h[Len(h)], a) < 0
  BY <1>2, <1>3, <1>5, SlopeTurns
<1>7. Hulls(-1, Q, P, g, t, h, s, V)
  BY <1>1, HullsMirrored
<1>8. Turn(-1, h[s], g[Len(g)], a) >= 0
  <2>1. PICK k \in Int : k = Turn(1, h[s], g[Len(g)], a)
    BY <1>1, <1>2, <1>3, TurnLaws
  <2>2. Turn(-1, h[s], g[Len(g)], a) = -k
    BY <1>1, <1>2, <1>3, <2>1, OtherSide
  <2>3. k <= 0
    BY <1>5, <2>1
  <2> QED BY <2>2, <2>3
<1>9. \A q \in W : Before(-(-1), a, q)
  BY <1>1
<1>10. ASSUME NEW i, NEW f, NEW k, Hulls(-1, Q, P \cup {a}, g, i, f, k, W)
       PROVE  Hulls(1, P \cup {a}, Q, f, k, g, i, W)
  <2>1. Hulls(-(-1), P \cup {a}, Q, f, k, g, i, W)
    BY <1>1, <1>10, HullsMirrored
  <2> QED BY <1>1, <2>1
<1>11. CASE ~(Turn(-1, g[t], h[Len(h)], a) < 0)
  <2>1. n = m
    BY <1>6, <1>11 DEF WithLowerEnd
  <2>2. Turn(-1, g[t], h[Len(h)], a) >= 0
    <3>1. Turn(-1, g[t], h[Len(h)], a) \in Int
      BY <1>1, <1>2, <1>3, TurnLaws
    <3> QED BY <1>11, <3>1
  <2>3. Hulls(-1, Q, P \cup {a}, g, t, h, s, W)
    BY <1>1, <1>7, <1>8, <1>9, <2>2, HullsStay
  <2>4. Hulls(1, P \cup {a}, Q, h, s, g, t, W)
    BY <1>10, <2>3
  <2> QED BY <1>4, <2>1, <2>4 DEF HasHulls, SameCounts
<1>12. CASE Turn(-1, g[t], h[Len(h)], a) < 0
  <2> DEFINE i == MaxSlopeAt(g, t, a)
  <2>1. StopsAt(-1, g, t, a, i)
    BY <1>2, <1>3, HullOperators
  <2>2. PICK e : KeptTo(-1, h, s, a, e) /\ LowerHull(h, s, a) = Append(SubSeq(h, 1, e), a)
    BY <1>2, <1>3, HullOperators
  <2> DEFINE f == LowerHull(h, s, a)
  <2>3. i \in 1..Len(g) /\ i \in Nat /\ e \in s..Len(h) /\ e \in Nat
    BY <1>2, <2>1, <2>2 DEF StopsAt, KeptTo
  <2>4. f \in Seq(IntPoint) /\ Len(f) = e + 1 /\ f[Len(f)] = a /\ f[s] = h[s]
    <3>1. e \in 1..Len(h) /\ s \in 1..e
      BY <1>2, <2>3
    <3>2. f = Append(SubSeq(h, 1, e), a)
      BY <2>2
    <3> HIDE DEF f
    <3> QED BY <1>3, <3>1, <3>2, KeptThenAppended
  <2>5. Hulls(-1, Q, P \cup {a}, g, i, f, s, W)
    BY <1>1, <1>7, <1>8, <1>9, <1>12, <2>1, <2>2, HullsTurn
  <2>6. Hulls(1, P \cup {a}, Q, f, s, g, i, W)
    BY <1>10, <2>5
  <2>7. n = [m EXCEPT !.rectangle[1] = g[i], !.rectangle[3] = a,
                      !.upper_start = i, !.lower = f]
    BY <1>6, <1>12 DEF WithLowerEnd
  <2> HIDE DEF i, f
  <2>8. /\ n.upper = g /\ n.upper_start = i /\ n.lower = f /\ n.lower_start = s
        /\ n.epsilon = m.epsilon /\ SameCounts(n, m)
        /\ n.rectangle = [m.rectangle EXCEPT ![1] = g[i], ![3] = a]
    BY <2>7 DEF Model, SameCounts
  <2>9. n.rectangle = <<g[i], h[s], a, g[Len(g)]>>
    BY <1>4, <2>8, RectangleUpdates
  <2>10. n \in Model(epsilon)
    <3>1. n.rectangle \in Seq(IntPoint)
      BY <1>2, <1>3, <2>3, <2>9
    <3> QED BY <1>3, <2>3, <2>4, <2>7, <2>8, <3>1 DEF Model
  <2>11. HasHulls(n, P \cup {a}, Q, W)
    BY <2>4, <2>6, <2>8, <2>9 DEF HasHulls
  <2> QED BY <2>8, <2>10, <2>11
<1> QED
  BY <1>11, <1>12

-----------------------------------------------------------------------------
(* The points and the ends of their intervals.                             *)

InputPoint == [x : Nat, y : Nat]

Sorted(pts) ==
    /\ pts \in Seq(InputPoint)
    /\ \A j, k \in 1..Len(pts) : j < k => pts[j].x < pts[k].x /\ pts[j].y <= pts[k].y

UpperEnd(epsilon, p) == Above(epsilon, p.x, p.y)
LowerEnd(epsilon, p) == Below(epsilon, p.x, p.y)
UpperEnds(epsilon, pts) == {UpperEnd(epsilon, pts[j]) : j \in 1..Len(pts)}
LowerEnds(epsilon, pts) == {LowerEnd(epsilon, pts[j]) : j \in 1..Len(pts)}

Beyond(x) == {q \in IntPoint : q.x > x}

\* The state of the model once it has accepted these points.
Models(epsilon, m, pts) ==
    /\ m \in Model(epsilon)
    /\ m.points_in_hull = Len(pts) /\ m.first_x = pts[1].x
    /\ Len(pts) = 1 =>
           /\ m.upper = <<UpperEnd(epsilon, pts[1])>> /\ m.lower = <<LowerEnd(epsilon, pts[1])>>
           /\ m.upper_start = 1 /\ m.lower_start = 1
           /\ m.rectangle = <<UpperEnd(epsilon, pts[1]), LowerEnd(epsilon, pts[1]), UpperEnd(epsilon, pts[1]), LowerEnd(epsilon, pts[1])>>
    /\ Len(pts) >= 2 => HasHulls(m, LowerEnds(epsilon, pts), UpperEnds(epsilon, pts), Beyond(pts[Len(pts)].x))

LEMMA EndFacts ==
    ASSUME NEW epsilon \in Nat \ {0},
           NEW p \in InputPoint
    PROVE  /\ UpperEnd(epsilon, p) \in IntPoint /\ LowerEnd(epsilon, p) \in IntPoint
           /\ UpperEnd(epsilon, p).x = p.x /\ LowerEnd(epsilon, p).x = p.x
           /\ LowerEnd(epsilon, p).y < UpperEnd(epsilon, p).y
           /\ UpperEnd(epsilon, p).y = p.y + epsilon
           /\ LowerEnd(epsilon, p).y >= p.y - epsilon /\ LowerEnd(epsilon, p).y <= p.y /\ LowerEnd(epsilon, p).y >= 0
           /\ p.x \in Nat /\ p.y \in Nat
<1>1. PICK x \in Nat, y \in Nat, e \in Nat : x = p.x /\ y = p.y /\ e = epsilon /\ e > 0
  BY DEF InputPoint
<1>2. UpperEnd(epsilon, p) = Point(x, y + e)
  BY <1>1 DEF UpperEnd, Above
<1>3. PICK l \in Int : /\ LowerEnd(epsilon, p) = Point(x, l)
                       /\ l >= y - e /\ l <= y /\ l >= 0
  <2>1. CASE y <= e
    <3>1. LowerEnd(epsilon, p) = Point(x, 0)
      BY <1>1, <2>1 DEF LowerEnd, Below
    <3> QED BY <2>1, <3>1
  <2>2. CASE ~(y <= e)
    <3>1. LowerEnd(epsilon, p) = Point(x, y - e)
      BY <1>1, <2>2 DEF LowerEnd, Below
    <3> QED BY <1>1, <2>2, <3>1
  <2> QED BY <2>1, <2>2
<1> QED
  BY <1>1, <1>2, <1>3 DEF Point, IntPoint

LEMMA EndsOfPoints ==
    ASSUME NEW epsilon \in Nat \ {0},
           NEW pts, Sorted(pts)
    PROVE  /\ Len(pts) \in Nat
           /\ \A j \in 1..Len(pts) : pts[j] \in InputPoint
           /\ LowerEnds(epsilon, pts) \subseteq IntPoint /\ UpperEnds(epsilon, pts) \subseteq IntPoint
           /\ \A j \in 1..Len(pts) : /\ UpperEnd(epsilon, pts[j]) \in UpperEnds(epsilon, pts)
                                     /\ LowerEnd(epsilon, pts[j]) \in LowerEnds(epsilon, pts)
<1>1. Len(pts) \in Nat /\ \A j \in 1..Len(pts) : pts[j] \in InputPoint
  BY DEF Sorted
<1>2. \A j \in 1..Len(pts) : UpperEnd(epsilon, pts[j]) \in IntPoint /\ LowerEnd(epsilon, pts[j]) \in IntPoint
  BY <1>1, EndFacts
<1> QED
  BY <1>1, <1>2 DEF LowerEnds, UpperEnds

(* A point right above or below one of the ends of a line.                 *)
LEMMA VerticalTurns ==
    ASSUME NEW o \in IntPoint, NEW a \in IntPoint, NEW b \in IntPoint, o.x < a.x
    PROVE  /\ b.x = a.x /\ b.y <= a.y => Turn(1, o, a, b) <= 0
           /\ b.x = a.x /\ b.y >= a.y => Turn(1, o, a, b) >= 0
           /\ b.x = o.x /\ b.y <= o.y => Turn(1, o, a, b) <= 0
           /\ b.x = o.x /\ b.y >= o.y => Turn(1, o, a, b) >= 0
<1>1. PICK ox \in Int, oy \in Int : o.x = ox /\ o.y = oy
  BY PointFacts
<1>2. PICK ax \in Int, ay \in Int : a.x = ax /\ a.y = ay
  BY PointFacts
<1>3. PICK bx \in Int, by \in Int : b.x = bx /\ b.y = by
  BY PointFacts
<1>4. Turn(1, o, a, b) = (ax - ox) * (by - oy) - (ay - oy) * (bx - ox)
  BY <1>1, <1>2, <1>3 DEF Turn, cross, Slope
<1>5. PICK d \in Int : d = ax - ox /\ d >= 0
  BY <1>1, <1>2
<1>6. ASSUME bx = ax
      PROVE  /\ by <= ay => Turn(1, o, a, b) <= 0
             /\ by >= ay => Turn(1, o, a, b) >= 0
  <2>1. PICK k \in Int : k = by - ay
    OBVIOUS
  <2>2. Turn(1, o, a, b) = d * k /\ d * k = -(d * (-k))
    BY <1>4, <1>5, <1>6, <2>1
  <2>3. k >= 0 => d * k >= 0
    BY <1>5, ProductSign
  <2>4. -k >= 0 => d * (-k) >= 0
    BY <1>5, ProductSign
  <2> QED BY <2>1, <2>2, <2>3, <2>4
<1>7. ASSUME bx = ox
      PROVE  /\ by <= oy => Turn(1, o, a, b) <= 0
             /\ by >= oy => Turn(1, o, a, b) >= 0
  <2>1. PICK k \in Int : k = by - oy
    OBVIOUS
  <2>2. Turn(1, o, a, b) = d * k /\ d * k = -(d * (-k))
    BY <1>4, <1>5, <1>7, <2>1
  <2>3. k >= 0 => d * k >= 0
    BY <1>5, ProductSign
  <2>4. -k >= 0 => d * (-k) >= 0
    BY <1>5, ProductSign
  <2> QED BY <2>1, <2>2, <2>3, <2>4
<1> QED
  BY <1>1, <1>2, <1>3, <1>6, <1>7

-----------------------------------------------------------------------------
(* add_point.                                                              *)

LEMMA NewModelIsModel ==
    ASSUME NEW epsilon \in Nat \ {0}
    PROVE  NewModel(epsilon) \in Model(epsilon) /\ NewModel(epsilon).points_in_hull = 0
<1>1. << >> \in Seq(IntPoint)
  OBVIOUS
<1> QED
  BY <1>1 DEF NewModel, Model

(* The first point.                                                        *)
LEMMA FirstAdded ==
    ASSUME NEW epsilon \in Nat \ {0},
           NEW m \in Model(epsilon), m.points_in_hull = 0, NEW p \in InputPoint
    PROVE  /\ add_point(m, p.x, p.y).ok
           /\ Models(epsilon, add_point(m, p.x, p.y).model, <<p>>)
<1>1. PICK u : u = UpperEnd(epsilon, p)
  OBVIOUS
<1>2. PICK l : l = LowerEnd(epsilon, p)
  OBVIOUS
<1>3. u \in IntPoint /\ l \in IntPoint /\ p.x \in Nat
  BY <1>1, <1>2, EndFacts
<1>4. Above(m.epsilon, p.x, p.y) = u /\ Below(m.epsilon, p.x, p.y) = l
  BY <1>1, <1>2 DEF Model, UpperEnd, LowerEnd
<1>5. PICK f : f = FirstPoint(m, p.x, u, l)
  OBVIOUS
<1>6. f = [epsilon |-> m.epsilon, lower |-> <<l>>, upper |-> <<u>>, lower_start |-> 1, upper_start |-> 1,
           rectangle |-> <<u, l, u, l>>, points_in_hull |-> 0, first_x |-> p.x]
  BY <1>5 DEF FirstPoint, Model
<1>7. add_point(m, p.x, p.y) = [ok |-> TRUE, model |-> [f EXCEPT !.points_in_hull = @ + 1]]
  BY <1>4, <1>5 DEF add_point
<1>8. PICK n : n = add_point(m, p.x, p.y).model
  OBVIOUS
<1>9. n = [epsilon |-> m.epsilon, lower |-> <<l>>, upper |-> <<u>>, lower_start |-> 1, upper_start |-> 1,
           rectangle |-> <<u, l, u, l>>, points_in_hull |-> 1, first_x |-> p.x]
  BY <1>6, <1>7, <1>8
<1>10. n \in Model(epsilon)
  <2>1. <<u>> \in Seq(IntPoint) /\ <<l>> \in Seq(IntPoint) /\ <<u, l, u, l>> \in Seq(IntPoint)
    BY <1>3
  <2> QED BY <1>3, <1>9, <2>1 DEF Model
<1>11. Len(<<p>>) = 1 /\ <<p>>[1] = p
  OBVIOUS
<1>12. Models(epsilon, n, <<p>>)
  BY <1>1, <1>2, <1>9, <1>10, <1>11 DEF Models
<1> QED
  BY <1>7, <1>8, <1>12

\* Points pts with one more, p, are ps.
Extends(epsilon, pts, p, ps) ==
    /\ Len(pts) \in Nat /\ Len(pts) >= 1 /\ Len(ps) = Len(pts) + 1
    /\ p \in InputPoint
    /\ \A j \in 1..Len(pts) : ps[j] = pts[j]
    /\ ps[Len(pts) + 1] = p
    /\ \A j \in 1..Len(pts) : pts[j].x < p.x /\ pts[j].x <= pts[Len(pts)].x
    /\ LowerEnds(epsilon, ps) = LowerEnds(epsilon, pts) \cup {LowerEnd(epsilon, p)}
    /\ UpperEnds(epsilon, ps) = UpperEnds(epsilon, pts) \cup {UpperEnd(epsilon, p)}
    /\ \A b \in LowerEnds(epsilon, pts) \cup UpperEnds(epsilon, pts) : b.x < p.x
    /\ Beyond(p.x) \subseteq Beyond(pts[Len(pts)].x)
    /\ p.x > pts[Len(pts)].x

(* Appending a point to sorted ones.                                       *)
LEMMA PointAppended ==
    ASSUME NEW epsilon \in Nat \ {0},
           NEW pts, Sorted(pts), pts # << >>, NEW p, Sorted(Append(pts, p)), NEW ps, ps = Append(pts, p)
    PROVE  Extends(epsilon, pts, p, ps)
<1>1. pts \in Seq(InputPoint) /\ Len(pts) \in Nat /\ Len(pts) >= 1
  BY DEF Sorted
<1>2. Len(ps) = Len(pts) + 1 /\ ps[Len(pts) + 1] = p /\ \A j \in 1..Len(pts) : ps[j] = pts[j]
  BY <1>1
<1>3. Len(ps) \in 1..Len(ps) /\ Len(pts) \in 1..Len(pts) /\ 1..Len(pts) \subseteq 1..Len(ps)
  BY <1>1, <1>2
<1>4. p \in InputPoint
  <2>1. ps \in Seq(InputPoint)
    BY DEF Sorted
  <2> QED BY <1>2, <1>3, <2>1
<1>5. \A j \in 1..Len(pts) : pts[j].x < p.x
  <2> SUFFICES ASSUME NEW j \in 1..Len(pts) PROVE pts[j].x < p.x
    OBVIOUS
  <2>1. j \in 1..Len(ps) /\ j < Len(ps)
    BY <1>1, <1>2
  <2> QED BY <1>2, <1>3, <2>1 DEF Sorted
<1>6. \A j \in 1..Len(pts) : pts[j].x \in Nat /\ pts[j].x <= pts[Len(pts)].x
  <2> SUFFICES ASSUME NEW j \in 1..Len(pts) PROVE pts[j].x \in Nat /\ pts[j].x <= pts[Len(pts)].x
    OBVIOUS
  <2>1. pts[j].x \in Nat /\ pts[Len(pts)].x \in Nat
    <3>1. pts[j] \in InputPoint /\ pts[Len(pts)] \in InputPoint
      BY <1>1, <1>3
    <3> QED BY <3>1 DEF InputPoint
  <2>2. CASE j < Len(pts)
    <3>1. pts[j].x < pts[Len(pts)].x
      BY <1>3, <2>2 DEF Sorted
    <3> QED BY <2>1, <3>1
  <2>3. CASE j = Len(pts)
    BY <2>1, <2>3
  <2> QED BY <1>1, <2>2, <2>3
<1>7. 1..Len(ps) = 1..Len(pts) \cup {Len(pts) + 1}
  BY <1>1, <1>2
<1>8. LowerEnds(epsilon, ps) = LowerEnds(epsilon, pts) \cup {LowerEnd(epsilon, p)}
  BY <1>2, <1>7 DEF LowerEnds
<1>9. UpperEnds(epsilon, ps) = UpperEnds(epsilon, pts) \cup {UpperEnd(epsilon, p)}
  BY <1>2, <1>7 DEF UpperEnds
<1>10. \A b \in LowerEnds(epsilon, pts) \cup UpperEnds(epsilon, pts) : b.x < p.x
  <2>1. \A j \in 1..Len(pts) : pts[j] \in InputPoint
    BY <1>1
  <2>2. \A j \in 1..Len(pts) : UpperEnd(epsilon, pts[j]).x = pts[j].x /\ LowerEnd(epsilon, pts[j]).x = pts[j].x
    BY <2>1, EndFacts
  <2> QED BY <1>5, <2>2 DEF LowerEnds, UpperEnds
<1>11. Beyond(p.x) \subseteq Beyond(pts[Len(pts)].x)
  <2>1. p.x \in Nat /\ pts[Len(pts)].x \in Nat /\ pts[Len(pts)].x < p.x
    BY <1>3, <1>4, <1>5, <1>6 DEF InputPoint
  <2> QED BY <2>1, PointFacts DEF Beyond
<1>12. p.x > pts[Len(pts)].x
  <2>1. p.x \in Nat /\ pts[Len(pts)].x \in Nat /\ pts[Len(pts)].x < p.x
    BY <1>3, <1>4, <1>5, <1>6 DEF InputPoint
  <2> QED BY <2>1
<1> QED
  BY <1>1, <1>2, <1>4, <1>5, <1>6, <1>8, <1>9, <1>10, <1>11, <1>12 DEF Extends

(* A pair of ends, one for each interval of the second point, has nothing  *)
(* above and below it that a third one would not see.                      *)
LEMMA SecondHulls ==
    ASSUME NEW b1 \in IntPoint, NEW b2 \in IntPoint, NEW a1 \in IntPoint, NEW a2 \in IntPoint,
           b1.x = a1.x, b2.x = a2.x, b1.x < b2.x, b1.y <= a1.y, b2.y <= a2.y,
           NEW h \in Seq({b1, b2}), Len(h) = 2, h[1] = b1, h[2] = b2,
           NEW g \in Seq({a1, a2}), Len(g) = 2, g[1] = a1, g[2] = a2
    PROVE  Hulls(1, {b1, b2}, {a1, a2}, h, 1, g, 1, Beyond(b2.x))
<1> DEFINE P == {b1, b2}
           Q == {a1, a2}
<1>1. 1 \in Sides /\ -1 \in Sides
  BY DEF Sides
<1>2. P \subseteq IntPoint /\ Q \subseteq IntPoint /\ Beyond(b2.x) \subseteq IntPoint
  BY DEF Beyond
<1>3. h \in Seq(P) /\ g \in Seq(Q) /\ Len(h) = 2 /\ Len(g) = 2
  OBVIOUS
<1>5. a1.x < a2.x /\ b1.x < a2.x /\ a1.x < b2.x
  OBVIOUS
<1>6. 1..2 = {1, 2} /\ (1 + 1)..(2 - 1) = {} /\ 1 \in 1..2
  OBVIOUS
<1>7. Chain(-1, h, 1, P)
  <2>1. \A j, k \in {1, 2} : j < k => h[j].x < h[k].x
    OBVIOUS
  <2> HIDE DEF P, Q
  <2> QED BY <1>3, <1>6, <2>1 DEF Chain
<1>8. Chain(1, g, 1, Q)
  <2>1. \A j, k \in {1, 2} : j < k => g[j].x < g[k].x
    BY <1>5
  <2> HIDE DEF P, Q
  <2> QED BY <1>3, <1>6, <2>1 DEF Chain
<1>9. Separates(1, b1, a2, P, Q)
  <2>1. Turn(1, b1, a2, b1) <= 0 /\ Turn(1, b1, a2, b2) <= 0
    <3>1. Turn(1, b1, a2, b1) = 0
      BY <1>1, TurnLaws
    <3>2. Turn(1, b1, a2, b2) <= 0
      BY <1>5, VerticalTurns
    <3> QED BY <3>1, <3>2
  <2>2. Turn(1, b1, a2, a1) >= 0 /\ Turn(1, b1, a2, a2) >= 0
    <3>1. Turn(1, b1, a2, a2) = 0
      BY <1>1, TurnLaws
    <3>2. a1.y >= b1.y
      BY PointFacts
    <3>3. Turn(1, b1, a2, a1) >= 0
      BY <1>5, <3>2, VerticalTurns
    <3> QED BY <3>1, <3>3
  <2> QED BY <1>5, <2>1, <2>2 DEF Separates
<1>10. Separates(1, a1, b2, P, Q)
  <2>1. Turn(1, a1, b2, b1) <= 0 /\ Turn(1, a1, b2, b2) <= 0
    <3>1. Turn(1, a1, b2, b2) = 0
      BY <1>1, TurnLaws
    <3>2. Turn(1, a1, b2, b1) <= 0
      BY <1>5, VerticalTurns
    <3> QED BY <3>1, <3>2
  <2>2. Turn(1, a1, b2, a1) >= 0 /\ Turn(1, a1, b2, a2) >= 0
    <3>1. Turn(1, a1, b2, a1) = 0
      BY <1>1, TurnLaws
    <3>2. a2.y >= b2.y
      BY PointFacts
    <3>3. Turn(1, a1, b2, a2) >= 0
      BY <1>5, <3>2, VerticalTurns
    <3> QED BY <3>1, <3>3
  <2> QED BY <1>5, <2>1, <2>2 DEF Separates
<1>11. ASSUME NEW q \in Beyond(b2.x)
       PROVE  /\ \A b \in P : Before(1, b, q)
              /\ \A b \in Q : Before(-1, b, q)
  <2>1. b1.x < q.x /\ b2.x < q.x /\ a1.x < q.x /\ a2.x < q.x
    <3>1. q \in IntPoint /\ q.x > b2.x
      BY DEF Beyond
    <3> QED BY <3>1, PointFacts
  <2> QED BY <2>1 DEF Before
<1>12. ASSUME NEW q \in Beyond(b2.x)
       PROVE  Reaches(1, h, 1, P, q) /\ Reaches(-1, g, 1, Q, q)
  <2>1. q \in IntPoint
    BY <1>2
  <2>2. /\ Turn(1, b1, b1, q) = 0 /\ Turn(1, b2, b2, q) = 0
        /\ Turn(-1, a1, a1, q) = 0 /\ Turn(-1, a2, a2, q) = 0
    BY <1>1, <2>1, TurnLaws
  <2>3. Reaches(1, h, 1, P, q)
    <3>1. 0 >= 0 /\ 1 \in 1..Len(h) /\ 2 \in 1..Len(h)
      BY <1>3
    <3> QED BY <2>2, <3>1 DEF Reaches
  <2>4. Reaches(-1, g, 1, Q, q)
    <3>1. 0 >= 0 /\ 1 \in 1..Len(g) /\ 2 \in 1..Len(g)
      BY <1>3
    <3> QED BY <2>2, <3>1 DEF Reaches
  <2> QED BY <2>3, <2>4
<1>13. h[Len(h)] = b2 /\ g[Len(g)] = a2
  BY <1>3
<1> HIDE DEF P, Q
<1>14. Hulls(1, P, Q, h, 1, g, 1, Beyond(b2.x))
  BY <1>2, <1>7, <1>8, <1>9, <1>10, <1>11, <1>12, <1>13 DEF Hulls
<1> QED
  BY <1>14 DEF P, Q

(* The second point.                                                       *)
LEMMA SecondAdded ==
    ASSUME NEW epsilon \in Nat \ {0},
           NEW m, NEW pts, Models(epsilon, m, pts), Sorted(pts), Len(pts) = 1,
           NEW p, Sorted(Append(pts, p))
    PROVE  /\ add_point(m, p.x, p.y).ok
           /\ Models(epsilon, add_point(m, p.x, p.y).model, Append(pts, p))
<1>0. PICK ps : ps = Append(pts, p)
  OBVIOUS
<1>1. /\ p \in InputPoint /\ pts[1] \in InputPoint /\ pts[1].x < p.x
      /\ Len(ps) = 2 /\ ps[1] = pts[1] /\ ps[2] = p
      /\ LowerEnds(epsilon, ps) = LowerEnds(epsilon, pts) \cup {LowerEnd(epsilon, p)}
      /\ UpperEnds(epsilon, ps) = UpperEnds(epsilon, pts) \cup {UpperEnd(epsilon, p)}
  <2>1. pts # << >> /\ 1 \in 1..Len(pts)
    OBVIOUS
  <2>2. pts[1] \in InputPoint
    BY <2>1, EndsOfPoints
  <2>3. Extends(epsilon, pts, p, ps)
    BY <1>0, <2>1, PointAppended
  <2>4. /\ p \in InputPoint /\ Len(ps) = Len(pts) + 1
        /\ \A j \in 1..Len(pts) : ps[j] = pts[j] /\ pts[j].x < p.x
        /\ ps[Len(pts) + 1] = p
        /\ LowerEnds(epsilon, ps) = LowerEnds(epsilon, pts) \cup {LowerEnd(epsilon, p)}
        /\ UpperEnds(epsilon, ps) = UpperEnds(epsilon, pts) \cup {UpperEnd(epsilon, p)}
    BY <2>3 DEF Extends
  <2> QED BY <2>1, <2>2, <2>4
<1>2. PICK u, l, v, k : u = UpperEnd(epsilon, pts[1]) /\ l = LowerEnd(epsilon, pts[1]) /\ v = UpperEnd(epsilon, p) /\ k = LowerEnd(epsilon, p)
  OBVIOUS
<1>3. /\ u \in IntPoint /\ l \in IntPoint /\ v \in IntPoint /\ k \in IntPoint
      /\ l.x = u.x /\ k.x = v.x /\ l.x < k.x /\ l.y <= u.y /\ k.y <= v.y /\ k.x = p.x
  <2>1. /\ u \in IntPoint /\ l \in IntPoint /\ v \in IntPoint /\ k \in IntPoint
        /\ u.x = pts[1].x /\ l.x = pts[1].x /\ v.x = p.x /\ k.x = p.x
        /\ l.y < u.y /\ k.y < v.y
    BY <1>1, <1>2, EndFacts
  <2> QED BY <1>1, <2>1, PointFacts
<1>4. /\ m \in Model(epsilon) /\ m.points_in_hull = 1 /\ m.first_x = pts[1].x
      /\ m.upper = <<u>> /\ m.lower = <<l>> /\ m.upper_start = 1 /\ m.lower_start = 1
      /\ m.rectangle = <<u, l, u, l>>
  BY <1>2 DEF Models
<1>5. Above(m.epsilon, p.x, p.y) = v /\ Below(m.epsilon, p.x, p.y) = k
  BY <1>2, <1>4 DEF Model, UpperEnd, LowerEnd
<1>5a. m = [epsilon |-> epsilon, lower |-> <<l>>, upper |-> <<u>>, lower_start |-> 1, upper_start |-> 1,
            rectangle |-> <<u, l, u, l>>, points_in_hull |-> 1, first_x |-> pts[1].x]
  BY <1>4 DEF Model
<1>6. add_point(m, p.x, p.y)
        = [ok |-> TRUE,
           model |-> [[m EXCEPT !.rectangle[3] = k, !.rectangle[4] = v,
                                !.upper = Append(@, v), !.lower = Append(@, k)]
                      EXCEPT !.points_in_hull = @ + 1]]
  BY <1>4, <1>5 DEF add_point
<1>7. PICK n : n = add_point(m, p.x, p.y).model
  OBVIOUS
<1>7a. PICK h, g : h = Append(<<l>>, k) /\ g = Append(<<u>>, v)
  OBVIOUS
<1>7b. [<<u, l, u, l>> EXCEPT ![3] = k] = <<u, l, k, l>>
  OBVIOUS
<1>7c. [<<u, l, k, l>> EXCEPT ![4] = v] = <<u, l, k, v>>
  OBVIOUS
<1>7d. PICK r : r = [m EXCEPT !.rectangle[3] = k, !.rectangle[4] = v,
                              !.upper = Append(@, v), !.lower = Append(@, k)]
  OBVIOUS
<1>7e. r = [epsilon |-> epsilon, lower |-> h, upper |-> g,
            lower_start |-> 1, upper_start |-> 1,
            rectangle |-> <<u, l, k, v>>, points_in_hull |-> 1, first_x |-> pts[1].x]
  BY <1>5a, <1>7a, <1>7b, <1>7c, <1>7d
<1>8. n = [epsilon |-> epsilon, lower |-> h, upper |-> g,
           lower_start |-> 1, upper_start |-> 1,
           rectangle |-> <<u, l, k, v>>, points_in_hull |-> 2, first_x |-> pts[1].x]
  <2>1. n = [r EXCEPT !.points_in_hull = @ + 1]
    BY <1>6, <1>7, <1>7d
  <2> QED BY <1>7e, <2>1
<1>9. /\ h \in Seq({l, k}) /\ Len(h) = 2 /\ h[1] = l /\ h[2] = k
      /\ g \in Seq({u, v}) /\ Len(g) = 2 /\ g[1] = u /\ g[2] = v
  <2>1. h \in Seq({l, k}) /\ Len(h) = 2 /\ h[1] = l /\ h[2] = k
    BY <1>7a
  <2>2. g \in Seq({u, v}) /\ Len(g) = 2 /\ g[1] = u /\ g[2] = v
    BY <1>7a
  <2> QED BY <2>1, <2>2
<1>10. n \in Model(epsilon)
  <2>1. g \in Seq(IntPoint) /\ h \in Seq(IntPoint) /\ <<u, l, k, v>> \in Seq(IntPoint)
    BY <1>3, <1>9
  <2>2. pts[1].x \in Int
    BY <1>1 DEF InputPoint
  <2> QED BY <1>8, <2>1, <2>2 DEF Model
<1>11. LowerEnds(epsilon, ps) = {l, k} /\ UpperEnds(epsilon, ps) = {u, v}
  <2>1. 1..Len(pts) = {1}
    OBVIOUS
  <2>2. LowerEnds(epsilon, pts) = {l} /\ UpperEnds(epsilon, pts) = {u}
    BY <1>2, <2>1 DEF LowerEnds, UpperEnds
  <2> QED BY <1>1, <1>2, <2>2
<1>12. Hulls(1, {l, k}, {u, v}, h, 1, g, 1, Beyond(p.x))
  BY <1>3, <1>9, SecondHulls
<1>13. HasHulls(n, LowerEnds(epsilon, ps), UpperEnds(epsilon, ps), Beyond(ps[Len(ps)].x))
  <2>1. n.rectangle = <<n.upper[n.upper_start], n.lower[n.lower_start],
                        n.lower[Len(n.lower)], n.upper[Len(n.upper)]>>
    BY <1>8, <1>9
  <2> QED BY <1>1, <1>8, <1>11, <1>12, <2>1 DEF HasHulls
<1>14. Models(epsilon, n, ps)
  BY <1>1, <1>8, <1>10, <1>13 DEF Models
<1> QED
  BY <1>0, <1>6, <1>7, <1>14

(* The rectangle of the model.                                             *)
Corners(r, P, Q) ==
    /\ r[1] \in Q /\ r[2] \in P /\ r[3] \in P /\ r[4] \in Q
    /\ Separates(1, r[1], r[3], P, Q) /\ Separates(1, r[2], r[4], P, Q)

LEMMA HullCorners ==
    ASSUME NEW m, NEW P, NEW Q, NEW V, HasHulls(m, P, Q, V)
    PROVE  Corners(m.rectangle, P, Q)
<1> DEFINE h == m.lower
           s == m.lower_start
           g == m.upper
           t == m.upper_start
<1>1. 1 \in Sides /\ Hulls(1, P, Q, h, s, g, t, V)
  BY DEF Sides, HasHulls
<1>2. /\ s \in 1..Len(h) /\ Len(h) \in 1..Len(h)
      /\ t \in 1..Len(g) /\ Len(g) \in 1..Len(g)
      /\ \A j \in 1..Len(h) : h[j] \in P
      /\ \A j \in 1..Len(g) : g[j] \in Q
  BY <1>1, HullFacts
<1>3. m.rectangle = <<g[t], h[s], h[Len(h)], g[Len(g)]>>
  BY DEF HasHulls
<1>4. /\ m.rectangle[1] = g[t] /\ m.rectangle[2] = h[s]
      /\ m.rectangle[3] = h[Len(h)] /\ m.rectangle[4] = g[Len(g)]
  BY <1>3
<1>5. Separates(1, g[t], h[Len(h)], P, Q) /\ Separates(1, h[s], g[Len(g)], P, Q)
  BY <1>1 DEF Hulls
<1> QED
  BY <1>2, <1>4, <1>5 DEF Corners

(* Two pairs of ends that no line passes.                                  *)
LEMMA SlopesCompared ==
    ASSUME NEW a \in IntPoint, NEW b \in IntPoint, NEW c \in IntPoint, NEW d \in IntPoint
    PROVE  Greater(Slope(a, b), Slope(c, d)) <=> Less(Slope(c, d), Slope(a, b))
<1>1. PICK ux \in Int, uy \in Int : ux = a.x - b.x /\ uy = a.y - b.y
  BY PointFacts
<1>2. PICK wx \in Int, wy \in Int : wx = c.x - d.x /\ wy = c.y - d.y
  BY PointFacts
<1>3. Greater(Slope(a, b), Slope(c, d)) <=> uy * wx > ux * wy
  BY <1>1, <1>2 DEF Greater, Slope
<1>4. Less(Slope(c, d), Slope(a, b)) <=> wy * ux < wx * uy
  BY <1>1, <1>2 DEF Less, Slope
<1>5. wy * ux = ux * wy /\ wx * uy = uy * wx
  OBVIOUS
<1>6. PICK k \in Int, l \in Int : k = ux * wy /\ l = uy * wx
  OBVIOUS
<1>7. (l > k) <=> (k < l)
  OBVIOUS
<1> QED
  BY <1>3, <1>4, <1>5, <1>6, <1>7

LEMMA NotStabbable ==
    ASSUME NEW epsilon \in Nat \ {0},
           NEW s, NEW i1 \in 1..Len(s), NEW i2 \in 1..Len(s), i1 < i2,
           NEW j1 \in 1..Len(s), NEW j2 \in 1..Len(s), j1 < j2,
           Greater(Slope(LowerEnd(epsilon, s[i2]), UpperEnd(epsilon, s[i1])), Slope(UpperEnd(epsilon, s[j2]), LowerEnd(epsilon, s[j1])))
    PROVE  ~Stabbable(epsilon, s)
<1> DEFINE pairs == {p \in (1..Len(s)) \X (1..Len(s)) : p[1] < p[2]}
<1>1. <<i1, i2>> \in pairs /\ <<j1, j2>> \in pairs
  OBVIOUS
<1>2. <<i1, i2>>[1] = i1 /\ <<i1, i2>>[2] = i2 /\ <<j1, j2>>[1] = j1 /\ <<j1, j2>>[2] = j2
  OBVIOUS
<1>3. ASSUME Stabbable(epsilon, s) PROVE FALSE
  <2>1. \A p, q \in pairs :
            ~Greater(Slope(LowerEnd(epsilon, s[p[2]]), UpperEnd(epsilon, s[p[1]])), Slope(UpperEnd(epsilon, s[q[2]]), LowerEnd(epsilon, s[q[1]])))
    BY <1>3 DEF Stabbable, LowerEnd, UpperEnd
  <2> HIDE DEF pairs
  <2> QED BY <1>1, <1>2, <2>1
<1> QED
  BY <1>3

(* The positions of two ends of which one is to the left of the other.     *)
LEMMA PositionsOfEnds ==
    ASSUME NEW epsilon \in Nat \ {0},
           NEW pts, Sorted(pts)
    PROVE  /\ \A u \in UpperEnds(epsilon, pts), l \in LowerEnds(epsilon, pts) : u.x < l.x =>
                  \E i, j \in 1..Len(pts) : i < j /\ u = UpperEnd(epsilon, pts[i]) /\ l = LowerEnd(epsilon, pts[j])
           /\ \A l \in LowerEnds(epsilon, pts), u \in UpperEnds(epsilon, pts) : l.x < u.x =>
                  \E i, j \in 1..Len(pts) : i < j /\ l = LowerEnd(epsilon, pts[i]) /\ u = UpperEnd(epsilon, pts[j])
<1>1. \A j \in 1..Len(pts) : /\ UpperEnd(epsilon, pts[j]).x = pts[j].x /\ LowerEnd(epsilon, pts[j]).x = pts[j].x
                             /\ pts[j].x \in Nat
  BY EndsOfPoints, EndFacts
<1>2. \A i, j \in 1..Len(pts) : pts[i].x < pts[j].x => i < j
  <2> SUFFICES ASSUME NEW i \in 1..Len(pts), NEW j \in 1..Len(pts), pts[i].x < pts[j].x, ~(i < j)
               PROVE  FALSE
    OBVIOUS
  <2>1. CASE j < i
    <3>1. pts[j].x < pts[i].x
      BY <2>1 DEF Sorted
    <3> QED BY <1>1, <3>1
  <2>2. CASE j = i
    BY <1>1, <2>2
  <2> QED BY <2>1, <2>2
<1>3. ASSUME NEW u \in UpperEnds(epsilon, pts), NEW l \in LowerEnds(epsilon, pts), u.x < l.x
      PROVE  \E i, j \in 1..Len(pts) : i < j /\ u = UpperEnd(epsilon, pts[i]) /\ l = LowerEnd(epsilon, pts[j])
  <2>1. PICK i \in 1..Len(pts), j \in 1..Len(pts) : u = UpperEnd(epsilon, pts[i]) /\ l = LowerEnd(epsilon, pts[j])
    BY DEF UpperEnds, LowerEnds
  <2> QED BY <1>1, <1>2, <1>3, <2>1
<1>4. ASSUME NEW l \in LowerEnds(epsilon, pts), NEW u \in UpperEnds(epsilon, pts), l.x < u.x
      PROVE  \E i, j \in 1..Len(pts) : i < j /\ l = LowerEnd(epsilon, pts[i]) /\ u = UpperEnd(epsilon, pts[j])
  <2>1. PICK i \in 1..Len(pts), j \in 1..Len(pts) : l = LowerEnd(epsilon, pts[i]) /\ u = UpperEnd(epsilon, pts[j])
    BY DEF UpperEnds, LowerEnds
  <2> QED BY <1>1, <1>2, <1>4, <2>1
<1> QED
  BY <1>3, <1>4

(* A refused point leaves no line.                                         *)
LEMMA OutsideUnstabbable ==
    ASSUME NEW epsilon \in Nat \ {0},
           NEW m, NEW pts, Sorted(pts), pts # << >>, Corners(m.rectangle, LowerEnds(epsilon, pts), UpperEnds(epsilon, pts)),
           NEW p, Sorted(Append(pts, p)), Outside(m, UpperEnd(epsilon, p), LowerEnd(epsilon, p))
    PROVE  ~Stabbable(epsilon, Append(pts, p))
<1>1. PICK ps : ps = Append(pts, p)
  OBVIOUS
<1>2. PICK n : n = Len(pts)
  OBVIOUS
<1>3. /\ p \in InputPoint /\ n \in Nat /\ Len(ps) = n + 1
      /\ \A j \in 1..n : ps[j] = pts[j]
      /\ ps[n + 1] = p
  <2>1. Extends(epsilon, pts, p, ps)
    BY <1>1, PointAppended
  <2> QED BY <1>2, <2>1 DEF Extends
<1>4. n + 1 \in 1..Len(ps) /\ \A j \in 1..n : j \in 1..Len(ps) /\ j < n + 1
  BY <1>3
<1>5. PICK a, b, r : a = UpperEnd(epsilon, p) /\ b = LowerEnd(epsilon, p) /\ r = m.rectangle
  OBVIOUS
<1>6. /\ r[1] \in UpperEnds(epsilon, pts) /\ r[2] \in LowerEnds(epsilon, pts) /\ r[3] \in LowerEnds(epsilon, pts) /\ r[4] \in UpperEnds(epsilon, pts)
      /\ r[1].x < r[3].x /\ r[2].x < r[4].x
  BY <1>5 DEF Corners, Separates
<1>7. /\ r[1] \in IntPoint /\ r[2] \in IntPoint /\ r[3] \in IntPoint /\ r[4] \in IntPoint
      /\ a \in IntPoint /\ b \in IntPoint
  BY <1>3, <1>5, <1>6, EndFacts, EndsOfPoints
<1>8. CASE Less(Slope(a, r[3]), Slope(r[3], r[1]))
  <2>1. PICK i \in 1..n, j \in 1..n : i < j /\ r[1] = UpperEnd(epsilon, pts[i]) /\ r[3] = LowerEnd(epsilon, pts[j])
    <3>1. \A u \in UpperEnds(epsilon, pts), l \in LowerEnds(epsilon, pts) : u.x < l.x =>
              \E i, j \in 1..Len(pts) :
                  i < j /\ u = UpperEnd(epsilon, pts[i]) /\ l = LowerEnd(epsilon, pts[j])
      BY PositionsOfEnds
    <3> QED BY <1>2, <1>6, <3>1
  <2>2. Greater(Slope(r[3], r[1]), Slope(a, r[3]))
    BY <1>7, <1>8, SlopesCompared
  <2>3. Greater(Slope(LowerEnd(epsilon, ps[j]), UpperEnd(epsilon, ps[i])), Slope(UpperEnd(epsilon, ps[n + 1]), LowerEnd(epsilon, ps[j])))
    BY <1>3, <1>5, <2>1, <2>2
  <2> QED BY <1>1, <1>4, <2>1, <2>3, NotStabbable
<1>9. CASE Greater(Slope(b, r[4]), Slope(r[4], r[2]))
  <2>1. PICK i \in 1..n, j \in 1..n : i < j /\ r[2] = LowerEnd(epsilon, pts[i]) /\ r[4] = UpperEnd(epsilon, pts[j])
    <3>1. \A l \in LowerEnds(epsilon, pts), u \in UpperEnds(epsilon, pts) : l.x < u.x =>
              \E i, j \in 1..Len(pts) :
                  i < j /\ l = LowerEnd(epsilon, pts[i]) /\ u = UpperEnd(epsilon, pts[j])
      BY PositionsOfEnds
    <3> QED BY <1>2, <1>6, <3>1
  <2>2. Greater(Slope(LowerEnd(epsilon, ps[n + 1]), UpperEnd(epsilon, ps[j])), Slope(UpperEnd(epsilon, ps[j]), LowerEnd(epsilon, ps[i])))
    BY <1>3, <1>5, <1>9, <2>1
  <2> QED BY <1>1, <1>4, <2>1, <2>2, NotStabbable
<1> QED
  BY <1>5, <1>8, <1>9 DEF Outside

(* A point between the extreme lines.                                      *)
LEMMA BetweenUpdates ==
    ASSUME NEW epsilon \in Nat \ {0},
           NEW m \in Model(epsilon), NEW P, NEW Q, NEW x \in Int, HasHulls(m, P, Q, Beyond(x)),
           NEW a \in IntPoint, NEW b \in IntPoint, a.x = b.x, b.y < a.y, x < a.x,
           \A c \in P \cup Q : c.x < a.x,
           ~Outside(m, a, b),
           NEW k, k = WithLowerEnd(WithUpperEnd(m, a), b, Slope(m.rectangle[3], m.rectangle[1]))
    PROVE  k \in Model(epsilon) /\ SameCounts(k, m) /\ HasHulls(k, P \cup {b}, Q \cup {a}, Beyond(a.x))
<1>1. PICK r : r = m.rectangle
  OBVIOUS
<1>2. 1 \in Sides /\ -1 \in Sides
  BY DEF Sides
<1>3. P \subseteq IntPoint /\ Q \subseteq IntPoint
  BY HullFacts, <1>2 DEF HasHulls
<1>4. /\ r[1] \in IntPoint /\ r[2] \in IntPoint /\ r[3] \in IntPoint /\ r[4] \in IntPoint
      /\ \A d \in {1, -1} : Turn(d, r[1], r[3], a) \in Int /\ Turn(d, r[2], r[4], b) \in Int
  <2>1. r[1] \in IntPoint /\ r[2] \in IntPoint /\ r[3] \in IntPoint /\ r[4] \in IntPoint
    BY <1>1, <1>3, HullCorners DEF Corners
  <2> QED BY <1>2, <2>1, TurnLaws
<1>5. Turn(1, r[1], r[3], a) >= 0
  <2>1. ~(Turn(1, r[1], r[3], a) < 0)
    BY <1>1, <1>4, SlopeTurns DEF Outside
  <2> QED BY <1>4, <2>1
<1>6. Turn(1, r[2], r[4], b) <= 0
  <2>1. ~(Turn(-1, r[2], r[4], b) < 0)
    BY <1>1, <1>4, SlopeTurns DEF Outside
  <2>2. Turn(-1, r[2], r[4], b) = -Turn(1, r[2], r[4], b)
    BY <1>2, <1>4, OtherSide
  <2>3. PICK c \in Int : c = Turn(1, r[2], r[4], b)
    BY <1>4
  <2> QED BY <2>1, <2>2, <2>3
<1> DEFINE V == Beyond(x)
           W == Beyond(a.x) \cup {b}
<1>7. a.x \in Int /\ b.x \in Int /\ a.y \in Int /\ b.y \in Int
  BY PointFacts
<1>8. a \in V /\ b \in V /\ W \subseteq V /\ b \in W /\ Beyond(a.x) \subseteq W
  BY <1>7, PointFacts DEF Beyond
<1>9. \A q \in W : Before(-1, a, q)
  <2>1. (-1) * a.y < (-1) * b.y
    BY <1>7
  <2>2. Before(-1, a, b)
    BY <2>1 DEF Before
  <2>3. \A q \in Beyond(a.x) : Before(-1, a, q)
    BY <1>7, PointFacts DEF Before, Beyond
  <2> QED BY <2>2, <2>3
<1>10. \A q \in Beyond(a.x) : Before(1, b, q)
  BY <1>7, PointFacts DEF Before, Beyond
<1>11. PICK n : n = WithUpperEnd(m, a)
  OBVIOUS
<1>12. /\ n \in Model(epsilon) /\ SameCounts(n, m)
       /\ HasHulls(n, P, Q \cup {a}, W)
       /\ n.rectangle[1] = r[1] /\ n.rectangle[3] = r[3]
       /\ n = m \/ n.rectangle[4] = a
  <2>1. \A c \in Q : c.x < a.x
    OBVIOUS
  <2> HIDE DEF V, W
  <2>2. HasHulls(m, P, Q, V)
    BY DEF V
  <2>3. Turn(1, m.rectangle[1], m.rectangle[3], a) >= 0 /\ W \in SUBSET V
    BY <1>1, <1>5, <1>8
  <2>4. /\ n \in Model(epsilon) /\ SameCounts(n, m)
        /\ HasHulls(n, P, Q \cup {a}, W)
        /\ n.rectangle[1] = m.rectangle[1] /\ n.rectangle[3] = m.rectangle[3]
        /\ n = m \/ n.rectangle[4] = a
    <3>1. epsilon \in Nat \ {0} /\ m \in Model(epsilon) /\ a \in V
      BY <1>8
    <3>2. HasHulls(n, P, Q \cup {a}, W)
      BY ONLY <1>9, <1>11, <2>1, <2>2, <2>3, <3>1, UpperEndTried
    <3> QED BY ONLY <1>9, <1>11, <2>1, <2>2, <2>3, <3>1, <3>2, UpperEndTried
  <2> QED BY <1>1, <2>4
<1>13. Turn(1, n.rectangle[2], n.rectangle[4], b) <= 0
  <2>1. CASE n = m
    BY <1>1, <1>6, <2>1
  <2>2. CASE n.rectangle[4] = a
    <3>1. n.rectangle[2] \in IntPoint /\ n.rectangle[2].x < a.x
      BY <1>3, <1>12, <2>2, HullCorners DEF Corners, Separates
    <3>2. b.y <= a.y
      BY <1>7
    <3> QED BY <2>2, <3>1, <3>2, VerticalTurns
  <2> QED BY <1>12, <2>1, <2>2
<1>14. k = WithLowerEnd(n, b, Slope(n.rectangle[3], n.rectangle[1]))
  BY <1>1, <1>11, <1>12
<1>15. k \in Model(epsilon) /\ SameCounts(k, n) /\ HasHulls(k, P \cup {b}, Q \cup {a}, Beyond(a.x))
  <2>1. \A c \in P : c.x < b.x
    OBVIOUS
  <2> HIDE DEF V, W
  <2> QED BY <1>8, <1>10, <1>12, <1>13, <1>14, <2>1, LowerEndTried
<1> QED
  BY <1>12, <1>15 DEF SameCounts

LEMMA Recounted ==
    ASSUME NEW epsilon \in Nat \ {0},
           NEW m \in Model(epsilon), NEW c \in Nat, NEW f, f = [m EXCEPT !.points_in_hull = c]
    PROVE  /\ f \in Model(epsilon) /\ f.points_in_hull = c /\ f.first_x = m.first_x
           /\ f.lower = m.lower /\ f.upper = m.upper /\ f.rectangle = m.rectangle
           /\ f.lower_start = m.lower_start /\ f.upper_start = m.upper_start
<1>1. m = [epsilon |-> m.epsilon, lower |-> m.lower, upper |-> m.upper,
           lower_start |-> m.lower_start, upper_start |-> m.upper_start,
           rectangle |-> m.rectangle, points_in_hull |-> m.points_in_hull, first_x |-> m.first_x]
  BY DEF Model
<1>2. f = [epsilon |-> m.epsilon, lower |-> m.lower, upper |-> m.upper,
           lower_start |-> m.lower_start, upper_start |-> m.upper_start,
           rectangle |-> m.rectangle, points_in_hull |-> c, first_x |-> m.first_x]
  BY <1>1
<1> QED
  BY <1>2 DEF Model

(* A later point.                                                          *)
LEMMA LaterAdded ==
    ASSUME NEW epsilon \in Nat \ {0},
           NEW m, NEW pts, Models(epsilon, m, pts), Sorted(pts), Len(pts) >= 2,
           NEW p, Sorted(Append(pts, p))
    PROVE  LET added == add_point(m, p.x, p.y)
           IN  /\ added.ok => Models(epsilon, added.model, Append(pts, p))
               /\ ~added.ok => /\ added.model \in Model(epsilon) /\ added.model.points_in_hull = 0
                               /\ ~Stabbable(epsilon, Append(pts, p))
<1>1. PICK ps, added : ps = Append(pts, p) /\ added = add_point(m, p.x, p.y)
  OBVIOUS
<1>2. PICK n \in Nat : n = Len(pts) /\ n >= 2
  BY DEF Sorted
<1>3. pts # << >> /\ Extends(epsilon, pts, p, ps)
  <2>1. pts # << >>
    BY <1>2
  <2> QED BY <1>1, <2>1, PointAppended
<1>4. /\ p \in InputPoint /\ Len(ps) = n + 1 /\ ps[n + 1] = p /\ ps[1] = pts[1]
      /\ LowerEnds(epsilon, ps) = LowerEnds(epsilon, pts) \cup {LowerEnd(epsilon, p)}
      /\ UpperEnds(epsilon, ps) = UpperEnds(epsilon, pts) \cup {UpperEnd(epsilon, p)}
      /\ \A b \in LowerEnds(epsilon, pts) \cup UpperEnds(epsilon, pts) : b.x < p.x
      /\ pts[n].x < p.x
  <2>1. 1 \in 1..Len(pts)
    BY <1>2
  <2>2. p \in InputPoint /\ pts[n] \in InputPoint /\ pts[n].x < p.x
    <3>1. n \in 1..Len(pts)
      BY <1>2
    <3> QED BY <1>2, <1>3, <3>1, EndsOfPoints DEF Extends
  <2> QED BY <1>2, <1>3, <2>1, <2>2 DEF Extends
<1>5. PICK a, b : a = UpperEnd(epsilon, p) /\ b = LowerEnd(epsilon, p)
  OBVIOUS
<1>6. a \in IntPoint /\ b \in IntPoint /\ a.x = p.x /\ b.x = p.x /\ b.y < a.y
  BY <1>4, <1>5, EndFacts
<1>7. /\ m \in Model(epsilon) /\ m.points_in_hull = n /\ m.first_x = pts[1].x
      /\ HasHulls(m, LowerEnds(epsilon, pts), UpperEnds(epsilon, pts), Beyond(pts[n].x))
  BY <1>2 DEF Models
<1>8. Above(m.epsilon, p.x, p.y) = a /\ Below(m.epsilon, p.x, p.y) = b
  BY <1>5, <1>7 DEF Model, UpperEnd, LowerEnd
<1>9. PICK k : k = WithLowerEnd(WithUpperEnd(m, a), b, Slope(m.rectangle[3], m.rectangle[1]))
  OBVIOUS
<1>10. ~(m.points_in_hull = 0) /\ ~(m.points_in_hull = 1)
  BY <1>2, <1>7
<1>11. /\ Outside(m, a, b) => added = [ok |-> FALSE, model |-> [m EXCEPT !.points_in_hull = 0]]
       /\ ~Outside(m, a, b) => added = [ok |-> TRUE, model |-> [k EXCEPT !.points_in_hull = @ + 1]]
  BY <1>1, <1>8, <1>9, <1>10 DEF add_point
<1>12. CASE Outside(m, a, b)
  <2>1. added.model = [m EXCEPT !.points_in_hull = 0] /\ added.ok = FALSE
    BY <1>11, <1>12
  <2>2. added.model \in Model(epsilon) /\ added.model.points_in_hull = 0
    BY <1>7, <2>1, Recounted
  <2>3. Corners(m.rectangle, LowerEnds(epsilon, pts), UpperEnds(epsilon, pts))
    BY <1>7, HullCorners
  <2>4. ~Stabbable(epsilon, ps)
    BY <1>1, <1>3, <1>5, <1>12, <2>3, OutsideUnstabbable
  <2> QED BY <1>1, <2>1, <2>2, <2>4
<1>13. CASE ~Outside(m, a, b)
  <2>1. /\ k \in Model(epsilon) /\ SameCounts(k, m)
        /\ HasHulls(k, LowerEnds(epsilon, ps), UpperEnds(epsilon, ps), Beyond(p.x))
    <3>1. pts[n].x \in Int /\ pts[n].x < a.x
      <4>1. pts[n] \in InputPoint
        BY <1>2, EndsOfPoints
      <4> QED BY <1>4, <1>6, <4>1 DEF InputPoint
    <3>2. \A c \in LowerEnds(epsilon, pts) \cup UpperEnds(epsilon, pts) : c.x < a.x
      BY <1>4, <1>6
    <3>3. a.x = b.x
      BY <1>6
    <3>4. /\ k \in Model(epsilon) /\ SameCounts(k, m)
          /\ HasHulls(k, LowerEnds(epsilon, pts) \cup {b}, UpperEnds(epsilon, pts) \cup {a}, Beyond(a.x))
      BY <1>6, <1>7, <1>9, <1>13, <3>1, <3>2, <3>3, BetweenUpdates
    <3> QED BY <1>4, <1>5, <1>6, <3>4
  <2>2. added.model = [k EXCEPT !.points_in_hull = @ + 1] /\ added.ok = TRUE
    BY <1>11, <1>13
  <2>3. PICK f : f = added.model
    OBVIOUS
  <2>4. /\ f \in Model(epsilon) /\ f.points_in_hull = n + 1 /\ f.first_x = pts[1].x
        /\ f.lower = k.lower /\ f.upper = k.upper /\ f.rectangle = k.rectangle
        /\ f.lower_start = k.lower_start /\ f.upper_start = k.upper_start
    <3>1. k.points_in_hull = n /\ k.first_x = pts[1].x
      BY <1>7, <2>1 DEF SameCounts
    <3>2. f = [k EXCEPT !.points_in_hull = n + 1]
      BY <2>2, <2>3, <3>1
    <3>3. PICK c \in Nat : c = n + 1
      OBVIOUS
    <3>4. k \in Model(epsilon)
      BY <2>1
    <3>5. /\ f \in Model(epsilon) /\ f.points_in_hull = c /\ f.first_x = k.first_x
          /\ f.lower = k.lower /\ f.upper = k.upper /\ f.rectangle = k.rectangle
          /\ f.lower_start = k.lower_start /\ f.upper_start = k.upper_start
      BY <3>2, <3>3, <3>4, Recounted
    <3> QED BY <3>1, <3>3, <3>5
  <2>5. HasHulls(f, LowerEnds(epsilon, ps), UpperEnds(epsilon, ps), Beyond(p.x))
    BY <2>1, <2>4 DEF HasHulls
  <2>6. ~(Len(ps) = 1)
    BY <1>2, <1>4
  <2>7. Models(epsilon, f, ps)
    BY <1>4, <2>4, <2>5, <2>6 DEF Models
  <2> QED BY <1>1, <2>2, <2>3, <2>7
<1> QED
  BY <1>12, <1>13

-----------------------------------------------------------------------------
(* A line that separates the ends passes all the intervals.                *)

LEMMA SeparatedStabbable ==
    ASSUME NEW epsilon \in Nat \ {0},
           NEW pts, Sorted(pts), NEW o \in IntPoint, NEW a \in IntPoint,
           Separates(1, o, a, LowerEnds(epsilon, pts), UpperEnds(epsilon, pts))
    PROVE  Stabbable(epsilon, pts)
<1>1. PICK ox \in Int, oy \in Int : o.x = ox /\ o.y = oy
  BY PointFacts
<1>2. PICK ax \in Int, ay \in Int : a.x = ax /\ a.y = ay
  BY PointFacts
<1>3. PICK vx \in Int, vy \in Int : vx = ax - ox /\ vy = ay - oy /\ vx > 0
  <2>1. ox < ax
    BY <1>1, <1>2 DEF Separates
  <2> QED BY <2>1
<1>4. ASSUME NEW i1 \in 1..Len(pts), NEW i2 \in 1..Len(pts), i1 < i2,
             NEW j1 \in 1..Len(pts), NEW j2 \in 1..Len(pts), j1 < j2
      PROVE  ~Greater(Slope(LowerEnd(epsilon, pts[i2]), UpperEnd(epsilon, pts[i1])),
                      Slope(UpperEnd(epsilon, pts[j2]), LowerEnd(epsilon, pts[j1])))
  <2>1. PICK A, B, C, D : /\ A = UpperEnd(epsilon, pts[i1]) /\ B = LowerEnd(epsilon, pts[i2])
                          /\ C = LowerEnd(epsilon, pts[j1]) /\ D = UpperEnd(epsilon, pts[j2])
    OBVIOUS
  <2>2. /\ A \in IntPoint /\ B \in IntPoint /\ C \in IntPoint /\ D \in IntPoint
        /\ A.x < B.x /\ C.x < D.x
    <3>1. \A i \in 1..Len(pts) : pts[i] \in InputPoint
      BY EndsOfPoints
    <3>2. pts[i1].x < pts[i2].x /\ pts[j1].x < pts[j2].x
      BY <1>4 DEF Sorted
    <3> QED BY <2>1, <3>1, <3>2, EndFacts
  <2>3. /\ Turn(1, o, a, A) >= 0 /\ Turn(1, o, a, B) <= 0
        /\ Turn(1, o, a, C) <= 0 /\ Turn(1, o, a, D) >= 0
    BY <2>1, EndsOfPoints DEF Separates
  <2>4. PICK Ax \in Int, Ay \in Int, Bx \in Int, By \in Int :
            A.x = Ax /\ A.y = Ay /\ B.x = Bx /\ B.y = By
    BY <2>2, PointFacts
  <2>5. PICK Cx \in Int, Cy \in Int, Dx \in Int, Dy \in Int :
            C.x = Cx /\ C.y = Cy /\ D.x = Dx /\ D.y = Dy
    BY <2>2, PointFacts
  <2>6. /\ Turn(1, o, a, A) = vx * (Ay - oy) - vy * (Ax - ox)
        /\ Turn(1, o, a, B) = vx * (By - oy) - vy * (Bx - ox)
    <3>1. Turn(1, o, a, A) = (ax - ox) * (Ay - oy) - (ay - oy) * (Ax - ox)
      BY <1>1, <1>2, <2>4 DEF Turn, cross, Slope
    <3>2. Turn(1, o, a, B) = (ax - ox) * (By - oy) - (ay - oy) * (Bx - ox)
      BY <1>1, <1>2, <2>4 DEF Turn, cross, Slope
    <3> QED BY <1>3, <3>1, <3>2
  <2>7. /\ Turn(1, o, a, C) = vx * (Cy - oy) - vy * (Cx - ox)
        /\ Turn(1, o, a, D) = vx * (Dy - oy) - vy * (Dx - ox)
    <3>1. Turn(1, o, a, C) = (ax - ox) * (Cy - oy) - (ay - oy) * (Cx - ox)
      BY <1>1, <1>2, <2>5 DEF Turn, cross, Slope
    <3>2. Turn(1, o, a, D) = (ax - ox) * (Dy - oy) - (ay - oy) * (Dx - ox)
      BY <1>1, <1>2, <2>5 DEF Turn, cross, Slope
    <3> QED BY <1>3, <3>1, <3>2
  <2>8. PICK ux \in Int, uy \in Int : ux = Bx - Ax /\ uy = By - Ay
    OBVIOUS
  <2>9. PICK wx \in Int, wy \in Int : wx = Dx - Cx /\ wy = Dy - Cy
    OBVIOUS
  <2>10. ux > 0 /\ wx > 0
    BY <2>2, <2>4, <2>5, <2>8, <2>9
  <2>11. ux * vy - uy * vx >= 0
    <3>1. ux * vy - uy * vx = (vx * (Ay - oy) - vy * (Ax - ox)) - (vx * (By - oy) - vy * (Bx - ox))
      BY <2>8
    <3>2. PICK k \in Int, l \in Int : k = Turn(1, o, a, A) /\ l = Turn(1, o, a, B)
      BY <2>6
    <3>3. k >= 0 /\ l <= 0 /\ ux * vy - uy * vx = k - l
      BY <2>3, <2>6, <3>1, <3>2
    <3> QED BY <3>3
  <2>12. vx * wy - vy * wx >= 0
    <3>1. vx * wy - vy * wx = (vx * (Dy - oy) - vy * (Dx - ox)) - (vx * (Cy - oy) - vy * (Cx - ox))
      BY <2>9
    <3>2. PICK k \in Int, l \in Int : k = Turn(1, o, a, D) /\ l = Turn(1, o, a, C)
      BY <2>7
    <3>3. k >= 0 /\ l <= 0 /\ vx * wy - vy * wx = k - l
      BY <2>3, <2>7, <3>1, <3>2
    <3> QED BY <3>3
  <2>13. ux * wy - uy * wx >= 0
    BY <1>3, <2>10, <2>11, <2>12, VectorOrder
  <2>14. Greater(Slope(B, A), Slope(D, C)) <=> uy * wx > ux * wy
    BY <2>4, <2>5, <2>8, <2>9 DEF Greater, Slope
  <2>15. ~(uy * wx > ux * wy)
    <3>1. PICK k \in Int, l \in Int : k = uy * wx /\ l = ux * wy
      OBVIOUS
    <3> QED BY <2>13, <3>1
  <2> QED BY <2>1, <2>14, <2>15
<1>5. \A i1, i2, j1, j2 \in 1..Len(pts) : i1 < i2 /\ j1 < j2 =>
          ~Greater(Slope(LowerEnd(epsilon, pts[i2]), UpperEnd(epsilon, pts[i1])),
                   Slope(UpperEnd(epsilon, pts[j2]), LowerEnd(epsilon, pts[j1])))
  BY <1>4
<1> QED
  BY <1>5 DEF Stabbable, LowerEnd, UpperEnd

(* What the model has accepted, a line passes.                             *)
LEMMA AcceptedStabbable ==
    ASSUME NEW epsilon \in Nat \ {0},
           NEW m, NEW pts, Models(epsilon, m, pts), Sorted(pts), pts # << >>
    PROVE  Stabbable(epsilon, pts)
<1>1. Len(pts) = 1 \/ Len(pts) >= 2
  <2>1. PICK n \in Nat : n = Len(pts) /\ n >= 1
    BY DEF Sorted
  <2>2. n = 1 \/ n >= 2
    BY <2>1
  <2> QED BY <2>1, <2>2
<1>2. CASE Len(pts) = 1
  <2>1. {p \in (1..Len(pts)) \X (1..Len(pts)) : p[1] < p[2]} = {}
    BY <1>2
  <2> QED BY <2>1 DEF Stabbable
<1>3. CASE Len(pts) >= 2
  <2>1. Corners(m.rectangle, LowerEnds(epsilon, pts), UpperEnds(epsilon, pts))
    BY <1>3, HullCorners DEF Models
  <2>2. m.rectangle[1] \in IntPoint /\ m.rectangle[3] \in IntPoint
    BY <2>1, EndsOfPoints DEF Corners
  <2> QED BY <2>1, <2>2, SeparatedStabbable DEF Corners
<1> QED
  BY <1>1, <1>2, <1>3

-----------------------------------------------------------------------------
(* The error of a segment.                                                 *)

LEMMA DivisionFacts ==
    ASSUME NEW k \in Nat, NEW d \in Nat, d > 0
    PROVE  k \div d \in Nat /\ d * (k \div d) <= k /\ k < d * (k \div d) + d
OBVIOUS

LEMMA MaxOfTwo ==
    ASSUME NEW v \in Int
    PROVE  /\ Max({0, v}) \in Int /\ (Max({0, v}) = 0 \/ Max({0, v}) = v)
           /\ Max({0, v}) >= 0 /\ Max({0, v}) >= v
<1>1. PICK T : T = {0, v}
  OBVIOUS
<1>2. PICK u \in Int : u >= 0 /\ u >= v
  <2>1. CASE v >= 0
    BY <2>1
  <2>2. CASE v < 0
    BY <2>2
  <2> QED BY <2>1, <2>2
<1>3. T \in SUBSET Int /\ T # {} /\ \A w \in T : w <= u
  BY <1>1, <1>2
<1>4. Max(T) \in T /\ \A w \in T : w <= Max(T)
  BY <1>2, <1>3, GreatestElement
<1> QED
  BY <1>1, <1>4

SegmentRecord == [key : Nat, dy : Nat, dx : Nat, intercept : Int]

\* The line of the segment, whose intercept is rounded, passes at most half below or
\* above the interval around p. A level one has p alone, and its intercept lies below the
\* end of the interval.
Follows(epsilon, segment, p) ==
    /\ segment \in SegmentRecord /\ segment.dx > 0 /\ segment.key <= p.x
    /\ LET line == 2 * (segment.dy * (p.x - segment.key) + segment.dx * segment.intercept)
       IN  /\ 2 * (segment.dx * LowerEnd(epsilon, p).y) <= line + segment.dx
           /\ line <= 2 * (segment.dx * UpperEnd(epsilon, p).y) + segment.dx
    /\ segment.dy = 0 => p.x = segment.key /\ segment.intercept < UpperEnd(epsilon, p).y

LEMMA FollowsApproximates ==
    ASSUME NEW epsilon \in Nat \ {0}, NEW p \in InputPoint, NEW segment, Follows(epsilon, segment, p)
    PROVE  Approximates(epsilon, segment, p)
<1>1. PICK dx \in Int, line \in Int, ly \in Int, uy \in Int :
         /\ dx = segment.dx
         /\ line = 2 * (segment.dy * (p.x - segment.key) + segment.dx * segment.intercept)
         /\ ly = LowerEnd(epsilon, p).y /\ uy = UpperEnd(epsilon, p).y
  <2>1. segment.dx \in Int /\ segment.dy \in Int /\ segment.key \in Int /\ segment.intercept \in Int
    BY DEF Follows, SegmentRecord
  <2>2. p.x \in Int
    BY DEF InputPoint
  <2>3. LowerEnd(epsilon, p).y \in Int /\ UpperEnd(epsilon, p).y \in Int
    BY EndFacts, PointFacts
  <2> QED BY <2>1, <2>2, <2>3
<1>2. 2 * (dx * ly) <= line + dx /\ line <= 2 * (dx * uy) + dx
  BY <1>1 DEF Follows
<1>3. 2 * dx * ly = 2 * (dx * ly) /\ 2 * dx * uy = 2 * (dx * uy)
  OBVIOUS
<1>4. line + dx >= 2 * dx * ly /\ line - dx <= 2 * dx * uy
  <2>1. PICK b \in Int, t \in Int : b = dx * ly /\ t = dx * uy
    OBVIOUS
  <2> QED BY <1>2, <1>3, <2>1
<1> QED
  BY <1>1, <1>4 DEF Approximates, LowerEnd, UpperEnd

(* One point: a level line through the middle of its interval.             *)
LEMMA LevelLine ==
    ASSUME NEW epsilon \in Nat \ {0},
           NEW p \in InputPoint, NEW u, NEW l, u = UpperEnd(epsilon, p), l = LowerEnd(epsilon, p),
           NEW segment, segment = [key |-> p.x, dy |-> 0, dx |-> 1, intercept |-> (u.y + l.y) \div 2]
    PROVE  Follows(epsilon, segment, p)
<1>1. PICK x \in Int, y \in Nat, e \in Nat : x = p.x /\ y = p.y /\ e = epsilon
  BY DEF InputPoint
<1>2. PICK uy \in Int, ly \in Int : /\ uy = u.y /\ ly = l.y
                                    /\ uy = y + e /\ ly >= y - e /\ ly <= y /\ ly >= 0
  BY <1>1, EndFacts, PointFacts
<1>3. PICK c \in Nat : c = (uy + ly) \div 2 /\ 2 * c <= uy + ly /\ uy + ly < 2 * c + 2
  <2>1. uy + ly \in Nat /\ 2 \in Nat /\ 2 > 0
    BY <1>2
  <2> QED BY <2>1, DivisionFacts
<1>4. c < uy
  BY <1>1, <1>2, <1>3
<1>5. segment.intercept = c
  BY <1>2, <1>3
<1>6. segment \in SegmentRecord /\ segment.dx = 1 /\ segment.dy = 0 /\ segment.key = x
  <2>1. x \in Nat
    BY <1>1 DEF InputPoint
  <2> QED BY <1>1, <1>5, <2>1 DEF SegmentRecord
<1>7. 0 * (x - x) = 0 /\ 1 * c = c /\ 1 * ly = ly /\ 1 * uy = uy
  OBVIOUS
<1>8. LowerEnd(epsilon, p).y = ly /\ UpperEnd(epsilon, p).y = uy
  BY <1>2
<1>9. /\ 2 * (segment.dy * (p.x - segment.key) + segment.dx * segment.intercept) = 2 * c
       /\ segment.dx * LowerEnd(epsilon, p).y = ly /\ segment.dx * UpperEnd(epsilon, p).y = uy
  <2>1. segment.dy * (p.x - segment.key) = 0 /\ segment.dx * segment.intercept = c
    BY <1>1, <1>5, <1>6, <1>7
  <2>2. segment.dx * LowerEnd(epsilon, p).y = 1 * ly /\ segment.dx * UpperEnd(epsilon, p).y = 1 * uy
    BY <1>6, <1>8
  <2> QED BY <1>7, <2>1, <2>2
<1>10. 2 * ly <= 2 * c + 1 /\ 2 * c <= 2 * uy + 1
  BY <1>2, <1>3
<1>11. segment.dx > 0 /\ segment.key <= p.x /\ p.x = segment.key /\ segment.intercept < UpperEnd(epsilon, p).y
  BY <1>1, <1>4, <1>5, <1>6, <1>8
<1> QED
  BY <1>6, <1>9, <1>10, <1>11 DEF Follows

(* The steepest line, its intercept at the first x rounded.                *)
LEMMA SteepestLine ==
    ASSUME NEW epsilon \in Nat \ {0},
           NEW p \in InputPoint, NEW first \in Nat, NEW o \in IntPoint, NEW a \in IntPoint,
           first <= p.x, first <= o.x, o.x < a.x, o.y < a.y,
           Turn(1, o, a, UpperEnd(epsilon, p)) >= 0, Turn(1, o, a, LowerEnd(epsilon, p)) <= 0,
           NEW segment,
           segment = [key |-> first, dy |-> Slope(a, o).dy, dx |-> Slope(a, o).dx,
                      intercept |-> RoundedIntercept(Slope(a, o), Slope(a, o).dy * (first - o.x)) + o.y]
    PROVE  Follows(epsilon, segment, p)
<1>1. PICK ox \in Int, oy \in Int, ax \in Int, ay \in Int : o.x = ox /\ o.y = oy /\ a.x = ax /\ a.y = ay
  BY PointFacts
<1>2. PICK x \in Int, y \in Nat, e \in Nat : x = p.x /\ y = p.y /\ e = epsilon
  BY DEF InputPoint
<1>3. PICK uy \in Int, ly \in Int : /\ uy = UpperEnd(epsilon, p).y /\ ly = LowerEnd(epsilon, p).y
                                    /\ uy = y + e /\ ly >= y - e /\ ly <= y /\ ly >= 0
  <2>1. /\ UpperEnd(epsilon, p) \in IntPoint /\ LowerEnd(epsilon, p) \in IntPoint
        /\ UpperEnd(epsilon, p).y = p.y + epsilon
        /\ LowerEnd(epsilon, p).y >= p.y - epsilon /\ LowerEnd(epsilon, p).y <= p.y /\ LowerEnd(epsilon, p).y >= 0
    BY EndFacts
  <2> QED BY <1>2, <2>1, PointFacts
<1>4. UpperEnd(epsilon, p).x = x /\ LowerEnd(epsilon, p).x = x
  BY <1>2, EndFacts
<1>5. PICK dx \in Nat, dy \in Nat : dx = ax - ox /\ dy = ay - oy /\ dx > 0 /\ dy > 0
  BY <1>1
<1>6. PICK k \in Nat, n \in Nat : k = dy * (x - first) /\ n = dy * (ox - first)
  <2>1. x - first \in Nat /\ ox - first \in Nat
    BY <1>1, <1>2
  <2>2. dy * (x - first) >= 0 /\ dy * (ox - first) >= 0
    BY <2>1, ProductSign
  <2> QED BY <2>2
<1>7. /\ dx * (uy - oy) - dy * (x - ox) >= 0
      /\ dx * (ly - oy) - dy * (x - ox) <= 0
  <2>1. Turn(1, o, a, UpperEnd(epsilon, p)) = (ax - ox) * (uy - oy) - (ay - oy) * (x - ox)
    BY <1>1, <1>3, <1>4 DEF Turn, cross, Slope
  <2>2. Turn(1, o, a, LowerEnd(epsilon, p)) = (ax - ox) * (ly - oy) - (ay - oy) * (x - ox)
    BY <1>1, <1>3, <1>4 DEF Turn, cross, Slope
  <2> QED BY <1>5, <2>1, <2>2
<1>8. k - n <= dx * (uy - oy) /\ dx * (ly - oy) <= k - n
  <2>1. dy * (x - ox) = k - n
    BY <1>6
  <2>2. PICK b \in Int, c \in Int : b = dx * (uy - oy) /\ c = dx * (ly - oy)
    OBVIOUS
  <2> QED BY <1>7, <2>1, <2>2
<1>9. Slope(a, o).dx = dx /\ Slope(a, o).dy = dy
  BY <1>1, <1>5 DEF Slope
<1>10. RoundedIntercept(Slope(a, o), Slope(a, o).dy * (first - o.x)) = -((n + dx \div 2) \div dx)
  <2>1. dy * (first - ox) = -n
    BY <1>6
  <2>2. PICK s : s = Slope(a, o)
    OBVIOUS
  <2>3. PICK h \in Nat : h = dx \div 2 /\ h < dx
    BY <1>5
  <2>4. CASE n = 0
    <3>1. RoundedIntercept(s, 0) = Quotient(0 + Quotient(dx, 2), dx)
      BY <1>9, <2>2 DEF RoundedIntercept
    <3>2. Quotient(dx, 2) = h
      BY <2>3 DEF Quotient
    <3>3. Quotient(h, dx) = 0 /\ h \div dx = 0
      <4>1. PICK q \in Nat : q = h \div dx /\ dx * q <= h
        BY <1>5, DivisionFacts
      <4>2. q = 0
        <5>1. ASSUME q >= 1 PROVE FALSE
          <6>1. dx * (q - 1) >= 0
            BY <5>1, ProductSign
          <6>2. dx * (q - 1) = dx * q - dx
            OBVIOUS
          <6>3. PICK b \in Int : b = dx * q
            OBVIOUS
          <6> QED BY <2>3, <4>1, <6>1, <6>2, <6>3
        <5> QED BY <5>1
      <4> QED BY <4>1, <4>2 DEF Quotient
    <3> QED BY <1>1, <1>9, <2>1, <2>2, <2>3, <2>4, <3>1, <3>2, <3>3
  <2>5. CASE n > 0
    <3>1. -n < 0 /\ -n \in Int
      BY <2>5
    <3>2. RoundedIntercept(s, -n) = Quotient(-n + Quotient(-dx, 2), dx)
      BY <1>9, <2>2, <3>1 DEF RoundedIntercept
    <3>3. Quotient(-dx, 2) = -h
      BY <1>5, <2>3 DEF Quotient
    <3>4. Quotient(-n + -h, dx) = -((n + h) \div dx)
      <4>1. -n + -h < 0 /\ -(-n + -h) = n + h
        BY <2>5
      <4> QED BY <4>1 DEF Quotient
    <3> QED BY <1>1, <1>9, <2>1, <2>2, <2>3, <3>2, <3>3, <3>4
  <2> QED BY <2>4, <2>5
<1>11. PICK r \in Nat, h \in Nat : /\ h = dx \div 2 /\ 2 * h <= dx /\ dx < 2 * h + 2
                                   /\ r = (n + h) \div dx
                                   /\ dx * r <= n + h /\ n + h < dx * r + dx
  <2>1. PICK h \in Nat : h = dx \div 2 /\ 2 * h <= dx /\ dx < 2 * h + 2
    <3>1. 2 \in Nat /\ 2 > 0
      OBVIOUS
    <3> QED BY <3>1, DivisionFacts
  <2>2. n + h \in Nat
    OBVIOUS
  <2> QED BY <1>5, <2>1, <2>2, DivisionFacts
<1>12. segment.intercept = oy - r
  BY <1>1, <1>10, <1>11
<1>13. segment \in SegmentRecord /\ segment.dx = dx /\ segment.dy = dy /\ segment.key = first
  BY <1>9, <1>12 DEF SegmentRecord
<1>14. PICK line \in Int : line = 2 * (dy * (x - first) + dx * (oy - r))
  OBVIOUS
<1>15. PICK dr \in Int, dl \in Int, du \in Int, do \in Int :
           dr = dx * r /\ dl = dx * ly /\ du = dx * uy /\ do = dx * oy
  OBVIOUS
<1>16. line = 2 * k + 2 * do - 2 * dr
  <2>1. dx * (oy - r) = do - dr
    BY <1>15
  <2> QED BY <1>6, <1>14, <2>1
<1>17. k - n <= du - do /\ dl - do <= k - n
  <2>1. dx * (uy - oy) = du - do /\ dx * (ly - oy) = dl - do
    BY <1>15
  <2> QED BY <1>8, <2>1
<1>18. 2 * dl <= line + dx /\ line <= 2 * du + dx
  BY <1>11, <1>15, <1>16, <1>17
<1>19. /\ 2 * (segment.dy * (p.x - segment.key) + segment.dx * segment.intercept) = line
       /\ segment.dx * LowerEnd(epsilon, p).y = dl /\ segment.dx * UpperEnd(epsilon, p).y = du
  BY <1>2, <1>3, <1>12, <1>13, <1>14, <1>15
<1>20. segment.dx > 0 /\ segment.key <= p.x /\ ~(segment.dy = 0)
  BY <1>2, <1>5, <1>13
<1> QED
  BY <1>13, <1>18, <1>19, <1>20 DEF Follows

(* The segment of the model approximates every point the model accepted.   *)
LEMMA SegmentFollows ==
    ASSUME NEW epsilon \in Nat \ {0},
           NEW m, NEW pts, Models(epsilon, m, pts), Sorted(pts), pts # << >>, NEW i \in 1..Len(pts)
    PROVE  Follows(epsilon, get_floating_point_segment(get_segment(m)), pts[i])
<1>1. PICK n \in Nat : n = Len(pts) /\ n >= 1
  BY DEF Sorted
<1>2. PICK r, first : r = m.rectangle /\ first = m.first_x
  OBVIOUS
<1>3. m.points_in_hull = n /\ first = pts[1].x
  BY <1>1, <1>2 DEF Models
<1>4. pts[i] \in InputPoint /\ pts[1] \in InputPoint
  <2>1. 1 \in 1..Len(pts)
    BY <1>1
  <2> QED BY <2>1, EndsOfPoints
<1>5. CASE n = 1
  <2>1. i = 1
    BY <1>1, <1>5
  <2>2. PICK u, l : u = UpperEnd(epsilon, pts[1]) /\ l = LowerEnd(epsilon, pts[1])
    OBVIOUS
  <2>3. r = <<u, l, u, l>>
    BY <1>1, <1>2, <1>5, <2>2 DEF Models
  <2>4. PICK cs : cs = get_segment(m)
    OBVIOUS
  <2>5. cs = [rectangle |-> <<u, l, u, l>>, first |-> first]
    <3>1. m.points_in_hull = 1
      BY <1>3, <1>5
    <3>2. r[1] = u /\ r[2] = l
      BY <2>3
    <3> QED BY <1>2, <2>4, <3>1, <3>2 DEF get_segment, CanonicalSegment
  <2>6. one_point(cs) /\ cs.rectangle[1] = u /\ cs.rectangle[2] = l /\ cs.first = first
    BY <2>5 DEF one_point
  <2>7. get_floating_point_segment(cs)
          = [key |-> first, dy |-> 0, dx |-> 1, intercept |-> (u.y + l.y) \div 2]
    BY <2>6 DEF get_floating_point_segment
  <2> QED BY <1>3, <1>4, <2>1, <2>2, <2>4, <2>7, LevelLine
<1>6. CASE n >= 2
  <2>1. Corners(r, LowerEnds(epsilon, pts), UpperEnds(epsilon, pts))
    BY <1>1, <1>2, <1>6, HullCorners DEF Models
  <2>2. PICK o, a : o = r[2] /\ a = r[4]
    OBVIOUS
  <2>3. /\ o \in LowerEnds(epsilon, pts) /\ a \in UpperEnds(epsilon, pts) /\ o.x < a.x
        /\ r[1].x < r[3].x /\ r[1] \in UpperEnds(epsilon, pts) /\ r[3] \in LowerEnds(epsilon, pts)
        /\ Separates(1, o, a, LowerEnds(epsilon, pts), UpperEnds(epsilon, pts))
    BY <2>1, <2>2 DEF Corners, Separates
  <2>4. r[1] \in IntPoint /\ r[3] \in IntPoint /\ o \in IntPoint /\ a \in IntPoint
    BY <2>3, EndsOfPoints
  <2>5. PICK j \in 1..Len(pts), k \in 1..Len(pts) : j < k /\ o = LowerEnd(epsilon, pts[j]) /\ a = UpperEnd(epsilon, pts[k])
    BY <2>3, PositionsOfEnds
  <2>6. pts[j] \in InputPoint /\ pts[k] \in InputPoint
    BY EndsOfPoints
  <2>7. o.y < a.y
    <3>1. pts[j].y <= pts[k].y
      BY <2>5 DEF Sorted
    <3>2. o.y <= pts[j].y /\ a.y = pts[k].y + epsilon /\ pts[j].y \in Nat /\ pts[k].y \in Nat
      BY <2>5, <2>6, EndFacts
    <3> QED BY <2>4, <3>1, <3>2, PointFacts
  <2>8. \A w \in 1..Len(pts) : first <= pts[w].x
    <3> SUFFICES ASSUME NEW w \in 1..Len(pts) PROVE first <= pts[w].x
      OBVIOUS
    <3>1. first \in Nat /\ pts[w].x \in Nat
      BY <1>3, <1>4, EndsOfPoints, EndFacts
    <3>2. CASE w = 1
      BY <1>3, <3>1, <3>2
    <3>3. CASE 1 < w
      <4>1. 1 \in 1..Len(pts)
        BY <1>1
      <4>2. pts[1].x < pts[w].x
        BY <3>3, <4>1 DEF Sorted
      <4> QED BY <1>3, <3>1, <4>2
    <3> QED BY <3>2, <3>3
  <2>9. first \in Nat /\ first <= o.x /\ first <= pts[i].x
    <3>1. o.x = pts[j].x /\ pts[1].x \in Nat
      BY <1>4, <2>5, <2>6, EndFacts
    <3> QED BY <1>3, <2>8, <3>1
  <2>10. Turn(1, o, a, UpperEnd(epsilon, pts[i])) >= 0 /\ Turn(1, o, a, LowerEnd(epsilon, pts[i])) <= 0
    BY <2>3, EndsOfPoints DEF Separates
  <2>11. PICK cs : cs = get_segment(m)
    OBVIOUS
  <2>12. cs = [rectangle |-> r, first |-> first]
    <3>1. ~(m.points_in_hull = 1)
      BY <1>3, <1>6
    <3> QED BY <1>2, <2>11, <3>1 DEF get_segment, CanonicalSegment
  <2>13. ~one_point(cs)
    <3>1. r[1] # r[3]
      BY <2>3, <2>4, PointFacts
    <3> QED BY <2>12, <3>1 DEF one_point
  <2>14. get_floating_point_segment(cs)
           = [key |-> first, dy |-> Slope(a, o).dy, dx |-> Slope(a, o).dx,
              intercept |-> RoundedIntercept(Slope(a, o), Slope(a, o).dy * (first - o.x)) + o.y]
    BY <2>2, <2>12, <2>13 DEF get_floating_point_segment
  <2> QED BY <1>4, <2>3, <2>4, <2>7, <2>9, <2>10, <2>11, <2>14, SteepestLine
<1>7. n = 1 \/ n >= 2
  BY <1>1
<1> QED
  BY <1>5, <1>6, <1>7

-----------------------------------------------------------------------------
(* Points that come after sorted ones.                                      *)

LEMMA OnePointSorted ==
    ASSUME NEW p \in InputPoint
    PROVE  Sorted(<<p>>) /\ <<p>> # << >> /\ <<p>>[Len(<<p>>)] = p
<1>1. <<p>> \in Seq(InputPoint) /\ Len(<<p>>) = 1
  OBVIOUS
<1>2. \A j, k \in 1..Len(<<p>>) : ~(j < k)
  BY <1>1
<1> QED
  BY <1>1, <1>2 DEF Sorted

(* The next point of the input comes after the segment's points.           *)
LEMMA NextAppended ==
    ASSUME NEW pts, Sorted(pts), pts # << >>, NEW p \in InputPoint,
           pts[Len(pts)].x < p.x, pts[Len(pts)].y <= p.y
    PROVE  Sorted(Append(pts, p))
<1>1. PICK n \in Nat : n = Len(pts) /\ n >= 1
  BY DEF Sorted
<1>2. PICK ps : ps = Append(pts, p)
  OBVIOUS
<1>3. /\ ps \in Seq(InputPoint) /\ Len(ps) = n + 1 /\ ps[n + 1] = p
      /\ \A j \in 1..n : ps[j] = pts[j]
  BY <1>1, <1>2 DEF Sorted
<1>4. \A j \in 1..n : pts[j].x \in Nat /\ pts[j].y \in Nat /\ p.x \in Nat /\ p.y \in Nat
  <2>1. \A j \in 1..n : pts[j] \in InputPoint
    BY <1>1, EndsOfPoints
  <2> QED BY <2>1, EndFacts
<1>5. \A j \in 1..n : pts[j].x < p.x /\ pts[j].y <= p.y
  <2> SUFFICES ASSUME NEW j \in 1..n PROVE pts[j].x < p.x /\ pts[j].y <= p.y
    OBVIOUS
  <2>1. n \in 1..n
    BY <1>1
  <2>2. CASE j = n
    BY <1>1, <2>2
  <2>3. CASE j < n
    <3>1. pts[j].x < pts[n].x /\ pts[j].y <= pts[n].y
      BY <1>1, <2>1, <2>3 DEF Sorted
    <3> QED BY <1>1, <1>4, <2>1, <3>1
  <2> QED BY <1>1, <2>2, <2>3
<1>6. ASSUME NEW j \in 1..(n + 1), NEW k \in 1..(n + 1), j < k
      PROVE  ps[j].x < ps[k].x /\ ps[j].y <= ps[k].y
  <2>1. j \in 1..n
    BY <1>1, <1>6
  <2>2. CASE k = n + 1
    BY <1>3, <1>5, <2>1, <2>2
  <2>3. CASE k \in 1..n
    <3>1. pts[j].x < pts[k].x /\ pts[j].y <= pts[k].y
      BY <1>1, <1>6, <2>1, <2>3 DEF Sorted
    <3> QED BY <1>3, <2>1, <2>3, <3>1
  <2> QED BY <1>1, <2>2, <2>3
<1> QED
  BY <1>2, <1>3, <1>6 DEF Sorted

-----------------------------------------------------------------------------
(* What make_segmentation returns.                                         *)

PointSet(pts) == {pts[j] : j \in 1..Len(pts)}

\* No line passes within epsilon of the points of D.
Clash(epsilon, D) ==
    \E a, b, c, d \in D :
        /\ a.x < b.x /\ c.x < d.x
        /\ Greater(Slope(LowerEnd(epsilon, b), UpperEnd(epsilon, a)),
                   Slope(UpperEnd(epsilon, d), LowerEnd(epsilon, c)))

LEMMA ClashStabbable ==
    ASSUME NEW epsilon \in Nat \ {0}, NEW pts, Sorted(pts)
    PROVE  Stabbable(epsilon, pts) <=> ~Clash(epsilon, PointSet(pts))
<1>1. /\ Len(pts) \in Nat /\ \A j \in 1..Len(pts) : pts[j] \in InputPoint
      /\ \A j, k \in 1..Len(pts) : j < k => pts[j].x < pts[k].x
  BY EndsOfPoints DEF Sorted
<1>2. \A j \in 1..Len(pts) : pts[j].x \in Nat
  BY <1>1, EndFacts
<1>3. \A j, k \in 1..Len(pts) : pts[j].x < pts[k].x => j < k
  <2> SUFFICES ASSUME NEW j \in 1..Len(pts), NEW k \in 1..Len(pts), pts[j].x < pts[k].x, ~(j < k)
               PROVE  FALSE
    OBVIOUS
  <2>1. j = k \/ k < j
    BY <1>1
  <2>2. pts[k].x <= pts[j].x
    BY <1>1, <1>2, <2>1
  <2> QED BY <1>2, <2>2
<1>4. ASSUME Clash(epsilon, PointSet(pts)) PROVE ~Stabbable(epsilon, pts)
  <2>1. PICK a \in PointSet(pts), b \in PointSet(pts), c \in PointSet(pts), d \in PointSet(pts) :
            /\ a.x < b.x /\ c.x < d.x
            /\ Greater(Slope(LowerEnd(epsilon, b), UpperEnd(epsilon, a)),
                       Slope(UpperEnd(epsilon, d), LowerEnd(epsilon, c)))
    BY <1>4 DEF Clash
  <2>2. PICK i1 \in 1..Len(pts), i2 \in 1..Len(pts), j1 \in 1..Len(pts), j2 \in 1..Len(pts) :
            a = pts[i1] /\ b = pts[i2] /\ c = pts[j1] /\ d = pts[j2]
    BY DEF PointSet
  <2>3. i1 < i2 /\ j1 < j2
    BY <1>3, <2>1, <2>2
  <2> QED BY <2>1, <2>2, <2>3, NotStabbable
<1>5. ASSUME ~Stabbable(epsilon, pts) PROVE Clash(epsilon, PointSet(pts))
  <2> DEFINE pairs == {p \in (1..Len(pts)) \X (1..Len(pts)) : p[1] < p[2]}
  <2>1. PICK p \in pairs, q \in pairs :
            Greater(Slope(LowerEnd(epsilon, pts[p[2]]), UpperEnd(epsilon, pts[p[1]])),
                    Slope(UpperEnd(epsilon, pts[q[2]]), LowerEnd(epsilon, pts[q[1]])))
    BY <1>5 DEF Stabbable, LowerEnd, UpperEnd
  <2>2. /\ p[1] \in 1..Len(pts) /\ p[2] \in 1..Len(pts) /\ p[1] < p[2]
        /\ q[1] \in 1..Len(pts) /\ q[2] \in 1..Len(pts) /\ q[1] < q[2]
    OBVIOUS
  <2>3. PICK a, b, c, d : a = pts[p[1]] /\ b = pts[p[2]] /\ c = pts[q[1]] /\ d = pts[q[2]]
    OBVIOUS
  <2>4. /\ a \in PointSet(pts) /\ b \in PointSet(pts) /\ c \in PointSet(pts) /\ d \in PointSet(pts)
    BY <2>2, <2>3 DEF PointSet
  <2>5. a.x < b.x /\ c.x < d.x
    BY <1>1, <2>2, <2>3
  <2> QED BY <2>1, <2>3, <2>4, <2>5 DEF Clash
<1> QED
  BY <1>4, <1>5

(* Feeding a point that lies beyond the points of the segment: a point      *)
(* refused starts the next segment.                                        *)
LEMMA NextAdded ==
    ASSUME NEW epsilon \in Nat \ {0},
           NEW m, NEW pts, Models(epsilon, m, pts), Sorted(pts), pts # << >>,
           NEW p, Sorted(Append(pts, p)),
           NEW added, added = add_point(m, p.x, p.y)
    PROVE  /\ added.ok => Models(epsilon, added.model, Append(pts, p))
           /\ ~added.ok => /\ Models(epsilon, add_point(added.model, p.x, p.y).model, <<p>>)
                           /\ ~Stabbable(epsilon, Append(pts, p))
<1>1. Len(pts) = 1 \/ Len(pts) >= 2
  <2>1. PICK n \in Nat : n = Len(pts) /\ n >= 1
    BY DEF Sorted
  <2> QED BY <2>1
<1>2. CASE Len(pts) = 1
  BY <1>2, SecondAdded
<1>3. CASE Len(pts) >= 2
  <2>1. /\ added.ok => Models(epsilon, added.model, Append(pts, p))
        /\ ~added.ok => /\ added.model \in Model(epsilon) /\ added.model.points_in_hull = 0
                        /\ ~Stabbable(epsilon, Append(pts, p))
    BY <1>3, LaterAdded
  <2>2. p \in InputPoint
    BY PointAppended DEF Extends
  <2> QED BY <2>1, <2>2, FirstAdded
<1> QED
  BY <1>1, <1>2, <1>3

\* Points in the order they are fed in: neither x nor y ever decreases.
Ordered(s) ==
    /\ s \in Seq(InputPoint)
    /\ \A j, k \in 1..Len(s) : j <= k => s[j].x <= s[k].x /\ s[j].y <= s[k].y

\* The points at positions a..b that differ in x from the point before.
IsFirst(s, j) == j = 1 \/ s[j].x # s[j - 1].x
Firsts(s, a, b) == {s[j] : j \in {k \in a..b : IsFirst(s, k)}}

SegmentsOf(epsilon) == {get_segment(m) : m \in Model(epsilon)}

\* The points of D that segment m of o is for; and with them the one it refused.
Share(o, D, m) == {p \in D : o[m].first <= p.x /\ (m < Len(o) => p.x < o[m + 1].first)}
UpToNext(o, D, m) == {p \in D : o[m].first <= p.x /\ p.x <= o[m + 1].first}

\* Each segment of o approximates its share of D, and no line its share and the
\* point that comes next: the segments cannot be fewer.
IsSegmentation(epsilon, o, D) ==
    /\ o \in Seq(SegmentsOf(epsilon)) /\ o # << >>
    /\ \A m \in 1..Len(o) : \E p \in D : p.x = o[m].first
    /\ \A p \in D : o[1].first <= p.x
    /\ \A m, n \in 1..Len(o) : m < n => o[m].first < o[n].first
    /\ \A m \in 1..Len(o) :
          /\ \A p \in Share(o, D, m) : Follows(epsilon, get_floating_point_segment(o[m]), p)
          /\ ~Clash(epsilon, Share(o, D, m))
    /\ \A m \in 1..(Len(o) - 1) : Clash(epsilon, UpToNext(o, D, m))

\* A segmentation of D whose last segment is for the points N.
EndsWith(epsilon, o, D, N) == IsSegmentation(epsilon, o, D) /\ Share(o, D, Len(o)) = N

LEMMA ClashGrows ==
    ASSUME NEW epsilon, NEW D, NEW E, D \subseteq E, Clash(epsilon, D)
    PROVE  Clash(epsilon, E)
BY DEF Clash

\* o with its last segment replaced by one that begins where it does.
Replaces(o2, o, seg) ==
    /\ Len(o2) = Len(o) /\ o2[Len(o)] = seg /\ seg.first = o[Len(o)].first
    /\ \A m \in 1..(Len(o) - 1) : o2[m] = o[m]

(* The last segment takes one more point.                                  *)
LEMMA Prolonged ==
    ASSUME NEW epsilon \in Nat \ {0}, NEW o, NEW D \in SUBSET InputPoint, IsSegmentation(epsilon, o, D),
           NEW p \in InputPoint, \A q \in D : q.x < p.x,
           NEW seg, NEW o2 \in Seq(SegmentsOf(epsilon)), Replaces(o2, o, seg),
           NEW N, N = Share(o, D, Len(o)) \cup {p},
           \A q \in N : Follows(epsilon, get_floating_point_segment(seg), q),
           ~Clash(epsilon, N)
    PROVE  EndsWith(epsilon, o2, D \cup {p}, N)
<1>1. PICK n \in Nat : n = Len(o) /\ n >= 1 /\ n \in 1..n /\ Len(o2) = n
  BY DEF IsSegmentation, Replaces
<1>2. /\ \A m \in 1..n : o2[m].first = o[m].first
      /\ \A m \in 1..(n - 1) : o2[m] = o[m]
      /\ o2[n] = seg
  BY <1>1 DEF Replaces
<1>3. /\ \A m \in 1..n : \E q \in D : q.x = o[m].first
      /\ \A q \in D : o[1].first <= q.x
      /\ \A m, k \in 1..n : m < k => o[m].first < o[k].first
  BY <1>1 DEF IsSegmentation
<1>4. p.x \in Nat /\ \A q \in D : q.x \in Nat
  BY EndFacts
<1>5. \A m \in 1..n : o[m].first \in Nat /\ o[m].first < p.x
  BY <1>3, <1>4
<1>6. \A m \in 1..(n - 1) : m \in 1..n /\ m + 1 \in 1..n /\ m < n /\ m # n
  BY <1>1
<1>7. ASSUME NEW m \in 1..(n - 1)
      PROVE  /\ Share(o2, D \cup {p}, m) = Share(o, D, m)
             /\ UpToNext(o2, D \cup {p}, m) = UpToNext(o, D, m)
  <2>1. o2[m].first = o[m].first /\ o2[m + 1].first = o[m + 1].first /\ o[m + 1].first < p.x
        /\ o[m + 1].first \in Nat /\ m < n
    BY <1>2, <1>5, <1>6
  <2>2. ~(p.x < o[m + 1].first) /\ ~(p.x <= o[m + 1].first)
    BY <1>4, <2>1
  <2> QED BY <1>1, <2>1, <2>2 DEF Share, UpToNext
<1>8. Share(o2, D \cup {p}, n) = N
  <2>1. o2[n].first = o[n].first /\ ~(n < n) /\ o[n].first <= p.x
    BY <1>1, <1>2, <1>4, <1>5
  <2> QED BY <1>1, <2>1 DEF Share
<1>9. ASSUME NEW m \in 1..n
      PROVE  /\ \A q \in Share(o2, D \cup {p}, m) : Follows(epsilon, get_floating_point_segment(o2[m]), q)
             /\ ~Clash(epsilon, Share(o2, D \cup {p}, m))
  <2>1. CASE m = n
    BY <1>2, <1>8, <2>1
  <2>2. CASE m \in 1..(n - 1)
    <3>1. /\ \A q \in Share(o, D, m) : Follows(epsilon, get_floating_point_segment(o[m]), q)
          /\ ~Clash(epsilon, Share(o, D, m))
      BY <1>1 DEF IsSegmentation
    <3> QED BY <1>2, <1>7, <2>2, <3>1
  <2>3. m = n \/ m \in 1..(n - 1)
    BY <1>1
  <2> QED BY <2>1, <2>2, <2>3
<1>10. \A m \in 1..(n - 1) : Clash(epsilon, UpToNext(o2, D \cup {p}, m))
  BY <1>1, <1>7 DEF IsSegmentation
<1>11. \A m \in 1..n : \E q \in D \cup {p} : q.x = o2[m].first
  BY <1>2, <1>3
<1>12. \A q \in D \cup {p} : o2[1].first <= q.x
  <2>1. o2[1].first = o[1].first /\ o[1].first <= p.x
    BY <1>1, <1>2, <1>4, <1>5
  <2> QED BY <1>3, <2>1
<1>13. \A m, k \in 1..n : m < k => o2[m].first < o2[k].first
  BY <1>2, <1>3
<1>14. o2 # << >>
  BY <1>1
<1> QED
  BY <1>1, <1>8, <1>9, <1>10, <1>11, <1>12, <1>13, <1>14 DEF IsSegmentation, EndsWith

(* The last segment refuses a point, which begins the next.                *)
LEMMA Opened ==
    ASSUME NEW epsilon \in Nat \ {0}, NEW o, NEW D \in SUBSET InputPoint, IsSegmentation(epsilon, o, D),
           NEW p \in InputPoint, \A q \in D : q.x < p.x,
           NEW seg \in SegmentsOf(epsilon), seg.first = p.x,
           NEW o2, o2 = Append(o, seg),
           Follows(epsilon, get_floating_point_segment(seg), p),
           Clash(epsilon, Share(o, D, Len(o)) \cup {p})
    PROVE  EndsWith(epsilon, o2, D \cup {p}, {p})
<1>1. PICK n \in Nat : n = Len(o) /\ n >= 1 /\ n \in 1..n
  BY DEF IsSegmentation
<1>2. /\ o2 \in Seq(SegmentsOf(epsilon)) /\ Len(o2) = n + 1 /\ o2[n + 1] = seg
      /\ \A m \in 1..n : o2[m] = o[m]
  BY <1>1 DEF IsSegmentation
<1>3. /\ \A m \in 1..n : \E q \in D : q.x = o[m].first
      /\ \A q \in D : o[1].first <= q.x
      /\ \A m, k \in 1..n : m < k => o[m].first < o[k].first
  BY <1>1 DEF IsSegmentation
<1>4. p.x \in Nat /\ \A q \in D : q.x \in Nat
  BY EndFacts
<1>5. \A m \in 1..n : o[m].first \in Nat /\ o[m].first < p.x
  BY <1>3, <1>4
<1>6. \A m \in 1..(n - 1) : m \in 1..n /\ m + 1 \in 1..n /\ m < n
  BY <1>1
<1>7. ASSUME NEW m \in 1..(n - 1)
      PROVE  /\ Share(o2, D \cup {p}, m) = Share(o, D, m)
             /\ UpToNext(o2, D \cup {p}, m) = UpToNext(o, D, m)
  <2>1. o2[m].first = o[m].first /\ o2[m + 1].first = o[m + 1].first /\ o[m + 1].first < p.x
        /\ o[m + 1].first \in Nat /\ m < n /\ m < n + 1
    BY <1>1, <1>2, <1>5, <1>6
  <2>2. ~(p.x < o[m + 1].first) /\ ~(p.x <= o[m + 1].first)
    BY <1>4, <2>1
  <2> QED BY <1>1, <1>2, <2>1, <2>2 DEF Share, UpToNext
<1>8. Share(o2, D \cup {p}, n) = Share(o, D, n)
  <2>1. o2[n].first = o[n].first /\ o2[n + 1].first = p.x /\ n < n + 1 /\ ~(n < n) /\ ~(p.x < p.x)
    BY <1>1, <1>2, <1>4
  <2> QED BY <1>1, <1>2, <2>1 DEF Share
<1>9. UpToNext(o2, D \cup {p}, n) = Share(o, D, n) \cup {p}
  <2>1. o2[n].first = o[n].first /\ o2[n + 1].first = p.x /\ ~(n < n) /\ o[n].first <= p.x /\ p.x <= p.x
        /\ \A q \in D : q.x <= p.x
    BY <1>1, <1>2, <1>4, <1>5
  <2> QED BY <1>1, <2>1 DEF Share, UpToNext
<1>10. Share(o2, D \cup {p}, n + 1) = {p}
  <2>1. o2[n + 1].first = p.x /\ ~(n + 1 < n + 1) /\ p.x <= p.x /\ \A q \in D : ~(p.x <= q.x)
    BY <1>2, <1>4
  <2> QED BY <1>2, <2>1 DEF Share
<1>11. ~Clash(epsilon, {p})
  BY <1>4 DEF Clash
<1>12. ASSUME NEW m \in 1..(n + 1)
       PROVE  /\ \A q \in Share(o2, D \cup {p}, m) : Follows(epsilon, get_floating_point_segment(o2[m]), q)
              /\ ~Clash(epsilon, Share(o2, D \cup {p}, m))
  <2>1. CASE m = n + 1
    BY <1>2, <1>10, <1>11, <2>1
  <2>2. CASE m \in 1..n
    <3>1. /\ \A q \in Share(o, D, m) : Follows(epsilon, get_floating_point_segment(o[m]), q)
          /\ ~Clash(epsilon, Share(o, D, m))
      BY <1>1, <2>2 DEF IsSegmentation
    <3>2. m = n \/ m \in 1..(n - 1)
      BY <2>2
    <3> QED BY <1>2, <1>7, <1>8, <2>2, <3>1, <3>2
  <2>3. m = n + 1 \/ m \in 1..n
    BY <1>1
  <2> QED BY <2>1, <2>2, <2>3
<1>13. \A m \in 1..((n + 1) - 1) : Clash(epsilon, UpToNext(o2, D \cup {p}, m))
  <2>1. \A m \in 1..(n - 1) : Clash(epsilon, UpToNext(o, D, m))
    BY <1>1 DEF IsSegmentation
  <2>2. \A m \in 1..((n + 1) - 1) : m = n \/ m \in 1..(n - 1)
    BY <1>1
  <2> QED BY <1>1, <1>7, <1>9, <2>1, <2>2
<1>14. \A m \in 1..(n + 1) : \E q \in D \cup {p} : q.x = o2[m].first
  <2>1. \A m \in 1..(n + 1) : m \in 1..n \/ m = n + 1
    BY <1>1
  <2> QED BY <1>2, <1>3, <2>1
<1>15. \A q \in D \cup {p} : o2[1].first <= q.x
  <2>1. o2[1].first = o[1].first /\ o[1].first <= p.x
    BY <1>1, <1>2, <1>4, <1>5
  <2> QED BY <1>3, <2>1
<1>16. \A m, k \in 1..(n + 1) : m < k => o2[m].first < o2[k].first
  <2> SUFFICES ASSUME NEW m \in 1..(n + 1), NEW k \in 1..(n + 1), m < k
               PROVE  o2[m].first < o2[k].first
    OBVIOUS
  <2>1. m \in 1..n /\ (k = n + 1 \/ k \in 1..n)
    BY <1>1
  <2> QED BY <1>2, <1>3, <1>5, <2>1
<1>17. o2 # << >>
  BY <1>1, <1>2
<1> QED
  BY <1>2, <1>10, <1>12, <1>13, <1>14, <1>15, <1>16, <1>17 DEF IsSegmentation, EndsWith

Accs(epsilon) == [opt : Model(epsilon), x : Nat, out : Seq(SegmentsOf(epsilon))]

\* The segments, the one of the points still being fed included.
Outcome(acc) == Append(acc.out, get_segment(acc.opt))

\* What is known of the loop of make_segmentation once it has fed i points of s.
Feeds(epsilon, s, i, acc) ==
    /\ acc \in Accs(epsilon) /\ acc.x = s[i].x
    /\ IsSegmentation(epsilon, Outcome(acc), Firsts(s, 1, i))
    /\ \E pts : /\ Sorted(pts) /\ pts # << >> /\ Models(epsilon, acc.opt, pts)
                /\ pts[Len(pts)].x = s[i].x /\ pts[Len(pts)].y <= s[i].y
                /\ Share(Outcome(acc), Firsts(s, 1, i), Len(Outcome(acc))) = PointSet(pts)

LEMMA OrderedFacts ==
    ASSUME NEW s, Ordered(s)
    PROVE  /\ Len(s) \in Nat
           /\ \A j \in 1..Len(s) : s[j] \in InputPoint /\ s[j].x \in Nat /\ s[j].y \in Nat
           /\ \A j, k \in 1..Len(s) : j <= k => s[j].x <= s[k].x /\ s[j].y <= s[k].y
<1>1. Len(s) \in Nat /\ \A j \in 1..Len(s) : s[j] \in InputPoint
  BY DEF Ordered
<1> QED
  BY <1>1, EndFacts DEF Ordered

(* The points of a prefix.                                                 *)
LEMMA FirstsOfPrefix ==
    ASSUME NEW s, Ordered(s), NEW i \in 1..Len(s)
    PROVE  /\ Firsts(s, 1, i) \in SUBSET InputPoint
           /\ \A q \in Firsts(s, 1, i) : q.x <= s[i].x
           /\ Firsts(s, 1, 1) = {s[1]}
           /\ i + 1 \in 1..Len(s) =>
                 Firsts(s, 1, i + 1) = IF s[i + 1].x # s[i].x THEN Firsts(s, 1, i) \cup {s[i + 1]}
                                       ELSE Firsts(s, 1, i)
<1>1. i \in Nat /\ i >= 1 /\ \A j \in 1..i : j \in 1..Len(s) /\ j <= i
  BY OrderedFacts
<1>2. Firsts(s, 1, i) \in SUBSET InputPoint /\ \A q \in Firsts(s, 1, i) : q.x <= s[i].x
  BY <1>1, OrderedFacts DEF Firsts
<1>3. Firsts(s, 1, 1) = {s[1]}
  BY DEF Firsts, IsFirst
<1>4. IsFirst(s, i + 1) <=> s[i + 1].x # s[i].x
  <2>1. (i + 1) - 1 = i /\ i + 1 # 1
    BY <1>1
  <2> QED BY <2>1 DEF IsFirst
<1>5. \A k \in 1..(i + 1) : k \in 1..i \/ k = i + 1
  BY <1>1
<1>6. i + 1 \in 1..(i + 1) /\ \A k \in 1..i : k \in 1..(i + 1)
  BY <1>1
<1> QED
  BY <1>2, <1>3, <1>4, <1>5, <1>6 DEF Firsts

LEMMA SegmentFirst ==
    ASSUME NEW epsilon, NEW m \in Model(epsilon)
    PROVE  get_segment(m) \in SegmentsOf(epsilon) /\ get_segment(m).first = m.first_x
BY DEF SegmentsOf, get_segment, CanonicalSegment

LEMMA PointSetAppend ==
    ASSUME NEW pts \in Seq(InputPoint), NEW p \in InputPoint
    PROVE  PointSet(Append(pts, p)) = PointSet(pts) \cup {p}
<1>1. PICK ps, n : ps = Append(pts, p) /\ n = Len(pts)
  OBVIOUS
<1>2. n \in Nat /\ Len(ps) = n + 1 /\ ps[n + 1] = p /\ \A j \in 1..n : ps[j] = pts[j]
  BY <1>1
<1>3. /\ \A j \in 1..(n + 1) : j \in 1..n \/ j = n + 1
      /\ n + 1 \in 1..(n + 1) /\ \A j \in 1..n : j \in 1..(n + 1)
  BY <1>2
<1> QED
  BY <1>1, <1>2, <1>3 DEF PointSet

LEMMA FirstFed ==
    ASSUME NEW epsilon \in Nat \ {0}, NEW s, Ordered(s), s # << >>
    PROVE  Feeds(epsilon, s, 1, Started(epsilon, s[1]))
<1>1. 1 \in 1..Len(s)
  BY OrderedFacts DEF Ordered
<1>2. PICK p \in InputPoint : p = s[1]
  BY <1>1, OrderedFacts
<1>3. PICK m : m = add_point(NewModel(epsilon), p.x, p.y).model
  OBVIOUS
<1>4. Models(epsilon, m, <<p>>) /\ m \in Model(epsilon)
  <2>1. PICK new : new = NewModel(epsilon) /\ new \in Model(epsilon) /\ new.points_in_hull = 0
    BY NewModelIsModel
  <2>2. m = add_point(new, p.x, p.y).model
    BY <1>3, <2>1
  <2>3. Models(epsilon, m, <<p>>)
    BY <2>1, <2>2, FirstAdded
  <2> QED BY <2>3 DEF Models
<1>5. PICK acc : acc = Started(epsilon, p)
  OBVIOUS
<1>6. acc = [opt |-> m, x |-> p.x, out |-> << >>]
  BY <1>3, <1>5 DEF Started
<1>7. PICK o, seg : o = Outcome(acc) /\ seg = get_segment(m)
  OBVIOUS
<1>8. seg \in SegmentsOf(epsilon) /\ seg.first = p.x
  <2>1. m.first_x = p.x
    BY <1>4 DEF Models
  <2> QED BY <1>4, <1>7, <2>1, SegmentFirst
<1>9. o = <<seg>> /\ o \in Seq(SegmentsOf(epsilon)) /\ Len(o) = 1 /\ o[1] = seg /\ o # << >>
  <2>1. o = Append(<< >>, seg)
    BY <1>6, <1>7 DEF Outcome
  <2> QED BY <1>8, <2>1
<1>10. Sorted(<<p>>) /\ <<p>> # << >> /\ Len(<<p>>) = 1 /\ <<p>>[1] = p /\ 1 \in 1..Len(<<p>>)
  BY OnePointSorted
<1>11. Follows(epsilon, get_floating_point_segment(seg), p)
  BY <1>4, <1>7, <1>10, SegmentFollows
<1>12. Firsts(s, 1, 1) = {p}
  BY <1>1, <1>2, FirstsOfPrefix
<1>13. p.x \in Nat /\ p.y \in Nat
  BY EndFacts
<1>14. Share(o, {p}, 1) = {p}
  BY <1>8, <1>9, <1>13 DEF Share
<1>15. PointSet(<<p>>) = {p}
  BY <1>10 DEF PointSet
<1>16. ~Clash(epsilon, {p})
  BY <1>13 DEF Clash
<1>17. IsSegmentation(epsilon, o, {p})
  <2>1. \A i \in 1..Len(o) : i = 1
    BY <1>9
  <2>2. \A i \in 1..(Len(o) - 1) : Clash(epsilon, UpToNext(o, {p}, i))
    BY <1>9
  <2>3. \A i, j \in 1..Len(o) : i < j => o[i].first < o[j].first
    BY <1>9
  <2>4. \A i \in 1..Len(o) :
          /\ \A q \in Share(o, {p}, i) : Follows(epsilon, get_floating_point_segment(o[i]), q)
          /\ ~Clash(epsilon, Share(o, {p}, i))
    BY <1>9, <1>11, <1>14, <1>16, <2>1
  <2>5. /\ \A i \in 1..Len(o) : \E q \in {p} : q.x = o[i].first
        /\ \A q \in {p} : o[1].first <= q.x
    BY <1>8, <1>9, <1>13, <2>1
  <2> QED BY <1>9, <2>2, <2>3, <2>4, <2>5 DEF IsSegmentation
<1>18. acc \in Accs(epsilon) /\ acc.x = p.x /\ acc.opt = m
  BY <1>4, <1>6, <1>13 DEF Accs
<1>19. p.y <= p.y
  BY <1>13
<1>20. \E pts : /\ Sorted(pts) /\ pts # << >> /\ Models(epsilon, acc.opt, pts)
                /\ pts[Len(pts)].x = p.x /\ pts[Len(pts)].y <= p.y
                /\ Share(Outcome(acc), {p}, Len(Outcome(acc))) = PointSet(pts)
  BY <1>4, <1>7, <1>9, <1>10, <1>14, <1>15, <1>18, <1>19
<1> QED
  BY <1>2, <1>5, <1>7, <1>12, <1>17, <1>18, <1>20 DEF Feeds

LEMMA NextFed ==
    ASSUME NEW epsilon \in Nat \ {0}, NEW s, Ordered(s), NEW i \in 1..(Len(s) - 1),
           NEW acc, Feeds(epsilon, s, i, acc)
    PROVE  Feeds(epsilon, s, i + 1, Fed(acc, s[i + 1]))
<1>1. i \in 1..Len(s) /\ i + 1 \in 1..Len(s) /\ i <= i + 1
  BY OrderedFacts
<1>2. PICK p \in InputPoint : p = s[i + 1]
  BY <1>1, OrderedFacts
<1>3. /\ s[i].x \in Nat /\ s[i].y \in Nat /\ p.x \in Nat /\ p.y \in Nat
      /\ s[i].x <= p.x /\ s[i].y <= p.y
  BY <1>1, <1>2, OrderedFacts
<1>4. PICK D \in SUBSET InputPoint : D = Firsts(s, 1, i)
  BY <1>1, FirstsOfPrefix
<1>5. PICK o : o = Outcome(acc)
  OBVIOUS
<1>6. /\ acc \in Accs(epsilon) /\ acc.x = s[i].x
      /\ IsSegmentation(epsilon, o, D)
  BY <1>4, <1>5 DEF Feeds
<1>7. PICK pts : /\ Sorted(pts) /\ pts # << >> /\ Models(epsilon, acc.opt, pts)
                 /\ pts[Len(pts)].x = s[i].x /\ pts[Len(pts)].y <= s[i].y
                 /\ Share(o, D, Len(o)) = PointSet(pts)
  BY <1>4, <1>5 DEF Feeds
<1>8. /\ acc.opt \in Model(epsilon) /\ acc.out \in Seq(SegmentsOf(epsilon))
      /\ acc = [opt |-> acc.opt, x |-> acc.x, out |-> acc.out]
      /\ pts \in Seq(InputPoint)
  BY <1>6, <1>7 DEF Accs, Sorted
<1>9. pts[Len(pts)].y \in Nat /\ pts[Len(pts)].y <= p.y
  <2>1. Len(pts) \in 1..Len(pts)
    BY <1>7, <1>8
  <2>2. pts[Len(pts)].y \in Nat
    BY <1>8, <2>1, EndFacts
  <2> QED BY <1>3, <1>7, <2>2
<1>10. PICK tried : tried = add_point(acc.opt, p.x, p.y)
  OBVIOUS
<1>11. PICK next : next = Fed(acc, p)
  OBVIOUS
<1>12. CASE p.x = s[i].x
  <2>1. next = acc
    BY <1>6, <1>11, <1>12 DEF Fed
  <2>2. Firsts(s, 1, i + 1) = D
    BY <1>1, <1>2, <1>4, <1>12, FirstsOfPrefix
  <2> QED BY <1>2, <1>3, <1>4, <1>5, <1>6, <1>7, <1>9, <1>11, <1>12, <2>1, <2>2 DEF Feeds
<1>13. CASE p.x # s[i].x
  <2>1. s[i].x < p.x /\ pts[Len(pts)].x < p.x
    BY <1>3, <1>7, <1>13
  <2>2. Firsts(s, 1, i + 1) = D \cup {p}
    BY <1>1, <1>2, <1>4, <1>13, FirstsOfPrefix
  <2>3. \A q \in D : q.x < p.x
    <3>1. \A q \in D : q.x <= s[i].x /\ q.x \in Nat
      BY <1>1, <1>4, FirstsOfPrefix, EndFacts
    <3> QED BY <1>3, <2>1, <3>1
  <2>4. PICK ps : ps = Append(pts, p)
    OBVIOUS
  <2>5. /\ Sorted(ps) /\ ps # << >> /\ ps[Len(ps)] = p /\ PointSet(ps) = PointSet(pts) \cup {p}
    <3>1. Sorted(ps)
      BY <1>7, <1>9, <2>1, <2>4, NextAppended
    <3>2. PointSet(ps) = PointSet(pts) \cup {p}
      BY <1>8, <2>4, PointSetAppend
    <3> QED BY <1>8, <2>4, <3>1, <3>2
  <2>6. /\ tried.ok => Models(epsilon, tried.model, ps)
        /\ ~tried.ok => /\ Models(epsilon, add_point(tried.model, p.x, p.y).model, <<p>>)
                        /\ ~Stabbable(epsilon, ps)
    BY <1>7, <1>10, <2>4, <2>5, NextAdded
  <2>7. acc.out \in Seq(SegmentsOf(epsilon)) /\ o = Append(acc.out, get_segment(acc.opt))
        /\ get_segment(acc.opt) \in SegmentsOf(epsilon) /\ get_segment(acc.opt).first = acc.opt.first_x
    BY <1>5, <1>8, SegmentFirst DEF Outcome
  <2>8. o \in Seq(SegmentsOf(epsilon)) /\ Len(o) = Len(acc.out) + 1 /\ Len(acc.out) \in Nat
        /\ o[Len(o)] = get_segment(acc.opt) /\ \A m \in 1..Len(acc.out) : o[m] = acc.out[m]
    BY <2>7
  <2>9. CASE tried.ok
    <3>1. PICK m : m = tried.model
      OBVIOUS
    <3>2. Models(epsilon, m, ps) /\ m \in Model(epsilon)
      BY <2>6, <2>9, <3>1 DEF Models
    <3>3. next = [opt |-> m, x |-> p.x, out |-> acc.out]
      <4>1. next = [acc EXCEPT !.opt = m, !.x = p.x]
        BY <1>6, <1>10, <1>11, <1>13, <2>9, <3>1 DEF Fed
      <4> QED BY <1>8, <4>1
    <3>4. PICK seg, o2 : seg = get_segment(m) /\ o2 = Outcome(next)
      OBVIOUS
    <3>5. o2 = Append(acc.out, seg) /\ seg \in SegmentsOf(epsilon) /\ seg.first = m.first_x
      BY <3>2, <3>3, <3>4, SegmentFirst DEF Outcome
    <3>6. o2 \in Seq(SegmentsOf(epsilon)) /\ Len(o2) = Len(acc.out) + 1
          /\ o2[Len(o2)] = seg /\ \A j \in 1..Len(acc.out) : o2[j] = acc.out[j]
      BY <2>7, <3>5
    <3>7. m.first_x = acc.opt.first_x
      <4>1. m.first_x = ps[1].x /\ acc.opt.first_x = pts[1].x
        BY <1>7, <3>2 DEF Models
      <4>2. ps[1] = pts[1]
        <5>1. 1 \in 1..Len(pts)
          BY <1>7, <1>8
        <5> QED BY <1>8, <2>4, <5>1
      <4> QED BY <4>1, <4>2
    <3>8. Replaces(o2, o, seg)
      <4>1. (Len(acc.out) + 1) - 1 = Len(acc.out)
        BY <2>8
      <4> QED BY <2>7, <2>8, <3>5, <3>6, <3>7, <4>1 DEF Replaces
    <3>9. \A q \in PointSet(ps) : Follows(epsilon, get_floating_point_segment(seg), q)
      <4>1. \A j \in 1..Len(ps) : Follows(epsilon, get_floating_point_segment(seg), ps[j])
        BY <2>5, <3>2, <3>4, SegmentFollows
      <4> QED BY <4>1 DEF PointSet
    <3>10. ~Clash(epsilon, PointSet(ps))
      BY <2>5, <3>2, AcceptedStabbable, ClashStabbable
    <3>11. PICK N : N = PointSet(ps)
      OBVIOUS
    <3>12. N = Share(o, D, Len(o)) \cup {p}
      BY <1>7, <2>5, <3>11
    <3>13. IsSegmentation(epsilon, o2, D \cup {p}) /\ Share(o2, D \cup {p}, Len(o2)) = N
      <4>1. EndsWith(epsilon, o2, D \cup {p}, N)
        BY <1>6, <2>3, <3>6, <3>8, <3>9, <3>10, <3>11, <3>12, Prolonged
      <4> QED BY <4>1 DEF EndsWith
    <3>14. next \in Accs(epsilon) /\ next.x = p.x /\ next.opt = m
      BY <1>3, <1>8, <3>2, <3>3 DEF Accs
    <3>15. p.y <= p.y
      BY <1>3
    <3>16. \E ss : /\ Sorted(ss) /\ ss # << >> /\ Models(epsilon, next.opt, ss)
                   /\ ss[Len(ss)].x = p.x /\ ss[Len(ss)].y <= p.y
                   /\ Share(Outcome(next), D \cup {p}, Len(Outcome(next))) = PointSet(ss)
      BY <2>5, <3>2, <3>4, <3>11, <3>13, <3>14, <3>15
    <3> QED BY <1>2, <1>11, <2>2, <3>4, <3>13, <3>14, <3>16 DEF Feeds
  <2>10. CASE ~tried.ok
    <3>1. PICK m : m = add_point(tried.model, p.x, p.y).model
      OBVIOUS
    <3>2. Models(epsilon, m, <<p>>) /\ m \in Model(epsilon) /\ ~Stabbable(epsilon, ps)
      BY <2>6, <2>10, <3>1 DEF Models
    <3>3. next = [opt |-> m, x |-> p.x, out |-> o]
      BY <1>5, <1>6, <1>10, <1>11, <1>13, <2>10, <3>1 DEF Fed, Outcome
    <3>4. PICK seg, o2 : seg = get_segment(m) /\ o2 = Outcome(next)
      OBVIOUS
    <3>5. o2 = Append(o, seg) /\ seg \in SegmentsOf(epsilon) /\ seg.first = p.x
      <4>1. m.first_x = p.x
        BY <3>2 DEF Models
      <4> QED BY <3>2, <3>3, <3>4, <4>1, SegmentFirst DEF Outcome
    <3>6. Sorted(<<p>>) /\ <<p>> # << >> /\ Len(<<p>>) = 1 /\ <<p>>[1] = p /\ 1 \in 1..Len(<<p>>)
      BY OnePointSorted
    <3>7. Follows(epsilon, get_floating_point_segment(seg), p)
      BY <3>2, <3>4, <3>6, SegmentFollows
    <3>8. Clash(epsilon, Share(o, D, Len(o)) \cup {p})
      BY <1>7, <2>5, <3>2, ClashStabbable
    <3>9. IsSegmentation(epsilon, o2, D \cup {p}) /\ Share(o2, D \cup {p}, Len(o2)) = {p}
      <4>1. EndsWith(epsilon, o2, D \cup {p}, {p})
        BY <1>6, <2>3, <3>5, <3>7, <3>8, Opened
      <4> QED BY <4>1 DEF EndsWith
    <3>10. PointSet(<<p>>) = {p}
      BY <3>6 DEF PointSet
    <3>11. next \in Accs(epsilon) /\ next.x = p.x /\ next.opt = m
      BY <1>3, <2>8, <3>2, <3>3 DEF Accs
    <3>12. p.y <= p.y
      BY <1>3
    <3>13. \E ss : /\ Sorted(ss) /\ ss # << >> /\ Models(epsilon, next.opt, ss)
                   /\ ss[Len(ss)].x = p.x /\ ss[Len(ss)].y <= p.y
                   /\ Share(Outcome(next), D \cup {p}, Len(Outcome(next))) = PointSet(ss)
      BY <3>2, <3>4, <3>6, <3>9, <3>10, <3>11, <3>12
    <3> QED BY <1>2, <1>11, <2>2, <3>4, <3>9, <3>11, <3>13 DEF Feeds
  <2> QED BY <2>9, <2>10
<1> QED
  BY <1>12, <1>13

(* The recursive function of make_segmentation exists.                     *)
IsFedThrough(f, epsilon, s) ==
    f = [i \in 1..Len(s) |-> IF i = 1 THEN Started(epsilon, s[1]) ELSE Fed(f[i - 1], s[i])]

LEMMA FedExists ==
    ASSUME NEW epsilon \in Nat \ {0}, NEW s, Ordered(s), s # << >>
    PROVE  \E f : IsFedThrough(f, epsilon, s)
<1> DEFINE N == Len(s)
           Inv == [n \in 1..N |-> {acc \in Accs(epsilon) : Feeds(epsilon, s, n, acc)}]
           G == [n \in 1..N |-> [acc \in Accs(epsilon) |-> Fed(acc, s[n + 1])]]
           start == Started(epsilon, s[1])
<1>1. N \in Nat /\ 1 \in 1..N
  BY OrderedFacts DEF Ordered
<1>2. start \in Inv[1]
  <2>1. Feeds(epsilon, s, 1, start)
    BY FirstFed
  <2>2. start \in Accs(epsilon)
    BY <2>1 DEF Feeds
  <2> QED BY <1>1, <2>1, <2>2
<1>3. ASSUME NEW n \in 1..(N - 1), NEW acc \in Inv[n] PROVE G[n][acc] \in Inv[n + 1]
  <2>1. n \in 1..N /\ n + 1 \in 1..N
    BY <1>1
  <2>2. acc \in Accs(epsilon) /\ Feeds(epsilon, s, n, acc)
    BY <1>3, <2>1
  <2>3. G[n][acc] = Fed(acc, s[n + 1])
    BY <2>1, <2>2
  <2>4. Feeds(epsilon, s, n + 1, Fed(acc, s[n + 1]))
    BY <1>3, <2>2, NextFed
  <2>5. Fed(acc, s[n + 1]) \in Accs(epsilon)
    BY <2>4 DEF Feeds
  <2> QED BY <2>1, <2>3, <2>4, <2>5
<1> HIDE DEF N, Inv, G, start
<1>4. PICK f : /\ f = [n \in 1..N |-> IF n = 1 THEN start ELSE G[n - 1][f[n - 1]]]
               /\ \A n \in 1..N : f[n] \in Inv[n]
  <2>1. PICK f : IteratesWithin(f, N, Inv, start, G)
    BY <1>1, <1>2, <1>3, InvariantRecursion
  <2> QED BY <2>1 DEF IteratesWithin
<1>5. ASSUME NEW n \in 1..N
      PROVE  f[n] = IF n = 1 THEN start ELSE Fed(f[n - 1], s[n])
  <2>1. f[n] = IF n = 1 THEN start ELSE G[n - 1][f[n - 1]]
    BY <1>4
  <2>2. CASE n = 1
    BY <2>1, <2>2
  <2>3. CASE n # 1
    <3>1. n - 1 \in 1..N /\ (n - 1) + 1 = n
      BY <1>1, <2>3
    <3>2. f[n - 1] \in Accs(epsilon)
      BY <1>4, <3>1 DEF Inv
    <3>3. G[n - 1][f[n - 1]] = Fed(f[n - 1], s[n])
      BY <3>1, <3>2 DEF G
    <3> QED BY <2>1, <2>3, <3>3
  <2> QED BY <2>2, <2>3
<1>6. f = [n \in 1..N |-> f[n]]
  BY <1>4
<1>7. f = [n \in 1..N |-> IF n = 1 THEN start ELSE Fed(f[n - 1], s[n])]
  BY <1>5, <1>6
<1> QED
  BY <1>7 DEF N, start, IsFedThrough

(* make_segmentation returns a segmentation of its points.                 *)
LEMMA MakeSegmentation ==
    ASSUME NEW epsilon \in Nat \ {0}, NEW s, Ordered(s), s # << >>
    PROVE  IsSegmentation(epsilon, make_segmentation(epsilon, s), Firsts(s, 1, Len(s)))
<1> DEFINE fed == CHOOSE f : f = [i \in 1..Len(s) |->
                      IF i = 1 THEN Started(epsilon, s[1]) ELSE Fed(f[i - 1], s[i])]
<1>1. make_segmentation(epsilon, s) = Append(fed[Len(s)].out, get_segment(fed[Len(s)].opt))
  BY DEF make_segmentation
<1>2. IsFedThrough(fed, epsilon, s)
  <2>1. \E f : f = [i \in 1..Len(s) |->
                      IF i = 1 THEN Started(epsilon, s[1]) ELSE Fed(f[i - 1], s[i])]
    BY FedExists, Zenon DEF IsFedThrough
  <2>2. fed = [i \in 1..Len(s) |->
                  IF i = 1 THEN Started(epsilon, s[1]) ELSE Fed(fed[i - 1], s[i])]
    BY <2>1, Zenon
  <2> QED BY <2>2, Zenon DEF IsFedThrough
<1> HIDE DEF fed
<1>3. \A i \in 1..Len(s) : fed[i] = IF i = 1 THEN Started(epsilon, s[1]) ELSE Fed(fed[i - 1], s[i])
  BY <1>2 DEF IsFedThrough
<1>4. PICK n \in Nat : n = Len(s) /\ n >= 1
  BY OrderedFacts DEF Ordered
<1> DEFINE S == {i \in 1..n : Feeds(epsilon, s, i, fed[i])}
<1>5. 1 \in S
  BY <1>3, <1>4, FirstFed
<1>6. ASSUME NEW i \in 1..(n - 1), i \in S PROVE i + 1 \in S
  <2>1. i + 1 \in 1..n /\ (i + 1) - 1 = i /\ i + 1 # 1
    BY <1>4
  <2>2. Feeds(epsilon, s, i + 1, Fed(fed[i], s[i + 1]))
    BY <1>4, <1>6, NextFed
  <2>3. fed[i + 1] = Fed(fed[i], s[i + 1])
    BY <1>3, <1>4, <2>1
  <2> QED BY <2>1, <2>2, <2>3
<1>7. n \in S
  <2> HIDE DEF S
  <2>1. PICK a \in Int, b \in Int : a = 1 /\ b = n
    OBVIOUS
  <2>2. a \in S /\ \A i \in a..(b - 1) : i \in S => i + 1 \in S
    BY <1>5, <1>6, <2>1
  <2>3. \A i \in a..b : i \in S
    BY <2>2, IntervalInduction
  <2> QED BY <1>4, <2>1, <2>3
<1>8. IsSegmentation(epsilon, Outcome(fed[n]), Firsts(s, 1, n))
  BY <1>7 DEF Feeds
<1> QED
  BY <1>1, <1>4, <1>8 DEF Outcome

-----------------------------------------------------------------------------
(* Segmentations of successive parts, joined.                              *)

LEMMA SegmentationFacts ==
    ASSUME NEW epsilon, NEW o, NEW D \in SUBSET InputPoint, IsSegmentation(epsilon, o, D)
    PROVE  /\ Len(o) \in Nat /\ Len(o) >= 1 /\ 1 \in 1..Len(o) /\ Len(o) \in 1..Len(o)
           /\ \A m \in 1..Len(o) : o[m].first \in Nat
           /\ \A p \in D : p.x \in Nat
           /\ D # {}
<1>1. Len(o) \in Nat /\ Len(o) >= 1
  BY DEF IsSegmentation
<1>2. \A p \in D : p.x \in Nat
  BY EndFacts
<1>3. \A m \in 1..Len(o) : \E p \in D : p.x = o[m].first
  BY DEF IsSegmentation
<1> QED
  BY <1>1, <1>2, <1>3

\* Segment i is the last to begin at or below the x of p, and approximates p.
Covers(epsilon, o, i, p) ==
    /\ o[i].first <= p.x
    /\ i < Len(o) => o[i + 1].first > p.x
    /\ Follows(epsilon, get_floating_point_segment(o[i]), p)

LEMMA SegmentationCovers ==
    ASSUME NEW epsilon, NEW o, NEW D \in SUBSET InputPoint, IsSegmentation(epsilon, o, D),
           NEW p \in D
    PROVE  \E m \in 1..Len(o) : Covers(epsilon, o, m, p)
<1> DEFINE T == {m \in 1..Len(o) : o[m].first <= p.x}
<1>1. /\ Len(o) \in Nat /\ 1 \in 1..Len(o)
      /\ \A m \in 1..Len(o) : o[m].first \in Nat
      /\ p.x \in Nat
  BY SegmentationFacts
<1>2. T \in SUBSET Int /\ 1 \in T
  BY <1>1 DEF IsSegmentation
<1>3. PICK m : m \in T /\ \A k \in T : k <= m
  <2>1. PICK b \in Int : b = Len(o) /\ \A k \in T : k <= b
    BY <1>1
  <2> HIDE DEF T
  <2>2. T # {}
    BY <1>2
  <2>3. Max(T) \in T /\ \A k \in T : k <= Max(T)
    BY <1>2, <2>1, <2>2, GreatestElement
  <2> QED BY <2>3
<1>4. m \in 1..Len(o) /\ o[m].first <= p.x
  BY <1>3
<1>5. m < Len(o) => p.x < o[m + 1].first
  <2> SUFFICES ASSUME m < Len(o) PROVE p.x < o[m + 1].first
    OBVIOUS
  <2>1. m + 1 \in 1..Len(o) /\ ~(m + 1 <= m)
    BY <1>1, <1>4
  <2>2. m + 1 \notin T
    BY <1>3, <2>1
  <2> QED BY <1>1, <2>1, <2>2
<1>6. p \in Share(o, D, m)
  BY <1>4, <1>5 DEF Share
<1>7. Follows(epsilon, get_floating_point_segment(o[m]), p)
  BY <1>4, <1>6 DEF IsSegmentation
<1>8. m < Len(o) => o[m + 1].first > p.x
  <2> SUFFICES ASSUME m < Len(o) PROVE o[m + 1].first > p.x
    OBVIOUS
  <2>1. m + 1 \in 1..Len(o)
    BY <1>1, <1>4
  <2> QED BY <1>1, <1>5, <2>1
<1> QED
  BY <1>4, <1>7, <1>8 DEF Covers

(* Of two segmentations, one of all the points and one of some of them, the *)
(* first has a segment that begins where, or before, the next of the second *)
(* does: two successive segments of the second leave no line for one.      *)
LEMMA BeginsBetween ==
    ASSUME NEW epsilon, NEW F \in SUBSET InputPoint, NEW g, IsSegmentation(epsilon, g, F),
           NEW E \in SUBSET F, NEW o, IsSegmentation(epsilon, o, E),
           NEW m \in 1..(Len(o) - 1), NEW k \in 1..Len(g), g[k].first <= o[m].first
    PROVE  k + 1 \in 1..Len(g) /\ g[k + 1].first <= o[m + 1].first
<1>1. E \in SUBSET InputPoint
  OBVIOUS
<1>2. /\ Len(o) \in Nat /\ m \in 1..Len(o) /\ m + 1 \in 1..Len(o)
      /\ o[m].first \in Nat /\ o[m + 1].first \in Nat
  BY <1>1, SegmentationFacts
<1>3. Len(g) \in Nat /\ \A j \in 1..Len(g) : g[j].first \in Nat
  BY SegmentationFacts
<1>4. \A p \in F : p.x \in Nat
  BY EndFacts
<1>5. ASSUME ~(k + 1 \in 1..Len(g) /\ g[k + 1].first <= o[m + 1].first) PROVE FALSE
  <2>1. k < Len(g) => o[m + 1].first < g[k + 1].first
    BY <1>2, <1>3, <1>5
  <2>2. UpToNext(o, E, m) \subseteq Share(g, F, k)
    <3> SUFFICES ASSUME NEW p \in UpToNext(o, E, m) PROVE p \in Share(g, F, k)
      OBVIOUS
    <3>1. p \in F /\ p.x \in Nat /\ o[m].first <= p.x /\ p.x <= o[m + 1].first
      BY <1>4 DEF UpToNext
    <3>2. g[k].first <= p.x
      BY <1>2, <1>3, <3>1
    <3>3. k < Len(g) => p.x < g[k + 1].first
      <4> SUFFICES ASSUME k < Len(g) PROVE p.x < g[k + 1].first
        OBVIOUS
      <4>1. g[k + 1].first \in Nat
        BY <1>3
      <4> QED BY <1>2, <2>1, <3>1, <4>1
    <3> QED BY <3>1, <3>2, <3>3 DEF Share
  <2>3. Clash(epsilon, UpToNext(o, E, m))
    BY DEF IsSegmentation
  <2>4. Clash(epsilon, Share(g, F, k))
    BY <2>2, <2>3, ClashGrows
  <2> QED BY <2>4 DEF IsSegmentation
<1> QED
  BY <1>5

LEMMA BeginsApart ==
    ASSUME NEW epsilon, NEW F \in SUBSET InputPoint, NEW g, IsSegmentation(epsilon, g, F),
           NEW E \in SUBSET F, NEW o, IsSegmentation(epsilon, o, E),
           NEW k \in 1..Len(g), g[k].first <= o[1].first
    PROVE  k + (Len(o) - 1) \in 1..Len(g) /\ g[k + (Len(o) - 1)].first <= o[Len(o)].first
<1>1. PICK n \in Nat : n = Len(o) /\ n >= 1
  BY SegmentationFacts
<1>2. Len(g) \in Nat
  BY SegmentationFacts
<1> DEFINE S == {m \in 1..n : k + (m - 1) \in 1..Len(g) /\ g[k + (m - 1)].first <= o[m].first}
<1>3. 1 \in S
  <2>1. k + (1 - 1) = k /\ 1 \in 1..n
    BY <1>1
  <2> QED BY <2>1
<1>4. ASSUME NEW m \in 1..(n - 1), m \in S PROVE m + 1 \in S
  <2>1. PICK j \in 1..Len(g) : j = k + (m - 1) /\ g[j].first <= o[m].first
    BY <1>4
  <2>2. j + 1 \in 1..Len(g) /\ g[j + 1].first <= o[m + 1].first
    BY <1>1, <1>4, <2>1, BeginsBetween
  <2>3. j + 1 = k + ((m + 1) - 1) /\ m + 1 \in 1..n
    BY <2>1
  <2> QED BY <2>2, <2>3
<1>5. n \in S
  <2> HIDE DEF S
  <2>1. PICK a \in Int, b \in Int : a = 1 /\ b = n
    OBVIOUS
  <2>2. a \in S /\ \A i \in a..(b - 1) : i \in S => i + 1 \in S
    BY <1>3, <1>4, <2>1
  <2>3. \A i \in a..b : i \in S
    BY <2>2, IntervalInduction
  <2> QED BY <1>1, <2>1, <2>3
<1> QED
  BY <1>1, <1>5

\* The segments of the first c parts, whose points are D, against a segmentation g of
\* all the points.
Joined(epsilon, o, D, g, c) ==
    /\ o \in Seq(SegmentsOf(epsilon))
    /\ \A m \in 1..Len(o) : \E p \in D : p.x = o[m].first
    /\ \A m, n \in 1..Len(o) : m < n => o[m].first < o[n].first
    /\ \A p \in D : \E i \in 1..Len(o) : Covers(epsilon, o, i, p)
    /\ o # << >> => \E k \in 1..Len(g) : /\ g[k].first <= o[Len(o)].first
                                         /\ Len(o) <= k + c - 1

LEMMA NothingJoined ==
    ASSUME NEW epsilon, NEW g
    PROVE  Joined(epsilon, << >>, {}, g, 0)
<1>1. << >> \in Seq(SegmentsOf(epsilon)) /\ Len(<< >>) = 0 /\ 1..Len(<< >>) = {}
  OBVIOUS
<1> QED
  BY <1>1 DEF Joined

LEMMA EmptyJoined ==
    ASSUME NEW epsilon, NEW o, NEW D, NEW g, NEW c \in Nat, Joined(epsilon, o, D, g, c)
    PROVE  Joined(epsilon, o, D, g, c + 1)
<1>1. o \in Seq(SegmentsOf(epsilon)) /\ Len(o) \in Nat
  BY DEF Joined
<1>2. ASSUME o # << >>
      PROVE  \E k \in 1..Len(g) : g[k].first <= o[Len(o)].first /\ Len(o) <= k + (c + 1) - 1
  <2>1. PICK k \in 1..Len(g) : g[k].first <= o[Len(o)].first /\ Len(o) <= k + c - 1
    BY <1>2 DEF Joined
  <2>2. Len(o) <= k + (c + 1) - 1
    BY <1>1, <2>1
  <2> QED BY <2>1, <2>2
<1> QED
  BY <1>2 DEF Joined

(* The segments of one more part.                                          *)
LEMMA PartJoined ==
    ASSUME NEW epsilon, NEW F \in SUBSET InputPoint, NEW g, IsSegmentation(epsilon, g, F),
           NEW D \in SUBSET F, NEW o, NEW c \in Nat, Joined(epsilon, o, D, g, c),
           NEW E \in SUBSET F, NEW r, IsSegmentation(epsilon, r, E),
           \A p \in D, q \in E : p.x < q.x
    PROVE  Joined(epsilon, o \o r, D \cup E, g, c + 1)
<1>1. PICK w : w = o \o r
  OBVIOUS
<1>2. PICK L \in Nat, n \in Nat : L = Len(o) /\ n = Len(r) /\ n >= 1
  BY DEF Joined, IsSegmentation
<1>3. /\ w \in Seq(SegmentsOf(epsilon)) /\ Len(w) = L + n
      /\ \A m \in 1..L : w[m] = o[m]
      /\ \A m \in 1..n : w[L + m] = r[m]
  <2>1. o \in Seq(SegmentsOf(epsilon)) /\ r \in Seq(SegmentsOf(epsilon))
    BY DEF Joined, IsSegmentation
  <2> QED BY <1>1, <1>2, <2>1
<1>4. \A m \in 1..(L + n) : m \in 1..L \/ (m - L \in 1..n /\ m = L + (m - L))
  BY <1>2
<1>5. D \in SUBSET InputPoint /\ E \in SUBSET InputPoint
  OBVIOUS
<1>6. /\ \A p \in F : p.x \in Nat
      /\ \A m \in 1..n : r[m].first \in Nat
      /\ \A m \in 1..Len(g) : g[m].first \in Nat
      /\ 1 \in 1..n /\ 1 \in 1..Len(g) /\ Len(g) \in Nat
  BY <1>2, <1>5, SegmentationFacts
<1>7. /\ \A m \in 1..L : \E p \in D : p.x = o[m].first
      /\ \A m, k \in 1..L : m < k => o[m].first < o[k].first
      /\ \A p \in D : \E i \in 1..L : Covers(epsilon, o, i, p)
  BY <1>2 DEF Joined
<1>8. /\ \A m \in 1..n : \E p \in E : p.x = r[m].first
      /\ \A m, k \in 1..n : m < k => r[m].first < r[k].first
  BY <1>2 DEF IsSegmentation
<1>9. \A m \in 1..(L + n) : \E p \in D \cup E : p.x = w[m].first
  <2> SUFFICES ASSUME NEW m \in 1..(L + n) PROVE \E p \in D \cup E : p.x = w[m].first
    OBVIOUS
  <2>1. CASE m \in 1..L
    BY <1>3, <1>7, <2>1
  <2>2. CASE m - L \in 1..n /\ m = L + (m - L)
    <3>1. w[m] = r[m - L]
      BY <1>3, <2>2
    <3> QED BY <1>8, <2>2, <3>1
  <2> QED BY <1>4, <2>1, <2>2
<1>10. \A m \in 1..L, k \in 1..n : o[m].first < r[k].first
  BY <1>7, <1>8
<1>11. ASSUME NEW m \in 1..(L + n), NEW k \in 1..(L + n), m < k
       PROVE  w[m].first < w[k].first
  <2>1. CASE k \in 1..L
    <3>1. m \in 1..L
      BY <1>11, <2>1
    <3> QED BY <1>3, <1>7, <1>11, <2>1, <3>1
  <2>2. CASE m \in 1..L /\ k \notin 1..L
    BY <1>3, <1>4, <1>10, <2>2
  <2>3. CASE m \notin 1..L /\ k \notin 1..L
    <3>1. m - L \in 1..n /\ k - L \in 1..n /\ m - L < k - L
      BY <1>4, <1>11, <2>3
    <3> QED BY <1>3, <1>4, <1>8, <2>3, <3>1
  <2>4. k \in 1..L => m \in 1..L
    BY <1>11
  <2> QED BY <2>1, <2>2, <2>3, <2>4
<1>12. ASSUME NEW p \in D PROVE \E i \in 1..(L + n) : Covers(epsilon, w, i, p)
  <2>1. PICK i \in 1..L : Covers(epsilon, o, i, p)
    BY <1>7
  <2>2. i \in 1..(L + n) /\ w[i] = o[i]
    BY <1>2, <1>3
  <2>3. w[i + 1].first > p.x
    <3>1. CASE i < L
      <4>1. w[i + 1] = o[i + 1]
        BY <1>3, <3>1
      <4> QED BY <1>2, <2>1, <3>1, <4>1 DEF Covers
    <3>2. CASE i = L
      <4>1. w[i + 1] = r[1]
        BY <1>3, <1>6, <3>2
      <4>2. PICK q \in E : q.x = r[1].first
        BY <1>6, <1>8
      <4>3. p.x < q.x /\ p.x \in Nat /\ q.x \in Nat
        BY <1>6
      <4> QED BY <4>1, <4>2, <4>3
    <3> QED BY <1>2, <3>1, <3>2
  <2> QED BY <2>1, <2>2, <2>3 DEF Covers
<1>13. ASSUME NEW p \in E PROVE \E i \in 1..(L + n) : Covers(epsilon, w, i, p)
  <2>1. PICK m \in 1..n : Covers(epsilon, r, m, p)
    BY <1>2, <1>5, SegmentationCovers
  <2>2. PICK i \in 1..(L + n) : i = L + m
    OBVIOUS
  <2>3. w[i] = r[m]
    BY <1>3, <2>2
  <2>4. i < L + n => w[i + 1] = r[m + 1] /\ m < n
    <3> SUFFICES ASSUME i < L + n PROVE w[i + 1] = r[m + 1] /\ m < n
      OBVIOUS
    <3>1. m + 1 \in 1..n /\ i + 1 = L + (m + 1) /\ m < n
      BY <2>2
    <3> QED BY <1>3, <3>1
  <2> QED BY <1>2, <1>3, <2>1, <2>3, <2>4 DEF Covers
<1>14. \E k \in 1..Len(g) : g[k].first <= w[Len(w)].first /\ Len(w) <= k + (c + 1) - 1
  <2>1. w[L + n] = r[n]
    BY <1>2, <1>3
  <2>2. PICK k \in 1..Len(g) : g[k].first <= r[1].first /\ L <= k + c - 1
    <3>1. CASE L = 0
      <4>1. g[1].first <= r[1].first
        <5>1. PICK q \in E : q.x = r[1].first
          BY <1>6, <1>8
        <5>2. g[1].first <= q.x
          BY DEF IsSegmentation
        <5> QED BY <5>1, <5>2
      <4>2. L <= 1 + c - 1
        BY <3>1
      <4> QED BY <1>6, <4>1, <4>2
    <3>2. CASE L # 0
      <4>1. o # << >> /\ L \in 1..L
        BY <1>2, <3>2
      <4>2. PICK k \in 1..Len(g) : g[k].first <= o[L].first /\ L <= k + c - 1
        BY <1>2, <4>1 DEF Joined
      <4>3. o[L].first < r[1].first /\ o[L].first \in Nat /\ r[1].first \in Nat /\ g[k].first \in Nat
        BY <1>6, <1>7, <1>10, <4>1
      <4> QED BY <4>2, <4>3
    <3> QED BY <3>1, <3>2
  <2>3. k + (n - 1) \in 1..Len(g) /\ g[k + (n - 1)].first <= r[n].first
    BY <1>2, <2>2, BeginsApart
  <2>4. L + n <= (k + (n - 1)) + (c + 1) - 1
    BY <1>2, <2>2
  <2> QED BY <1>3, <2>1, <2>3, <2>4
<1>15. \A p \in D \cup E : \E i \in 1..(L + n) : Covers(epsilon, w, i, p)
  BY <1>12, <1>13
<1> QED
  BY <1>1, <1>3, <1>9, <1>11, <1>14, <1>15 DEF Joined

-----------------------------------------------------------------------------
(* The chunks of make_segmentation_par.                                    *)

LEMMA ChunkBounds ==
    ASSUME NEW n \in Nat, NEW P \in Nat \ {0}, NEW c \in 0..(P - 1)
    PROVE  /\ ChunkBegin(n, P, c) \in Nat /\ ChunkEnd(n, P, c) \in Nat
           /\ ChunkBegin(n, P, c) <= ChunkEnd(n, P, c) /\ ChunkEnd(n, P, c) <= n
           /\ ChunkBegin(n, P, 0) = 0 /\ ChunkEnd(n, P, P - 1) = n
           /\ c < P - 1 => ChunkEnd(n, P, c) = ChunkBegin(n, P, c + 1)
<1>1. PICK q \in Nat : q = n \div P /\ P * q <= n
  BY DivisionFacts
<1>2. ChunkBegin(n, P, c) = c * q /\ ChunkBegin(n, P, c + 1) = (c + 1) * q /\ ChunkBegin(n, P, 0) = 0 * q
  BY <1>1 DEF ChunkBegin
<1>3. c * q >= 0 /\ (c + 1) * q = c * q + q /\ 0 * q = 0
  BY <1>1, ProductSign
<1>4. c * q + q <= n
  <2>1. PICK d \in Nat : d = P - (c + 1)
    OBVIOUS
  <2>2. d * q >= 0
    BY <1>1, ProductSign
  <2>3. P * q = (c + 1) * q + d * q
    BY <2>1
  <2>4. PICK a \in Int, b \in Int, e \in Int : a = P * q /\ b = (c + 1) * q /\ e = d * q
    OBVIOUS
  <2> QED BY <1>1, <1>3, <2>2, <2>3, <2>4
<1>5. ChunkEnd(n, P, c) = IF c = P - 1 THEN n ELSE c * q + q
  BY <1>1, <1>2 DEF ChunkEnd
<1>6. ChunkEnd(n, P, P - 1) = n
  BY DEF ChunkEnd
<1>7. PICK a \in Nat : a = c * q
  BY <1>1, <1>3
<1> QED
  BY <1>1, <1>2, <1>3, <1>4, <1>5, <1>6, <1>7

(* The duplicates skipped are no first points, and the chunk begins with a *)
(* first point.                                                            *)
LEMMA ChunkFirstFacts ==
    ASSUME NEW s, Ordered(s), NEW P \in Nat \ {0}, NEW c \in 0..(P - 1),
           NEW b, b = ChunkBegin(Len(s), P, c), NEW e, e = ChunkEnd(Len(s), P, c),
           NEW f, f = ChunkFirst(s, P, c)
    PROVE  /\ f \in b..e
           /\ \A j \in (b + 1)..f : ~IsFirst(s, j)
           /\ f < e => IsFirst(s, f + 1)
<1>1. b \in Nat /\ e \in Nat /\ b <= e
  <2>1. Len(s) \in Nat
    BY OrderedFacts
  <2> QED BY <2>1, ChunkBounds
<1>2. CASE b = 0
  <2>1. f = 0
    BY <1>2 DEF ChunkFirst
  <2> QED BY <1>1, <1>2, <2>1 DEF IsFirst
<1>3. CASE b # 0
  <2> DEFINE T == {e} \cup {j \in b..(e - 1) : s[j + 1].x # s[j].x}
  <2>1. f = Min(T)
    BY <1>3 DEF ChunkFirst
  <2>2. T \in SUBSET Nat /\ T # {} /\ T \subseteq b..e /\ e \in T
    BY <1>1
  <2>3. f \in T /\ \A j \in T : f <= j
    <3> HIDE DEF T
    <3> QED BY <2>1, <2>2, LeastElement
  <2>4. ASSUME NEW j \in (b + 1)..f PROVE ~IsFirst(s, j)
    <3>1. j - 1 \in b..(e - 1) /\ (j - 1) + 1 = j /\ ~(f <= j - 1) /\ j # 1
      BY <1>1, <1>3, <2>2, <2>3
    <3>2. j - 1 \notin T
      BY <2>3, <3>1
    <3>3. s[j].x = s[j - 1].x
      BY <3>1, <3>2
    <3> QED BY <3>1, <3>3 DEF IsFirst
  <2>5. f < e => IsFirst(s, f + 1)
    <3> SUFFICES ASSUME f < e PROVE IsFirst(s, f + 1)
      OBVIOUS
    <3>1. s[f + 1].x # s[f].x /\ (f + 1) - 1 = f
      BY <1>1, <2>2, <2>3
    <3> QED BY <3>1 DEF IsFirst
  <2> QED BY <2>2, <2>3, <2>4, <2>5
<1> QED
  BY <1>2, <1>3

(* What a thread finds is a segmentation of the first points in its chunk, *)
(* and nothing if there are none.                                          *)
LEMMA ChunkSegmentation ==
    ASSUME NEW epsilon \in Nat \ {0}, NEW s, Ordered(s), NEW P \in Nat \ {0}, NEW c \in 0..(P - 1),
           NEW D, D = Firsts(s, ChunkBegin(Len(s), P, c) + 1, ChunkEnd(Len(s), P, c)),
           NEW o, o = SegmentedChunk(epsilon, s, P, c)
    PROVE  (D = {} /\ o = << >>) \/ IsSegmentation(epsilon, o, D)
<1>1. PICK n \in Nat : n = Len(s)
  BY OrderedFacts
<1>2. PICK b \in Nat, e \in Nat : /\ b = ChunkBegin(n, P, c) /\ e = ChunkEnd(n, P, c)
                                  /\ b <= e /\ e <= n
  BY <1>1, ChunkBounds
<1>3. PICK f : f = ChunkFirst(s, P, c)
  OBVIOUS
<1>4. /\ f \in b..e /\ f \in Nat
      /\ \A j \in (b + 1)..f : ~IsFirst(s, j)
      /\ f < e => IsFirst(s, f + 1)
  <2>1. /\ f \in b..e
        /\ \A j \in (b + 1)..f : ~IsFirst(s, j)
        /\ f < e => IsFirst(s, f + 1)
    BY <1>1, <1>2, <1>3, ChunkFirstFacts
  <2> QED BY <1>2, <2>1
<1>5. D = Firsts(s, f + 1, e)
  <2>1. \A j \in (b + 1)..e : IsFirst(s, j) => j \in (f + 1)..e
    BY <1>2, <1>4
  <2>2. \A j \in (f + 1)..e : j \in (b + 1)..e
    BY <1>2, <1>4
  <2>3. D = Firsts(s, b + 1, e)
    BY <1>1, <1>2
  <2> QED BY <2>1, <2>2, <2>3 DEF Firsts
<1>6. PICK t : t = SubSeq(s, f + 1, e)
  OBVIOUS
<1>7. o = make_segmentation(epsilon, t)
  BY <1>1, <1>2, <1>3, <1>6 DEF SegmentedChunk
<1>8. /\ t \in Seq(InputPoint) /\ Len(t) = e - f
      /\ \A k \in 1..(e - f) : t[k] = s[f + k]
  <2>1. PICK a \in Nat : a = f + 1 /\ a >= 1 /\ a <= e + 1
    BY <1>2, <1>4
  <2>2. s \in Seq(InputPoint) /\ \A j \in a..e : j \in 1..n
    BY <1>2, <2>1 DEF Ordered
  <2>3. t = SubSeq(s, a, e)
    BY <1>6, <2>1
  <2>4. \A j \in a..e : s[j] \in InputPoint
    BY <1>1, <2>2, OrderedFacts
  <2>5. t \in Seq(InputPoint) /\ Len(t) = e - a + 1
    BY <1>1, <1>2, <2>1, <2>2, <2>3, <2>4
  <2>6. \A k \in 1..(e - f) : t[k] = s[a + k - 1]
    BY <1>1, <1>2, <1>4, <2>1, <2>2, <2>3
  <2>7. \A k \in 1..(e - f) : a + k - 1 = f + k
    BY <1>4, <2>1
  <2> QED BY <1>4, <2>1, <2>5, <2>6, <2>7
<1>9. CASE f = e
  <2>1. t = << >>
    BY <1>4, <1>8, <1>9
  <2>2. o = << >>
    BY <1>7, <2>1 DEF make_segmentation
  <2>3. (f + 1)..e = {}
    BY <1>2, <1>9
  <2>4. D = {}
    BY <1>5, <2>3 DEF Firsts
  <2> QED BY <2>2, <2>4
<1>10. CASE f < e
  <2>1. PICK l \in Nat : l = e - f /\ l >= 1
    BY <1>2, <1>4, <1>10
  <2>2. \A k \in 1..l : f + k \in 1..n
    BY <1>2, <1>4, <2>1
  <2>3. Ordered(t)
    <3>1. ASSUME NEW j \in 1..l, NEW k \in 1..l, j <= k
          PROVE  t[j].x <= t[k].x /\ t[j].y <= t[k].y
      <4>1. f + j \in 1..n /\ f + k \in 1..n /\ f + j <= f + k
        BY <1>4, <2>2, <3>1
      <4>2. s[f + j].x <= s[f + k].x /\ s[f + j].y <= s[f + k].y
        BY <1>1, <4>1, OrderedFacts
      <4> QED BY <1>8, <2>1, <4>2
    <3> QED BY <1>8, <2>1, <3>1 DEF Ordered
  <2>4. t # << >>
    BY <1>8, <2>1
  <2>5. \A k \in 1..l : IsFirst(t, k) <=> IsFirst(s, f + k)
    <3> SUFFICES ASSUME NEW k \in 1..l PROVE IsFirst(t, k) <=> IsFirst(s, f + k)
      OBVIOUS
    <3>1. CASE k = 1
      BY <1>4, <1>10, <3>1 DEF IsFirst
    <3>2. CASE k # 1
      <4>1. k - 1 \in 1..l /\ (f + k) - 1 = f + (k - 1) /\ f + k # 1
        BY <1>4, <3>2
      <4>2. t[k] = s[f + k] /\ t[k - 1] = s[(f + k) - 1]
        BY <1>8, <2>1, <4>1
      <4> QED BY <3>2, <4>1, <4>2 DEF IsFirst
    <3> QED BY <3>1, <3>2
  <2>6. Firsts(t, 1, l) = Firsts(s, f + 1, e)
    <3>1. Firsts(t, 1, l) \subseteq Firsts(s, f + 1, e)
      <4> SUFFICES ASSUME NEW k \in 1..l, IsFirst(t, k) PROVE t[k] \in Firsts(s, f + 1, e)
        BY DEF Firsts
      <4>1. f + k \in (f + 1)..e /\ IsFirst(s, f + k) /\ t[k] = s[f + k]
        BY <1>2, <1>4, <1>8, <2>1, <2>5
      <4> QED BY <4>1 DEF Firsts
    <3>2. Firsts(s, f + 1, e) \subseteq Firsts(t, 1, l)
      <4> SUFFICES ASSUME NEW j \in (f + 1)..e, IsFirst(s, j) PROVE s[j] \in Firsts(t, 1, l)
        BY DEF Firsts
      <4>1. PICK k \in 1..l : j = f + k
        <5>1. j - f \in 1..l /\ j = f + (j - f)
          BY <1>4, <2>1
        <5> QED BY <5>1
      <4>2. IsFirst(t, k) /\ t[k] = s[j]
        BY <1>8, <2>1, <2>5, <4>1
      <4> QED BY <4>2 DEF Firsts
    <3> QED BY <3>1, <3>2
  <2>7. IsSegmentation(epsilon, o, Firsts(t, 1, l))
    BY <1>7, <1>8, <2>1, <2>3, <2>4, MakeSegmentation
  <2> QED BY <1>5, <2>6, <2>7
<1> QED
  BY <1>4, <1>9, <1>10

\* The equation of the recursive function in FlattenSeq.
IsFlattened(f, r) ==
    f = [i \in 1..Len(r) |-> IF i = 1 THEN r[i] ELSE f[i - 1] \o r[i]]

LEMMA FlattenExists ==
    ASSUME NEW X, NEW r \in Seq(Seq(X)), r # << >>
    PROVE  \E f : IsFlattened(f, r)
<1> DEFINE N == Len(r)
           Inv == [n \in 1..N |-> Seq(X)]
           G == [n \in 1..N |-> [o \in Seq(X) |-> o \o r[n + 1]]]
<1>1. N \in Nat /\ 1 \in 1..N
  OBVIOUS
<1>2. r[1] \in Inv[1]
  BY <1>1
<1>3. ASSUME NEW n \in 1..(N - 1), NEW o \in Inv[n] PROVE G[n][o] \in Inv[n + 1]
  <2>1. n \in 1..N /\ n + 1 \in 1..N
    BY <1>1
  <2>2. o \in Seq(X) /\ r[n + 1] \in Seq(X)
    BY <1>3, <2>1
  <2>3. o \o r[n + 1] \in Seq(X)
    BY <2>2
  <2> QED BY <2>1, <2>2, <2>3
<1> HIDE DEF N, Inv, G
<1>4. PICK f : /\ f = [n \in 1..N |-> IF n = 1 THEN r[1] ELSE G[n - 1][f[n - 1]]]
               /\ \A n \in 1..N : f[n] \in Inv[n]
  <2>1. PICK f : IteratesWithin(f, N, Inv, r[1], G)
    BY <1>1, <1>2, <1>3, InvariantRecursion
  <2> QED BY <2>1 DEF IteratesWithin
<1>5. ASSUME NEW n \in 1..N
      PROVE  f[n] = IF n = 1 THEN r[n] ELSE f[n - 1] \o r[n]
  <2>1. f[n] = IF n = 1 THEN r[1] ELSE G[n - 1][f[n - 1]]
    BY <1>4
  <2>2. CASE n = 1
    BY <2>1, <2>2
  <2>3. CASE n # 1
    <3>1. n - 1 \in 1..N /\ (n - 1) + 1 = n
      BY <1>1, <2>3
    <3>2. f[n - 1] \in Seq(X)
      BY <1>4, <3>1 DEF Inv
    <3>3. G[n - 1][f[n - 1]] = f[n - 1] \o r[n]
      BY <3>1, <3>2 DEF G
    <3> QED BY <2>1, <2>3, <3>3
  <2> QED BY <2>2, <2>3
<1>6. f = [n \in 1..N |-> f[n]]
  BY <1>4
<1>7. f = [n \in 1..N |-> IF n = 1 THEN r[n] ELSE f[n - 1] \o r[n]]
  BY <1>5, <1>6
<1> QED
  BY <1>7 DEF N, IsFlattened

(* FlattenSeq joins one sequence after the other.                          *)
LEMMA FlattenSteps ==
    ASSUME NEW X, NEW r \in Seq(Seq(X)), r # << >>
    PROVE  \E f : /\ FlattenSeq(r) = f[Len(r)] /\ f[1] = r[1]
                  /\ \A i \in 1..(Len(r) - 1) : f[i + 1] = f[i] \o r[i + 1]
<1> DEFINE flatten == CHOOSE f : f = [i \in 1..Len(r) |-> IF i = 1 THEN r[i] ELSE f[i - 1] \o r[i]]
<1>1. Len(r) \in Nat /\ Len(r) # 0
  OBVIOUS
<1>2. FlattenSeq(r) = flatten[Len(r)]
  BY <1>1 DEF FlattenSeq
<1>3. flatten = [i \in 1..Len(r) |-> IF i = 1 THEN r[i] ELSE flatten[i - 1] \o r[i]]
  <2>1. \E f : IsFlattened(f, r)
    BY FlattenExists
  <2>2. \E f : f = [i \in 1..Len(r) |-> IF i = 1 THEN r[i] ELSE f[i - 1] \o r[i]]
    BY <2>1, Zenon DEF IsFlattened
  <2> QED BY <2>2, Zenon
<1> HIDE DEF flatten
<1>4. \A i \in 1..Len(r) : flatten[i] = IF i = 1 THEN r[i] ELSE flatten[i - 1] \o r[i]
  BY <1>3
<1>5. flatten[1] = r[1]
  <2>1. 1 \in 1..Len(r)
    BY <1>1
  <2> QED BY <1>4, <2>1
<1>6. \A i \in 1..(Len(r) - 1) : flatten[i + 1] = flatten[i] \o r[i + 1]
  <2> SUFFICES ASSUME NEW i \in 1..(Len(r) - 1) PROVE flatten[i + 1] = flatten[i] \o r[i + 1]
    OBVIOUS
  <2>1. i + 1 \in 1..Len(r) /\ i + 1 # 1 /\ (i + 1) - 1 = i
    BY <1>1
  <2> QED BY <1>4, <2>1
<1> QED
  BY <1>2, <1>5, <1>6

\* What the threads find, in the order of the chunks, and the points of the first chunks.
Results(epsilon, s, P) == [i \in 1..P |-> SegmentedChunk(epsilon, s, P, i - 1)]

(* The points of one chunk come after those of the chunks before it.       *)
LEMMA ChunksApart ==
    ASSUME NEW s, Ordered(s), NEW a \in Nat, NEW b \in Nat, a <= b, b <= Len(s)
    PROVE  /\ Firsts(s, 1, b) = Firsts(s, 1, a) \cup Firsts(s, a + 1, b)
           /\ Firsts(s, 1, b) \in SUBSET InputPoint
           /\ \A p \in Firsts(s, 1, a), q \in Firsts(s, a + 1, b) : p.x < q.x
<1>1. \A j \in 1..b : j \in 1..Len(s) /\ (j \in 1..a \/ j \in (a + 1)..b)
  BY OrderedFacts
<1>2. (\A j \in 1..a : j \in 1..b) /\ (\A j \in (a + 1)..b : j \in 1..b)
  OBVIOUS
<1>3. Firsts(s, 1, b) = Firsts(s, 1, a) \cup Firsts(s, a + 1, b)
  BY <1>1, <1>2 DEF Firsts
<1>4. Firsts(s, 1, b) \in SUBSET InputPoint
  BY <1>1, OrderedFacts DEF Firsts
<1>5. ASSUME NEW p \in Firsts(s, 1, a), NEW q \in Firsts(s, a + 1, b) PROVE p.x < q.x
  <2>1. PICK j \in 1..a, k \in (a + 1)..b : p = s[j] /\ q = s[k] /\ IsFirst(s, k)
    BY DEF Firsts
  <2>2. j <= k - 1 /\ k - 1 <= k /\ k # 1 /\ j \in 1..b /\ k - 1 \in 1..b /\ k \in 1..b
    OBVIOUS
  <2>3. s[j].x <= s[k - 1].x /\ s[k - 1].x <= s[k].x /\ s[k].x # s[k - 1].x
    BY <1>1, <2>1, <2>2, OrderedFacts DEF IsFirst
  <2>4. s[j].x \in Nat /\ s[k - 1].x \in Nat /\ s[k].x \in Nat
    BY <1>1, <2>2, OrderedFacts
  <2> QED BY <2>1, <2>3, <2>4
<1> QED
  BY <1>3, <1>4, <1>5

(* Joined, the results of the threads are segments of all the first points, *)
(* and at most P - 1 more than without threads.                            *)
LEMMA ChunksJoined ==
    ASSUME NEW epsilon \in Nat \ {0}, NEW s, Ordered(s), s # << >>, NEW P \in Nat \ {0}
    PROVE  Joined(epsilon, Concatenated(Results(epsilon, s, P)), Firsts(s, 1, Len(s)),
                  make_segmentation(epsilon, s), P)
<1>1. PICK n \in Nat : n = Len(s) /\ n >= 1
  BY OrderedFacts DEF Ordered
<1>2. PICK F, g : F = Firsts(s, 1, n) /\ g = make_segmentation(epsilon, s)
  OBVIOUS
<1>3. IsSegmentation(epsilon, g, F)
  BY <1>1, <1>2, MakeSegmentation
<1> DEFINE X == SegmentsOf(epsilon)
           end(c) == IF c = 0 THEN 0 ELSE ChunkEnd(n, P, c - 1)
<1>4. ASSUME NEW c \in 0..(P - 1)
      PROVE  /\ end(c) \in Nat /\ end(c + 1) \in Nat /\ end(c) <= end(c + 1) /\ end(c + 1) <= n
             /\ end(c) = ChunkBegin(n, P, c) /\ end(c + 1) = ChunkEnd(n, P, c)
  <2>1. /\ ChunkBegin(n, P, c) \in Nat /\ ChunkEnd(n, P, c) \in Nat
        /\ ChunkBegin(n, P, c) <= ChunkEnd(n, P, c) /\ ChunkEnd(n, P, c) <= n
        /\ ChunkBegin(n, P, 0) = 0
    BY ChunkBounds
  <2>2. end(c + 1) = ChunkEnd(n, P, c)
    <3>1. c + 1 # 0 /\ (c + 1) - 1 = c
      OBVIOUS
    <3> QED BY <3>1
  <2>3. end(c) = ChunkBegin(n, P, c)
    <3>1. CASE c = 0
      BY <2>1, <3>1
    <3>2. CASE c # 0
      <4>1. PICK d \in 0..(P - 1) : d = c - 1 /\ d < P - 1 /\ d + 1 = c
        BY <3>2
      <4>2. ChunkEnd(n, P, d) = ChunkBegin(n, P, d + 1)
        BY <4>1, ChunkBounds
      <4> QED BY <3>2, <4>1, <4>2
    <3> QED BY <3>1, <3>2
  <2> QED BY <2>1, <2>2, <2>3
<1>5. end(P) = n
  <2>1. ChunkEnd(n, P, P - 1) = n
    BY DEF ChunkEnd
  <2> QED BY <2>1
<1> HIDE DEF end
<1> DEFINE r == Results(epsilon, s, P)
           D(c) == Firsts(s, 1, end(c))
           E(c) == Firsts(s, end(c) + 1, end(c + 1))
<1>6. ASSUME NEW c \in 0..(P - 1)
      PROVE  (E(c) = {} /\ r[c + 1] = << >>) \/ IsSegmentation(epsilon, r[c + 1], E(c))
  <2>1. c + 1 \in 1..P /\ (c + 1) - 1 = c
    OBVIOUS
  <2>2. r[c + 1] = SegmentedChunk(epsilon, s, P, c)
    BY <2>1 DEF Results
  <2>3. E(c) = Firsts(s, ChunkBegin(n, P, c) + 1, ChunkEnd(n, P, c))
    BY <1>4
  <2> HIDE DEF E
  <2> QED BY <1>1, <2>2, <2>3, ChunkSegmentation
<1>7. r \in Seq(Seq(X)) /\ Len(r) = P /\ r # << >>
  <2>1. \A i \in 1..P : r[i] \in Seq(X)
    <3> SUFFICES ASSUME NEW i \in 1..P PROVE r[i] \in Seq(X)
      OBVIOUS
    <3>1. PICK c \in 0..(P - 1) : i = c + 1
      <4>1. i - 1 \in 0..(P - 1) /\ i = (i - 1) + 1
        OBVIOUS
      <4> QED BY <4>1
    <3>2. r[i] = << >> \/ IsSegmentation(epsilon, r[i], E(c))
      BY <1>6, <3>1
    <3> HIDE DEF r, E
    <3>3. << >> \in Seq(X)
      OBVIOUS
    <3> QED BY <3>2, <3>3 DEF IsSegmentation
  <2>2. r = [i \in 1..P |-> r[i]]
    BY DEF Results
  <2> HIDE DEF r, X
  <2>3. r \in [1..P -> Seq(X)]
    BY <2>1, <2>2
  <2>4. r \in Seq(Seq(X)) /\ Len(r) = P
    BY <2>3
  <2> QED BY <2>4
<1> HIDE DEF r, X
<1>8. PICK f : /\ FlattenSeq(r) = f[P] /\ f[1] = r[1]
               /\ \A i \in 1..(P - 1) : f[i + 1] = f[i] \o r[i + 1]
  BY <1>7, FlattenSteps
<1>9. ASSUME NEW c \in 0..(P - 1), NEW o, Joined(epsilon, o, D(c), g, c)
      PROVE  Joined(epsilon, o \o r[c + 1], D(c + 1), g, c + 1)
  <2>1. /\ D(c + 1) = D(c) \cup E(c) /\ D(c + 1) \in SUBSET InputPoint
        /\ \A p \in D(c), q \in E(c) : p.x < q.x
    BY <1>1, <1>4, ChunksApart
  <2>2. D(c) \cup E(c) \subseteq F /\ F \in SUBSET InputPoint
    <3>1. F = D(c + 1) \cup Firsts(s, end(c + 1) + 1, n) /\ F \in SUBSET InputPoint
      <4>1. PICK e \in Nat : e = end(c + 1) /\ e <= n
        BY <1>4
      <4>2. /\ Firsts(s, 1, n) = Firsts(s, 1, e) \cup Firsts(s, e + 1, n)
            /\ Firsts(s, 1, n) \in SUBSET InputPoint
        BY <1>1, <4>1, ChunksApart
      <4> QED BY <1>2, <4>1, <4>2
    <3> QED BY <2>1, <3>1
  <2> HIDE DEF D, E
  <2>3. o \in Seq(X)
    BY <1>9 DEF Joined, X
  <2>4. CASE E(c) = {} /\ r[c + 1] = << >>
    <3>1. o \o r[c + 1] = o /\ D(c + 1) = D(c)
      BY <2>1, <2>3, <2>4
    <3>2. Joined(epsilon, o, D(c), g, c + 1)
      BY <1>9, EmptyJoined
    <3> QED BY <3>1, <3>2
  <2>5. CASE IsSegmentation(epsilon, r[c + 1], E(c))
    <3>1. D(c) \in SUBSET F /\ E(c) \in SUBSET F
      BY <2>2
    <3>2. Joined(epsilon, o \o r[c + 1], D(c) \cup E(c), g, c + 1)
      BY <1>3, <1>9, <2>1, <2>2, <2>5, <3>1, PartJoined
    <3> QED BY <2>1, <3>2
  <2> QED BY <1>6, <2>4, <2>5 DEF E
<1>10. Joined(epsilon, << >>, D(0), g, 0)
  <2>1. D(0) = {}
    BY DEF end, Firsts
  <2> QED BY <2>1, NothingJoined
<1> DEFINE S == {i \in 1..P : Joined(epsilon, f[i], D(i), g, i)}
<1>11. 1 \in S
  <2>1. 0 \in 0..(P - 1) /\ 0 + 1 = 1 /\ 1 \in 1..P
    OBVIOUS
  <2>2. Joined(epsilon, << >> \o r[1], D(1), g, 1)
    BY <1>9, <1>10, <2>1
  <2>3. r[1] \in Seq(X)
    BY <1>7, <2>1
  <2>4. << >> \o r[1] = r[1]
    BY <2>3
  <2> QED BY <1>8, <2>1, <2>2, <2>4
<1>12. ASSUME NEW i \in 1..(P - 1), i \in S PROVE i + 1 \in S
  <2>1. i \in 0..(P - 1) /\ i + 1 \in 1..P
    OBVIOUS
  <2> QED BY <1>8, <1>9, <1>12, <2>1
<1>13. P \in S
  <2> HIDE DEF S
  <2>1. PICK a \in Int, b \in Int : a = 1 /\ b = P
    OBVIOUS
  <2>2. a \in S /\ \A i \in a..(b - 1) : i \in S => i + 1 \in S
    BY <1>11, <1>12, <2>1
  <2>3. \A i \in a..b : i \in S
    BY <2>2, IntervalInduction
  <2> QED BY <2>1, <2>3
<1> QED
  BY <1>1, <1>2, <1>5, <1>8, <1>13 DEF r, Concatenated
=============================================================================
