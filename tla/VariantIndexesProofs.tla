------------------------- MODULE VariantIndexesProofs -------------------------
(***************************************************************************)
(* Proofs about the indexes of VariantIndexes that keep the search of      *)
(* PGMIndex, in memory or mapped from a file, or search a table or an      *)
(* sd_vector instead: what a search finds, however many levels and         *)
(* segments the index has, what a vector answers and what a file holds.    *)
(*                                                                         *)
(* A level is known by what its segments predict (IsLevelOf): a segment    *)
(* that serves a key gives a position that no point of the level is too    *)
(* far from, if the error of its product is below a half. That is what     *)
(* building a level establishes (LevelClosed), and all a search needs to   *)
(* go down a level (ScanLands, BisectLands) and to answer                  *)
(* (OccurrenceInRange, AbsentInRange, EndOfRange). Whatever a product is,  *)
(* the intercepts bound the position, and the search stays in its level    *)
(* (ScanWithin, BisectWithin).                                             *)
(*                                                                         *)
(* A vector is known by the two parts of its numbers (Represents): the     *)
(* position of a number's bit in high is its high part plus its index, so  *)
(* the bits up to a position are counted by counting numbers (BitsCounted).*)
(*                                                                         *)
(* A table is known by where its parts begin (IsTabled): the last segment  *)
(* below a key lies in the part of the key or right before it, and is      *)
(* counted there (SegmentFor).                                             *)
(***************************************************************************)
EXTENDS VariantIndexes, PiecewiseLinearModelProofs

-----------------------------------------------------------------------------
(* What a segment predicts.                                                *)

\* Product p is that of slope and distance with an error below a half, truncated.
Near(s, x, p) ==
    /\ 2 * (s.dx * p) < 2 * (s.dy * (x - s.key)) + s.dx
    /\ 2 * (s.dy * (x - s.key)) < 2 * (s.dx * p) + 3 * s.dx

\* A position that segment s, limited by the intercept of the next one, may give for x.
\* A level segment has one point, its key; beyond it any product will do.
MayGive(s, next, x, pos) ==
    \E p \in Nat :
        /\ IF s.dy = 0 THEN x = s.key => p <= 1 ELSE Near(s, x, p)
        /\ pos = Min({Max({0, p + s.intercept}), next.intercept})

LEMMA MinOfTwo ==
    ASSUME NEW u \in Int, NEW v \in Int
    PROVE  /\ Min({u, v}) \in {u, v} /\ Min({u, v}) <= u /\ Min({u, v}) <= v
<1>1. PICK T : T = {u, v}
  OBVIOUS
<1>2. T \in SUBSET Int /\ T # {} /\ IsFiniteSet(T)
  <2>1. IsFiniteSet({u}) /\ {u} \cup {v} = {u, v}
    BY FS_Singleton
  <2>2. IsFiniteSet({u} \cup {v})
    BY <2>1, FS_AddElement
  <2> QED BY <1>1, <2>1, <2>2
<1>3. Min(T) \in T /\ \A y \in T : Min(T) <= y
  BY <1>2, FiniteLeastElement
<1> QED
  BY <1>1, <1>3

(* The sums that a segment and its product make, against the points that   *)
(* the segment follows: those at or before x from below, those at or after *)
(* x from above.                                                           *)
LEMMA SumsFollow ==
    ASSUME NEW epsilon \in Nat \ {0}, NEW s, NEW q \in InputPoint, Follows(epsilon, s, q),
           NEW x \in Nat, s.key <= x, NEW p \in Nat, Near(s, x, p)
    PROVE  /\ q.x <= x => q.y <= p + s.intercept + epsilon + 1
           /\ x <= q.x => p + s.intercept <= q.y + epsilon
<1>1. PICK sk \in Nat, dx \in Nat, dy \in Nat, c \in Int :
          sk = s.key /\ dx = s.dx /\ dy = s.dy /\ c = s.intercept /\ dx > 0
  BY DEF Follows, SegmentRecord
<1>2. PICK qx \in Nat, qy \in Nat, e \in Nat : qx = q.x /\ qy = q.y /\ e = epsilon
  BY DEF InputPoint
<1>3. PICK uy \in Int, ly \in Int : /\ uy = UpperEnd(epsilon, q).y /\ ly = LowerEnd(epsilon, q).y
                                    /\ uy = qy + e /\ ly >= qy - e
  <2>1. /\ UpperEnd(epsilon, q) \in IntPoint /\ LowerEnd(epsilon, q) \in IntPoint
        /\ UpperEnd(epsilon, q).y = q.y + epsilon
        /\ LowerEnd(epsilon, q).y >= q.y - epsilon
    BY EndFacts
  <2> QED BY <1>2, <2>1, PointFacts
<1>4. PICK a \in Nat, b \in Nat : a = dy * (qx - sk) /\ b = dy * (x - sk)
  <2>1. qx - sk \in Nat /\ x - sk \in Nat
    BY <1>1, <1>2 DEF Follows
  <2>2. dy * (qx - sk) >= 0 /\ dy * (x - sk) >= 0
    BY <2>1, ProductSign
  <2> QED BY <2>2
<1>5. PICK dc \in Int, dp \in Int, dl \in Int, du \in Int :
          dc = dx * c /\ dp = dx * p /\ dl = dx * ly /\ du = dx * uy
  OBVIOUS
<1>6. 2 * dl <= 2 * (a + dc) + dx /\ 2 * (a + dc) <= 2 * du + dx
  BY <1>1, <1>2, <1>3, <1>4, <1>5 DEF Follows
<1>7. 2 * dp < 2 * b + dx /\ 2 * b < 2 * dp + 3 * dx
  BY <1>1, <1>4, <1>5 DEF Near
<1>8. ASSUME qx <= x PROVE ly <= p + c + 1
  <2>1. a <= b
    <3>1. dy * (x - qx) >= 0
      BY <1>8, ProductSign
    <3>2. dy * (x - qx) = b - a
      BY <1>4
    <3> QED BY <3>1, <3>2
  <2>2. PICK g \in Int : g = 2 * (p + c + 1 - ly) + 2
    OBVIOUS
  <2>3. dx * g = 2 * dp + 2 * dc + 2 * dx - 2 * dl + 2 * dx
    <3>1. dx * g = 2 * (dx * p) + 2 * (dx * c) + 2 * dx - 2 * (dx * ly) + 2 * dx
      BY <2>2
    <3> QED BY <1>5, <3>1
  <2>4. dx * g > 0
    BY <1>1, <1>6, <1>7, <2>1, <2>3
  <2>5. g > 0
    BY <1>1, <2>4, CancelPositive
  <2> QED BY <2>2, <2>5
<1>9. ASSUME x <= qx PROVE p + c <= uy
  <2>1. b <= a
    <3>1. dy * (qx - x) >= 0
      BY <1>9, ProductSign
    <3>2. dy * (qx - x) = a - b
      BY <1>4
    <3> QED BY <3>1, <3>2
  <2>2. PICK g \in Int : g = 2 * (uy - (p + c)) + 2
    OBVIOUS
  <2>3. dx * g = 2 * du - 2 * dp - 2 * dc + 2 * dx
    <3>1. dx * g = 2 * (dx * uy) - 2 * (dx * p) - 2 * (dx * c) + 2 * dx
      BY <2>2
    <3> QED BY <1>5, <3>1
  <2>4. dx * g > 0
    BY <1>1, <1>6, <1>7, <2>1, <2>3
  <2>5. g > 0
    BY <1>1, <2>4, CancelPositive
  <2> QED BY <2>2, <2>5
<1> QED
  BY <1>1, <1>2, <1>3, <1>8, <1>9

(* Where a segment begins, its intercept is close to the point, and a       *)
(* natural number.                                                         *)
LEMMA InterceptFollows ==
    ASSUME NEW epsilon \in Nat \ {0}, NEW s, NEW q \in InputPoint, Follows(epsilon, s, q), q.x = s.key
    PROVE  /\ s.intercept \in Nat
           /\ q.y <= s.intercept + epsilon + 1 /\ s.intercept <= q.y + epsilon
<1>1. PICK sk \in Nat, dx \in Nat, dy \in Nat, c \in Int :
          sk = s.key /\ dx = s.dx /\ dy = s.dy /\ c = s.intercept /\ dx > 0
  BY DEF Follows, SegmentRecord
<1>2. PICK ly \in Int : ly = LowerEnd(epsilon, q).y /\ ly >= 0
  <2>1. LowerEnd(epsilon, q) \in IntPoint /\ LowerEnd(epsilon, q).y >= 0
    BY EndFacts
  <2> QED BY <2>1, PointFacts
<1>3. dy * (sk - sk) = 0 /\ dx * 0 = 0
  OBVIOUS
<1>4. PICK dc \in Int, dl \in Int : dc = dx * c /\ dl = dx * ly
  OBVIOUS
<1>5. 2 * dl <= 2 * (0 + dc) + dx
  BY <1>1, <1>2, <1>3, <1>4 DEF Follows
<1>6. dl >= 0
  BY <1>2, <1>4, ProductSign
<1>7. dx * (2 * c + 2) > 0
  <2>1. dx * (2 * c + 2) = 2 * dc + 2 * dx
    BY <1>4
  <2> QED BY <1>1, <1>5, <1>6, <2>1
<1>8. 2 * c + 2 > 0
  BY <1>1, <1>7, CancelPositive
<1>9. sk \in Nat /\ s.key <= sk /\ 0 \in Nat
  BY <1>1
<1>10. Near(s, sk, 0)
  BY <1>1, <1>3 DEF Near
<1>11. q.y <= 0 + s.intercept + epsilon + 1 /\ 0 + s.intercept <= q.y + epsilon
  <2>1. q.x <= sk /\ sk <= q.x
    BY <1>1
  <2> QED BY <1>9, <1>10, <2>1, SumsFollow
<1>12. c \in Nat
  BY <1>8
<1> QED
  BY <1>1, <1>11, <1>12

-----------------------------------------------------------------------------
(* A level.                                                                *)

\* The segments of make_segmentation or of the threads, with their points D.
Spread(epsilon, o, D) ==
    /\ o \in Seq(SegmentsOf(epsilon))
    /\ \A m \in 1..Len(o) : \E p \in D : p.x = o[m].first
    /\ \A m1, m2 \in 1..Len(o) : m1 < m2 => o[m1].first < o[m2].first
    /\ \A p \in D : \E i \in 1..Len(o) : Covers(epsilon, o, i, p)

LEMMA ParSpread ==
    ASSUME NEW epsilon \in Nat \ {0}, NEW s, Ordered(s), s # << >>, NEW P \in Nat \ {0},
           NEW threshold
    PROVE  Spread(epsilon, make_segmentation_par(epsilon, s, P, threshold), Firsts(s, 1, Len(s)))
<1>1. PICK D : D = Firsts(s, 1, Len(s))
  OBVIOUS
<1>2. CASE P = 1 \/ Len(s) < threshold
  <2>1. PICK o : o = make_segmentation(epsilon, s)
    OBVIOUS
  <2>2. IsSegmentation(epsilon, o, D)
    BY <1>1, <2>1, MakeSegmentation
  <2>3. D \in SUBSET InputPoint
    BY <1>1, OrderedFacts DEF Firsts
  <2>4. \A p \in D : \E i \in 1..Len(o) : Covers(epsilon, o, i, p)
    BY <2>2, <2>3, SegmentationCovers
  <2>5. Spread(epsilon, o, D)
    BY <2>2, <2>4 DEF IsSegmentation, Spread
  <2> QED BY <1>1, <1>2, <2>1, <2>5 DEF make_segmentation_par
<1>3. CASE ~(P = 1 \/ Len(s) < threshold)
  <2>1. PICK o : o = Concatenated(Results(epsilon, s, P))
    OBVIOUS
  <2>2. Joined(epsilon, o, D, make_segmentation(epsilon, s), P)
    BY <1>1, <2>1, ChunksJoined
  <2>3. Spread(epsilon, o, D)
    BY <2>2 DEF Joined, Spread
  <2> QED BY <1>1, <1>3, <2>1, <2>3 DEF make_segmentation_par, Results
<1> QED
  BY <1>2, <1>3

\* Points in order whose y are their positions.
Numbered(s) == Ordered(s) /\ \A j \in 1..Len(s) : s[j].y = j - 1

LEMMA FirstPoints ==
    ASSUME NEW s, Numbered(s), NEW D, D = Firsts(s, 1, Len(s))
    PROVE  /\ D \in SUBSET InputPoint
           /\ \A p \in D : p.x \in Nat /\ p.y \in Nat /\ p.y < Len(s)
           /\ \A p \in D, q \in D : p.x < q.x => p.y <= q.y
           /\ s # << >> => s[1] \in D
<1>1. /\ Len(s) \in Nat
      /\ \A j \in 1..Len(s) : s[j] \in InputPoint /\ s[j].x \in Nat /\ s[j].y = j - 1
      /\ \A j1, j2 \in 1..Len(s) : j1 <= j2 => s[j1].x <= s[j2].x
  BY OrderedFacts DEF Numbered
<1>2. \A p \in D : \E j \in 1..Len(s) : p = s[j]
  BY DEF Firsts
<1>3. D \in SUBSET InputPoint /\ \A p \in D : p.x \in Nat /\ p.y \in Nat /\ p.y < Len(s)
  BY <1>1, <1>2
<1>4. ASSUME NEW p \in D, NEW q \in D, p.x < q.x PROVE p.y <= q.y
  <2>1. PICK j1 \in 1..Len(s), j2 \in 1..Len(s) : p = s[j1] /\ q = s[j2]
    BY <1>2
  <2>2. ~(j2 <= j1)
    BY <1>1, <1>3, <1>4, <2>1
  <2> QED BY <1>1, <2>1, <2>2
<1>5. s # << >> => s[1] \in D
  <2>1. s # << >> => 1 \in 1..Len(s)
    BY <1>1 DEF Numbered, Ordered
  <2> QED BY <2>1 DEF Firsts, IsFirst
<1> QED
  BY <1>3, <1>4, <1>5

LEMMA FirstsDiffer ==
    ASSUME NEW s, Ordered(s), NEW p \in Firsts(s, 1, Len(s)), NEW q \in Firsts(s, 1, Len(s)), p.x = q.x
    PROVE  p = q
<1>1. /\ Len(s) \in Nat /\ \A j \in 1..Len(s) : s[j].x \in Nat
      /\ \A j1, j2 \in 1..Len(s) : j1 <= j2 => s[j1].x <= s[j2].x
  BY OrderedFacts
<1>2. PICK i \in 1..Len(s), j \in 1..Len(s) : p = s[i] /\ q = s[j] /\ IsFirst(s, i) /\ IsFirst(s, j)
  BY DEF Firsts
<1>3. ASSUME NEW a \in 1..Len(s), NEW b \in 1..Len(s), s[a].x = s[b].x, a < b, IsFirst(s, b) PROVE FALSE
  <2>1. b - 1 \in 1..Len(s) /\ a <= b - 1 /\ b - 1 <= b /\ b # 1
    BY <1>1, <1>3
  <2>2. s[a].x <= s[b - 1].x /\ s[b - 1].x <= s[b].x
    BY <1>1, <2>1
  <2> QED BY <1>1, <1>3, <2>1, <2>2 DEF IsFirst
<1>4. i = j
  BY <1>1, <1>2, <1>3
<1> QED
  BY <1>2, <1>4

LEMMA SegmentKey ==
    ASSUME NEW cs
    PROVE  get_floating_point_segment(cs).key = cs.first
BY DEF get_floating_point_segment

\* The segments with their slopes.
Floated(o) == [i \in 1..Len(o) |-> get_floating_point_segment(o[i])]

LEMMA SpreadOrder ==
    ASSUME NEW epsilon, NEW D \in SUBSET InputPoint, NEW o, Spread(epsilon, o, D)
    PROVE  /\ Len(o) \in Nat /\ \A m \in 1..Len(o) : o[m].first \in Nat
           /\ \A m1, m2 \in 1..Len(o) : m1 < m2 => o[m1].first < o[m2].first
<1>1. \A p \in D : p.x \in Nat
  BY DEF InputPoint
<1>2. \A m \in 1..Len(o) : \E p \in D : p.x = o[m].first
  BY DEF Spread
<1>3. \A m1, m2 \in 1..Len(o) : m1 < m2 => o[m1].first < o[m2].first
  BY DEF Spread
<1>4. Len(o) \in Nat
  BY DEF Spread
<1> QED
  BY <1>1, <1>2, <1>3, <1>4

(* Each segment begins with a point it follows.                            *)
LEMMA SpreadBegins ==
    ASSUME NEW epsilon, NEW D \in SUBSET InputPoint, NEW o, Spread(epsilon, o, D),
           NEW i \in 1..Len(o)
    PROVE  \E q \in D : q.x = o[i].first /\ Follows(epsilon, get_floating_point_segment(o[i]), q)
<1>1. PICK q \in D : q.x = o[i].first
  BY DEF Spread
<1>2. PICK m \in 1..Len(o) : Covers(epsilon, o, m, q)
  BY DEF Spread
<1>3. /\ Len(o) \in Nat /\ \A j \in 1..Len(o) : o[j].first \in Nat
      /\ \A j1, j2 \in 1..Len(o) : j1 < j2 => o[j1].first < o[j2].first
  BY SpreadOrder
<1>4. o[m].first <= o[i].first /\ (m < Len(o) => o[m + 1].first > o[i].first)
  BY <1>1, <1>2 DEF Covers
<1>5. ~(i < m)
  BY <1>3, <1>4
<1>6. ~(m < i)
  <2> SUFFICES ASSUME m < i PROVE FALSE
    OBVIOUS
  <2>1. m < Len(o) /\ m + 1 \in 1..Len(o) /\ (m + 1 = i \/ m + 1 < i)
    BY <1>3
  <2>2. o[m + 1].first > o[i].first
    BY <1>4, <2>1
  <2> QED BY <1>3, <2>1, <2>2
<1>7. m = i
  BY <1>3, <1>5, <1>6
<1> QED
  BY <1>1, <1>2, <1>7 DEF Covers

LEMMA SpreadFacts ==
    ASSUME NEW epsilon \in Nat \ {0}, NEW D \in SUBSET InputPoint, NEW o, Spread(epsilon, o, D), NEW c, c = Floated(o)
    PROVE  /\ Len(o) \in Nat /\ c \in Seq(SegmentRecord) /\ Len(c) = Len(o)
           /\ \A i \in 1..Len(o) : /\ c[i] = get_floating_point_segment(o[i]) /\ c[i].key = o[i].first
                                   /\ c[i] \in SegmentRecord /\ c[i].dx > 0 /\ c[i].intercept \in Nat
                                   /\ c[i].key \in Nat
           /\ \A i, j \in 1..Len(o) : i < j => c[i].key < c[j].key
<1>1. Len(o) \in Nat
  BY DEF Spread
<1>2. ASSUME NEW i \in 1..Len(o)
      PROVE  /\ c[i] = get_floating_point_segment(o[i]) /\ c[i].key = o[i].first
             /\ c[i] \in SegmentRecord /\ c[i].dx > 0 /\ c[i].intercept \in Nat /\ c[i].key \in Nat
  <2>1. c[i] = get_floating_point_segment(o[i]) /\ c[i].key = o[i].first
    BY SegmentKey DEF Floated
  <2>2. PICK q \in D : q.x = o[i].first /\ Follows(epsilon, c[i], q)
    BY <2>1, SpreadBegins
  <2>3. c[i] \in SegmentRecord /\ c[i].dx > 0
    BY <2>2 DEF Follows
  <2>4. c[i].intercept \in Nat
    BY <2>1, <2>2, InterceptFollows
  <2> QED BY <2>1, <2>3, <2>4 DEF SegmentRecord
<1>3. c \in Seq(SegmentRecord) /\ Len(c) = Len(o)
  <2>1. c \in [1..Len(o) -> SegmentRecord]
    BY <1>2 DEF Floated
  <2> QED BY <1>1, <2>1
<1>4. \A i, j \in 1..Len(o) : i < j => c[i].key < c[j].key
  BY <1>2 DEF Spread
<1> QED
  BY <1>1, <1>2, <1>3, <1>4

\* Segment i of level o is one to search from for x.
Serves(o, i, x) == o[i].key <= x /\ (x < o[i + 1].key \/ o[i + 1].key = o[i].key)

\* What is known of a position that a segment gives for x; the points of s end before
\* or at the key end.
Predicts(pos, s, epsilon, end, x) ==
    /\ pos \in Nat /\ pos <= Len(s) + epsilon /\ (end <= x => pos <= Len(s))
    /\ \A q \in Firsts(s, 1, Len(s)) :
          /\ q.x <= x => q.y <= pos + epsilon + 1
          /\ x < end /\ x <= q.x => pos <= q.y + epsilon

\* The level o of the points s: in order, closed by a sentinel, and predicting.
IsLevelOf(o, s, epsilon, end) ==
    /\ o \in Seq(SegmentRecord) /\ Len(o) >= 1 /\ o[Len(o)] = Sentinel(Len(s))
    /\ IF s = << >> THEN Len(o) = 1 ELSE Len(o) >= 2 /\ o[1].key = s[1].x
    /\ \A i \in 1..Len(o) : o[i].dx > 0
    /\ \A i, j \in 1..Len(o) : i <= j => o[i].key <= o[j].key
    /\ \A i \in 1..Len(o) : o[i].intercept \in Nat /\ o[i].intercept <= Len(s) + epsilon
    /\ \A i \in 1..(Len(o) - 1) : o[i].key <= end
    /\ \A i \in 1..(Len(o) - 2) :
          o[i].key = o[i + 1].key => \E q \in Firsts(s, 1, Len(s)) : q.x = end
    /\ \A i \in 1..(Len(o) - 1), x \in 0..(KeyMax - 1) : \A pos :
          Serves(o, i, x) /\ MayGive(o[i], o[i + 1], x, pos) => Predicts(pos, s, epsilon, end, x)

IsClamped(pos, sum, limit) == pos = Min({Max({0, sum}), limit})

LEMMA Clamped ==
    ASSUME NEW sum \in Int, NEW limit \in Nat, NEW pos, IsClamped(pos, sum, limit)
    PROVE  /\ pos \in Nat /\ pos <= limit /\ (pos = limit \/ pos >= sum)
           /\ pos <= sum \/ pos = 0
<1>1. PICK u \in Int : u = Max({0, sum}) /\ (u = 0 \/ u = sum) /\ u >= 0 /\ u >= sum
  BY MaxOfTwo
<1>2. Min({u, limit}) \in {u, limit} /\ Min({u, limit}) <= u /\ Min({u, limit}) <= limit
  BY MinOfTwo
<1> QED
  BY <1>1, <1>2 DEF IsClamped

(* A segment of the segmentation predicts for the keys up to the next one. *)
LEMMA SegmentPredicts ==
    ASSUME NEW epsilon \in Nat \ {0}, NEW s, Numbered(s), s # << >>,
           NEW D, D = Firsts(s, 1, Len(s)), NEW o, Spread(epsilon, o, D), NEW c, c = Floated(o),
           NEW end \in Nat, \A j \in 1..Len(s) : s[j].x <= end,
           NEW i \in 1..Len(o), NEW next,
           IF i < Len(o) THEN next = c[i + 1] ELSE next.intercept = Len(s),
           NEW x \in Nat, c[i].key <= x, i < Len(o) => x < next.key,
           NEW pos, MayGive(c[i], next, x, pos)
    PROVE  Predicts(pos, s, epsilon, end, x)
<1>1. /\ D \in SUBSET InputPoint
      /\ \A p \in D : p.x \in Nat /\ p.y \in Nat /\ p.y < Len(s)
      /\ \A p \in D, q \in D : p.x < q.x => p.y <= q.y
  BY FirstPoints
<1>2. /\ Len(o) \in Nat
      /\ \A j \in 1..Len(o) : /\ c[j] = get_floating_point_segment(o[j]) /\ c[j].key = o[j].first
                              /\ c[j] \in SegmentRecord /\ c[j].intercept \in Nat /\ c[j].key \in Nat
      /\ \A j1, j2 \in 1..Len(o) : j1 < j2 => c[j1].key < c[j2].key
  <2>1. PICK D2 \in SUBSET InputPoint : D2 = D
    BY <1>1
  <2>2. Spread(epsilon, o, D2)
    BY <2>1
  <2> QED BY <2>2, SpreadFacts
<1>3. PICK N \in Nat : N = Len(s)
  BY OrderedFacts DEF Numbered
<1>4. PICK p \in Nat : /\ IF c[i].dy = 0 THEN x = c[i].key => p <= 1 ELSE Near(c[i], x, p)
                       /\ pos = Min({Max({0, p + c[i].intercept}), next.intercept})
  BY DEF MayGive
<1>5. PICK sum \in Nat : sum = p + c[i].intercept
  <2>1. c[i].intercept \in Nat
    BY <1>2
  <2> QED BY <2>1
<1>6. next.intercept \in Nat
  <2>1. CASE i < Len(o)
    <3>1. i + 1 \in 1..Len(o)
      BY <1>2, <2>1
    <3> QED BY <1>2, <2>1, <3>1
  <2> QED BY <1>3, <2>1
<1>7. PICK limit \in Nat : limit = next.intercept
  BY <1>6
<1>8. pos \in Nat /\ pos <= limit /\ (pos = limit \/ pos >= sum) /\ (pos <= sum \/ pos = 0)
  <2>1. IsClamped(pos, sum, limit)
    BY <1>4, <1>5, <1>7 DEF IsClamped
  <2> QED BY <2>1, Clamped
\* The segments' own points.
<1>9. ASSUME NEW q \in D, Follows(epsilon, c[i], q)
      PROVE  /\ q.x <= x => q.y <= sum + epsilon + 1
             /\ x <= q.x => sum <= q.y + epsilon
  <2>1. PICK q2 \in InputPoint : q2 = q
    BY <1>1
  <2>2. Follows(epsilon, c[i], q2)
    BY <1>9, <2>1
  <2>3. CASE c[i].dy # 0
    <3>1. /\ q2.x <= x => q2.y <= p + c[i].intercept + epsilon + 1
          /\ x <= q2.x => p + c[i].intercept <= q2.y + epsilon
      BY <1>4, <2>2, <2>3, SumsFollow
    <3> QED BY <1>5, <2>1, <3>1
  <2>4. CASE c[i].dy = 0
    <3>1. q2.x = c[i].key /\ q2.x \in Nat /\ q2.y \in Nat
      BY <2>2, <2>4 DEF Follows, InputPoint
    <3>2. q2.y <= c[i].intercept + epsilon + 1
      BY <2>2, <3>1, InterceptFollows
    <3>3. c[i].intercept < q2.y + epsilon
      <4>1. UpperEnd(epsilon, q2).y = q2.y + epsilon
        BY EndFacts
      <4> QED BY <2>2, <2>4, <4>1 DEF Follows
    <3>4. PICK ki \in Nat, ci \in Nat : ki = c[i].key /\ ci = c[i].intercept
      BY <1>2
    <3>5. x <= q2.x => p <= 1
      BY <1>4, <2>4, <3>1, <3>4
    <3>6. sum = p + ci /\ q2.y <= ci + epsilon + 1 /\ ci < q2.y + epsilon
      BY <1>5, <3>2, <3>3, <3>4
    <3> QED BY <2>1, <3>1, <3>5, <3>6
  <2> QED BY <2>3, <2>4
<1>10. ASSUME NEW j \in 1..Len(o)
       PROVE  \E q \in D : /\ q.x = c[j].key /\ Follows(epsilon, c[j], q)
                           /\ q.y <= c[j].intercept + epsilon + 1 /\ c[j].intercept <= q.y + epsilon
  <2>3. PICK D2 \in SUBSET InputPoint : D2 = D
    BY <1>1
  <2>4. Spread(epsilon, o, D2)
    BY <2>3
  <2>5. \E q \in D2 : q.x = o[j].first /\ Follows(epsilon, get_floating_point_segment(o[j]), q)
    BY <2>4, SpreadBegins
  <2>6. c[j] = get_floating_point_segment(o[j]) /\ c[j].key = o[j].first
    BY <1>2
  <2>1. PICK q \in D : q.x = c[j].key /\ Follows(epsilon, c[j], q)
    BY <2>3, <2>5, <2>6
  <2>2. q.y <= c[j].intercept + epsilon + 1 /\ c[j].intercept <= q.y + epsilon
    BY <1>1, <2>1, InterceptFollows
  <2> QED BY <2>1, <2>2
<1>11. ASSUME NEW q \in D
       PROVE  \E j \in 1..Len(o) : /\ c[j].key <= q.x /\ Follows(epsilon, c[j], q)
                                   /\ j < Len(o) => q.x < c[j + 1].key
  <2>1. PICK j \in 1..Len(o) : Covers(epsilon, o, j, q)
    BY DEF Spread
  <2>2. j < Len(o) => q.x < c[j + 1].key
    <3> SUFFICES ASSUME j < Len(o) PROVE q.x < c[j + 1].key
      OBVIOUS
    <3>1. j + 1 \in 1..Len(o)
      BY <1>2
    <3>2. o[j + 1].first > q.x
      BY <2>1 DEF Covers
    <3>3. c[j + 1].key = o[j + 1].first /\ c[j + 1].key \in Nat /\ q.x \in Nat
      BY <1>1, <1>2, <3>1
    <3> QED BY <3>2, <3>3
  <2> QED BY <1>2, <2>1, <2>2 DEF Covers
\* The limit, above the points at or before x and below those after it.
<1>12. limit <= N + epsilon /\ \A q \in D : q.x <= x => q.y <= limit + epsilon + 1
  <2>1. CASE i < Len(o)
    <3>1. i + 1 \in 1..Len(o)
      BY <1>2, <2>1
    <3>2. PICK b \in D : /\ b.x = c[i + 1].key
                         /\ b.y <= c[i + 1].intercept + epsilon + 1 /\ c[i + 1].intercept <= b.y + epsilon
      BY <1>10, <3>1
    <3>3. limit = c[i + 1].intercept /\ b.x \in Nat /\ b.y \in Nat /\ b.y < N /\ x < b.x
      BY <1>1, <1>3, <1>7, <2>1, <3>2
    <3>4. ASSUME NEW q \in D, q.x <= x PROVE q.y <= limit + epsilon + 1
      <4>1. q.x < b.x /\ q.y \in Nat
        BY <1>1, <3>3, <3>4
      <4>2. q.y <= b.y
        BY <1>1, <4>1
      <4>3. b.y <= limit + epsilon + 1
        BY <3>2, <3>3
      <4>7. PICK top \in Int : top = limit + epsilon + 1
        OBVIOUS
      <4>4. PICK qy \in Nat, by \in Nat : qy = q.y /\ by = b.y
        BY <3>3, <4>1
      <4>5. qy <= by /\ by <= top
        BY <4>2, <4>3, <4>4, <4>7
      <4>6. qy <= top
        BY <4>5
      <4>8. q.y <= top
        BY <4>4, <4>6
      <4> QED BY <4>7, <4>8
    <3>5. limit <= N + epsilon
      <4>1. limit <= b.y + epsilon
        BY <3>2, <3>3
      <4>2. PICK by \in Nat : by = b.y
        BY <3>3
      <4>3. by < N /\ limit <= by + epsilon
        BY <3>3, <4>1, <4>2
      <4> QED BY <4>3
    <3> QED BY <3>4, <3>5
  <2>2. CASE ~(i < Len(o))
    <3>1. limit = N
      BY <1>3, <1>7, <2>2
    <3> QED BY <1>1, <1>3, <3>1
  <2> QED BY <2>1, <2>2
<1>13. ASSUME NEW q \in D, q.x <= x PROVE q.y <= pos + epsilon + 1
  <2>1. q.x \in Nat /\ q.y \in Nat
    BY <1>1
  <2>2. q.y <= limit + epsilon + 1
    BY <1>12, <1>13
  <2>3. q.y <= sum + epsilon + 1
    <3>1. PICK j \in 1..Len(o) : /\ c[j].key <= q.x /\ Follows(epsilon, c[j], q)
                                 /\ j < Len(o) => q.x < c[j + 1].key
      BY <1>11
    <3>2. CASE j = i
      BY <1>9, <1>13, <3>1, <3>2
    <3>3. CASE j < i
      <4>1. PICK b \in D : b.x = c[i].key /\ Follows(epsilon, c[i], b)
        BY <1>10
      <4>2. b.x <= x /\ b.x \in Nat /\ b.y \in Nat
        BY <1>1, <4>1
      <4>3. b.y <= sum + epsilon + 1
        BY <1>9, <4>1, <4>2
      <4>4. q.x < b.x
        <5>1. j + 1 \in 1..Len(o) /\ j < Len(o) /\ (j + 1 = i \/ j + 1 < i)
          BY <1>2, <3>3
        <5>2. q.x < c[j + 1].key /\ c[j + 1].key <= c[i].key
          BY <1>2, <3>1, <5>1
        <5> QED BY <1>2, <2>1, <4>1, <5>1, <5>2
      <4>5. q.y <= b.y
        BY <1>1, <4>4
      <4> QED BY <2>1, <4>2, <4>3, <4>5
    <3>4. CASE i < j
      <4>1. i + 1 \in 1..Len(o) /\ (i + 1 = j \/ i + 1 < j) /\ i < Len(o)
        BY <1>2, <3>4
      <4>3. x < c[i + 1].key
        BY <4>1
      <4>2. c[i + 1].key <= c[j].key
        BY <1>2, <4>1
      <4>4. PICK qx \in Nat, cj \in Nat, ci \in Nat : qx = q.x /\ cj = c[j].key /\ ci = c[i + 1].key
        BY <1>2, <2>1, <4>1
      <4>5. qx <= x /\ x < ci /\ ci <= cj /\ cj <= qx
        BY <1>13, <3>1, <4>2, <4>3, <4>4
      <4> QED BY <4>5
    <3> QED BY <1>2, <3>2, <3>3, <3>4
  <2> QED BY <1>8, <2>1, <2>2, <2>3
<1>14. ASSUME NEW q \in D, x <= q.x PROVE pos <= q.y + epsilon
  <2>1. q.x \in Nat /\ q.y \in Nat
    BY <1>1
  <2>2. PICK j \in 1..Len(o) : /\ c[j].key <= q.x /\ Follows(epsilon, c[j], q)
                               /\ j < Len(o) => q.x < c[j + 1].key
    BY <1>11
  <2>3. CASE j = i
    <3>1. sum <= q.y + epsilon
      BY <1>9, <1>14, <2>2, <2>3
    <3> QED BY <1>8, <2>1, <3>1
  <2>4. CASE j < i
    <3>1. j + 1 \in 1..Len(o) /\ j < Len(o) /\ (j + 1 = i \/ j + 1 < i)
      BY <1>2, <2>4
    <3>2. q.x < c[j + 1].key /\ c[j + 1].key <= c[i].key
      BY <1>2, <2>2, <3>1
    <3> QED BY <1>2, <1>14, <2>1, <3>1, <3>2
  <2>5. CASE i < j
    <3>1. i + 1 \in 1..Len(o) /\ (i + 1 = j \/ i + 1 < j) /\ i < Len(o)
      BY <1>2, <2>5
    <3>2. PICK b \in D : b.x = c[i + 1].key /\ c[i + 1].intercept <= b.y + epsilon
      BY <1>10, <3>1
    <3>3. b.x \in Nat /\ b.y \in Nat /\ limit = c[i + 1].intercept
      BY <1>1, <1>7, <3>1, <3>2
    <3>4. b.y <= q.y
      <4>1. c[i + 1].key <= c[j].key
        BY <1>2, <3>1
      <4>2. b.x <= q.x
        BY <1>2, <2>1, <2>2, <3>1, <3>2, <4>1
      <4>3. CASE b.x < q.x
        BY <1>1, <4>3
      <4>4. CASE b.x = q.x
        <5>2. Ordered(s) /\ b \in Firsts(s, 1, Len(s)) /\ q \in Firsts(s, 1, Len(s))
          BY DEF Numbered
        <5>1. b = q
          BY <4>4, <5>2, FirstsDiffer
        <5> QED BY <2>1, <5>1
      <4> QED BY <2>1, <3>3, <4>2, <4>3, <4>4
    <3> QED BY <1>8, <2>1, <3>2, <3>3, <3>4
  <2> QED BY <1>2, <2>3, <2>4, <2>5
<1>15. end <= x => limit = N
  <2> SUFFICES ASSUME end <= x, i < Len(o) PROVE FALSE
    BY <1>3, <1>7
  <2>1. i + 1 \in 1..Len(o)
    BY <1>2
  <2>2. PICK b \in D : b.x = c[i + 1].key
    BY <1>10, <2>1
  <2>3. \E j \in 1..Len(s) : b = s[j]
    BY DEF Firsts
  <2>4. b.x <= end /\ b.x \in Nat
    BY <1>1, <2>3
  <2> QED BY <2>2, <2>4
<1>16. pos <= N + epsilon /\ (end <= x => pos <= N)
  BY <1>8, <1>12, <1>15
<1> QED
  BY <1>3, <1>8, <1>13, <1>14, <1>16 DEF Predicts

(* The intercepts do not exceed the number of points by more than epsilon. *)
LEMMA InterceptBounded ==
    ASSUME NEW epsilon \in Nat \ {0}, NEW s, Numbered(s),
           NEW o, Spread(epsilon, o, Firsts(s, 1, Len(s))), NEW j \in 1..Len(o)
    PROVE  Floated(o)[j].intercept <= Len(s) + epsilon
<1>1. PICK D \in SUBSET InputPoint : D = Firsts(s, 1, Len(s)) /\ \A p \in D : p.y \in Nat /\ p.y < Len(s)
  <2>1. CASE s = << >>
    <3>1. Firsts(s, 1, Len(s)) = {}
      BY <2>1 DEF Firsts
    <3> QED BY <3>1
  <2>2. CASE s # << >>
    BY <2>2, FirstPoints
  <2> QED BY <2>1, <2>2
<1>2. Spread(epsilon, o, D)
  BY <1>1
<1>3. PICK q \in D : q.x = o[j].first /\ Follows(epsilon, get_floating_point_segment(o[j]), q)
  BY <1>2, SpreadBegins
<1>4. Floated(o)[j] = get_floating_point_segment(o[j]) /\ Floated(o)[j].key = o[j].first
  BY SegmentKey DEF Floated
<1>5. Floated(o)[j].intercept \in Nat /\ Floated(o)[j].intercept <= q.y + epsilon
  BY <1>1, <1>3, <1>4, InterceptFollows
<1>6. PICK qy \in Nat, N \in Nat : qy = q.y /\ N = Len(s) /\ qy < N
  BY <1>1, OrderedFacts DEF Numbered
<1> QED
  BY <1>5, <1>6

\* c is g closed by a sentinel, with a segment at the key end before it or without.
ClosedBy(c, g, N, end) ==
    \/ c = Append(g, Sentinel(N))
    \/ c = g \o <<Segment(end, 0, 1, N), Sentinel(N)>>

LEMMA KeyMaxNat == KeyMax \in Nat
BY ParametersAssumption

LEMMA SentinelFacts ==
    ASSUME NEW N \in Nat, NEW end \in Nat
    PROVE  /\ Sentinel(N) \in SegmentRecord /\ Sentinel(N).key = KeyMax /\ Sentinel(N).intercept = N
           /\ Sentinel(N).dx = 1
           /\ Segment(end, 0, 1, N) \in SegmentRecord /\ Segment(end, 0, 1, N).key = end
           /\ Segment(end, 0, 1, N).intercept = N
           /\ Segment(end, 0, 1, N).dy = 0 /\ Segment(end, 0, 1, N).dx = 1
BY KeyMaxNat DEF Sentinel, Segment, SegmentRecord

LEMMA ClosedFacts ==
    ASSUME NEW N \in Nat, NEW end \in Nat, NEW g \in Seq(SegmentRecord), NEW c, ClosedBy(c, g, N, end)
    PROVE  /\ c \in Seq(SegmentRecord) /\ (Len(c) = Len(g) + 1 \/ Len(c) = Len(g) + 2)
           /\ \A i \in 1..Len(g) : c[i] = g[i]
           /\ c[Len(c)] = Sentinel(N)
           /\ Len(c) = Len(g) + 2 => c[Len(g) + 1] = Segment(end, 0, 1, N)
<1>1. PICK t, e : t = Sentinel(N) /\ e = Segment(end, 0, 1, N)
  OBVIOUS
<1>2. t \in SegmentRecord /\ e \in SegmentRecord
  BY <1>1, SentinelFacts
<1>3. Len(g) \in Nat
  OBVIOUS
<1>4. CASE c = Append(g, t)
  BY <1>1, <1>2, <1>3, <1>4
<1>5. CASE c = g \o <<e, t>>
  <2>1. <<e, t>> \in Seq(SegmentRecord) /\ Len(<<e, t>>) = 2
    BY <1>2
  <2>2. c \in Seq(SegmentRecord) /\ Len(c) = Len(g) + 2
    BY <1>5, <2>1
  <2>3. \A i \in 1..Len(g) : c[i] = g[i]
    BY <1>3, <1>5, <2>1
  <2>4. c[Len(g) + 1] = e /\ c[Len(g) + 2] = t
    BY <1>3, <1>5, <2>1
  <2> QED BY <1>1, <2>2, <2>3, <2>4
<1> QED
  BY <1>1, <1>4, <1>5 DEF ClosedBy

(* The level that is built over the points s.                              *)
LEMMA LevelClosed ==
    ASSUME NEW epsilon \in Nat \ {0}, NEW s, Numbered(s), s # << >>,
           NEW o, Spread(epsilon, o, Firsts(s, 1, Len(s))),
           NEW end \in Nat, end <= KeyMax, \A j \in 1..Len(s) : s[j].x <= end,
           NEW c, ClosedBy(c, Floated(o), Len(s), end)
    PROVE  IsLevelOf(c, s, epsilon, end)
<1>1. PICK D : D = Firsts(s, 1, Len(s))
  OBVIOUS
<1>2. /\ D \in SUBSET InputPoint /\ s[1] \in D
      /\ \A p \in D : p.x \in Nat /\ p.y \in Nat /\ p.y < Len(s)
  BY <1>1, FirstPoints
<1>3. PICK N \in Nat : N = Len(s) /\ \A j \in 1..N : s[j].x \in Nat
  BY OrderedFacts DEF Numbered
<1>4. Spread(epsilon, o, D)
  BY <1>1
<1>5. PICK g : g = Floated(o)
  OBVIOUS
<1>18. /\ Len(o) \in Nat /\ g \in Seq(SegmentRecord) /\ Len(g) = Len(o)
       /\ \A i \in 1..Len(o) : /\ g[i] = get_floating_point_segment(o[i]) /\ g[i].key = o[i].first
                               /\ g[i] \in SegmentRecord /\ g[i].dx > 0 /\ g[i].intercept \in Nat
                               /\ g[i].key \in Nat
       /\ \A i, j \in 1..Len(o) : i < j => g[i].key < g[j].key
  <2>1. PICK D2 \in SUBSET InputPoint : D2 = D
    BY <1>2
  <2>2. Spread(epsilon, o, D2)
    BY <1>4, <2>1
  <2>3. /\ Len(o) \in Nat /\ Floated(o) \in Seq(SegmentRecord) /\ Len(Floated(o)) = Len(o)
        /\ \A i \in 1..Len(o) : /\ Floated(o)[i] = get_floating_point_segment(o[i])
                                /\ Floated(o)[i].key = o[i].first
                                /\ Floated(o)[i] \in SegmentRecord /\ Floated(o)[i].dx > 0
                                /\ Floated(o)[i].intercept \in Nat /\ Floated(o)[i].key \in Nat
        /\ \A i, j \in 1..Len(o) : i < j => Floated(o)[i].key < Floated(o)[j].key
    BY <2>2, SpreadFacts
  <2> QED BY <1>5, <2>3
<1>6. PICK L \in Nat : /\ L = Len(o) /\ g \in Seq(SegmentRecord) /\ Len(g) = L
                       /\ \A i \in 1..L : g[i].key = o[i].first /\ g[i].key \in Nat
                       /\ \A i, j \in 1..L : i < j => g[i].key < g[j].key
  <2>1. /\ Len(o) \in Nat /\ g \in Seq(SegmentRecord) /\ Len(g) = Len(o)
        /\ \A i \in 1..Len(o) : g[i].key = o[i].first /\ g[i].key \in Nat
        /\ \A i, j \in 1..Len(o) : i < j => g[i].key < g[j].key
    BY <1>18
  <2>2. PICK L \in Nat : L = Len(o)
    BY <2>1
  <2> QED BY <2>1, <2>2
<1>7. PICK M \in Nat : /\ M = Len(c) /\ c \in Seq(SegmentRecord) /\ (M = L + 1 \/ M = L + 2)
                       /\ \A i \in 1..L : c[i] = g[i]
                       /\ c[M] = Sentinel(N)
                       /\ M = L + 2 => c[L + 1] = Segment(end, 0, 1, N)
  <2>1. ClosedBy(c, g, N, end)
    BY <1>3, <1>5
  <2>2. /\ c \in Seq(SegmentRecord) /\ (Len(c) = Len(g) + 1 \/ Len(c) = Len(g) + 2)
        /\ \A i \in 1..Len(g) : c[i] = g[i]
        /\ c[Len(c)] = Sentinel(N)
        /\ Len(c) = Len(g) + 2 => c[Len(g) + 1] = Segment(end, 0, 1, N)
    BY <1>6, <2>1, ClosedFacts
  <2>3. PICK M \in Nat : M = Len(c)
    BY <2>2
  <2>4. M = L + 1 \/ M = L + 2
    BY <1>6, <2>2, <2>3
  <2>5. \A i \in 1..L : c[i] = g[i]
    BY <1>6, <2>2
  <2>6. M = L + 2 => c[L + 1] = Segment(end, 0, 1, N)
    BY <1>6, <2>2, <2>3
  <2>7. c[M] = Sentinel(N)
    BY <2>2, <2>3
  <2>8. c \in Seq(SegmentRecord)
    BY <2>2
  <2> QED BY <2>3, <2>4, <2>5, <2>6, <2>7, <2>8
<1>8. \A i \in 1..L : \E p \in D : p.x = c[i].key
  <2>1. SUFFICES ASSUME NEW i \in 1..L
                 PROVE  \E p \in D : p.x = c[i].key
    OBVIOUS
  <2>2. c[i] = g[i] /\ g[i].key = o[i].first /\ L = Len(o)
    BY <2>1, <1>6, <1>7
  <2>3. \A j \in 1..Len(o) : \E p \in D : p.x = o[j].first
    BY <1>4 DEF Spread
  <2>4. \E p \in D : p.x = o[i].first
    BY <2>1, <2>2, <2>3
  <2> QED BY <2>2, <2>4
<1>9. \A p \in D : p.x <= end
  BY <1>1 DEF Firsts
<1>10. /\ \A i \in 1..L : c[i].key \in Nat /\ c[i].key <= end
       /\ M = L + 2 => /\ c[L + 1].key = end /\ c[L + 1].intercept = N
                       /\ c[L + 1].dy = 0 /\ c[L + 1].dx = 1
       /\ c[M].key = KeyMax /\ c[M].intercept = N
  <2>1. \A i \in 1..L : c[i].key \in Nat /\ c[i].key <= end
    BY <1>2, <1>6, <1>7, <1>8, <1>9
  <2>2. c[M].key = KeyMax /\ c[M].intercept = N
    BY <1>7, SentinelFacts
  <2>3. M = L + 2 => /\ c[L + 1].key = end /\ c[L + 1].intercept = N
                     /\ c[L + 1].dy = 0 /\ c[L + 1].dx = 1
    BY <1>7, SentinelFacts
  <2> QED BY <2>1, <2>2, <2>3
<1>11. L >= 1 /\ c[1].key = s[1].x
  <2>1. PICK j \in 1..L : Covers(epsilon, o, j, s[1])
    BY <1>2, <1>4, <1>6 DEF Spread
  <2>2. g[j].key <= s[1].x
    BY <1>6, <2>1 DEF Covers
  <2>3. 1 \in 1..L /\ g[1].key <= g[j].key
    BY <1>6
  <2>4. PICK p \in D : p.x = g[1].key
    BY <1>7, <1>8, <2>3
  <2>5. s[1].x <= p.x
    <3>1. PICK m \in 1..N : p = s[m]
      BY <1>1, <1>3 DEF Firsts
    <3>2. 1 \in 1..N /\ 1 <= m
      BY <1>3
    <3> QED BY <1>3, <3>1, <3>2, OrderedFacts DEF Numbered
  <2>6. s[1].x \in Nat /\ g[j].key \in Nat /\ g[1].key \in Nat /\ c[1] = g[1] /\ L >= 1
    BY <1>2, <1>6, <1>7, <2>3
  <2> QED BY <2>2, <2>3, <2>4, <2>5, <2>6
<1>12. \A i, j \in 1..M : i <= j => c[i].key <= c[j].key
  <2> SUFFICES ASSUME NEW i \in 1..M, NEW j \in 1..M, i <= j PROVE c[i].key <= c[j].key
    OBVIOUS
  <2>1. KeyMax \in Nat
    BY KeyMaxNat
  <2>2. CASE i \in 1..L /\ j \in 1..L
    <3>1. c[i] = g[i] /\ c[j] = g[j] /\ g[i].key \in Nat /\ (i < j \/ i = j)
      BY <1>6, <1>7, <2>2
    <3>2. CASE i < j
      <4>1. g[i].key < g[j].key /\ g[j].key \in Nat
        BY <1>6, <2>2, <3>2
      <4> QED BY <3>1, <4>1
    <3>3. CASE i = j
      BY <3>1, <3>3
    <3> QED BY <3>1, <3>2, <3>3
  <2>3. CASE i \in 1..L /\ j \notin 1..L
    <3>1. c[i].key \in Nat /\ c[i].key <= end
      BY <1>10, <2>3
    <3>2. j = M \/ (M = L + 2 /\ j = L + 1)
      BY <1>7, <2>3
    <3>3. c[j].key = KeyMax \/ c[j].key = end
      BY <1>10, <3>2
    <3> QED BY <2>1, <3>1, <3>3
  <2>4. CASE i \notin 1..L
    BY <1>7, <1>10, <2>1, <2>4
  <2> QED BY <2>2, <2>3, <2>4
<1>13. \A i \in 1..(M - 1) : c[i].key <= end
  BY <1>7, <1>10
<1>14. \A i \in 1..(M - 2) : c[i].key = c[i + 1].key => \E q \in D : q.x = end
  <2> SUFFICES ASSUME NEW i \in 1..(M - 2), c[i].key = c[i + 1].key PROVE \E q \in D : q.x = end
    OBVIOUS
  <2>1. i \in 1..L /\ ~(i + 1 \in 1..L)
    <3>1. i \in 1..L
      BY <1>7
    <3>2. ASSUME i + 1 \in 1..L PROVE FALSE
      <4>1. g[i].key < g[i + 1].key /\ c[i] = g[i] /\ c[i + 1] = g[i + 1]
        BY <1>6, <1>7, <3>1, <3>2
      <4>2. g[i].key \in Nat
        BY <1>6, <3>1
      <4> QED BY <4>1, <4>2
    <3> QED BY <3>1, <3>2
  <2>2. i = L /\ M = L + 2
    BY <1>7, <2>1
  <2> QED BY <1>8, <1>10, <2>1, <2>2
<1>15. ASSUME NEW i \in 1..(M - 1), NEW x \in 0..(KeyMax - 1), NEW pos,
              Serves(c, i, x), MayGive(c[i], c[i + 1], x, pos)
       PROVE  Predicts(pos, s, epsilon, end, x)
  <2>1. x \in Nat /\ c[i].key <= x /\ (x < c[i + 1].key \/ c[i + 1].key = c[i].key)
    BY <1>15, KeyMaxNat DEF Serves
  <2>2. CASE i \in 1..L
    <3>1. IF i < L THEN c[i + 1] = g[i + 1] ELSE c[i + 1].intercept = N
      BY <1>6, <1>7, <1>10, <2>2
    <3>2. i < L => x < c[i + 1].key
      <4> SUFFICES ASSUME i < L PROVE c[i + 1].key # c[i].key
        BY <2>1
      <4>1. i + 1 \in 1..L
        BY <1>6, <2>2
      <4>2. g[i].key < g[i + 1].key /\ c[i] = g[i] /\ c[i + 1] = g[i + 1]
        BY <1>6, <1>7, <2>2, <4>1
      <4>3. g[i].key \in Nat
        BY <1>6, <2>2
      <4> QED BY <4>2, <4>3
    <3>3. PICK next : next = c[i + 1]
      OBVIOUS
    <3>4. MayGive(g[i], next, x, pos) /\ g[i].key <= x
      BY <1>7, <1>15, <2>1, <2>2, <3>3
    <3>5. IF i < Len(o) THEN next = g[i + 1] ELSE next.intercept = Len(s)
      BY <1>3, <1>6, <3>1, <3>3
    <3>6. i < Len(o) => x < next.key
      BY <1>6, <3>2, <3>3
    <3>7. i \in 1..Len(o)
      BY <1>6, <2>2
    <3> QED BY <1>1, <1>4, <1>5, <2>1, <3>4, <3>5, <3>6, <3>7, SegmentPredicts
  <2>3. CASE i \notin 1..L
    <3>1. i = L + 1 /\ M = L + 2 /\ i + 1 = M
      BY <1>7, <2>3
    <3>2. /\ c[i].key = end /\ c[i].intercept = N /\ c[i].dy = 0 /\ c[i].dx = 1
          /\ c[i + 1].intercept = N
      BY <1>10, <3>1
    <3>3. PICK p \in Nat : pos = Min({Max({0, p + N}), N})
      BY <1>15, <3>2 DEF MayGive
    <3>4. PICK sum \in Nat : sum = p + N /\ sum >= N
      OBVIOUS
    <3>5. IsClamped(pos, sum, N)
      BY <3>3, <3>4 DEF IsClamped
    <3>6. pos = N
      BY <3>4, <3>5, Clamped
    <3>7. end <= x
      BY <2>1, <3>2
    <3> QED BY <1>1, <1>2, <1>3, <2>1, <3>6, <3>7 DEF Predicts
  <2> QED BY <2>2, <2>3
<1>16. M >= 2
  BY <1>7, <1>11
<1>17. \A i \in 1..M : c[i].dx > 0
  <2>1. \A i \in 1..L : c[i].dx > 0
    BY <1>6, <1>7, <1>18
  <2>2. c[M].dx = 1 /\ (M = L + 2 => c[L + 1].dx = 1)
    BY <1>7, <1>10, SentinelFacts
  <2> SUFFICES ASSUME NEW i \in 1..M PROVE c[i].dx > 0
    OBVIOUS
  <2>3. i \in 1..L \/ i = M \/ (M = L + 2 /\ i = L + 1)
    BY <1>7
  <2>4. CASE i \in 1..L
    BY <2>1, <2>4
  <2>5. CASE i = M
    <3>1. c[i].dx = 1
      BY <2>2, <2>5
    <3> QED BY <3>1
  <2>6. CASE M = L + 2 /\ i = L + 1
    <3>1. c[i].dx = 1
      BY <2>2, <2>6
    <3> QED BY <3>1
  <2> QED BY <2>3, <2>4, <2>5, <2>6
<1>19. \A i \in 1..M : c[i].intercept \in Nat /\ c[i].intercept <= N + epsilon
  <2> SUFFICES ASSUME NEW i \in 1..M PROVE c[i].intercept \in Nat /\ c[i].intercept <= N + epsilon
    OBVIOUS
  <2>1. CASE i \in 1..L
    <3>1. i \in 1..Len(o) /\ c[i] = g[i]
      BY <1>6, <1>7, <2>1
    <3>2. g[i].intercept <= Len(s) + epsilon
      BY <1>5, <3>1, InterceptBounded
    <3>3. g[i].intercept \in Nat
      BY <1>18, <3>1
    <3> QED BY <1>3, <3>1, <3>2, <3>3
  <2>2. CASE i \notin 1..L
    <3>1. i = M \/ (M = L + 2 /\ i = L + 1)
      BY <1>7, <2>2
    <3>2. c[M].intercept = N /\ (M = L + 2 => c[L + 1].intercept = N)
      BY <1>10
    <3>3. c[i].intercept = N
      BY <3>1, <3>2
    <3> QED BY <3>3
  <2> QED BY <2>1, <2>2
<1> QED
  BY <1>1, <1>3, <1>7, <1>11, <1>12, <1>13, <1>14, <1>15, <1>16, <1>17, <1>19 DEF IsLevelOf

(* The level of no points: its sentinel alone.                             *)
LEMMA EmptyLevel ==
    ASSUME NEW epsilon \in Nat, NEW end
    PROVE  IsLevelOf(<<Sentinel(0)>>, << >>, epsilon, end)
<1>1. Sentinel(0) \in SegmentRecord
  BY SentinelFacts, 0 \in Nat
<1>2. PICK o : o = <<Sentinel(0)>>
  OBVIOUS
<1>3. o \in Seq(SegmentRecord) /\ Len(o) = 1 /\ o[1] = Sentinel(0)
  BY <1>1, <1>2
<1>4. /\ Sentinel(0).key <= Sentinel(0).key /\ Sentinel(0).dx > 0
      /\ Sentinel(0).intercept \in Nat /\ Sentinel(0).intercept <= 0 + epsilon
  BY SentinelFacts, KeyMaxNat, 0 \in Nat
<1>5. \A i, j \in 1..1 : i = 1 /\ j = 1
  OBVIOUS
<1>6. 1..(1 - 1) = {} /\ 1..(1 - 2) = {}
  OBVIOUS
<1> QED
  BY <1>2, <1>3, <1>4, <1>5, <1>6 DEF IsLevelOf

-----------------------------------------------------------------------------
(* The points a level is built over.                                       *)

LEMMA SeqElements ==
    ASSUME NEW X, NEW s \in Seq(X)
    PROVE  Len(s) \in Nat /\ \A i \in 1..Len(s) : s[i] \in X
OBVIOUS

\* s is a sequence of N elements.
HasLength(s, N) == s = [i \in 1..N |-> s[i]]

LEMMA SeqMade ==
    ASSUME NEW X, NEW N \in Nat, NEW s, HasLength(s, N), \A i \in 1..N : s[i] \in X
    PROVE  s \in Seq(X) /\ Len(s) = N
<1>1. s \in [1..N -> X]
  BY DEF HasLength
<1> QED
  BY <1>1

IsData(d) ==
    /\ d \in Seq(0..KeyMax) /\ d # << >>
    /\ \A i, j \in 1..Len(d) : i <= j => d[i] <= d[j]

\* The largest key is at most the last one.
OneMax(d) == \A i \in 1..(Len(d) - 1) : d[i] < KeyMax

\* How many keys the first level indexes, the key just above them, and their points.
Indexed(d) == Len(d) - (IF d[Len(d)] = KeyMax THEN 1 ELSE 0)
End(d) == d[Indexed(d)] + 1
Flagged(d, i) ==
    i > 0 /\ i + 1 < Len(d) /\ d[i + 1] = d[i] /\ d[i + 1] # d[i + 2] /\ d[i + 1] + 1 # d[i + 2]
KeyPoint(d, i) == Point(IF Flagged(d, i) THEN d[i + 1] + 1 ELSE d[i + 1], i)
KeyPoints(d) == [i \in 1..Indexed(d) |-> KeyPoint(d, i - 1)]

\* The points of the level above the level o.
UpperPoints(o) == [i \in 1..(Len(o) - 1) |-> Point(o[i].key, i - 1)]

LEMMA IndexedFacts ==
    ASSUME NEW d, IsData(d)
    PROVE  /\ Len(d) \in Nat /\ Len(d) >= 1 /\ Indexed(d) \in Nat
           /\ Indexed(d) <= Len(d) /\ Len(d) <= Indexed(d) + 1
           /\ (Indexed(d) = Len(d) <=> d[Len(d)] # KeyMax)
           /\ \A i \in 1..Len(d) : d[i] \in Nat /\ d[i] <= KeyMax
           /\ \A i, j \in 1..Len(d) : i <= j => d[i] <= d[j]
<1>1. Len(d) \in Nat /\ Len(d) >= 1
  BY DEF IsData
<1>2. \A i \in 1..Len(d) : d[i] \in 0..KeyMax
  BY SeqElements DEF IsData
<1> QED
  BY <1>1, <1>2, KeyMaxNat DEF IsData, Indexed

LEMMA KeyPointFacts ==
    ASSUME NEW d, IsData(d), NEW j \in 1..Indexed(d)
    PROVE  /\ KeyPoints(d)[j].y = j - 1
           /\ KeyPoints(d)[j].x = d[j] \/ (Flagged(d, j - 1) /\ KeyPoints(d)[j].x = d[j] + 1)
           /\ Flagged(d, j - 1) => /\ KeyPoints(d)[j].x = d[j] + 1 /\ d[j] + 1 < d[j + 1]
                                   /\ j + 1 \in 1..Len(d) /\ j > 1 /\ d[j - 1] = d[j]
           /\ ~Flagged(d, j - 1) => KeyPoints(d)[j].x = d[j]
<1>1. /\ Len(d) \in Nat /\ Indexed(d) \in Nat /\ Indexed(d) <= Len(d)
      /\ \A i \in 1..Len(d) : d[i] \in Nat
      /\ \A i1, i2 \in 1..Len(d) : i1 <= i2 => d[i1] <= d[i2]
  BY IndexedFacts
<1>2. KeyPoints(d)[j] = KeyPoint(d, j - 1)
  BY DEF KeyPoints
<1>3. (j - 1) + 1 = j /\ (j - 1) + 2 = j + 1 /\ j \in 1..Len(d)
  BY <1>1
<1>4. KeyPoint(d, j - 1).y = j - 1 /\ KeyPoint(d, j - 1).x = IF Flagged(d, j - 1) THEN d[j] + 1 ELSE d[j]
  BY <1>3 DEF KeyPoint, Point
<1>5. ASSUME Flagged(d, j - 1) PROVE d[j] + 1 < d[j + 1] /\ j + 1 \in 1..Len(d) /\ j > 1 /\ d[j - 1] = d[j]
  <2>1. j - 1 > 0 /\ j < Len(d) /\ d[j] = d[j - 1] /\ d[j] # d[j + 1] /\ d[j] + 1 # d[j + 1]
    BY <1>3, <1>5 DEF Flagged
  <2>2. j + 1 \in 1..Len(d) /\ j <= j + 1
    BY <1>1, <2>1
  <2>3. d[j] <= d[j + 1] /\ d[j] \in Nat /\ d[j + 1] \in Nat
    BY <1>1, <1>3, <2>2
  <2> QED BY <2>1, <2>2, <2>3
<1> QED
  BY <1>2, <1>4, <1>5

LEMMA KeyPointsNumbered ==
    ASSUME NEW d, IsData(d)
    PROVE  /\ Numbered(KeyPoints(d)) /\ Len(KeyPoints(d)) = Indexed(d)
           /\ \A j \in 1..Indexed(d) : KeyPoints(d)[j].x \in Nat /\ KeyPoints(d)[j].x <= End(d)
           /\ Indexed(d) >= 1 => KeyPoints(d)[1].x = d[1]
           /\ Indexed(d) >= 1 /\ OneMax(d) => End(d) \in Nat /\ End(d) <= KeyMax
<1>1. /\ Len(d) \in Nat /\ Indexed(d) \in Nat /\ Indexed(d) <= Len(d) /\ Len(d) <= Indexed(d) + 1
      /\ (Indexed(d) = Len(d) <=> d[Len(d)] # KeyMax)
      /\ \A i \in 1..Len(d) : d[i] \in Nat /\ d[i] <= KeyMax
      /\ \A i, j \in 1..Len(d) : i <= j => d[i] <= d[j]
  BY IndexedFacts
<1>2. PICK s : s = KeyPoints(d)
  OBVIOUS
<1>3. ASSUME NEW j \in 1..Indexed(d)
      PROVE  /\ s[j].y = j - 1 /\ s[j].x \in Nat /\ d[j] <= s[j].x /\ s[j].x <= d[j] + 1
             /\ s[j].x > d[j] => j + 1 \in 1..Len(d) /\ s[j].x < d[j + 1]
  <2>1. d[j] \in Nat /\ j \in 1..Len(d)
    BY <1>1
  <2>2. CASE Flagged(d, j - 1)
    <3>1. /\ s[j].y = j - 1 /\ s[j].x = d[j] + 1 /\ d[j] + 1 < d[j + 1] /\ j + 1 \in 1..Len(d)
      BY <1>2, <2>2, KeyPointFacts
    <3> QED BY <2>1, <3>1
  <2>3. CASE ~Flagged(d, j - 1)
    <3>1. s[j].y = j - 1 /\ s[j].x = d[j]
      BY <1>2, <2>3, KeyPointFacts
    <3> QED BY <2>1, <3>1
  <2> QED BY <2>2, <2>3
<1>4. s \in Seq(InputPoint) /\ Len(s) = Indexed(d)
  <2>1. \A j \in 1..Indexed(d) : s[j] \in InputPoint
    <3> SUFFICES ASSUME NEW j \in 1..Indexed(d) PROVE s[j] \in InputPoint
      OBVIOUS
    <3>1. s[j] = KeyPoint(d, j - 1)
      BY <1>2 DEF KeyPoints
    <3>2. PICK a, b : s[j] = [x |-> a, y |-> b]
      BY <3>1 DEF KeyPoint, Point
    <3>3. a \in Nat /\ b \in Nat
      BY <1>3, <3>2
    <3> QED BY <3>2, <3>3 DEF InputPoint
  <2>2. HasLength(s, Indexed(d))
    BY <1>2 DEF KeyPoints, HasLength
  <2> QED BY <1>1, <2>1, <2>2, SeqMade
<1>5. ASSUME NEW i \in 1..Indexed(d), NEW j \in 1..Indexed(d), i <= j PROVE s[i].x <= s[j].x /\ s[i].y <= s[j].y
  <2>1. s[i].y <= s[j].y
    BY <1>3, <1>5
  <2>2. i \in 1..Len(d) /\ j \in 1..Len(d) /\ d[i] \in Nat /\ d[j] \in Nat
    BY <1>1
  <2>3. CASE i = j
    BY <1>3, <2>1, <2>3
  <2>5. i < j \/ i = j
    BY <1>1, <1>5
  <2>4. CASE i < j
    <3>1. s[i].x <= d[j]
      <4>1. CASE s[i].x > d[i]
        <5>1. i + 1 \in 1..Len(d) /\ s[i].x < d[i + 1] /\ i + 1 <= j
          BY <1>3, <2>2, <2>4, <4>1
        <5>2. d[i + 1] <= d[j] /\ d[i + 1] \in Nat
          BY <1>1, <2>2, <5>1
        <5>3. PICK sx \in Nat, dn \in Nat, dj \in Nat : sx = s[i].x /\ dn = d[i + 1] /\ dj = d[j]
          BY <1>3, <2>2, <5>2
        <5>4. sx < dn /\ dn <= dj
          BY <5>1, <5>2, <5>3
        <5>5. sx <= dj
          BY <5>4
        <5> QED BY <5>3, <5>5
      <4>2. CASE ~(s[i].x > d[i])
        <5>1. d[i] <= d[j]
          BY <1>1, <1>5, <2>2
        <5>2. s[i].x = d[i]
          BY <1>3, <2>2, <4>2
        <5> QED BY <5>1, <5>2
      <4> QED BY <4>1, <4>2
    <3> QED BY <1>3, <2>1, <2>2, <3>1
  <2> QED BY <2>3, <2>4, <2>5
<1>6. Numbered(s)
  BY <1>3, <1>4, <1>5 DEF Numbered, Ordered
<1>7. \A j \in 1..Indexed(d) : s[j].x \in Nat /\ s[j].x <= End(d)
  <2> SUFFICES ASSUME NEW j \in 1..Indexed(d) PROVE s[j].x \in Nat /\ s[j].x <= End(d)
    OBVIOUS
  <2>1. Indexed(d) \in 1..Len(d) /\ j \in 1..Len(d) /\ j <= Indexed(d)
    BY <1>1
  <2>2. d[j] <= d[Indexed(d)] /\ d[j] \in Nat /\ d[Indexed(d)] \in Nat
    BY <1>1, <2>1
  <2> QED BY <1>3, <2>2 DEF End
<1>8. Indexed(d) >= 1 => s[1].x = d[1]
  <2> SUFFICES ASSUME Indexed(d) >= 1 PROVE s[1].x = d[1]
    OBVIOUS
  <2>1. 1 \in 1..Indexed(d) /\ ~Flagged(d, 1 - 1)
    BY <1>1 DEF Flagged
  <2> QED BY <1>2, <2>1, KeyPointFacts
<1>9. Indexed(d) >= 1 /\ OneMax(d) => End(d) \in Nat /\ End(d) <= KeyMax
  <2> SUFFICES ASSUME Indexed(d) >= 1, OneMax(d) PROVE End(d) \in Nat /\ End(d) <= KeyMax
    OBVIOUS
  <2>1. Indexed(d) \in 1..Len(d) /\ d[Indexed(d)] \in Nat /\ d[Indexed(d)] <= KeyMax
    BY <1>1
  <2>2. d[Indexed(d)] # KeyMax
    <3>1. CASE Indexed(d) = Len(d)
      BY <1>1, <3>1
    <3>2. CASE Indexed(d) # Len(d)
      <4>1. Indexed(d) \in 1..(Len(d) - 1)
        BY <1>1, <2>1, <3>2
      <4> QED BY <2>1, <4>1, KeyMaxNat DEF OneMax
    <3> QED BY <3>1, <3>2
  <2> QED BY <2>1, <2>2, KeyMaxNat DEF End
<1> QED
  BY <1>2, <1>4, <1>6, <1>7, <1>8, <1>9

LEMMA UpperPointsNumbered ==
    ASSUME NEW o, NEW s, NEW epsilon, NEW end, IsLevelOf(o, s, epsilon, end), s # << >>
    PROVE  /\ Numbered(UpperPoints(o)) /\ UpperPoints(o) # << >>
           /\ Len(UpperPoints(o)) = Len(o) - 1 /\ Len(o) \in Nat /\ Len(o) >= 2
           /\ \A j \in 1..(Len(o) - 1) : UpperPoints(o)[j] = Point(o[j].key, j - 1) /\ o[j].key \in Nat
           /\ \A j \in 1..(Len(o) - 1) : UpperPoints(o)[j].x = o[j].key /\ o[j].key <= end
           /\ UpperPoints(o)[1].x = s[1].x
<1>1. /\ o \in Seq(SegmentRecord) /\ Len(o) >= 2 /\ o[1].key = s[1].x
      /\ \A i, j \in 1..Len(o) : i <= j => o[i].key <= o[j].key
      /\ \A j \in 1..(Len(o) - 1) : o[j].key <= end
  BY DEF IsLevelOf
<1>2. Len(o) \in Nat /\ \A j \in 1..Len(o) : o[j] \in SegmentRecord
  BY <1>1, SeqElements
<1>3. PICK c \in Nat : c = Len(o) - 1 /\ c >= 1
  <2>1. PICK m \in Nat : m = Len(o) /\ m >= 2
    BY <1>1, <1>2
  <2>2. m - 1 \in Nat /\ m - 1 >= 1
    BY <2>1
  <2> QED BY <2>1, <2>2
<1>4. PICK u : u = UpperPoints(o)
  OBVIOUS
<1>5. ASSUME NEW j \in 1..c
      PROVE  /\ u[j] = Point(o[j].key, j - 1) /\ o[j].key \in Nat /\ j - 1 \in Nat
             /\ u[j].x = o[j].key /\ u[j].y = j - 1 /\ u[j] \in InputPoint
  <2>1. u[j] = Point(o[j].key, j - 1)
    BY <1>3, <1>4 DEF UpperPoints
  <2>2. j \in 1..Len(o) /\ j - 1 \in Nat
    BY <1>2, <1>3
  <2>3. o[j].key \in Nat
    BY <1>2, <2>2 DEF SegmentRecord
  <2>4. u[j] = [x |-> o[j].key, y |-> j - 1]
    BY <2>1 DEF Point
  <2> QED BY <2>1, <2>2, <2>3, <2>4 DEF InputPoint
<1>6. u \in Seq(InputPoint) /\ Len(u) = c
  <2>1. HasLength(u, c)
    BY <1>3, <1>4 DEF UpperPoints, HasLength
  <2> QED BY <1>5, <2>1, SeqMade
<1>7. ASSUME NEW i \in 1..c, NEW j \in 1..c, i <= j PROVE u[i].x <= u[j].x /\ u[i].y <= u[j].y
  <2>1. i \in 1..Len(o) /\ j \in 1..Len(o)
    BY <1>2, <1>3
  <2> QED BY <1>1, <1>5, <1>7, <2>1
<1>8. Numbered(u)
  BY <1>5, <1>6, <1>7 DEF Numbered, Ordered
<1>9. u # << >> /\ 1 \in 1..c
  BY <1>3, <1>6
<1>10. u[1].x = s[1].x
  BY <1>1, <1>5, <1>9
<1> QED
  BY <1>1, <1>2, <1>3, <1>4, <1>5, <1>6, <1>8, <1>9, <1>10

-----------------------------------------------------------------------------
(* The levels of an index with the segments S and the offsets O, counted   *)
(* from 1 on.                                                              *)

OffsetsFit(S, O) ==
    /\ S \in Seq(SegmentRecord) /\ O \in Seq(Nat) /\ O # << >>
    /\ O[1] = 0 /\ O[Len(O)] = Len(S)
    /\ \A i, j \in 1..Len(O) : i < j => O[i] < O[j]

LevelOf(S, O, l) == [i \in 1..(O[l + 1] - O[l]) |-> S[O[l] + i]]

PointsOf(d, S, O, l) == IF l = 1 THEN KeyPoints(d) ELSE UpperPoints(LevelOf(S, O, l - 1))

EpsilonOf(recursive, l) == IF l = 1 THEN Epsilon ELSE recursive

IndexOf(d, S, O, recursive) ==
    \A l \in 1..(Len(O) - 1) :
        IsLevelOf(LevelOf(S, O, l), PointsOf(d, S, O, l), EpsilonOf(recursive, l), End(d))

LEMMA OffsetsFacts ==
    ASSUME NEW S, NEW O, OffsetsFit(S, O)
    PROVE  /\ Len(S) \in Nat /\ Len(O) \in Nat /\ Len(O) >= 1
           /\ \A i \in 1..Len(O) : O[i] \in Nat /\ O[i] <= Len(S)
           /\ \A i, j \in 1..Len(O) : i <= j => O[i] <= O[j]
<1>1. Len(S) \in Nat /\ Len(O) \in Nat /\ \A i \in 1..Len(O) : O[i] \in Nat
  BY SeqElements DEF OffsetsFit
<1>2. Len(O) >= 1
  BY <1>1 DEF OffsetsFit
<1>3. ASSUME NEW i \in 1..Len(O), NEW j \in 1..Len(O), i <= j PROVE O[i] <= O[j]
  <2>1. i = j \/ i < j
    BY <1>1, <1>3
  <2>2. O[i] \in Nat /\ O[j] \in Nat
    BY <1>1
  <2>3. i < j => O[i] < O[j]
    BY DEF OffsetsFit
  <2> QED BY <2>1, <2>2, <2>3
<1>4. ASSUME NEW i \in 1..Len(O) PROVE O[i] <= Len(S)
  <2>1. Len(O) \in 1..Len(O) /\ i <= Len(O)
    BY <1>1, <1>2
  <2>2. O[i] <= O[Len(O)]
    BY <1>3, <2>1
  <2> QED BY <2>2 DEF OffsetsFit
<1> QED
  BY <1>1, <1>2, <1>3, <1>4

LEMMA LevelFacts ==
    ASSUME NEW S, NEW O, OffsetsFit(S, O), NEW l \in 1..(Len(O) - 1)
    PROVE  /\ O[l] \in Nat /\ O[l + 1] \in Nat /\ O[l] < O[l + 1] /\ O[l + 1] <= Len(S)
           /\ LevelOf(S, O, l) \in Seq(SegmentRecord)
           /\ Len(LevelOf(S, O, l)) = O[l + 1] - O[l]
           /\ \A i \in 1..(O[l + 1] - O[l]) : LevelOf(S, O, l)[i] = S[O[l] + i] /\ O[l] + i \in 1..Len(S)
<1>1. /\ Len(S) \in Nat /\ Len(O) \in Nat
      /\ \A i \in 1..Len(O) : O[i] \in Nat /\ O[i] <= Len(S)
  BY OffsetsFacts
<1>2. l \in 1..Len(O) /\ l + 1 \in 1..Len(O) /\ l < l + 1
  BY <1>1
<1>3. PICK a \in Nat, b \in Nat : a = O[l] /\ b = O[l + 1] /\ a < b /\ b <= Len(S)
  BY <1>1, <1>2 DEF OffsetsFit
<1>4. PICK o : o = LevelOf(S, O, l)
  OBVIOUS
<1>5. \A i \in 1..(b - a) : o[i] = S[a + i] /\ a + i \in 1..Len(S)
  BY <1>1, <1>3, <1>4 DEF LevelOf
<1>6. \A i \in 1..(b - a) : o[i] \in SegmentRecord
  BY <1>5, SeqElements DEF OffsetsFit
<1>7. HasLength(o, b - a) /\ b - a \in Nat
  BY <1>3, <1>4 DEF LevelOf, HasLength
<1>8. o \in Seq(SegmentRecord) /\ Len(o) = b - a
  BY <1>6, <1>7, SeqMade
<1> QED
  BY <1>3, <1>4, <1>5, <1>8

\* The segments and the offsets once the level c is added.
IsAdded(S, O, c, S2, O2) == S2 = S \o c /\ O2 = Append(O, Len(S) + Len(c))

LEMMA LevelAdded ==
    ASSUME NEW S, NEW O, OffsetsFit(S, O), NEW c \in Seq(SegmentRecord), Len(c) >= 1,
           NEW S2, NEW O2, IsAdded(S, O, c, S2, O2)
    PROVE  /\ OffsetsFit(S2, O2) /\ Len(O2) = Len(O) + 1
           /\ \A l \in 1..(Len(O) - 1) : LevelOf(S2, O2, l) = LevelOf(S, O, l)
           /\ LevelOf(S2, O2, Len(O)) = c
           /\ \A l \in 1..Len(O) : O2[l] = O[l]
           /\ O2[Len(O) + 1] = Len(S) + Len(c)
<1>11. S2 = S \o c /\ O2 = Append(O, Len(S) + Len(c))
  BY DEF IsAdded
<1>1. /\ Len(O) \in Nat /\ Len(O) >= 1
      /\ \A i \in 1..Len(O) : O[i] \in Nat /\ O[i] <= Len(S)
  BY OffsetsFacts
<1>2. PICK a \in Nat, b \in Nat, m \in Nat : a = Len(S) /\ b = Len(c) /\ b >= 1 /\ m = Len(O) /\ m >= 1
  <2>1. Len(c) \in Nat /\ Len(S) \in Nat
    BY DEF OffsetsFit
  <2> QED BY <1>1, <2>1
<1>3. /\ S2 \in Seq(SegmentRecord) /\ Len(S2) = a + b
      /\ \A i \in 1..a : S2[i] = S[i]
      /\ \A i \in 1..b : S2[a + i] = c[i]
  BY <1>2, <1>11 DEF OffsetsFit
<1>4. /\ O2 \in Seq(Nat) /\ Len(O2) = m + 1
      /\ \A i \in 1..m : O2[i] = O[i]
      /\ O2[m + 1] = a + b
  <2>1. O \in Seq(Nat) /\ a + b \in Nat
    BY DEF OffsetsFit
  <2> QED BY <1>2, <1>11, <2>1
<1>5. OffsetsFit(S2, O2)
  <2>1. ASSUME NEW i \in 1..(m + 1), NEW j \in 1..(m + 1), i < j PROVE O2[i] < O2[j]
    <3>1. CASE j \in 1..m
      <4>1. i \in 1..m
        BY <2>1, <3>1
      <4> QED BY <1>2, <1>4, <2>1, <3>1, <4>1 DEF OffsetsFit
    <3>2. CASE j = m + 1
      <4>1. i \in 1..m
        BY <2>1, <3>2
      <4>2. O2[i] \in Nat /\ O2[i] <= a
        BY <1>1, <1>2, <1>4, <4>1
      <4> QED BY <1>2, <1>4, <3>2, <4>2
    <3>3. j \in 1..m \/ j = m + 1
      BY <2>1, <1>2
    <3> QED BY <3>1, <3>2, <3>3
  <2>2. O2 # << >> /\ O2[1] = 0
    <3>1. 1 \in 1..m
      BY <1>2
    <3> QED BY <1>4, <3>1 DEF OffsetsFit
  <2> QED BY <1>3, <1>4, <2>1, <2>2 DEF OffsetsFit
<1>6. ASSUME NEW l \in 1..(m - 1) PROVE LevelOf(S2, O2, l) = LevelOf(S, O, l)
  <2>1. l \in 1..m /\ l + 1 \in 1..m
    BY <1>2
  <2>2. PICK u \in Nat, v \in Nat : u = O[l] /\ v = O[l + 1] /\ u <= a /\ v <= a
    BY <1>1, <1>2, <2>1
  <2>3. O2[l] = u /\ O2[l + 1] = v
    BY <1>4, <2>1, <2>2
  <2>4. \A i \in 1..(v - u) : S2[u + i] = S[u + i]
    <3> SUFFICES ASSUME NEW i \in 1..(v - u) PROVE S2[u + i] = S[u + i]
      OBVIOUS
    <3>1. u + i \in 1..a
      BY <2>2
    <3> QED BY <1>3, <3>1
  <2> QED BY <2>2, <2>3, <2>4 DEF LevelOf
<1>7. LevelOf(S2, O2, m) = c
  <2>1. O[m] = a /\ m \in 1..m
    BY <1>2 DEF OffsetsFit
  <2>2. O2[m] = a /\ O2[m + 1] = a + b /\ (a + b) - a = b
    BY <1>4, <2>1
  <2>3. LevelOf(S2, O2, m) = [i \in 1..b |-> S2[a + i]]
    BY <2>2 DEF LevelOf
  <2>4. c = [i \in 1..b |-> c[i]]
    BY <1>2
  <2> QED BY <1>3, <2>3, <2>4
<1> QED
  BY <1>2, <1>4, <1>5, <1>6, <1>7

(* A level is added to an index.                                           *)
LEMMA IndexGrows ==
    ASSUME NEW d, NEW recursive, NEW S, NEW O, OffsetsFit(S, O), IndexOf(d, S, O, recursive),
           NEW c, IsLevelOf(c, PointsOf(d, S, O, Len(O)), EpsilonOf(recursive, Len(O)), End(d)),
           NEW S2, NEW O2, IsAdded(S, O, c, S2, O2)
    PROVE  OffsetsFit(S2, O2) /\ IndexOf(d, S2, O2, recursive)
<1>1. c \in Seq(SegmentRecord) /\ Len(c) >= 1
  BY DEF IsLevelOf
<1>2. /\ OffsetsFit(S2, O2) /\ Len(O2) = Len(O) + 1
      /\ \A l \in 1..(Len(O) - 1) : LevelOf(S2, O2, l) = LevelOf(S, O, l)
      /\ LevelOf(S2, O2, Len(O)) = c
      /\ \A l \in 1..Len(O) : O2[l] = O[l]
      /\ O2[Len(O) + 1] = Len(S) + Len(c)
  <2>1. PICK c2 \in Seq(SegmentRecord) : c2 = c
    BY <1>1
  <2>2. Len(c2) >= 1
    BY <1>1, <2>1
  <2>3. IsAdded(S, O, c2, S2, O2)
    BY <2>1
  <2>4. /\ OffsetsFit(S2, O2) /\ Len(O2) = Len(O) + 1
        /\ \A l \in 1..(Len(O) - 1) : LevelOf(S2, O2, l) = LevelOf(S, O, l)
        /\ LevelOf(S2, O2, Len(O)) = c2
        /\ \A l \in 1..Len(O) : O2[l] = O[l]
        /\ O2[Len(O) + 1] = Len(S) + Len(c2)
    BY <2>2, <2>3, LevelAdded
  <2> QED BY <2>1, <2>4
<1>3. Len(O) \in Nat /\ Len(O) >= 1
  BY OffsetsFacts
<1>4. \A l \in 1..Len(O) : PointsOf(d, S2, O2, l) = PointsOf(d, S, O, l)
  <2> SUFFICES ASSUME NEW l \in 1..Len(O) PROVE PointsOf(d, S2, O2, l) = PointsOf(d, S, O, l)
    OBVIOUS
  <2>1. l # 1 => l - 1 \in 1..(Len(O) - 1)
    BY <1>3
  <2> QED BY <1>2, <2>1 DEF PointsOf
<1>5. ASSUME NEW l \in 1..(Len(O2) - 1)
      PROVE  IsLevelOf(LevelOf(S2, O2, l), PointsOf(d, S2, O2, l), EpsilonOf(recursive, l), End(d))
  <2>1. l \in 1..Len(O) /\ (l \in 1..(Len(O) - 1) \/ l = Len(O))
    BY <1>2, <1>3
  <2>2. PointsOf(d, S2, O2, l) = PointsOf(d, S, O, l)
    BY <1>4, <2>1
  <2>3. CASE l \in 1..(Len(O) - 1)
    BY <1>2, <2>2, <2>3 DEF IndexOf
  <2>4. CASE l = Len(O)
    BY <1>2, <2>2, <2>4
  <2> QED BY <2>1, <2>3, <2>4
<1> QED
  BY <1>2, <1>5 DEF IndexOf

(* All levels begin with the smallest key.                                 *)
LEMMA LevelsBegin ==
    ASSUME NEW d, IsData(d), Indexed(d) >= 1, NEW recursive, NEW S, NEW O, OffsetsFit(S, O),
           IndexOf(d, S, O, recursive), NEW l \in 1..(Len(O) - 1)
    PROVE  /\ PointsOf(d, S, O, l) # << >> /\ PointsOf(d, S, O, l)[1].x = d[1]
           /\ Len(LevelOf(S, O, l)) >= 2 /\ LevelOf(S, O, l)[1].key = d[1]
<1>1. PICK m \in Nat : m = Len(O) - 1 /\ m >= 1
  <2>1. Len(O) \in Nat
    BY OffsetsFacts
  <2> QED BY <2>1
<1> DEFINE R(i) == /\ PointsOf(d, S, O, i) # << >> /\ PointsOf(d, S, O, i)[1].x = d[1]
                   /\ Len(LevelOf(S, O, i)) >= 2 /\ LevelOf(S, O, i)[1].key = d[1]
           T == {i \in 1..m : R(i)}
<1>2. ASSUME NEW i \in 1..m, PointsOf(d, S, O, i) # << >>, PointsOf(d, S, O, i)[1].x = d[1] PROVE R(i)
  <2>1. IsLevelOf(LevelOf(S, O, i), PointsOf(d, S, O, i), EpsilonOf(recursive, i), End(d))
    BY <1>1 DEF IndexOf
  <2> QED BY <1>2, <2>1 DEF IsLevelOf
<1>3. 1 \in T
  <2>1. PointsOf(d, S, O, 1) = KeyPoints(d) /\ 1 \in 1..m
    BY <1>1 DEF PointsOf
  <2>2. /\ Numbered(KeyPoints(d)) /\ Len(KeyPoints(d)) = Indexed(d)
        /\ KeyPoints(d)[1].x = d[1]
    BY KeyPointsNumbered
  <2>3. KeyPoints(d) # << >>
    <3>1. Len(<< >>) = 0 /\ Indexed(d) # 0
      BY IndexedFacts
    <3> QED BY <2>2, <3>1
  <2> QED BY <1>2, <2>1, <2>2, <2>3
<1>4. ASSUME NEW i \in 1..(m - 1), i \in T PROVE i + 1 \in T
  <2>1. i + 1 \in 1..m /\ i \in 1..m /\ i + 1 # 1 /\ (i + 1) - 1 = i
    BY <1>1
  <2>2. PointsOf(d, S, O, i + 1) = UpperPoints(LevelOf(S, O, i))
    BY <2>1 DEF PointsOf
  <2>3. IsLevelOf(LevelOf(S, O, i), PointsOf(d, S, O, i), EpsilonOf(recursive, i), End(d))
    BY <1>1, <2>1 DEF IndexOf
  <2>4. R(i)
    BY <1>4
  <2>5. /\ UpperPoints(LevelOf(S, O, i)) # << >>
        /\ UpperPoints(LevelOf(S, O, i))[1].x = PointsOf(d, S, O, i)[1].x
    BY <2>3, <2>4, UpperPointsNumbered
  <2>6. R(i + 1)
    BY <1>2, <2>1, <2>2, <2>4, <2>5
  <2> QED BY <2>1, <2>6
<1>5. l \in T
  <2> HIDE DEF T
  <2>1. PICK a \in Int, b \in Int : a = 1 /\ b = m
    OBVIOUS
  <2>2. a \in T /\ \A i \in a..(b - 1) : i \in T => i + 1 \in T
    BY <1>3, <1>4, <2>1
  <2>3. \A i \in a..b : i \in T
    BY <2>2, IntervalInduction
  <2> QED BY <1>1, <2>1, <2>3
<1> QED
  BY <1>5

-----------------------------------------------------------------------------
(* The search of a level.                                                  *)

\* j is the last segment of the level o that does not begin above x.
IsLast(o, x, j) ==
    /\ j \in 1..(Len(o) - 1)
    /\ \A i \in 1..Len(o) : o[i].key <= x <=> i <= j

LEMMA LevelHasKeys ==
    ASSUME NEW o, NEW s, NEW epsilon, NEW end, IsLevelOf(o, s, epsilon, end)
    PROVE  /\ Len(o) \in Nat /\ Len(o) >= 1 /\ o[Len(o)].key = KeyMax
           /\ \A i \in 1..Len(o) : o[i] \in SegmentRecord /\ o[i].key \in Nat
           /\ \A i, j \in 1..Len(o) : i <= j => o[i].key <= o[j].key
<1>1. /\ o \in Seq(SegmentRecord) /\ Len(o) >= 1 /\ o[Len(o)] = Sentinel(Len(s))
      /\ \A i, j \in 1..Len(o) : i <= j => o[i].key <= o[j].key
  BY DEF IsLevelOf
<1>2. Len(o) \in Nat /\ \A i \in 1..Len(o) : o[i] \in SegmentRecord
  BY <1>1, SeqElements
<1>3. \A i \in 1..Len(o) : o[i].key \in Nat
  BY <1>2 DEF SegmentRecord
<1>4. o[Len(o)].key = KeyMax
  BY <1>1 DEF Sentinel, Segment
<1> QED
  BY <1>1, <1>2, <1>3, <1>4

LEMMA LastExists ==
    ASSUME NEW o, NEW s, NEW epsilon, NEW end, IsLevelOf(o, s, epsilon, end),
           NEW x \in 0..(KeyMax - 1), o[1].key <= x
    PROVE  \E j \in Nat : IsLast(o, x, j) /\ o[j].key <= x /\ x < o[j + 1].key
<1>1. PICK c \in Nat : /\ c = Len(o) /\ c >= 1 /\ o[c].key = KeyMax
                       /\ \A i \in 1..c : o[i].key \in Nat
                       /\ \A i, j \in 1..c : i <= j => o[i].key <= o[j].key
  BY LevelHasKeys
<1>2. x \in Nat /\ ~(o[c].key <= x)
  BY <1>1, KeyMaxNat
<1> DEFINE T == {i \in 1..c : o[i].key <= x}
<1>3. T \in SUBSET Int /\ 1 \in T /\ \A i \in T : i <= c
  BY <1>1
<1>4. PICK j : j \in T /\ \A i \in T : i <= j
  <2> HIDE DEF T
  <2>1. T # {} /\ c \in Int
    BY <1>3
  <2> QED BY <1>3, <2>1, GreatestElement
<1>5. j \in 1..c /\ o[j].key <= x
  BY <1>4
<1>6. \A i \in 1..c : o[i].key <= x <=> i <= j
  <2> SUFFICES ASSUME NEW i \in 1..c PROVE o[i].key <= x <=> i <= j
    OBVIOUS
  <2>1. o[i].key <= x => i <= j
    BY <1>4
  <2>2. i <= j => o[i].key <= x
    BY <1>1, <1>2, <1>5
  <2> QED BY <2>1, <2>2
<1>7. j # c
  BY <1>2, <1>5
<1>8. j \in 1..(c - 1) /\ j + 1 \in 1..c /\ ~(j + 1 <= j)
  BY <1>1, <1>5, <1>7
<1>9. x < o[j + 1].key
  <2>1. ~(o[j + 1].key <= x) /\ o[j + 1].key \in Nat
    BY <1>1, <1>6, <1>8
  <2> QED BY <1>2, <2>1
<1> HIDE DEF T
<1>10. j \in Nat /\ j \in 1..(Len(o) - 1) /\ \A i \in 1..Len(o) : o[i].key <= x <=> i <= j
  BY <1>1, <1>6, <1>8
<1> QED
  BY <1>5, <1>9, <1>10 DEF IsLast

(* The position predicted from the level above leads to the segment: the   *)
(* range around it begins at or below the last segment not above x, and    *)
(* ends behind the first with the key of that one.                         *)
LEMMA RangeHolds ==
    ASSUME NEW o, NEW s, NEW epsilon, NEW end, IsLevelOf(o, s, epsilon, end), s # << >>,
           NEW e \in Nat, NEW x \in 0..(KeyMax - 1), NEW j, IsLast(o, x, j),
           NEW pos, Predicts(pos, UpperPoints(o), e, end, x), end \in Nat
    PROVE  /\ pos \in Nat /\ PGM_SUB_EPS(pos, e + 1) \in Nat /\ PGM_SUB_EPS(pos, e + 1) <= j - 1
           /\ \E first \in 1..j : o[first].key = o[j].key /\ first <= pos + e + 2
<1>1. /\ Numbered(UpperPoints(o)) /\ UpperPoints(o) # << >>
      /\ Len(UpperPoints(o)) = Len(o) - 1 /\ Len(o) \in Nat /\ Len(o) >= 2
      /\ \A i \in 1..(Len(o) - 1) : UpperPoints(o)[i] = Point(o[i].key, i - 1) /\ o[i].key \in Nat
      /\ \A i \in 1..(Len(o) - 1) : UpperPoints(o)[i].x = o[i].key /\ o[i].key <= end
  BY UpperPointsNumbered
<1>2. PICK c \in Nat : c = Len(o) - 1 /\ c >= 1
  <2>1. PICK m \in Nat : m = Len(o) /\ m >= 2
    BY <1>1
  <2>2. m - 1 \in Nat /\ m - 1 >= 1
    BY <2>1
  <2> QED BY <2>1, <2>2
<1>3. PICK u : /\ u = UpperPoints(o) /\ Len(u) = c /\ Numbered(u)
               /\ \A i \in 1..c : u[i].x = o[i].key /\ u[i].x \in Nat /\ o[i].key <= end
  BY <1>1, <1>2
<1>4. \A i \in 1..c : u[i].y = i - 1
  BY <1>3 DEF Numbered
<1>5. /\ j \in 1..c /\ \A i \in 1..c : o[i].key <= x <=> i <= j
  BY <1>1, <1>2 DEF IsLast
<1>6. /\ pos \in Nat /\ pos <= c + e /\ (end <= x => pos <= c)
      /\ \A q \in Firsts(u, 1, c) :
            /\ q.x <= x => q.y <= pos + e + 1
            /\ x < end /\ x <= q.x => pos <= q.y + e
  BY <1>3 DEF Predicts
<1>7. \A a, b \in 1..c : a <= b => u[a].x <= u[b].x
  BY <1>3, OrderedFacts DEF Numbered
<1>8. PICK first \in 1..j : o[first].key = o[j].key /\ IsFirst(u, first)
  <2> DEFINE T == {i \in 1..j : u[i].x = u[j].x}
  <2>1. T \in SUBSET Nat /\ T # {}
    BY <1>5
  <2>2. PICK i \in T : \A a \in T : i <= a
    <3> HIDE DEF T
    <3> QED BY <2>1, LeastElement
  <2>3. IsFirst(u, i)
    <3> SUFFICES ASSUME i # 1 PROVE u[i].x # u[i - 1].x
      BY DEF IsFirst
    <3>1. i - 1 \in 1..j /\ ~(i <= i - 1)
      BY <1>5
    <3>2. i - 1 \notin T
      BY <2>2, <3>1
    <3> QED BY <2>2, <3>1, <3>2
  <2>4. i \in 1..c /\ u[i].x = u[j].x
    BY <1>5
  <2> QED BY <1>3, <1>5, <2>3, <2>4
<1>9. first <= pos + e + 2
  <2>1. first \in 1..c
    BY <1>5
  <2>2. u[first] \in Firsts(u, 1, c)
    BY <1>8, <2>1 DEF Firsts
  <2>3. u[first].x <= x /\ u[first].y = first - 1
    <3>1. first <= j
      BY <1>5
    <3>2. o[first].key <= x
      BY <1>5, <2>1, <3>1
    <3> QED BY <1>3, <1>4, <2>1, <3>2
  <2>4. u[first].y <= pos + e + 1
    BY <1>6, <2>2, <2>3
  <2> QED BY <1>6, <2>1, <2>3, <2>4
<1>10. pos <= j + e
  <2>1. CASE j = c
    BY <1>6, <2>1
  <2>2. CASE j # c
    <3>1. j + 1 \in 1..c
      BY <1>5, <2>2
    <3>2. ~(o[j + 1].key <= x) /\ o[j].key <= x
      BY <1>5, <3>1
    <3>3. u[j + 1].x # u[j].x /\ (j + 1) - 1 = j
      BY <1>3, <1>5, <3>1, <3>2
    <3>4. u[j + 1] \in Firsts(u, 1, c)
      BY <3>1, <3>3 DEF Firsts, IsFirst
    <3>5. x \in Nat /\ x < u[j + 1].x /\ x < end
      BY <1>3, <3>1, <3>2, KeyMaxNat
    <3>6. pos <= u[j + 1].y + e
      BY <1>3, <1>6, <3>1, <3>4, <3>5
    <3>7. u[j + 1].y = j
      BY <1>4, <1>5, <3>1
    <3> QED BY <1>5, <1>6, <3>6, <3>7
  <2> QED BY <2>1, <2>2
<1>11. PGM_SUB_EPS(pos, e + 1) \in Nat /\ PGM_SUB_EPS(pos, e + 1) <= j - 1
  BY <1>5, <1>6, <1>10 DEF PGM_SUB_EPS
<1> QED
  BY <1>6, <1>8, <1>9, <1>11

\* Where std::upper_bound over the segments from position lo to before position to of f
\* comes out.
Bisected(f, x, lo, to) == lo + Cardinality({i \in lo..(to - 1) : f[i + 1].key <= x})

IsPart(f, b, o) == \A i \in 1..Len(o) : f[b + i] = o[i]

IsRange(lo, to, j, o) == Len(o) \in Nat /\ lo <= to /\ lo <= j /\ to <= Len(o) - 1

IsLess(m, i, j) == m \in {i, j} /\ m <= i /\ m <= j

(* Bisecting a range of the level o, which is at position b of f, finds     *)
(* its last segment not above x.                                           *)
LEMMA BisectedAt ==
    ASSUME NEW o, NEW x, NEW j \in Nat, IsLast(o, x, j), NEW f, NEW b \in Nat, IsPart(f, b, o),
           NEW lo \in Nat, NEW to \in Nat, IsRange(lo, to, j, o)
    PROVE  \E m \in Nat : Bisected(f, x, b + lo, b + to) = b + m /\ IsLess(m, to, j)
<1>5. PICK c \in Nat : c = Len(o) /\ lo <= to /\ lo <= j /\ to <= c - 1
  BY DEF IsRange
<1>1. PICK m \in Nat : m \in {to, j} /\ m <= to /\ m <= j
  <2>1. to <= j => to \in {to, j} /\ to <= to
    OBVIOUS
  <2>2. ~(to <= j) => j \in {to, j} /\ j <= to /\ j <= j
    OBVIOUS
  <2> QED BY <2>1, <2>2
<1> DEFINE R == (b + lo)..((b + to) - 1)
           Q == (b + lo)..((b + m) - 1)
<1>2. {i \in R : f[i + 1].key <= x} = Q
  <2>1. ASSUME NEW i \in R PROVE f[i + 1].key <= x <=> i \in Q
    <3>1. PICK a \in Nat : i = b + a /\ a >= lo /\ a + 1 \in 1..c /\ a < to
      <4>1. i - b \in Nat /\ i = b + (i - b) /\ i - b >= lo /\ (i - b) + 1 \in 1..c /\ i - b < to
        BY <1>5
      <4> QED BY <4>1
    <3>2. f[i + 1] = o[a + 1]
      <4>1. i + 1 = b + (a + 1)
        BY <3>1
      <4> QED BY <1>5, <3>1, <4>1 DEF IsPart
    <3>3. o[a + 1].key <= x <=> a + 1 <= j
      BY <1>5, <3>1 DEF IsLast
    <3>4. a + 1 <= j <=> i \in Q
      BY <1>1, <3>1
    <3> QED BY <3>2, <3>3, <3>4
  <2>2. \A i \in Q : i \in R
    BY <1>1
  <2> HIDE DEF R, Q
  <2> QED BY <2>1, <2>2
<1>3. Cardinality(Q) = m - lo
  <2>1. b + lo \in Int /\ (b + m) - 1 \in Int
    BY <1>1
  <2>2. Cardinality((b + lo)..((b + m) - 1)) =
            IF b + lo > (b + m) - 1 THEN 0 ELSE ((b + m) - 1) - (b + lo) + 1
    BY <2>1, FS_Interval
  <2>3. lo <= m
    BY <1>1, <1>5
  <2> QED BY <1>1, <2>2, <2>3
<1>4. Bisected(f, x, b + lo, b + to) = b + m
  <2>1. Bisected(f, x, b + lo, b + to) = (b + lo) + (m - lo)
    BY <1>2, <1>3 DEF Bisected
  <2> QED BY <1>1, <2>1
<1> QED
  BY <1>1, <1>4 DEF IsLess

(* The segments with the key of the last one not above x serve.            *)
LEMMA EqualServe ==
    ASSUME NEW o, NEW s, NEW epsilon, NEW end, IsLevelOf(o, s, epsilon, end),
           NEW x \in Nat, NEW j \in Nat, IsLast(o, x, j), x < o[j + 1].key,
           NEW first \in 1..j, o[first].key = o[j].key, NEW m \in first..j
    PROVE  Serves(o, m, x) /\ o[m].key <= x /\ m \in 1..(Len(o) - 1)
<1>1. PICK c \in Nat : /\ c = Len(o) /\ \A i \in 1..c : o[i].key \in Nat
                       /\ \A a, b \in 1..c : a <= b => o[a].key <= o[b].key
  BY LevelHasKeys
<1>2. j \in 1..(c - 1) /\ \A i \in 1..c : o[i].key <= x <=> i <= j
  BY <1>1 DEF IsLast
<1>3. m \in 1..c /\ m <= j /\ first \in 1..c /\ first <= m /\ j \in 1..c
  BY <1>1, <1>2
<1>4. o[m].key <= x
  BY <1>2, <1>3
<1>5. x < o[m + 1].key \/ o[m + 1].key = o[m].key
  <2>1. CASE m = j
    BY <2>1
  <2>2. CASE m # j
    <3>1. m + 1 \in 1..c /\ m <= m + 1 /\ m + 1 <= j
      BY <1>1, <1>2, <1>3, <2>2
    <3>2. o[first].key <= o[m].key /\ o[m].key <= o[m + 1].key /\ o[m + 1].key <= o[j].key
      BY <1>1, <1>3, <3>1
    <3> QED BY <1>1, <1>3, <3>1, <3>2
  <2> QED BY <2>1, <2>2
<1> QED
  BY <1>1, <1>2, <1>3, <1>4, <1>5 DEF Serves

-----------------------------------------------------------------------------
(* The powers of two, counted as the subsets of 1..j.                      *)
LEMMA PowersOfTwo ==
    ASSUME NEW j \in Nat
    PROVE  2^j \in Nat /\ j < 2^j /\ 2^(j + 1) = 2^j + 2^j
<1>1. /\ IsFiniteSet(1..j) /\ Cardinality(1..j) = j
      /\ IsFiniteSet(1..(j + 1)) /\ Cardinality(1..(j + 1)) = j + 1
      /\ IsFiniteSet(0..j) /\ Cardinality(0..j) = j + 1
  <2>1. 1 \in Int /\ 0 \in Int /\ j \in Int /\ j + 1 \in Int
    OBVIOUS
  <2>2. /\ IsFiniteSet(1..j) /\ Cardinality(1..j) = IF 1 > j THEN 0 ELSE j - 1 + 1
    BY <2>1, FS_Interval
  <2>3. /\ IsFiniteSet(1..(j + 1)) /\ Cardinality(1..(j + 1)) = IF 1 > j + 1 THEN 0 ELSE (j + 1) - 1 + 1
    BY <2>1, FS_Interval
  <2>4. /\ IsFiniteSet(0..j) /\ Cardinality(0..j) = IF 0 > j THEN 0 ELSE j - 0 + 1
    BY <2>1, FS_Interval
  <2> QED BY <2>2, <2>3, <2>4
<1>2. PICK S : S = SUBSET (1..j) /\ IsFiniteSet(S) /\ Cardinality(S) = 2^j
  <2>1. IsFiniteSet(SUBSET (1..j)) /\ Cardinality(SUBSET (1..j)) = 2^Cardinality(1..j)
    BY <1>1, FS_SUBSET
  <2> QED BY <1>1, <2>1
<1>3. PICK T : T = SUBSET (1..(j + 1)) /\ IsFiniteSet(T) /\ Cardinality(T) = 2^(j + 1)
  <2>1. IsFiniteSet(SUBSET (1..(j + 1))) /\ Cardinality(SUBSET (1..(j + 1))) = 2^Cardinality(1..(j + 1))
    BY <1>1, FS_SUBSET
  <2> QED BY <1>1, <2>1
<1>4. 2^j \in Nat
  BY <1>2, FS_CardinalityType
\* The subsets of 1..(j + 1) without j + 1, and those with it.
<1>5. PICK m : m = j + 1 /\ 1..(j + 1) = (1..j) \cup {m} /\ m \notin 1..j
  <2>1. 1..(j + 1) = (1..j) \cup {j + 1} /\ j + 1 \notin 1..j
    OBVIOUS
  <2> QED BY <2>1
<1>6. PICK R : R = {X \cup {m} : X \in S}
  OBVIOUS
<1>7. IsFiniteSet(R) /\ Cardinality(R) = 2^j
  <2>1. PICK f : f = [X \in S |-> X \cup {m}]
    OBVIOUS
  <2>2. f \in [S -> R] /\ \A Y \in R : \E X \in S : f[X] = Y
    BY <1>6, <2>1
  <2>3. ASSUME NEW X \in S, NEW Y \in S, f[X] = f[Y] PROVE X = Y
    <3>1. X \cup {m} = Y \cup {m} /\ m \notin X /\ m \notin Y
      BY <1>2, <1>5, <2>1, <2>3
    <3> QED BY <3>1
  <2>4. ExistsBijection(S, R)
    BY <2>2, <2>3 DEF ExistsBijection, Bijection, Injection, Surjection, IsInjective
  <2> QED BY <1>2, <2>4, FS_Bijection
<1>8. T = S \cup R /\ S \cap R = {}
  <2>1. ASSUME NEW X \in T PROVE X \in S \cup R
    <3>1. CASE m \in X
      <4>1. X \ {m} \in S /\ X = (X \ {m}) \cup {m}
        BY <1>2, <1>3, <1>5, <3>1
      <4> QED BY <1>6, <4>1
    <3>2. CASE m \notin X
      BY <1>2, <1>3, <1>5, <3>2
    <3> QED BY <3>1, <3>2
  <2>2. S \subseteq T /\ R \subseteq T
    BY <1>2, <1>3, <1>5, <1>6
  <2>3. S \cap R = {}
    BY <1>2, <1>5, <1>6
  <2> QED BY <2>1, <2>2, <2>3
<1>9. 2^(j + 1) = 2^j + 2^j
  <2>1. Cardinality(S \cup R) = Cardinality(S) + Cardinality(R) - Cardinality(S \cap R)
    BY <1>2, <1>7, FS_Union
  <2>2. Cardinality(S \cap R) = 0
    BY <1>8, FS_EmptySet
  <2>7. PICK p \in Nat : p = 2^j
    BY <1>4
  <2>8. PICK q : q = 2^(j + 1)
    OBVIOUS
  <2>3. p = 2^j /\ q = 2^(j + 1)
    BY <2>7, <2>8
  <2>4. Cardinality(S) = p /\ Cardinality(R) = p /\ Cardinality(S \cup R) = q
    BY <1>2, <1>3, <1>7, <1>8, <2>3
  <2>5. q = p + p - 0
    BY <2>1, <2>2, <2>4
  <2>6. q = p + p
    BY <2>5
  <2> QED BY <2>3, <2>6
<1>10. j < 2^j
  <2>1. PICK f : f = [i \in 0..j |-> IF i = 0 THEN {} ELSE {i}]
    OBVIOUS
  <2>2. f \in [0..j -> S]
    <3>1. \A i \in 0..j : f[i] \in S
      BY <1>2, <2>1
    <3> QED BY <2>1, <3>1
  <2>3. \A i1, i2 \in 0..j : f[i1] = f[i2] => i1 = i2
    BY <2>1
  <2>4. f \in Injection(0..j, S)
    BY <2>2, <2>3 DEF Injection, IsInjective
  <2>5. Cardinality(0..j) <= Cardinality(S)
    BY <1>2, <2>4, FS_Injection
  <2> QED BY <1>1, <1>2, <1>4, <2>5
<1> QED
  BY <1>4, <1>9, <1>10

LEMMA PowerZero == 2^0 = 1
<1>1. IsFiniteSet({}) /\ Cardinality({}) = 0
  BY FS_EmptySet
<1>2. Cardinality(SUBSET {}) = 2^Cardinality({})
  BY <1>1, FS_SUBSET
<1>3. Cardinality({{}}) = 1
  BY FS_Singleton
<1>4. SUBSET {} = {{}}
  OBVIOUS
<1>5. PICK S : S = SUBSET {} /\ S = {{}}
  BY <1>4
<1>6. Cardinality(S) = 2^0
  BY <1>1, <1>2, <1>5
<1> QED
  BY <1>3, <1>5, <1>6

LEMMA PowersAdd ==
    ASSUME NEW a \in Nat
    PROVE  \A b \in Nat : 2^(a + b) = 2^a * 2^b
<1>1. PICK S : S = {b \in Nat : 2^(a + b) = 2^a * 2^b}
  OBVIOUS
<1>2. PICK u \in Nat : u = 2^a
  BY PowersOfTwo
<1>3. 0 \in S
  <2>1. a + 0 = a
    OBVIOUS
  <2>2. 2^(a + 0) = u /\ 2^a * 2^0 = u * 1
    BY <1>2, <2>1, PowerZero
  <2>3. u * 1 = u
    OBVIOUS
  <2> QED BY <1>1, <2>2, <2>3
<1>4. ASSUME NEW b \in Nat, b \in S PROVE b + 1 \in S
  <2>1. PICK v \in Nat, w \in Nat : v = 2^b /\ w = 2^(a + b)
    <3>1. a + b \in Nat
      OBVIOUS
    <3> QED BY <3>1, PowersOfTwo
  <2>2. w = u * v
    BY <1>1, <1>2, <1>4, <2>1
  <2>3. 2^(b + 1) = v + v
    BY <2>1, PowersOfTwo
  <2>4. 2^(a + (b + 1)) = w + w
    <3>1. a + (b + 1) = (a + b) + 1 /\ a + b \in Nat
      OBVIOUS
    <3>2. 2^((a + b) + 1) = 2^(a + b) + 2^(a + b)
      BY <3>1, PowersOfTwo
    <3> QED BY <2>1, <3>1, <3>2
  <2>5. w + w = u * (v + v)
    BY <2>2
  <2>6. 2^(a + (b + 1)) = 2^a * 2^(b + 1)
    BY <1>2, <2>3, <2>4, <2>5
  <2> QED BY <1>1, <2>6
<1>5. \A b \in Nat : b \in S
  BY <1>3, <1>4, SetInduction
<1> QED
  BY <1>1, <1>5

LEMMA PowersGrow ==
    ASSUME NEW a \in Nat, NEW b \in Nat, a <= b
    PROVE  2^a <= 2^b /\ 2^a >= 1
<1>1. b - a \in Nat /\ a + (b - a) = b
  OBVIOUS
<1>2. PICK u \in Nat, v \in Nat, w \in Nat : u = 2^a /\ v = 2^(b - a) /\ w = 2^b
  BY <1>1, PowersOfTwo
<1>3. w = u * v
  <2>1. 2^(a + (b - a)) = 2^a * 2^(b - a)
    BY <1>1, PowersAdd
  <2> QED BY <1>1, <1>2, <2>1
<1>4. v >= 1 /\ u >= 1
  <2>1. a < 2^a /\ b - a < 2^(b - a)
    BY <1>1, PowersOfTwo
  <2>2. a < u /\ b - a < v
    BY <1>2, <2>1
  <2> QED BY <1>1, <1>2, <2>2
<1>5. u <= u * v
  BY <1>4
<1> QED
  BY <1>2, <1>3, <1>4, <1>5

(* Products of slopes.                                                     *)

SoftNumber == [exp : Int, mant : Nat]

LEMMA WidthFacts ==
    /\ MANT_BITS \in Nat /\ MANT_HIDE \in Nat /\ MANT_HIDE >= 8 /\ MANT_UPPER = 2 * MANT_HIDE
    /\ WORD_BITS \in Nat /\ 2^WORD_BITS \in Nat /\ 4 * MANT_HIDE < 2^WORD_BITS
    /\ INT_BITS - 1 \in Nat /\ 2^INT_BITS \in Nat /\ 2^INT_BITS > 0 /\ 2^(INT_BITS - 1) \in Nat
<1>1. /\ MANT_BITS \in Nat /\ MANT_BITS >= 3 /\ WORD_BITS \in Nat /\ MANT_BITS + 3 <= WORD_BITS
      /\ INT_BITS \in Nat /\ INT_BITS - 1 \in Nat /\ MANT_BITS + 1 \in Nat /\ MANT_BITS + 2 \in Nat
      /\ MANT_BITS + 3 \in Nat
  BY WidthsAssumption
<1>2. PICK m \in Nat : m = 2^MANT_BITS /\ 2^(MANT_BITS + 1) = m + m
  BY <1>1, PowersOfTwo
<1>3. 2^(MANT_BITS + 3) = 8 * m
  <2>1. (MANT_BITS + 1) + 1 = MANT_BITS + 2 /\ (MANT_BITS + 2) + 1 = MANT_BITS + 3
    BY <1>1
  <2>2. 2^(MANT_BITS + 2) = 2^(MANT_BITS + 1) + 2^(MANT_BITS + 1)
    BY <1>1, <2>1, PowersOfTwo
  <2>3. 2^(MANT_BITS + 3) = 2^(MANT_BITS + 2) + 2^(MANT_BITS + 2)
    BY <1>1, <2>1, PowersOfTwo
  <2> QED BY <1>2, <2>2, <2>3
<1>4. 2^WORD_BITS \in Nat /\ 8 * m <= 2^WORD_BITS
  <2>1. 2^(MANT_BITS + 3) <= 2^WORD_BITS
    BY <1>1, PowersGrow
  <2> QED BY <1>1, <1>3, <2>1, PowersOfTwo
<1>5. m >= 8
  <2>1. 2^3 = 8
    <3>1. 0 + 1 = 1 /\ 1 + 1 = 2 /\ 2 + 1 = 3 /\ 0 \in Nat /\ 1 \in Nat /\ 2 \in Nat
      OBVIOUS
    <3>2. 2^1 = 2^0 + 2^0
      BY <3>1, PowersOfTwo
    <3>3. 2^2 = 2^1 + 2^1
      BY <3>1, PowersOfTwo
    <3>4. 2^3 = 2^2 + 2^2
      BY <3>1, PowersOfTwo
    <3> QED BY <3>2, <3>3, <3>4, PowerZero
  <2>2. 2^3 <= 2^MANT_BITS
    BY <1>1, PowersGrow
  <2> QED BY <1>2, <2>1, <2>2
<1>6. 2^INT_BITS \in Nat /\ 2^INT_BITS > 0 /\ 2^(INT_BITS - 1) \in Nat
  <2>1. 2^INT_BITS \in Nat /\ INT_BITS < 2^INT_BITS /\ 2^(INT_BITS - 1) \in Nat
    BY <1>1, PowersOfTwo
  <2> QED BY <1>1, <2>1
<1> QED
  BY <1>1, <1>2, <1>4, <1>5, <1>6 DEF MANT_HIDE, MANT_UPPER

LEMMA Remainder ==
    ASSUME NEW x \in Int, NEW q \in Nat, q > 0
    PROVE  x % q \in Nat /\ x % q < q
OBVIOUS

LEMMA Shifted ==
    ASSUME NEW m \in Nat, NEW i \in Nat
    PROVE  ShiftRight(m, i) \in Nat /\ BitOf(m, i) \in {0, 1}
<1>1. PICK p \in Nat : p = 2^i /\ p > 0
  <2>1. 2^i \in Nat /\ i < 2^i
    BY PowersOfTwo
  <2> QED BY <2>1
<1>2. m \div p \in Nat
  BY <1>1, DivisionFacts
<1>3. (m \div p) % 2 \in {0, 1}
  BY <1>2
<1> QED
  BY <1>1, <1>2, <1>3 DEF ShiftRight, BitOf

LEMMA int8Type ==
    ASSUME NEW e \in Int
    PROVE  int8(e) \in Int
BY DEF int8

LEMMA ExcessType ==
    ASSUME NEW m \in Nat, m < 2^WORD_BITS
    PROVE  Excess(m) \in 0..WORD_BITS
<1>1. PICK T : T = {i \in 0..WORD_BITS : ShiftRight(m, i) < MANT_UPPER}
  OBVIOUS
<1>2. WORD_BITS \in T
  <2>1. PICK p \in Nat : p = 2^WORD_BITS /\ m < p
    BY WidthFacts
  <2>2. m \div p \in Nat /\ p * (m \div p) <= m
    BY <2>1, DivisionFacts
  <2>3. m \div p = 0
    <3>1. PICK z \in Nat : z = m \div p
      BY <2>2
    <3>2. z >= 1 => p * z >= p
      BY <2>1
    <3> QED BY <2>1, <2>2, <3>1, <3>2
  <2>4. MANT_UPPER > 0 /\ WORD_BITS \in 0..WORD_BITS
    BY WidthFacts
  <2> QED BY <1>1, <2>1, <2>3, <2>4 DEF ShiftRight
<1>3. T \in SUBSET Nat /\ T # {}
  BY <1>1, <1>2
<1>4. Min(T) \in T
  BY <1>3, LeastElement
<1> QED
  BY <1>1, <1>4 DEF Excess

LEMMA MantissaType ==
    ASSUME NEW m \in Nat, NEW i \in Nat
    PROVE  ShiftRight(m, i) % MANT_HIDE \in Nat
<1>1. PICK r \in Nat, h \in Nat : r = ShiftRight(m, i) /\ h = MANT_HIDE /\ h > 0
  <2>1. ShiftRight(m, i) \in Nat
    BY Shifted
  <2>2. MANT_HIDE \in Nat /\ MANT_HIDE > 0
    BY WidthFacts
  <2> QED BY <2>1, <2>2
<1>2. r % h \in Nat
  BY <1>1, Remainder
<1> QED
  BY <1>1, <1>2

LEMMA NormalizedRight ==
    ASSUME NEW m \in Nat, m < 2^WORD_BITS, NEW e \in Int
    PROVE  normalize_right(m, e) \in SoftNumber
<1>1. PICK x \in Nat : x = Excess(m)
  BY ExcessType, WidthFacts
<1>2. int8(e + x) \in Int
  BY int8Type
<1>3. ShiftRight(m, x) % MANT_HIDE \in Nat
  BY MantissaType
<1> QED
  BY <1>1, <1>2, <1>3 DEF normalize_right, SoftNumber

LEMMA FromIntType ==
    ASSUME NEW i \in Int, NEW u \in {0, 1}
    PROVE  FromInt(i, u) \in SoftNumber
<1>1. PICK m \in Nat : m = uint64(i * MANT_HIDE) /\ m < 2^WORD_BITS
  <2>1. PICK q \in Nat : q = 2^WORD_BITS /\ q > 0
    BY WidthFacts
  <2>2. PICK x \in Int : x = i * MANT_HIDE
    BY WidthFacts
  <2>3. x % q \in Nat /\ x % q < q
    BY <2>1, Remainder
  <2> QED BY <2>1, <2>2, <2>3 DEF uint64
<1>2. PICK e \in Nat : e = Excess(m)
  BY <1>1, ExcessType, WidthFacts
<1>3. PICK g \in {0, 1} : g = (IF e = 0 THEN u ELSE BitOf(m, e - 1))
  <2>1. CASE e = 0
    BY <2>1
  <2>2. CASE e # 0
    <3>1. e - 1 \in Nat
      BY <2>2
    <3> QED BY <2>2, <3>1, Shifted
  <2> QED BY <2>1, <2>2
<1>4. PICK r \in Nat : r = ShiftRight(m, e) % MANT_HIDE
  BY MantissaType
<1>5. r + g \in Nat
  OBVIOUS
<1>6. FromInt(i, u) = [exp |-> e, mant |-> r + g]
  BY <1>1, <1>2, <1>3, <1>4 DEF FromInt
<1> QED
  BY <1>5, <1>6 DEF SoftNumber

LEMMA Hidden ==
    ASSUME NEW f \in SoftNumber
    PROVE  WithHidden(f) \in Nat /\ MANT_HIDE <= WithHidden(f) /\ WithHidden(f) < 2 * MANT_HIDE
<1>1. PICK m \in Nat, h \in Nat : m = f.mant /\ h = MANT_HIDE /\ h > 0
  BY WidthFacts DEF SoftNumber
<1>2. m % h \in Nat /\ m % h < h
  BY <1>1, Remainder
<1> QED
  BY <1>1, <1>2 DEF WithHidden

LEMMA TimesType ==
    ASSUME NEW f \in SoftNumber, NEW g \in SoftNumber
    PROVE  Times(f, g) \in SoftNumber
<1>1. PICK h \in Nat, a \in Nat, b \in Nat :
          /\ h = MANT_HIDE /\ h >= 8 /\ 4 * h < 2^WORD_BITS
          /\ a = WithHidden(f) /\ a < 2 * h /\ b = WithHidden(g) /\ b < 2 * h
  BY WidthFacts, Hidden
<1>2. PICK m3 \in Nat : m3 = a * b /\ m3 < 4 * (h * h)
  <2>1. a * b <= a * (2 * h)
    <3>1. a * (2 * h - b) >= 0
      BY <1>1, ProductSign
    <3>2. a * (2 * h - b) = a * (2 * h) - a * b
      OBVIOUS
    <3> QED BY <3>1, <3>2
  <2>2. a * (2 * h) < 4 * (h * h)
    <3>1. 2 * h * (2 * h - a) > 0
      BY <1>1
    <3>2. 2 * h * (2 * h - a) = 4 * (h * h) - a * (2 * h)
      OBVIOUS
    <3> QED BY <3>1, <3>2
  <2>3. a * b >= 0
    BY ProductSign
  <2> QED BY <2>1, <2>2, <2>3
<1>3. PICK q \in Nat : q = ShiftRight(m3, MANT_BITS) /\ q < 4 * h
  <2>1. PICK q : q = m3 \div h
    OBVIOUS
  <2>2. q \in Nat /\ h * q <= m3
    BY <1>1, <2>1, DivisionFacts
  <2>3. h * (4 * h - q) > 0
    <3>1. h * (4 * h - q) = 4 * (h * h) - h * q
      BY <2>2
    <3> QED BY <1>2, <2>2, <3>1
  <2>4. 4 * h - q > 0
    BY <1>1, <2>2, <2>3, CancelPositive
  <2> QED BY <1>1, <2>1, <2>2, <2>4 DEF ShiftRight, MANT_HIDE
<1>4. PICK m \in Nat : m = q + (IF RoundsUp(m3) THEN 1 ELSE 0) /\ m <= 4 * h
  <2>1. PICK c \in {0, 1} : c = (IF RoundsUp(m3) THEN 1 ELSE 0)
    OBVIOUS
  <2> QED BY <1>3, <2>1
<1>5. m < 2^WORD_BITS
  BY <1>1, <1>4, WidthFacts
<1>6. int8(f.exp + g.exp) \in Int
  BY int8Type DEF SoftNumber
<1> QED
  BY <1>1, <1>2, <1>3, <1>4, <1>5, <1>6, NormalizedRight DEF Times

LEMMA OverType ==
    ASSUME NEW f \in SoftNumber, NEW g \in SoftNumber
    PROVE  Over(f, g) \in SoftNumber
<1>1. PICK h \in Nat, a \in Nat, b \in Nat :
          /\ h = MANT_HIDE /\ h >= 8
          /\ a = WithHidden(f) /\ h <= a /\ b = WithHidden(g) /\ b < 2 * h /\ b > 0
  BY WidthFacts, Hidden
<1>2. PICK ah \in Nat : ah = a * h /\ ah >= h * h
  <2>1. h * (a - h) >= 0
    BY <1>1, ProductSign
  <2>2. h * (a - h) = a * h - h * h
    OBVIOUS
  <2>3. h * h >= 0
    BY ProductSign
  <2> QED BY <2>1, <2>2, <2>3
<1>3. PICK m \in Nat : m = ah \div b /\ ah < b * m + b
  BY <1>1, <1>2, DivisionFacts
<1>4. m >= 1
  <2> SUFFICES ASSUME m = 0 PROVE FALSE
    OBVIOUS
  <2>1. b * m = 0
    OBVIOUS
  <2>2. PICK hh \in Int : hh = h * h /\ hh < 2 * h
    <3>1. ah < 0 + b
      BY <1>3, <2>1
    <3> QED BY <1>1, <1>2, <3>1
  <2>3. h * (h - 2) > 0
    BY <1>1
  <2>4. h * (h - 2) = h * h - 2 * h
    OBVIOUS
  <2> QED BY <2>2, <2>3, <2>4
<1>5. PICK l \in Nat : l = Lacking(m)
  <2>1. PICK T : T = {i \in 0..MANT_BITS : m * 2^i >= MANT_HIDE}
    OBVIOUS
  <2>2. MANT_BITS \in T
    <3>1. MANT_BITS \in 0..MANT_BITS
      BY WidthFacts
    <3>2. m * h >= h
      BY <1>4
    <3> QED BY <1>1, <2>1, <3>1, <3>2 DEF MANT_HIDE
  <2>3. T \in SUBSET Nat /\ T # {}
    BY <2>1, <2>2
  <2>4. Min(T) \in T /\ Min(T) \in Nat
    BY <2>3, LeastElement
  <2> QED BY <2>1, <2>4 DEF Lacking
<1>6. PICK e \in Int : e = int8(f.exp - g.exp)
  BY int8Type DEF SoftNumber
<1>7. int8(e - l) \in Int
  BY int8Type
<1>8. (m * 2^l) % MANT_HIDE \in Nat
  <2>1. m * 2^l \in Int
    BY PowersOfTwo
  <2> QED BY <2>1, WidthFacts, Remainder
<1>9. Over(f, g) = [exp |-> int8(e - l), mant |-> (m * 2^l) % MANT_HIDE]
  BY <1>1, <1>2, <1>3, <1>5, <1>6 DEF Over, normalize_left
<1> QED
  BY <1>7, <1>8, <1>9 DEF SoftNumber

LEMMA ToIntType ==
    ASSUME NEW f \in SoftNumber
    PROVE  ToInt(f) \in Nat
<1>1. CASE f.exp < 0 \/ f.exp > MANT_BITS
  BY <1>1 DEF ToInt
<1>2. CASE ~(f.exp < 0 \/ f.exp > MANT_BITS)
  <2>1. MANT_BITS - f.exp \in Nat /\ f.mant + MANT_HIDE \in Nat
    BY <1>2, WidthFacts DEF SoftNumber
  <2> QED BY <1>2, <2>1, Shifted DEF ToInt
<1> QED
  BY <1>1, <1>2

LEMMA intType ==
    ASSUME NEW x \in Int
    PROVE  int(x) \in Int
<1>1. PICK q \in Nat, h \in Nat : q = 2^INT_BITS /\ q > 0 /\ h = 2^(INT_BITS - 1)
  BY WidthFacts
<1>2. (x + h) % q \in Nat
  BY <1>1, Remainder
<1> QED
  BY <1>1, <1>2 DEF int

(* A prediction is never below the intercept, whatever SoftFloat loses.    *)
LEMMA ProductType ==
    ASSUME Floating \in {"SoftFloat", "float"}, guard_bit0 \in {0, 1},
           NEW s \in SegmentRecord, NEW x \in Nat
    PROVE  Product(s, x) \in Nat
<1>1. s.key \in Nat /\ s.dx \in Int /\ s.dy \in Int
  BY DEF SegmentRecord
<1>2. SoftSlope(s) \in SoftNumber
  <2>1. FromInt(0, guard_bit0) \in SoftNumber /\ FromInt(s.dy, guard_bit0) \in SoftNumber
    BY <1>1, FromIntType
  <2>2. int(s.dx) \in Int
    BY <1>1, intType
  <2>3. FromInt(int(s.dx), guard_bit0) \in SoftNumber
    BY <2>2, FromIntType
  <2> QED BY <2>1, <2>3, OverType DEF SoftSlope, OverInt
<1>3. PICK distance \in Nat : distance = (x - s.key) % (KeyMax + 1)
  <2>1. x - s.key \in Int /\ KeyMax + 1 \in Nat /\ KeyMax + 1 > 0
    BY <1>1, KeyMaxNat
  <2> QED BY <2>1, Remainder
<1>4. CASE Floating = "SoftFloat"
  <2>1. int(distance) \in Int
    BY intType
  <2>2. FromInt(int(distance), guard_bit0) \in SoftNumber
    BY <2>1, FromIntType
  <2>3. ToInt(TimesInt(SoftSlope(s), distance, guard_bit0)) \in Nat
    BY <1>2, <2>2, TimesType, ToIntType DEF TimesInt
  <2> QED BY <1>3, <1>4, <2>3 DEF Product
<1>5. CASE Floating = "float"
  <2>1. ToInt(SoftSlope(s)) * distance \in Nat
    BY <1>2, ToIntType
  <2> QED BY <1>3, <1>5, <2>1 DEF Product
<1> QED
  BY <1>4, <1>5

-----------------------------------------------------------------------------
(* The steps of a search.                                                  *)

(* The position of a segment, limited by the intercept of the next one.    *)
LEMMA PositionType ==
    ASSUME Floating \in {"SoftFloat", "float"}, guard_bit0 \in {0, 1}, k \in Nat,
           NEW i, At(i) \in SegmentRecord, At(i + 1).intercept \in Nat
    PROVE  Position(i) \in Nat /\ Position(i) <= At(i + 1).intercept
<1>1. PICK p \in Nat, c \in Int, next \in Nat :
          p = Product(At(i), k) /\ c = At(i).intercept /\ next = At(i + 1).intercept
  BY ProductType DEF SegmentRecord
<1>2. IsClamped(Position(i), p + c, next)
  BY <1>1 DEF Position, IsClamped
<1> QED
  BY <1>1, <1>2, Clamped

(* Where the arithmetic keeps its error below a half, it is one that may   *)
(* be given.                                                               *)
LEMMA PositionGives ==
    ASSUME Floating \in {"SoftFloat", "float"}, guard_bit0 \in {0, 1}, k \in Nat,
           NEW i, At(i) \in SegmentRecord, WithinHalf(At(i), k)
    PROVE  MayGive(At(i), At(i + 1), k, Position(i))
<1>1. PICK s \in SegmentRecord, x \in Nat : s = At(i) /\ x = k
  OBVIOUS
<1>2. PICK p \in Nat : p = Product(s, x)
  BY <1>1, ProductType
<1>3. PICK dx \in Nat, exact \in Int : dx = s.dx /\ exact = s.dy * (x - s.key)
  BY <1>1 DEF SegmentRecord
<1>4. IF s.dy = 0 THEN x = s.key => p <= 1
      ELSE 2 * dx * p < 2 * exact + dx /\ 2 * exact < 2 * dx * p + 3 * dx
  BY <1>1, <1>2, <1>3 DEF WithinHalf
<1>5. 2 * dx * p = 2 * (dx * p)
  OBVIOUS
<1>6. IF s.dy = 0 THEN x = s.key => p <= 1 ELSE Near(s, x, p)
  BY <1>3, <1>4, <1>5 DEF Near
<1>7. Position(i) = Min({Max({0, p + s.intercept}), At(i + 1).intercept})
  BY <1>1, <1>2 DEF Position
<1> QED
  BY <1>1, <1>6, <1>7 DEF MayGive

\* The index as it was built.
Indexes ==
    /\ IsData(data) /\ OneMax(data) /\ Indexed(data) >= 1
    /\ OffsetsFit(segments, levels_offsets) /\ Len(levels_offsets) >= 2
    /\ IndexOf(data, segments, levels_offsets, EpsilonRecursive)
    /\ EpsilonRecursive \in Nat /\ linear_search_threshold \in Nat
    /\ Floating \in {"SoftFloat", "float"} /\ guard_bit0 \in {0, 1}

\* The key is not below the data, nor the sentinel's.
InKeys == k \in 0..(KeyMax - 1) /\ data[1] <= k

Level(l) == LevelOf(segments, levels_offsets, l)
LevelPoints(l) == PointsOf(data, segments, levels_offsets, l)

\* Whether the upper levels are scanned.
Scans == EpsilonRecursive <= linear_search_threshold

\* Position x holds a segment of level l, counted from 1 on.
Within(l, x) == \E i \in 1..(Len(Level(l)) - 1) : x = levels_offsets[l] + i - 1

\* Position x holds one that serves the key.
Lands(l, x) ==
    \E i \in 1..(Len(Level(l)) - 1) :
        /\ x = levels_offsets[l] + i - 1
        /\ Serves(Level(l), i, k)
        /\ Scans => k < Level(l)[i + 1].key

LEMMA LevelAt ==
    ASSUME Indexes, NEW l \in 1..(Len(levels_offsets) - 1)
    PROVE  /\ levels_offsets[l] \in Nat /\ levels_offsets[l + 1] \in Nat
           /\ Len(Level(l)) = levels_offsets[l + 1] - levels_offsets[l] /\ Len(Level(l)) \in Nat
           /\ levels_offsets[l + 1] <= Len(segments) /\ Len(segments) \in Nat
           /\ \A i \in 1..Len(Level(l)) : segments[levels_offsets[l] + i] = Level(l)[i]
           /\ IsLevelOf(Level(l), LevelPoints(l), EpsilonOf(EpsilonRecursive, l), End(data))
           /\ LevelPoints(l) # << >> /\ Len(Level(l)) >= 2 /\ Level(l)[1].key = data[1]
           /\ End(data) \in Nat
<1>1. /\ levels_offsets[l] \in Nat /\ levels_offsets[l + 1] \in Nat
      /\ Len(Level(l)) = levels_offsets[l + 1] - levels_offsets[l]
      /\ levels_offsets[l + 1] <= Len(segments)
      /\ levels_offsets[l] < levels_offsets[l + 1]
      /\ \A i \in 1..Len(Level(l)) : segments[levels_offsets[l] + i] = Level(l)[i]
  <2>1. OffsetsFit(segments, levels_offsets)
    BY DEF Indexes
  <2>2. /\ levels_offsets[l] \in Nat /\ levels_offsets[l + 1] \in Nat
        /\ levels_offsets[l] < levels_offsets[l + 1] /\ levels_offsets[l + 1] <= Len(segments)
        /\ LevelOf(segments, levels_offsets, l) \in Seq(SegmentRecord)
        /\ Len(LevelOf(segments, levels_offsets, l)) = levels_offsets[l + 1] - levels_offsets[l]
        /\ \A i \in 1..(levels_offsets[l + 1] - levels_offsets[l]) :
              /\ LevelOf(segments, levels_offsets, l)[i] = segments[levels_offsets[l] + i]
              /\ levels_offsets[l] + i \in 1..Len(segments)
    BY <2>1, LevelFacts
  <2> QED BY <2>2 DEF Level
<1>2. IsLevelOf(Level(l), LevelPoints(l), EpsilonOf(EpsilonRecursive, l), End(data))
  BY DEF Indexes, IndexOf, Level, LevelPoints
<1>3. LevelPoints(l) # << >> /\ Len(Level(l)) >= 2 /\ Level(l)[1].key = data[1]
  BY LevelsBegin DEF Indexes, Level, LevelPoints
<1>4. End(data) \in Nat
  BY KeyPointsNumbered DEF Indexes
<1>5. Len(segments) \in Nat /\ Len(Level(l)) \in Nat
  BY <1>1, OffsetsFacts DEF Indexes
<1> QED
  BY <1>1, <1>2, <1>3, <1>4, <1>5

LEMMA LandsWithin ==
    ASSUME NEW l, NEW x, Lands(l, x)
    PROVE  Within(l, x)
BY DEF Lands, Within

(* A position in a level, and what its segment gives whatever the error.   *)
IsInLevel(l, x, i) ==
    /\ i \in 1..(Len(Level(l)) - 1) /\ x = levels_offsets[l] + i - 1
    /\ x \in Nat /\ x + 1 < Len(segments)
    /\ At(x) = Level(l)[i] /\ At(x + 1) = Level(l)[i + 1] /\ At(x) \in SegmentRecord

LEMMA InLevel ==
    ASSUME Indexes, NEW l \in 1..(Len(levels_offsets) - 1),
           NEW i \in 1..(Len(Level(l)) - 1), NEW x, x = levels_offsets[l] + i - 1
    PROVE  IsInLevel(l, x, i)
<1>2. PICK a \in Nat, c \in Nat : /\ a = levels_offsets[l] /\ c = Len(Level(l)) /\ a + c <= Len(segments)
                                  /\ Len(segments) \in Nat
                                  /\ \A m \in 1..c : segments[a + m] = Level(l)[m]
                                  /\ IsLevelOf(Level(l), LevelPoints(l), EpsilonOf(EpsilonRecursive, l), End(data))
  <2>1. levels_offsets[l + 1] = levels_offsets[l] + Len(Level(l))
    BY LevelAt
  <2> QED BY <2>1, LevelAt
<1>3. i \in 1..c /\ i + 1 \in 1..c /\ x + 1 = a + i /\ (x + 1) + 1 = a + (i + 1) /\ x \in Nat
  <2>1. i \in 1..(c - 1) /\ x = a + i - 1
    BY <1>2
  <2> QED BY <2>1
<1>4. At(x) = Level(l)[i] /\ At(x + 1) = Level(l)[i + 1]
  <2>1. segments[a + i] = Level(l)[i] /\ segments[a + (i + 1)] = Level(l)[i + 1]
    BY <1>2, <1>3
  <2>2. At(x) = segments[x + 1] /\ At(x + 1) = segments[(x + 1) + 1]
    BY DEF At
  <2> QED BY <1>3, <2>1, <2>2
<1>5. At(x) \in SegmentRecord
  BY <1>2, <1>3, <1>4, LevelHasKeys
<1>6. x + 1 < Len(segments) /\ i \in 1..(Len(Level(l)) - 1) /\ x = levels_offsets[l] + i - 1
  <2>1. x + 1 = a + i /\ i + 1 <= c
    BY <1>3
  <2> QED BY <1>2, <2>1
<1> QED
  BY <1>3, <1>4, <1>5, <1>6 DEF IsInLevel

LEMMA WithinGives ==
    ASSUME Indexes, InKeys, NEW l \in 1..(Len(levels_offsets) - 1), NEW x, Within(l, x)
    PROVE  /\ x \in Nat /\ x + 1 < Len(segments) /\ Position(x) \in Nat
           /\ Position(x) <= Len(LevelPoints(l)) + EpsilonOf(EpsilonRecursive, l)
<1>1. PICK i \in 1..(Len(Level(l)) - 1) : IsInLevel(l, x, i)
  BY InLevel DEF Within
<1>2. /\ Len(Level(l)) \in Nat
      /\ IsLevelOf(Level(l), LevelPoints(l), EpsilonOf(EpsilonRecursive, l), End(data))
  BY LevelAt
<1>3. i + 1 \in 1..Len(Level(l))
  BY <1>2
<1>4. /\ At(x + 1).intercept \in Nat
      /\ At(x + 1).intercept <= Len(LevelPoints(l)) + EpsilonOf(EpsilonRecursive, l)
  BY <1>1, <1>2, <1>3 DEF IsLevelOf, IsInLevel
<1>5. k \in Nat
  BY KeyMaxNat DEF InKeys
<1>6. Position(x) \in Nat /\ Position(x) <= At(x + 1).intercept
  BY <1>1, <1>4, <1>5, PositionType DEF IsInLevel, Indexes
<1>7. PICK bound : bound = Len(LevelPoints(l)) + EpsilonOf(EpsilonRecursive, l) /\ bound \in Int
  <2>1. Len(LevelPoints(l)) \in Nat
    BY <1>2, LevelAt DEF LevelPoints
  <2>2. EpsilonOf(EpsilonRecursive, l) \in Nat
    BY ParametersAssumption DEF EpsilonOf, Indexes
  <2> QED BY <2>1, <2>2
<1> QED
  BY <1>1, <1>4, <1>6, <1>7 DEF IsInLevel

(* What the segment reached predicts.                                      *)
LEMMA LandsPredicts ==
    ASSUME Accurate, Indexes, InKeys, NEW l \in 1..(Len(levels_offsets) - 1), NEW x, Lands(l, x),
           NEW pos, pos = Position(x)
    PROVE  /\ Predicts(pos, LevelPoints(l), EpsilonOf(EpsilonRecursive, l), End(data), k)
           /\ x \in Nat /\ x + 1 < Len(segments)
<1>1. PICK i \in 1..(Len(Level(l)) - 1) : x = levels_offsets[l] + i - 1 /\ Serves(Level(l), i, k)
  BY DEF Lands
<1>2. IsInLevel(l, x, i) /\ IsLevelOf(Level(l), LevelPoints(l), EpsilonOf(EpsilonRecursive, l), End(data))
  BY <1>1, InLevel, LevelAt
<1>3. x \in Serving
  <2>1. x \in 0..(Len(segments) - 2)
    <3>1. Len(segments) \in Nat /\ x \in Nat /\ x + 1 < Len(segments)
      BY <1>2, OffsetsFacts DEF Indexes, IsInLevel
    <3> QED BY <3>1
  <2>2. At(x).key <= k /\ (k < At(x + 1).key \/ At(x + 1).key = At(x).key)
    BY <1>1, <1>2 DEF IsInLevel, Serves
  <2> QED BY <2>1, <2>2 DEF Serving
<1>4. WithinHalf(At(x), k)
  BY <1>3 DEF Accurate
<1>5. k \in 0..(KeyMax - 1) /\ k \in Nat
  BY KeyMaxNat DEF InKeys
<1>6. MayGive(At(x), At(x + 1), k, pos)
  BY <1>2, <1>4, <1>5, PositionGives DEF Indexes, IsInLevel
<1>7. Predicts(pos, LevelPoints(l), EpsilonOf(EpsilonRecursive, l), End(data), k)
  BY <1>1, <1>2, <1>5, <1>6 DEF IsLevelOf, IsInLevel
<1> QED
  BY <1>2, <1>7 DEF IsInLevel

\* Level l is the c segments behind the first a.
IsAt(l, a, c) ==
    /\ a = levels_offsets[l] /\ levels_offsets[l + 1] = a + c
    /\ c = Len(Level(l)) /\ c >= 2 /\ a + c <= Len(segments)
    /\ IsPart(segments, a, Level(l))

LEMMA LevelIsAt ==
    ASSUME Indexes, NEW l \in 1..(Len(levels_offsets) - 1)
    PROVE  \E a \in Nat, c \in Nat : IsAt(l, a, c)
<1>1. PICK a \in Nat, b \in Nat, c \in Nat : a = levels_offsets[l] /\ b = levels_offsets[l + 1] /\ c = Len(Level(l))
  BY LevelAt
<1>2. c = b - a /\ b <= Len(segments) /\ c >= 2 /\ \A i \in 1..c : segments[a + i] = Level(l)[i]
  BY <1>1, LevelAt
<1>3. b = a + c
  BY <1>2
<1> QED
  BY <1>1, <1>2, <1>3 DEF IsAt, IsPart

(* Where a segment of the level above leads to: to a range of level l that *)
(* begins behind d segments, at or below the last segment j that is not    *)
(* above the key, and ends behind the first one f with the key of that.    *)
IsNarrowed(l, pos, a, c, j, d, f) ==
    /\ IsAt(l, a, c)
    /\ IsLast(Level(l), k, j) /\ Level(l)[j].key <= k /\ k < Level(l)[j + 1].key
    /\ j \in 1..(c - 1) /\ \A i \in 1..c : Level(l)[i].key <= k <=> i <= j
    /\ ScanFrom(levels_offsets[l], pos) = a + d /\ d <= j - 1 /\ d <= pos
    /\ f \in 1..j /\ Level(l)[f].key = Level(l)[j].key
    /\ pos \in Nat /\ f <= pos + EpsilonRecursive + 2

LEMMA Narrowed ==
    ASSUME Accurate, Indexes, InKeys, EpsilonRecursive > 0,
           NEW l \in 1..(Len(levels_offsets) - 2), NEW x, Lands(l + 1, x), NEW pos, pos = Position(x)
    PROVE  \E a \in Nat, c \in Nat, j \in Nat, d \in Nat, f \in Nat : IsNarrowed(l, pos, a, c, j, d, f)
<1>1. PICK m \in Nat : m = Len(levels_offsets) /\ m >= 2
  BY OffsetsFacts DEF Indexes
<1>2. l \in 1..(m - 1) /\ l + 1 \in 1..(m - 1) /\ l + 1 # 1 /\ (l + 1) - 1 = l
  BY <1>1
<1>3. l \in 1..(Len(levels_offsets) - 1) /\ l + 1 \in 1..(Len(levels_offsets) - 1)
  BY <1>1, <1>2
<1>4. PICK o, s, epsilon : /\ o = Level(l) /\ s = LevelPoints(l)
                           /\ epsilon = EpsilonOf(EpsilonRecursive, l)
  OBVIOUS
<1>5. PICK a \in Nat, c \in Nat : IsAt(l, a, c)
  BY <1>3, LevelIsAt
<1>6. /\ IsLevelOf(o, s, epsilon, End(data)) /\ s # << >> /\ o[1].key = data[1]
      /\ End(data) \in Nat
  BY <1>3, <1>4, LevelAt
<1>7. Predicts(pos, UpperPoints(o), EpsilonRecursive, End(data), k)
  <2>1. Predicts(pos, LevelPoints(l + 1), EpsilonOf(EpsilonRecursive, l + 1), End(data), k)
    BY <1>3, LandsPredicts
  <2>2. LevelPoints(l + 1) = UpperPoints(o) /\ EpsilonOf(EpsilonRecursive, l + 1) = EpsilonRecursive
    BY <1>2, <1>4 DEF LevelPoints, PointsOf, EpsilonOf, Level
  <2> QED BY <2>1, <2>2
<1>8. k \in 0..(KeyMax - 1) /\ o[1].key <= k /\ EpsilonRecursive \in Nat
  BY <1>6 DEF InKeys, Indexes
<1>9. PICK j \in Nat : IsLast(o, k, j) /\ o[j].key <= k /\ k < o[j + 1].key
  BY <1>6, <1>8, LastExists
<1>10. /\ pos \in Nat /\ PGM_SUB_EPS(pos, EpsilonRecursive + 1) \in Nat
       /\ PGM_SUB_EPS(pos, EpsilonRecursive + 1) <= j - 1
       /\ \E f \in 1..j : o[f].key = o[j].key /\ f <= pos + EpsilonRecursive + 2
  BY <1>6, <1>7, <1>8, <1>9, RangeHolds
<1>11. PICK d \in Nat, f \in 1..j : /\ d = PGM_SUB_EPS(pos, EpsilonRecursive + 1) /\ d <= j - 1
                                    /\ o[f].key = o[j].key /\ f <= pos + EpsilonRecursive + 2
  BY <1>10
<1>12. ScanFrom(levels_offsets[l], pos) = a + d
  BY <1>5, <1>11 DEF ScanFrom, IsAt
<1>13. d <= pos
  BY <1>8, <1>10, <1>11 DEF PGM_SUB_EPS
<1>14. j \in 1..(c - 1) /\ \A i \in 1..c : o[i].key <= k <=> i <= j
  BY <1>4, <1>5, <1>9 DEF IsLast, IsAt
<1>15. f \in Nat
  OBVIOUS
<1> QED
  BY <1>4, <1>5, <1>9, <1>10, <1>11, <1>12, <1>13, <1>14, <1>15 DEF IsNarrowed

(* A level that a segment of the level above leads to: scanned ...         *)
LEMMA ScanLands ==
    ASSUME Accurate, Indexes, InKeys, EpsilonRecursive > 0,
           NEW l \in 1..(Len(levels_offsets) - 2), NEW x, Lands(l + 1, x), NEW pos, pos = Position(x)
    PROVE  /\ ScanEnds(ScanFrom(levels_offsets[l], pos)) # {}
           /\ Lands(l, Min(ScanEnds(ScanFrom(levels_offsets[l], pos))))
<1>10. PICK a \in Nat, c \in Nat, j \in Nat, d \in Nat, f \in Nat : IsNarrowed(l, pos, a, c, j, d, f)
  BY Narrowed
<1>1. /\ IsAt(l, a, c)
      /\ Level(l)[j].key <= k /\ k < Level(l)[j + 1].key
      /\ j \in 1..(c - 1) /\ \A i \in 1..c : Level(l)[i].key <= k <=> i <= j
      /\ ScanFrom(levels_offsets[l], pos) = a + d /\ d <= j - 1
  BY <1>10 DEF IsNarrowed
<1>2. PICK o : /\ o = Level(l) /\ \A i \in 1..c : segments[a + i] = o[i] /\ o[i].key \in Nat
  <2>1. l \in 1..(Len(levels_offsets) - 1)
    BY OffsetsFacts DEF Indexes
  <2>2. \A i \in 1..Len(Level(l)) : Level(l)[i].key \in Nat
    BY <2>1, LevelAt, LevelHasKeys
  <2> QED BY <1>1, <2>2 DEF IsAt, IsPart
<1>3. PICK N \in Nat : N = Len(segments) /\ a + c <= N
  BY <1>1, OffsetsFacts DEF Indexes, IsAt
<1>5. j >= 1 /\ j <= c - 1 /\ d <= j - 1
  BY <1>1
<1>4. PICK lo \in Nat, y \in Nat : lo = a + d /\ y = a + j - 1
  <2>1. a + d \in Nat /\ a + j - 1 \in Nat
    BY <1>5
  <2> QED BY <2>1
<1>6. y \in ScanEnds(lo)
  <2>1. y \in lo..(N - 2)
    BY <1>3, <1>4, <1>5
  <2>2. (y + 1) + 1 = a + (j + 1) /\ j + 1 \in 1..c
    BY <1>4, <1>5
  <2>3. At(y + 1) = o[j + 1]
    BY <1>2, <2>2 DEF At
  <2> QED BY <1>1, <1>2, <1>3, <2>1, <2>3 DEF ScanEnds
<1>7. ASSUME NEW i \in ScanEnds(lo) PROVE y <= i /\ i \in Nat
  <2>1. i \in lo..(N - 2) /\ At(i + 1).key > k
    BY <1>3, <1>7 DEF ScanEnds
  <2>2. i \in Nat /\ lo <= i
    BY <1>3, <2>1
  <2>3. ASSUME i < y PROVE FALSE
    <3>1. PICK e \in Nat : i = a + e /\ e + 2 <= j
      <4>1. i - a \in Nat /\ i = a + (i - a)
        BY <1>4, <2>2
      <4>2. (i - a) + 2 <= j
        BY <1>4, <2>2, <2>3
      <4> QED BY <4>1, <4>2
    <3>2. (i + 1) + 1 = a + (e + 2)
      BY <3>1
    <3>3. e + 2 \in 1..c
      BY <1>5, <3>1
    <3>4. At(i + 1) = o[e + 2]
      BY <1>2, <3>2, <3>3 DEF At
    <3>5. o[e + 2].key <= k
      BY <1>1, <1>2, <3>1, <3>3
    <3>6. o[e + 2].key \in Nat /\ k \in Nat
      BY <1>2, <3>3, KeyMaxNat DEF InKeys
    <3>7. o[e + 2].key > k
      BY <2>1, <3>4
    <3> QED BY <3>5, <3>6, <3>7
  <2> QED BY <2>2, <2>3
<1>8. Min(ScanEnds(lo)) = y
  <2>1. \A t \in ScanEnds(lo) : (\A i \in ScanEnds(lo) : t <= i) => t = y
    BY <1>6, <1>7
  <2> QED BY <1>6, <1>7, <2>1 DEF Min
<1>9. Lands(l, y)
  <2>1. Serves(o, j, k)
    BY <1>1, <1>2 DEF Serves
  <2>2. j \in 1..(Len(Level(l)) - 1) /\ y = levels_offsets[l] + j - 1
    BY <1>1, <1>4 DEF IsAt
  <2> QED BY <1>1, <1>2, <2>1, <2>2 DEF Lands
<1> QED
  BY <1>1, <1>4, <1>6, <1>8, <1>9

(* ... or bisected.                                                        *)
LEMMA BisectLands ==
    ASSUME Accurate, Indexes, InKeys, EpsilonRecursive > 0, ~Scans,
           NEW l \in 1..(Len(levels_offsets) - 2), NEW x, Lands(l + 1, x), NEW pos, pos = Position(x)
    PROVE  Lands(l, upper_bound(ScanFrom(levels_offsets[l], pos),
                                levels_offsets[l]
                                    + PGM_ADD_EPS(pos, EpsilonRecursive,
                                                  levels_offsets[l + 1] - levels_offsets[l] - 1)) - 1)
<1>13. PICK a \in Nat, c \in Nat, j \in Nat, d \in Nat, f \in Nat : IsNarrowed(l, pos, a, c, j, d, f)
  BY Narrowed
<1>1. /\ IsAt(l, a, c)
      /\ IsLast(Level(l), k, j) /\ Level(l)[j].key <= k /\ k < Level(l)[j + 1].key
      /\ j \in 1..(c - 1)
      /\ ScanFrom(levels_offsets[l], pos) = a + d /\ d <= j - 1 /\ d <= pos
      /\ f \in 1..j /\ Level(l)[f].key = Level(l)[j].key
      /\ pos \in Nat /\ f <= pos + EpsilonRecursive + 2
  BY <1>13 DEF IsNarrowed
<1>2. PICK o : o = Level(l) /\ c = Len(o) /\ IsPart(segments, a, o)
  BY <1>1 DEF IsAt
<1>3. PICK e \in Nat : e = EpsilonRecursive
  BY DEF Indexes
<1>4. j >= 1 /\ j <= c - 1 /\ d <= j - 1 /\ f >= 1 /\ f <= j /\ f <= pos + e + 2 /\ d <= j
  BY <1>1, <1>3
<1>5. PICK to \in Nat : to = PGM_ADD_EPS(pos, e, c - 1) /\ to <= c - 1 /\ f <= to /\ d <= to
  <2>5. PICK u \in Nat, v \in Nat : u = pos + e + 2 /\ v = c - 1
    <3>1. pos + e + 2 \in Nat /\ c - 1 \in Nat
      <4>1. pos \in Nat
        BY <1>1
      <4> QED BY <1>4, <4>1
    <3> QED BY <3>1
  <2>1. u \in Int /\ v \in Int
    BY <2>5
  <2>2. PICK to : to = Min({u, v})
    OBVIOUS
  <2>3. to \in {u, v} /\ to <= u /\ to <= v
    BY <2>1, <2>2, MinOfTwo
  <2>6. to \in Nat
    BY <2>3, <2>5
  <2>7. f <= v /\ d <= v /\ d <= u /\ f <= u
    <3>1. pos \in Nat /\ d <= pos
      BY <1>1
    <3> QED BY <1>4, <2>5, <3>1
  <2>4. f <= c - 1 /\ d <= c - 1 /\ d <= pos + e + 2 /\ to \in Nat
    BY <2>5, <2>6, <2>7
  <2>8. to = PGM_ADD_EPS(pos, e, c - 1)
    BY <2>2, <2>5 DEF PGM_ADD_EPS
  <2>9. to <= c - 1 /\ f <= to /\ d <= to
    BY <2>3, <2>5, <2>6, <2>7
  <2> QED BY <2>6, <2>8, <2>9
<1>6. PICK t \in Nat : Bisected(segments, k, a + d, a + to) = a + t /\ t \in {to, j} /\ t <= to /\ t <= j
  <2>1. PICK g, x2 : g = segments /\ x2 = k
    OBVIOUS
  <2>2. IsLast(o, x2, j) /\ c = Len(o) /\ IsPart(g, a, o)
    BY <1>1, <1>2, <2>1
  <2>3. IsRange(d, to, j, o)
    BY <1>2, <1>4, <1>5 DEF IsRange
  <2>4. \E m \in Nat : Bisected(g, x2, a + d, a + to) = a + m /\ IsLess(m, to, j)
    BY <2>2, <2>3, BisectedAt
  <2> QED BY <2>1, <2>4 DEF IsLess
<1>7. t \in f..j /\ f \in 1..j
  BY <1>4, <1>5, <1>6
<1>8. Serves(o, t, k) /\ t \in 1..(Len(o) - 1)
  <2>1. k \in Nat
    BY KeyMaxNat DEF InKeys
  <2>2. \E s, epsilon, end : IsLevelOf(o, s, epsilon, end)
    <3>1. l \in 1..(Len(levels_offsets) - 1)
      BY OffsetsFacts DEF Indexes
    <3> QED BY <1>2, <3>1, LevelAt
  <2> QED BY <1>1, <1>2, <1>7, <2>1, <2>2, EqualServe
<1>9. Lands(l, a + t - 1)
  BY <1>1, <1>2, <1>8 DEF Lands, IsAt
<1>10. upper_bound(a + d, a + to) = a + t
  BY <1>6 DEF upper_bound, Bisected, At
<1>11. levels_offsets[l] = a /\ levels_offsets[l + 1] - levels_offsets[l] - 1 = c - 1
  <2>1. levels_offsets[l] = a /\ levels_offsets[l + 1] = a + c
    BY <1>1 DEF IsAt
  <2>2. (a + c) - a - 1 = c - 1
    OBVIOUS
  <2> QED BY <2>1, <2>2
<1>12. PICK z : z = a + t - 1 /\ z = upper_bound(a + d, a + to) - 1
  BY <1>10
<1> QED
  BY <1>1, <1>3, <1>5, <1>9, <1>11, <1>12

(* Whatever the error, a search stays within the levels.                   *)
IsRoom(l, pos, a, c, d) ==
    /\ IsAt(l, a, c) /\ pos \in Nat
    /\ ScanFrom(levels_offsets[l], pos) = a + d /\ d + 2 <= c
    /\ \A i \in 1..c : Level(l)[i].key \in Nat /\ segments[a + i] = Level(l)[i]
    /\ Level(l)[1].key <= k /\ k < Level(l)[c].key

LEMMA Room ==
    ASSUME Indexes, InKeys, EpsilonRecursive > 0,
           NEW l \in 1..(Len(levels_offsets) - 2), NEW x, Within(l + 1, x), NEW pos, pos = Position(x)
    PROVE  \E a \in Nat, c \in Nat, d \in Nat : IsRoom(l, pos, a, c, d)
<1>1. PICK m \in Nat : m = Len(levels_offsets) /\ m >= 2
  BY OffsetsFacts DEF Indexes
<1>2. l \in 1..(m - 1) /\ l + 1 \in 1..(m - 1) /\ l + 1 # 1 /\ (l + 1) - 1 = l
  BY <1>1
<1>3. l \in 1..(Len(levels_offsets) - 1) /\ l + 1 \in 1..(Len(levels_offsets) - 1)
  BY <1>1, <1>2
<1>4. PICK a \in Nat, c \in Nat : IsAt(l, a, c) /\ a = levels_offsets[l] /\ c = Len(Level(l)) /\ c >= 2
  BY <1>3, LevelIsAt DEF IsAt
<1>5. PICK e \in Nat : e = EpsilonRecursive
  BY DEF Indexes
<1>6. pos \in Nat /\ pos <= (c - 1) + e
  <2>1. pos \in Nat /\ pos <= Len(LevelPoints(l + 1)) + EpsilonOf(EpsilonRecursive, l + 1)
    BY <1>3, WithinGives
  <2>2. LevelPoints(l + 1) = UpperPoints(Level(l)) /\ EpsilonOf(EpsilonRecursive, l + 1) = e
    BY <1>2, <1>5 DEF LevelPoints, PointsOf, EpsilonOf, Level
  <2>3. Len(UpperPoints(Level(l))) = c - 1
    BY <1>3, <1>4, LevelAt, UpperPointsNumbered
  <2> QED BY <2>1, <2>2, <2>3
<1>7. PICK d \in Nat : d = PGM_SUB_EPS(pos, e + 1) /\ d + 2 <= c
  BY <1>4, <1>6 DEF PGM_SUB_EPS
<1>8. \A i \in 1..c : Level(l)[i].key \in Nat /\ segments[a + i] = Level(l)[i]
  BY <1>3, <1>4, LevelAt, LevelHasKeys DEF IsAt
<1>9. Level(l)[1].key <= k /\ k < Level(l)[c].key
  <2>1. Level(l)[1].key = data[1] /\ Level(l)[c].key = KeyMax
    BY <1>3, <1>4, LevelAt, LevelHasKeys
  <2> QED BY <2>1, KeyMaxNat DEF InKeys
<1>10. ScanFrom(levels_offsets[l], pos) = a + d
  BY <1>4, <1>5, <1>7 DEF ScanFrom
<1> QED
  BY <1>4, <1>6, <1>7, <1>8, <1>9, <1>10 DEF IsRoom

LEMMA ScanWithin ==
    ASSUME Indexes, InKeys, EpsilonRecursive > 0,
           NEW l \in 1..(Len(levels_offsets) - 2), NEW x, Within(l + 1, x), NEW pos, pos = Position(x)
    PROVE  /\ ScanEnds(ScanFrom(levels_offsets[l], pos)) # {}
           /\ Within(l, Min(ScanEnds(ScanFrom(levels_offsets[l], pos))))
<1>1. PICK a \in Nat, c \in Nat, d \in Nat : IsRoom(l, pos, a, c, d)
  BY Room
<1>2. PICK N \in Nat : N = Len(segments) /\ a + c <= N
  BY <1>1, OffsetsFacts DEF Indexes, IsRoom, IsAt
<1>3. PICK lo \in Nat, y \in Nat : lo = a + d /\ y = a + c - 2 /\ lo <= y /\ y <= N - 2 /\ (y + 1) + 1 = a + c
  <2>1. d + 2 <= c
    BY <1>1 DEF IsRoom
  <2>2. a + c - 2 \in Nat /\ a + d <= a + c - 2
    BY <2>1
  <2> QED BY <1>2, <2>2
<1>4. y \in ScanEnds(lo)
  <2>1. At(y + 1) = Level(l)[c]
    <3>1. c \in 1..c
      BY <1>1 DEF IsRoom
    <3> QED BY <1>1, <1>3, <3>1 DEF At, IsRoom
  <2>2. At(y + 1).key > k
    BY <1>1, <2>1, KeyMaxNat DEF IsRoom, InKeys
  <2>3. y \in lo..(N - 2)
    BY <1>2, <1>3
  <2> QED BY <1>2, <2>2, <2>3 DEF ScanEnds
<1>5. PICK T \in SUBSET Nat : T = ScanEnds(lo) /\ T # {} /\ \A i \in T : lo <= i
  <2>1. \A i \in ScanEnds(lo) : i \in Nat /\ lo <= i
    BY <1>2 DEF ScanEnds
  <2> QED BY <1>4, <2>1
<1>6. PICK z \in Nat : z = Min(T) /\ lo <= z /\ z <= y
  <2>1. Min(T) \in T /\ Min(T) <= y
    BY <1>4, <1>5, LeastElement
  <2> QED BY <1>5, <2>1
<1>7. PICK i \in Nat : i = z - a + 1 /\ i \in 1..(c - 1) /\ z = a + i - 1
  <2>1. z - a + 1 \in 1..(c - 1) /\ z = a + (z - a + 1) - 1
    BY <1>3, <1>6
  <2> QED BY <2>1
<1>8. Within(l, z)
  BY <1>1, <1>7 DEF Within, IsRoom, IsAt
<1> QED
  BY <1>1, <1>3, <1>5, <1>6, <1>8 DEF IsRoom

LEMMA BisectWithin ==
    ASSUME Indexes, InKeys, EpsilonRecursive > 0,
           NEW l \in 1..(Len(levels_offsets) - 2), NEW x, Within(l + 1, x), NEW pos, pos = Position(x)
    PROVE  Within(l, upper_bound(ScanFrom(levels_offsets[l], pos),
                                 levels_offsets[l]
                                     + PGM_ADD_EPS(pos, EpsilonRecursive,
                                                   levels_offsets[l + 1] - levels_offsets[l] - 1)) - 1)
<1>1. PICK a \in Nat, c \in Nat, d \in Nat : IsRoom(l, pos, a, c, d)
  BY Room
<1>2. PICK e \in Nat : e = EpsilonRecursive
  BY DEF Indexes
<1>3. d + 2 <= c /\ pos \in Nat /\ levels_offsets[l] = a /\ levels_offsets[l + 1] = a + c
  BY <1>1 DEF IsRoom, IsAt
<1>4. PICK to \in Nat : to = PGM_ADD_EPS(pos, e, c - 1) /\ 1 <= to /\ to <= c - 1
  <2>1. PICK u \in Nat, v \in Nat : u = pos + e + 2 /\ v = c - 1 /\ u >= 1 /\ v >= 1
    <3>1. pos + e + 2 \in Nat /\ c - 1 \in Nat /\ c - 1 >= 1 /\ pos + e + 2 >= 1
      BY <1>3
    <3> QED BY <3>1
  <2>2. PICK to : to = Min({u, v})
    OBVIOUS
  <2>3. u \in Int /\ v \in Int
    BY <2>1
  <2>4. to \in {u, v} /\ to <= v
    BY <2>2, <2>3, MinOfTwo
  <2>5. to \in Nat /\ 1 <= to /\ to <= c - 1
    BY <2>1, <2>4
  <2>6. to = PGM_ADD_EPS(pos, e, c - 1)
    BY <2>1, <2>2 DEF PGM_ADD_EPS
  <2> QED BY <2>5, <2>6
<1>5. PICK R : R = {i \in (a + d)..(a + to - 1) : At(i).key <= k}
  OBVIOUS
<1>6. /\ IsFiniteSet(R) /\ Cardinality(R) \in Nat
      /\ Cardinality(R) <= (IF d <= to THEN to - d ELSE 0)
  <2>1. PICK I : I = (a + d)..(a + to - 1)
    OBVIOUS
  <2>2. a + d \in Int /\ a + to - 1 \in Int
    OBVIOUS
  <2>3. IsFiniteSet(I) /\ Cardinality(I) = IF a + d > a + to - 1 THEN 0 ELSE (a + to - 1) - (a + d) + 1
    BY <2>1, <2>2, FS_Interval
  <2>4. Cardinality(I) = IF d <= to THEN to - d ELSE 0
    BY <2>3
  <2>5. R \subseteq I
    BY <1>5, <2>1
  <2>6. IsFiniteSet(R) /\ Cardinality(R) <= Cardinality(I)
    BY <2>3, <2>5, FS_Subset
  <2> QED BY <2>4, <2>6, FS_CardinalityType
<1>7. PICK t \in Nat : t = Cardinality(R) /\ d + t >= 1 /\ d + t <= c - 1
  <2>1. PICK t \in Nat : t = Cardinality(R) /\ t <= (IF d <= to THEN to - d ELSE 0)
    BY <1>6
  <2>2. d + t <= c - 1
    BY <1>3, <1>4, <2>1
  <2>3. ASSUME d = 0 PROVE t # 0
    <3>1. a \in (a + d)..(a + to - 1)
      BY <1>4, <2>3
    <3>2. At(a).key <= k
      <4>1. 1 \in 1..c
        BY <1>3
      <4> QED BY <1>1, <4>1 DEF IsRoom, At
    <3>3. R # {}
      BY <1>5, <3>1, <3>2
    <3> QED BY <1>6, <2>1, <3>3, FS_EmptySet
  <2> QED BY <2>1, <2>2, <2>3
<1>8. upper_bound(a + d, a + to) = (a + d) + t
  BY <1>5, <1>7 DEF upper_bound
<1>9. PICK i \in Nat : i = d + t /\ i \in 1..(c - 1) /\ (a + d) + t - 1 = a + i - 1
  <2>1. d + t \in 1..(c - 1) /\ (a + d) + t - 1 = a + (d + t) - 1
    BY <1>3, <1>7
  <2> QED BY <2>1
<1>10. Within(l, upper_bound(a + d, a + to) - 1)
  <2>1. c = Len(Level(l)) /\ a = levels_offsets[l]
    BY <1>1 DEF IsRoom, IsAt
  <2>2. PICK z : z = upper_bound(a + d, a + to) - 1 /\ z = a + i - 1
    BY <1>8, <1>9
  <2>3. Within(l, z)
    BY <1>9, <2>1, <2>2 DEF Within
  <2> QED BY <2>2, <2>3
<1>11. levels_offsets[l + 1] - levels_offsets[l] - 1 = c - 1
  <2>1. (a + c) - a - 1 = c - 1
    OBVIOUS
  <2> QED BY <1>3, <2>1
<1> QED
  BY <1>1, <1>2, <1>3, <1>4, <1>10, <1>11 DEF IsRoom

(* Without upper levels, the first level is bisected.                      *)
LEMMA FlatLands ==
    ASSUME Indexes, InKeys
    PROVE  Lands(1, upper_bound(0, segments_count) - 1)
<1>1. 1 \in 1..(Len(levels_offsets) - 1)
  BY OffsetsFacts DEF Indexes
<1>2. PICK a \in Nat, c \in Nat : IsAt(1, a, c)
  BY <1>1, LevelIsAt
<1>3. a = 0 /\ c >= 2 /\ levels_offsets[1] = 0 /\ segments_count = c - 1
  <2>1. levels_offsets[1] = 0
    BY DEF Indexes, OffsetsFit
  <2>2. a = 0 /\ c >= 2 /\ levels_offsets[2] = 0 + c
    BY <1>2, <2>1 DEF IsAt
  <2> QED BY <2>1, <2>2 DEF segments_count
<1>4. PICK o, s, epsilon : o = Level(1) /\ s = LevelPoints(1) /\ epsilon = EpsilonOf(EpsilonRecursive, 1)
  OBVIOUS
<1>5. IsLevelOf(o, s, epsilon, End(data)) /\ o[1].key = data[1]
  BY <1>1, <1>4, LevelAt
<1>6. k \in 0..(KeyMax - 1) /\ o[1].key <= k
  BY <1>5 DEF InKeys
<1>7. PICK j \in Nat : IsLast(o, k, j) /\ o[j].key <= k /\ k < o[j + 1].key
  BY <1>5, <1>6, LastExists
<1>8. c = Len(o) /\ IsPart(segments, 0, o)
  BY <1>2, <1>3, <1>4 DEF IsAt
<1>9. j >= 1 /\ j <= c - 1
  BY <1>7, <1>8 DEF IsLast
<1>10. PICK to \in Nat : to = c - 1
  BY <1>3
<1>11. PICK t \in Nat : Bisected(segments, k, 0 + 0, 0 + to) = 0 + t /\ IsLess(t, to, j)
  <2>1. PICK g, x : g = segments /\ x = k
    OBVIOUS
  <2>4. PICK z \in Nat : z = 0
    OBVIOUS
  <2>2. IsLast(o, x, j) /\ IsPart(g, z, o) /\ IsRange(z, to, j, o)
    BY <1>7, <1>8, <1>9, <1>10, <2>1, <2>4 DEF IsRange
  <2>3. \E m \in Nat : Bisected(g, x, z + z, z + to) = z + m /\ IsLess(m, to, j)
    BY <2>2, BisectedAt
  <2> QED BY <2>1, <2>3, <2>4
<1>12. t = j
  BY <1>9, <1>10, <1>11 DEF IsLess
<1>13. upper_bound(0, segments_count) = j
  <2>1. 0 + 0 = 0 /\ 0 + to = segments_count /\ 0 + t = t
    BY <1>3, <1>10
  <2> QED BY <1>11, <1>12, <2>1 DEF upper_bound, Bisected, At
<1>14. Lands(1, j - 1)
  <2>1. Serves(o, j, k)
    BY <1>7 DEF Serves
  <2>2. j \in 1..(Len(o) - 1) /\ j - 1 = levels_offsets[1] + j - 1
    BY <1>3, <1>8, <1>9
  <2> QED BY <1>4, <1>7, <2>1, <2>2 DEF Lands
<1> QED
  BY <1>13, <1>14

(* A level of one segment is where a search begins.                        *)
LEMMA TopLands ==
    ASSUME Indexes, InKeys, NEW l \in 1..(Len(levels_offsets) - 1),
           levels_offsets[l + 1] - levels_offsets[l] <= 2
    PROVE  Lands(l, levels_offsets[l])
<1>1. PICK a \in Nat, c \in Nat : IsAt(l, a, c)
  BY LevelIsAt
<1>2. PICK o, s, epsilon : o = Level(l) /\ s = LevelPoints(l) /\ epsilon = EpsilonOf(EpsilonRecursive, l)
  OBVIOUS
<1>3. IsLevelOf(o, s, epsilon, End(data)) /\ o[1].key = data[1]
  BY <1>2, LevelAt
<1>4. c = Len(o) /\ c = 2 /\ a = levels_offsets[l]
  <2>1. a = levels_offsets[l] /\ levels_offsets[l + 1] = a + c /\ c >= 2 /\ c = Len(o)
    BY <1>1, <1>2 DEF IsAt
  <2>2. (a + c) - a <= 2
    BY <2>1
  <2> QED BY <2>1, <2>2
<1>5. o[2].key = KeyMax
  BY <1>3, <1>4, LevelHasKeys
<1>6. o[1].key <= k /\ k < o[1 + 1].key
  BY <1>3, <1>5, KeyMaxNat DEF InKeys
<1>7. 1 \in 1..(Len(o) - 1) /\ a = a + 1 - 1
  BY <1>4
<1> QED
  BY <1>2, <1>4, <1>6, <1>7 DEF Lands, Serves

-----------------------------------------------------------------------------
(* What the range of positions holds.                                      *)

(* Where the keys below x end.                                             *)
LEMMA RankFacts ==
    ASSUME IsData(data), NEW x \in Nat
    PROVE  /\ Rank(x) \in Nat /\ Rank(x) <= n /\ n \in Nat
           /\ \A i \in 1..n : data[i] < x <=> i <= Rank(x)
<1>1. /\ n \in Nat /\ \A i \in 1..n : data[i] \in Nat
      /\ \A i, j \in 1..n : i <= j => data[i] <= data[j]
  BY IndexedFacts DEF n
<1> DEFINE T == {i \in 1..n : data[i] < x}
<1>2. PICK r \in Nat : r <= n /\ \A i \in 1..n : i \in T <=> i <= r
  <2>1. CASE T = {}
    <3>1. 0 <= n /\ \A i \in 1..n : i \in T <=> i <= 0
      BY <1>1, <2>1
    <3> QED BY <3>1
  <2>2. CASE T # {}
    <3>1. T \in SUBSET Int /\ (\A i \in T : i <= n) /\ n \in Int
      BY <1>1
    <3>2. PICK r : r \in T /\ \A i \in T : i <= r
      <4> HIDE DEF T
      <4> QED BY <2>2, <3>1, GreatestElement
    <3>3. r \in 1..n /\ data[r] < x
      BY <3>2
    <3>4. ASSUME NEW i \in 1..n, i <= r PROVE i \in T
      <4>1. data[i] <= data[r] /\ data[i] \in Nat /\ data[r] \in Nat
        BY <1>1, <3>3, <3>4
      <4> QED BY <3>3, <4>1
    <3>5. r \in Nat /\ r <= n
      BY <1>1, <3>3
    <3> QED BY <3>2, <3>4, <3>5
  <2> QED BY <2>1, <2>2
<1>3. {i \in DOMAIN data : data[i] < x} = 1..r
  <2>1. DOMAIN data = 1..n
    BY DEF IsData, n
  <2>2. {i \in DOMAIN data : data[i] < x} = T
    BY <2>1
  <2>3. T = 1..r
    <3>1. \A i \in T : i \in 1..r
      BY <1>2
    <3>2. \A i \in 1..r : i \in T
      BY <1>1, <1>2
    <3> HIDE DEF T
    <3> QED BY <3>1, <3>2
  <2> QED BY <2>2, <2>3
<1>4. Cardinality(1..r) = r
  <2>1. Cardinality(1..r) = IF 1 > r THEN 0 ELSE r - 1 + 1
    BY FS_Interval, 1 \in Int, r \in Int
  <2> QED BY <2>1
<1>5. Rank(x) = r
  BY <1>3, <1>4 DEF Rank
<1> QED
  BY <1>1, <1>2, <1>5

\* The answer is made of a position that predicts for the key.
IsAnswer(pos) ==
    /\ answer = [pos |-> pos, lo |-> PGM_SUB_EPS(pos, Epsilon), hi |-> PGM_ADD_EPS(pos, Epsilon, n)]
    /\ Predicts(pos, KeyPoints(data), Epsilon, End(data), k)

LEMMA AnswerFacts ==
    ASSUME IsData(data), NEW pos, IsAnswer(pos)
    PROVE  /\ pos \in Nat /\ Epsilon \in Nat \ {0}
           /\ answer.lo = (IF pos <= Epsilon THEN 0 ELSE pos - Epsilon)
           /\ answer.hi \in {pos + Epsilon + 2, n} /\ answer.hi <= n /\ answer.hi <= pos + Epsilon + 2
<1>1. pos \in Nat /\ Epsilon \in Nat \ {0} /\ n \in Nat
  BY ParametersAssumption, IndexedFacts DEF IsAnswer, Predicts, n
<1>2. answer.lo = PGM_SUB_EPS(pos, Epsilon) /\ answer.hi = Min({pos + Epsilon + 2, n})
  BY DEF IsAnswer, PGM_ADD_EPS
<1>3. PICK a \in Int, b \in Int : a = pos + Epsilon + 2 /\ b = n
  BY <1>1
<1>4. Min({a, b}) \in {a, b} /\ Min({a, b}) <= a /\ Min({a, b}) <= b
  BY MinOfTwo
<1> QED
  BY <1>1, <1>2, <1>3, <1>4 DEF PGM_SUB_EPS

(* The points of the keys that keep a point of their own: the first of     *)
(* equal keys, and the last if a gap follows.                              *)
LEMMA KeyPointsKept ==
    ASSUME NEW d, IsData(d), NEW j \in 1..Indexed(d)
    PROVE  /\ j = 1 \/ d[j - 1] # d[j] =>
                  KeyPoints(d)[j] \in Firsts(KeyPoints(d), 1, Len(KeyPoints(d))) /\ KeyPoints(d)[j].x = d[j]
           /\ Flagged(d, j - 1) =>
                  KeyPoints(d)[j] \in Firsts(KeyPoints(d), 1, Len(KeyPoints(d))) /\ KeyPoints(d)[j].x = d[j] + 1
           /\ KeyPoints(d)[j].y = j - 1
<1>1. /\ Len(d) \in Nat /\ Indexed(d) \in Nat /\ Indexed(d) <= Len(d)
      /\ \A i \in 1..Len(d) : d[i] \in Nat
      /\ \A i1, i2 \in 1..Len(d) : i1 <= i2 => d[i1] <= d[i2]
  BY IndexedFacts
<1>2. Len(KeyPoints(d)) = Indexed(d)
  BY KeyPointsNumbered
<1>3. PICK u : u = KeyPoints(d)
  OBVIOUS
<1>4. ASSUME IsFirst(u, j) PROVE u[j] \in Firsts(u, 1, Indexed(d))
  BY <1>4 DEF Firsts
<1>5. ASSUME j = 1 \/ d[j - 1] # d[j] PROVE IsFirst(u, j) /\ u[j].x = d[j]
  <2>1. ~Flagged(d, j - 1)
    <3>1. ASSUME Flagged(d, j - 1) PROVE FALSE
      <4>1. j > 1 /\ d[j - 1] = d[j]
        BY <3>1, KeyPointFacts
      <4> QED BY <1>5, <4>1
    <3> QED BY <3>1
  <2>2. u[j].x = d[j]
    BY <1>3, <2>1, KeyPointFacts
  <2>3. ASSUME j # 1 PROVE u[j].x # u[j - 1].x
    <3>1. j - 1 \in 1..Indexed(d) /\ j - 1 \in 1..Len(d) /\ j \in 1..Len(d) /\ (j - 1) + 1 = j /\ j - 1 <= j
      BY <1>1, <2>3
    <3>2. PICK i \in 1..Indexed(d) : i = j - 1
      BY <3>1
    <3>3. d[i] < d[j]
      <4>1. d[i] <= d[j] /\ d[i] \in Nat /\ d[j] \in Nat
        BY <1>1, <3>1, <3>2
      <4> QED BY <1>5, <2>3, <3>2, <4>1
    <3>4. CASE Flagged(d, i - 1)
      <4>1. u[i].x = d[i] + 1 /\ d[i] + 1 < d[i + 1]
        BY <1>3, <3>4, KeyPointFacts
      <4>2. d[i] \in Nat /\ d[j] \in Nat /\ i + 1 = j
        BY <1>1, <3>1, <3>2
      <4> QED BY <2>2, <3>2, <4>1, <4>2
    <3>5. CASE ~Flagged(d, i - 1)
      <4>1. u[i].x = d[i]
        BY <1>3, <3>5, KeyPointFacts
      <4>2. d[i] \in Nat /\ d[j] \in Nat
        BY <1>1, <3>1, <3>2
      <4> QED BY <2>2, <3>2, <3>3, <4>1, <4>2
    <3> QED BY <3>4, <3>5
  <2> QED BY <2>2, <2>3 DEF IsFirst
<1>6. ASSUME Flagged(d, j - 1) PROVE IsFirst(u, j) /\ u[j].x = d[j] + 1
  <2>1. u[j].x = d[j] + 1 /\ j > 1 /\ d[j - 1] = d[j]
    BY <1>3, <1>6, KeyPointFacts
  <2>2. j - 1 \in 1..Indexed(d) /\ j \in 1..Len(d) /\ d[j] \in Nat /\ (j - 1) + 1 = j
    BY <1>1, <2>1
  <2>3. PICK i \in 1..Indexed(d) : i = j - 1
    BY <2>2
  <2>4. ~Flagged(d, i - 1)
    <3>1. ASSUME Flagged(d, i - 1) PROVE FALSE
      <4>1. d[i] + 1 < d[i + 1]
        BY <3>1, KeyPointFacts
      <4>2. i + 1 = j
        BY <2>2, <2>3
      <4> QED BY <2>1, <2>2, <2>3, <4>1, <4>2
    <3> QED BY <3>1
  <2>5. u[i].x = d[i]
    BY <1>3, <2>4, KeyPointFacts
  <2> QED BY <2>1, <2>2, <2>3, <2>5 DEF IsFirst
<1>7. u[j].y = j - 1
  BY <1>3, KeyPointFacts
<1> QED
  BY <1>2, <1>3, <1>4, <1>5, <1>6, <1>7

(* What makes the answers right: the first occurrence of a key lies in the *)
(* range.                                                                  *)
LEMMA OccurrenceInRange ==
    ASSUME IsData(data), NEW pos, IsAnswer(pos), key \in 0..(KeyMax - 1), k = Max({first_key, key}),
           first_key \in Nat, first_key <= data[1]
    PROVE  FirstOccurrenceFound
<1> SUFFICES ASSUME key \in Range(data)
             PROVE  answer.lo <= Rank(key) /\ Rank(key) < answer.hi
  BY DEF FirstOccurrenceFound
<1>1. /\ n \in Nat /\ n >= 1 /\ Indexed(data) \in Nat /\ Indexed(data) <= n
      /\ (Indexed(data) = n <=> data[n] # KeyMax) /\ n <= Indexed(data) + 1
      /\ \A i \in 1..n : data[i] \in Nat
      /\ \A i, j \in 1..n : i <= j => data[i] <= data[j]
  BY IndexedFacts DEF n
<1>2. PICK x \in Nat : x = key /\ x < KeyMax
  BY KeyMaxNat
<1>3. PICK i \in 1..n : data[i] = x
  <2>1. DOMAIN data = 1..n
    BY DEF IsData, n
  <2> QED BY <1>2, <2>1 DEF Range
<1>4. k = x
  <2>1. data[1] <= data[i] /\ data[1] \in Nat
    BY <1>1
  <2>2. first_key <= x
    BY <1>3, <2>1
  <2>3. Max({first_key, x}) \in {first_key, x} /\ Max({first_key, x}) >= x
    <3>1. {first_key, x} \in SUBSET Int /\ {first_key, x} # {} /\ x \in Int /\ \A y \in {first_key, x} : y <= x
      BY <2>2
    <3>2. Max({first_key, x}) \in {first_key, x} /\ \A y \in {first_key, x} : y <= Max({first_key, x})
      BY <3>1, GreatestElement
    <3> QED BY <3>2
  <2> QED BY <1>2, <2>2, <2>3
<1>5. PICK r \in Nat : r = Rank(x) /\ \A m \in 1..n : data[m] < x <=> m <= r
  BY RankFacts
<1>6. r < i
  BY <1>3, <1>5
<1>7. PICK j \in 1..n : j = r + 1 /\ data[j] = x /\ (j = 1 \/ data[j - 1] # data[j])
  <2>1. r + 1 \in 1..n /\ ~(r + 1 <= r) /\ r + 1 <= i
    BY <1>1, <1>6
  <2>2. data[r + 1] = x
    <3>1. data[r + 1] <= data[i] /\ ~(data[r + 1] < x) /\ data[r + 1] \in Nat
      BY <1>1, <1>5, <2>1
    <3> QED BY <1>3, <3>1
  <2>3. r # 0 => data[r] < x
    <3>1. r # 0 => r \in 1..n /\ r <= r
      BY <1>1, <2>1
    <3> QED BY <1>5, <3>1
  <2> QED BY <2>1, <2>2, <2>3
<1>8. j \in 1..Indexed(data)
  <2>1. ASSUME j = n PROVE Indexed(data) = n
    BY <1>1, <1>2, <1>7, <2>1
  <2> QED BY <1>1, <2>1
<1>9. PICK q : /\ q = KeyPoints(data)[j] /\ q \in Firsts(KeyPoints(data), 1, Len(KeyPoints(data)))
               /\ q.x = x /\ q.y = r
  <2>1. KeyPoints(data)[j].y = j - 1
    BY <1>8, KeyPointsKept
  <2>2. KeyPoints(data)[j].x = x
    BY <1>7, <1>8, KeyPointsKept
  <2>3. KeyPoints(data)[j] \in Firsts(KeyPoints(data), 1, Len(KeyPoints(data)))
    BY <1>7, <1>8, KeyPointsKept
  <2> QED BY <1>7, <2>1, <2>2, <2>3
<1>10. x < End(data)
  <2>1. Indexed(data) \in 1..n /\ j <= Indexed(data)
    BY <1>1, <1>8
  <2>2. data[j] <= data[Indexed(data)] /\ data[Indexed(data)] \in Nat
    BY <1>1, <2>1
  <2> QED BY <1>7, <2>2 DEF End
<1>11. r <= pos + Epsilon + 1 /\ pos <= r + Epsilon
  <2>1. q.x <= x /\ x <= q.x
    BY <1>9
  <2>2. Predicts(pos, KeyPoints(data), Epsilon, End(data), x)
    BY <1>4 DEF IsAnswer
  <2>3. q.y <= pos + Epsilon + 1 /\ pos <= q.y + Epsilon
    BY <1>9, <1>10, <2>1, <2>2 DEF Predicts
  <2> QED BY <1>9, <2>3
<1>12. r < n
  <2>1. j <= n /\ j = r + 1
    BY <1>1, <1>7
  <2> QED BY <1>1, <2>1
<1> QED
  BY <1>1, <1>2, <1>5, <1>11, <1>12, AnswerFacts

(* Searching the range finds where an absent key would be.                 *)
LEMMA AbsentInRange ==
    ASSUME IsData(data), NEW pos, IsAnswer(pos), key \in 0..(KeyMax - 1), k = Max({first_key, key}),
           first_key \in Nat, first_key <= data[1], data[1] <= k, k < KeyMax
    PROVE  pc = "answered" /\ key \notin Range(data) /\ key < data[n] =>
               answer.lo <= Rank(key) /\ Rank(key) <= answer.hi
<1> SUFFICES ASSUME key \notin Range(data), key < data[n]
             PROVE  answer.lo <= Rank(key) /\ Rank(key) <= answer.hi
  OBVIOUS
<1>1. /\ n \in Nat /\ n >= 1 /\ Indexed(data) \in Nat /\ Indexed(data) <= n
      /\ (Indexed(data) = n <=> data[n] # KeyMax) /\ n <= Indexed(data) + 1
      /\ \A i \in 1..n : data[i] \in Nat
      /\ \A i, j \in 1..n : i <= j => data[i] <= data[j]
  BY IndexedFacts DEF n
<1>2. PICK x \in Nat : x = key /\ x < KeyMax
  BY KeyMaxNat
<1>3. PICK r \in Nat : r = Rank(x) /\ \A m \in 1..n : data[m] < x <=> m <= r
  BY RankFacts
<1>4. \A i \in 1..n : data[i] # x
  <2>1. DOMAIN data = 1..n
    BY DEF IsData, n
  <2> QED BY <1>2, <2>1 DEF Range
<1>5. r < n /\ r + 1 \in 1..n
  <2>1. n \in 1..n /\ data[n] \in Nat /\ ~(data[n] < x)
    BY <1>1, <1>2
  <2>2. ~(n <= r)
    BY <1>3, <2>1
  <2> QED BY <1>1, <2>2
<1>6. x < data[r + 1] /\ data[r + 1] \in Nat
  <2>1. ~(r + 1 <= r) /\ data[r + 1] \in Nat /\ data[r + 1] # x
    BY <1>1, <1>4, <1>5
  <2>2. ~(data[r + 1] < x)
    BY <1>3, <1>5, <2>1
  <2> QED BY <2>1, <2>2
<1>7. r # 0 => r \in 1..n /\ data[r] < x /\ data[r] \in Nat
  BY <1>1, <1>3, <1>5
<1>8. k = IF r = 0 THEN data[1] ELSE x
  <2>1. PICK a \in Nat : a = first_key
    OBVIOUS
  <2>2. Max({a, x}) \in {a, x} /\ Max({a, x}) >= a /\ Max({a, x}) >= x
    <3>1. {a, x} \in SUBSET Int /\ {a, x} # {} /\ a + x \in Int /\ \A y \in {a, x} : y <= a + x
      OBVIOUS
    <3>2. Max({a, x}) \in {a, x} /\ \A y \in {a, x} : y <= Max({a, x})
      BY <3>1, GreatestElement
    <3> QED BY <3>2
  <2>3. k = Max({a, x})
    BY <1>2, <2>1
  <2>4. CASE r = 0
    <3>1. x < data[1] /\ data[1] \in Nat
      BY <1>6, <2>4
    <3> QED BY <2>1, <2>2, <2>3, <2>4, <3>1
  <2>5. CASE r # 0
    <3>1. data[1] <= data[r] /\ data[1] \in Nat
      BY <1>1, <1>5, <1>7, <2>5
    <3>2. a < x
      BY <1>7, <2>1, <2>5, <3>1
    <3> QED BY <2>2, <2>3, <2>5, <3>2
  <2> QED BY <2>4, <2>5
<1>9. /\ pos \in Nat /\ Epsilon \in Nat \ {0}
      /\ answer.lo = (IF pos <= Epsilon THEN 0 ELSE pos - Epsilon)
      /\ answer.hi \in {pos + Epsilon + 2, n}
  BY AnswerFacts
<1>10. Predicts(pos, KeyPoints(data), Epsilon, End(data), k)
  BY DEF IsAnswer
\* The range does not begin behind it.
<1>11. pos <= r + Epsilon
  <2>1. CASE r + 1 \in 1..Indexed(data)
    <3>1. PICK j \in 1..Indexed(data) : j = r + 1
      BY <2>1
    <3>2. j = 1 \/ data[j - 1] # data[j]
      BY <1>6, <1>7, <3>1
    <3>3. /\ KeyPoints(data)[j] \in Firsts(KeyPoints(data), 1, Len(KeyPoints(data)))
          /\ KeyPoints(data)[j].x = data[j] /\ KeyPoints(data)[j].y = j - 1
      BY <3>2, KeyPointsKept
    <3>4. k <= data[j] /\ data[j] < End(data) /\ k \in Nat
      <4>1. Indexed(data) \in 1..n /\ j <= Indexed(data) /\ j \in 1..n
        BY <1>1, <3>1
      <4>2. data[j] <= data[Indexed(data)] /\ data[Indexed(data)] \in Nat /\ data[j] \in Nat
        BY <1>1, <4>1
      <4> QED BY <1>6, <1>8, <3>1, <4>2 DEF End
    <3>5. k < End(data)
      BY <1>1, <3>1, <3>4, <1>6 DEF End
    <3>6. pos <= KeyPoints(data)[j].y + Epsilon
      BY <1>10, <3>3, <3>4, <3>5 DEF Predicts
    <3> QED BY <3>1, <3>3, <3>6
  <2>2. CASE r + 1 \notin 1..Indexed(data)
    <3>1. Indexed(data) = r /\ r = n - 1
      BY <1>1, <1>5, <2>2
    <3>2. r # 0
      <4>1. ASSUME r = 0 PROVE FALSE
        <5>1. n = 1 /\ data[1] = KeyMax
          BY <1>1, <3>1, <4>1
        <5>2. k = KeyMax
          BY <1>8, <4>1, <5>1
        <5> QED BY <5>2, KeyMaxNat
      <4> QED BY <4>1
    <3>3. End(data) <= k
      <4>1. data[r] < x /\ data[r] \in Nat /\ k = x
        BY <1>7, <1>8, <3>2
      <4> QED BY <3>1, <4>1 DEF End
    <3>4. pos <= Len(KeyPoints(data)) /\ Len(KeyPoints(data)) = Indexed(data)
      BY <1>10, <3>3, KeyPointsNumbered DEF Predicts
    <3> QED BY <1>9, <3>1, <3>4
  <2> QED BY <2>1, <2>2
\* Nor does it end before it.
<1>12. r <= pos + Epsilon + 2
  <2>1. CASE r = 0
    BY <1>9, <2>1
  <2>2. CASE r # 0
    <3>1. PICK j \in 1..Indexed(data) : j = r
      BY <1>1, <1>5, <2>2
    <3>2. j \in 1..n /\ data[j] < x /\ data[j] \in Nat /\ k = x /\ x < data[j + 1] /\ data[j + 1] \in Nat
      BY <1>6, <1>7, <1>8, <2>2, <3>1
    <3>3. KeyPoints(data)[j] \in Firsts(KeyPoints(data), 1, Len(KeyPoints(data))) /\ KeyPoints(data)[j].x <= x
      <4>1. CASE j = 1 \/ data[j - 1] # data[j]
        <5>1. /\ KeyPoints(data)[j] \in Firsts(KeyPoints(data), 1, Len(KeyPoints(data)))
              /\ KeyPoints(data)[j].x = data[j]
          BY <4>1, KeyPointsKept
        <5> QED BY <3>2, <5>1
      <4>2. CASE j # 1 /\ data[j - 1] = data[j]
        <5>1. Flagged(data, j - 1)
          <6>1. j - 1 > 0 /\ (j - 1) + 1 = j /\ (j - 1) + 2 = j + 1 /\ j < Len(data)
            BY <1>5, <3>1, <4>2 DEF n
          <6>2. data[j] # data[j + 1] /\ data[j] + 1 # data[j + 1]
            BY <3>2
          <6> QED BY <4>2, <6>1, <6>2 DEF Flagged
        <5>2. /\ KeyPoints(data)[j] \in Firsts(KeyPoints(data), 1, Len(KeyPoints(data)))
              /\ KeyPoints(data)[j].x = data[j] + 1
          BY <5>1, KeyPointsKept
        <5> QED BY <3>2, <5>2
      <4> QED BY <4>1, <4>2
    <3>4. KeyPoints(data)[j].y = j - 1
      BY KeyPointsKept
    <3>5. KeyPoints(data)[j].y <= pos + Epsilon + 1
      BY <1>10, <3>2, <3>3 DEF Predicts
    <3> QED BY <1>9, <3>1, <3>4, <3>5
  <2> QED BY <2>1, <2>2
<1> QED
  BY <1>1, <1>2, <1>3, <1>5, <1>9, <1>11, <1>12

(* Above the last key the range ends with the keys, unless a run of equal  *)
(* keys does.                                                              *)
LEMMA EndOfRange ==
    ASSUME IsData(data), NEW pos, IsAnswer(pos), n = 1 \/ data[n - 1] # data[n],
           key \in 0..(KeyMax - 1), k \in Nat, key <= k, key > data[n]
    PROVE  answer.hi = n
<1>1. /\ n \in Nat /\ n >= 1 /\ (Indexed(data) = n <=> data[n] # KeyMax)
      /\ \A i \in 1..n : data[i] \in Nat
  BY IndexedFacts DEF n
<1>2. PICK x \in Nat : x = k /\ data[n] < x /\ data[n] \in Nat /\ data[n] # KeyMax
  <2>1. n \in 1..n /\ data[n] \in Nat
    BY <1>1
  <2>2. key \in Nat /\ key < KeyMax
    BY KeyMaxNat
  <2>3. data[n] < k /\ data[n] # KeyMax
    BY <2>1, <2>2, KeyMaxNat
  <2> QED BY <2>1, <2>3
<1>3. PICK j \in 1..Indexed(data) : j = n
  BY <1>1, <1>2
<1>4. /\ KeyPoints(data)[j] \in Firsts(KeyPoints(data), 1, Len(KeyPoints(data)))
      /\ KeyPoints(data)[j].x = data[j] /\ KeyPoints(data)[j].y = j - 1
  BY <1>3, KeyPointsKept
<1>5. KeyPoints(data)[j].y <= pos + Epsilon + 1
  <2>1. Predicts(pos, KeyPoints(data), Epsilon, End(data), x)
    BY <1>2 DEF IsAnswer
  <2>2. KeyPoints(data)[j].x <= x
    BY <1>2, <1>3, <1>4
  <2> QED BY <1>4, <2>1, <2>2 DEF Predicts
<1>6. n <= pos + Epsilon + 2 /\ pos \in Nat /\ Epsilon \in Nat
  BY <1>1, <1>3, <1>4, <1>5, AnswerFacts
<1>7. answer.hi \in {pos + Epsilon + 2, n} /\ answer.hi <= n
  BY AnswerFacts
<1> QED
  BY <1>1, <1>6, <1>7

(* Two segments of a level begin at the same key only at the key above the *)
(* indexed ones, where a run of them ends.                                 *)
LEMMA KeysDiffer ==
    ASSUME Indexes, ~Flagged(data, Indexed(data) - 1), NEW o, NEW s, NEW epsilon,
           IsLevelOf(o, s, epsilon, End(data)), s = KeyPoints(data), NEW i \in 1..(Len(o) - 2)
    PROVE  o[i].key # o[i + 1].key
<1> SUFFICES ASSUME o[i].key = o[i + 1].key PROVE FALSE
  OBVIOUS
<1>1. PICK q \in Firsts(s, 1, Len(s)) : q.x = End(data)
  BY DEF IsLevelOf
<1>2. PICK j \in 1..Len(s) : q = s[j]
  BY DEF Firsts
<1>3. /\ IsData(data) /\ Len(s) = Indexed(data) /\ j \in 1..Indexed(data)
      /\ Indexed(data) \in Nat /\ Indexed(data) <= Len(data) /\ Len(data) \in Nat
      /\ \A i1 \in 1..Len(data) : data[i1] \in Nat
      /\ \A i1, i2 \in 1..Len(data) : i1 <= i2 => data[i1] <= data[i2]
  <2>1. IsData(data)
    BY DEF Indexes
  <2>2. Len(s) = Indexed(data)
    BY <2>1, KeyPointsNumbered
  <2> QED BY <1>2, <2>1, <2>2, IndexedFacts
<1>4. Indexed(data) \in 1..Len(data) /\ j \in 1..Len(data) /\ j <= Indexed(data)
  BY <1>3
<1>5. data[j] <= data[Indexed(data)] /\ data[j] \in Nat /\ data[Indexed(data)] \in Nat
  BY <1>3, <1>4
<1>6. Flagged(data, j - 1) /\ data[j] + 1 = data[Indexed(data)] + 1
  <2>1. CASE Flagged(data, j - 1)
    <3>1. s[j].x = data[j] + 1
      BY <1>3, <2>1, KeyPointFacts
    <3> QED BY <1>1, <1>2, <2>1, <3>1 DEF End
  <2>2. CASE ~Flagged(data, j - 1)
    <3>1. s[j].x = data[j]
      BY <1>3, <2>2, KeyPointFacts
    <3> QED BY <1>1, <1>2, <1>5, <3>1 DEF End
  <2> QED BY <2>1, <2>2
<1>7. data[j] + 1 < data[j + 1] /\ j + 1 \in 1..Len(data)
  BY <1>3, <1>6, KeyPointFacts
<1>8. j = Indexed(data)
  <2> SUFFICES ASSUME j # Indexed(data) PROVE FALSE
    OBVIOUS
  <2>1. j + 1 <= Indexed(data)
    BY <1>3, <1>4
  <2>2. data[j + 1] <= data[Indexed(data)] /\ data[j + 1] \in Nat
    BY <1>3, <1>4, <1>7, <2>1
  <2>3. PICK a \in Nat, b \in Nat, c \in Nat : a = data[j] /\ b = data[Indexed(data)] /\ c = data[j + 1]
    BY <1>5, <2>2
  <2>4. a + 1 = b + 1 /\ a + 1 < c /\ c <= b
    BY <1>6, <1>7, <2>2, <2>3
  <2> QED BY <2>4
<1> QED
  BY <1>6, <1>8

(* The segment reached is the rightmost one, where the upper levels are    *)
(* scanned or no run of equal keys ends the keys below KeyMax.             *)
LEMMA LandsRightmost ==
    ASSUME Indexes, InKeys, NEW x, Lands(1, x), Scans \/ ~Flagged(data, Indexed(data) - 1)
    PROVE  /\ x \in 0..(segments_count - 1) /\ At(x).key <= k /\ At(x + 1).key > k
<1>1. 1 \in 1..(Len(levels_offsets) - 1)
  BY OffsetsFacts DEF Indexes
<1>2. PICK a \in Nat, c \in Nat : IsAt(1, a, c)
  BY <1>1, LevelIsAt
<1>3. PICK o, s, epsilon : o = Level(1) /\ s = LevelPoints(1) /\ epsilon = EpsilonOf(EpsilonRecursive, 1)
  OBVIOUS
<1>4. /\ a = 0 /\ c >= 2 /\ levels_offsets[1] = 0 /\ segments_count = c - 1
      /\ c = Len(o) /\ \A i \in 1..c : segments[i] = o[i]
  <2>1. levels_offsets[1] = 0
    BY DEF Indexes, OffsetsFit
  <2>2. a = 0 /\ c >= 2 /\ levels_offsets[2] = 0 + c /\ c = Len(o) /\ \A i \in 1..c : segments[0 + i] = o[i]
    BY <1>2, <1>3, <2>1 DEF IsAt, IsPart
  <2> QED BY <2>1, <2>2 DEF segments_count
<1>5. IsLevelOf(o, s, epsilon, End(data)) /\ s = KeyPoints(data)
  BY <1>1, <1>3, LevelAt DEF LevelPoints, PointsOf
<1>6. PICK i \in 1..(c - 1) : x = i - 1 /\ Serves(o, i, k) /\ (Scans => k < o[i + 1].key)
  <2>1. PICK i \in 1..(Len(o) - 1) : /\ x = levels_offsets[1] + i - 1 /\ Serves(o, i, k)
                                     /\ Scans => k < o[i + 1].key
    BY <1>3 DEF Lands
  <2>2. i \in 1..(c - 1) /\ x = 0 + i - 1
    BY <1>4, <2>1
  <2>3. 0 + i - 1 = i - 1
    BY <2>2
  <2> QED BY <2>1, <2>2, <2>3
<1>7. i \in 1..c /\ i + 1 \in 1..c /\ x + 1 = i /\ (x + 1) + 1 = i + 1 /\ x \in 0..(c - 2)
  BY <1>4, <1>6
<1>8. At(x) = o[i] /\ At(x + 1) = o[i + 1]
  BY <1>4, <1>7 DEF At
<1>9. k < o[i + 1].key
  <2> SUFFICES ASSUME ~Scans, o[i + 1].key = o[i].key PROVE FALSE
    BY <1>6 DEF Serves
  <2>1. o[i].key <= k /\ k < KeyMax /\ k \in Nat /\ o[c].key = KeyMax /\ o[i].key \in Nat
    BY <1>4, <1>5, <1>6, <1>7, LevelHasKeys, KeyMaxNat DEF Serves, InKeys
  <2>2. i + 1 # c
    BY <2>1, KeyMaxNat
  <2>3. i \in 1..(Len(o) - 2)
    BY <1>4, <1>7, <2>2
  <2> QED BY <1>5, <2>3, KeysDiffer
<1> QED
  BY <1>4, <1>6, <1>7, <1>8, <1>9 DEF Serves

-----------------------------------------------------------------------------
(* build.                                                                  *)

LEMMA InputFacts ==
    ASSUME NEW d \in UNION {Inputs(i) : i \in Instances}
    PROVE  IsData(d) /\ Sought(d) \subseteq 0..KeyMax
<1>1. /\ d \in Seq(0..KeyMax) /\ d # << >> /\ Sought(d) \subseteq 0..KeyMax
      /\ \A j \in 1..(Len(d) - 1) : d[j] <= d[j + 1]
  BY ParametersAssumption
<1>2. Len(d) \in Nat /\ \A j \in 1..Len(d) : d[j] \in Nat
  <2>1. Len(d) \in Nat /\ \A j \in 1..Len(d) : d[j] \in 0..KeyMax
    BY <1>1, SeqElements
  <2> QED BY <2>1, KeyMaxNat
<1>3. ASSUME NEW i \in 1..Len(d), NEW j \in 1..Len(d), i <= j PROVE d[i] <= d[j]
  <2> DEFINE T == {m \in i..Len(d) : d[i] <= d[m]}
  <2>1. i \in T
    BY <1>2
  <2>2. ASSUME NEW m \in i..(Len(d) - 1), m \in T PROVE m + 1 \in T
    <3>1. m \in 1..(Len(d) - 1) /\ m \in 1..Len(d) /\ m + 1 \in 1..Len(d) /\ m + 1 \in i..Len(d)
      BY <1>2
    <3>2. d[i] <= d[m] /\ d[m] <= d[m + 1]
      BY <1>1, <2>2, <3>1
    <3>3. d[i] \in Nat /\ d[m] \in Nat /\ d[m + 1] \in Nat
      BY <1>2, <3>1
    <3> QED BY <3>1, <3>2, <3>3
  <2>3. \A m \in i..Len(d) : m \in T
    <3> HIDE DEF T
    <3>1. PICK a \in Int, b \in Int : a = i /\ b = Len(d)
      BY <1>2
    <3>2. a \in T /\ \A m \in a..(b - 1) : m \in T => m + 1 \in T
      BY <2>1, <2>2, <3>1
    <3>3. \A m \in a..b : m \in T
      BY <3>2, IntervalInduction
    <3> QED BY <3>1, <3>3
  <2>4. j \in T
    BY <1>2, <1>3, <2>3
  <2> QED BY <2>4
<1> QED
  BY <1>1, <1>3 DEF IsData

LEMMA InstanceFacts ==
    ASSUME instance \in Instances
    PROVE  /\ EpsilonRecursive \in Nat /\ linear_search_threshold \in Nat
           /\ parallelism \in Nat \ {0} /\ Epsilon \in Nat \ {0} /\ ParallelFrom \in Nat \ {0}
BY ParametersAssumption DEF EpsilonRecursive, linear_search_threshold, parallelism

(* The segments of a level, before it is closed.                           *)
LEMMA SegmentedFacts ==
    ASSUME instance \in Instances, NEW epsilon \in Nat \ {0}, NEW points, Ordered(points)
    PROVE  /\ Segmented(epsilon, points) \in Seq(SegmentRecord)
           /\ IF points = << >> THEN Segmented(epsilon, points) = << >>
              ELSE \E o : /\ Spread(epsilon, o, Firsts(points, 1, Len(points)))
                          /\ Segmented(epsilon, points) = Floated(o)
<1>1. PICK o : o = make_segmentation_par(epsilon, points, parallelism, ParallelFrom)
  OBVIOUS
<1>2. Segmented(epsilon, points) = [i \in DOMAIN o |-> get_floating_point_segment(o[i])]
  BY <1>1 DEF Segmented
<1>3. CASE points = << >>
  <2>1. Len(points) < ParallelFrom
    BY <1>3, InstanceFacts
  <2>2. o = << >>
    BY <1>1, <1>3, <2>1 DEF make_segmentation_par, make_segmentation
  <2>3. Segmented(epsilon, points) = << >>
    BY <1>2, <2>2
  <2>4. << >> \in Seq(SegmentRecord)
    OBVIOUS
  <2>5. Segmented(epsilon, points) \in Seq(SegmentRecord)
    BY <2>3, <2>4
  <2> QED BY <1>3, <2>3, <2>5
<1>4. CASE points # << >>
  <2>1. Spread(epsilon, o, Firsts(points, 1, Len(points)))
    BY <1>1, <1>4, InstanceFacts, ParSpread
  <2>2. DOMAIN o = 1..Len(o)
    BY <2>1 DEF Spread
  <2>3. Segmented(epsilon, points) = Floated(o)
    BY <1>2, <2>2 DEF Floated
  <2>4. PICK D \in SUBSET InputPoint : D = Firsts(points, 1, Len(points))
    BY OrderedFacts DEF Firsts
  <2>5. Spread(epsilon, o, D)
    BY <2>1, <2>4
  <2>6. Floated(o) \in Seq(SegmentRecord)
    BY <2>5, SpreadFacts
  <2> QED BY <1>4, <2>1, <2>3, <2>6
<1> QED
  BY <1>3, <1>4

LEMMA LastKeyFacts ==
    ASSUME IsData(data), Indexed(data) >= 1
    PROVE  LastKey = data[Indexed(data)] /\ LastKey \in Nat /\ LastKey + 1 = End(data)
<1>1. /\ Len(data) \in Nat /\ Indexed(data) \in Nat /\ Indexed(data) <= Len(data)
      /\ \A i \in 1..Len(data) : data[i] \in Nat
  BY IndexedFacts
<1>2. LastKey = data[Indexed(data)]
  BY DEF LastKey, Indexed, ignore_last, n
<1>3. data[Indexed(data)] \in Nat
  BY <1>1
<1> QED
  BY <1>2, <1>3 DEF End

(* A level, whatever the keys.                                             *)
LEMMA ClosedTyped ==
    ASSUME instance \in Instances, NEW epsilon \in Nat \ {0}, NEW points, Ordered(points),
           last_n = Len(points), IsData(data), last_n >= 1 => Indexed(data) >= 1,
           NEW c, c = Closed(Segmented(epsilon, points))
    PROVE  /\ c \in Seq(SegmentRecord) /\ Len(c) >= 1 /\ Len(c) \in Nat
           /\ last_n \in Nat
           /\ last_n = 0 => c = <<Sentinel(0)>>
           /\ last_n >= 1 => ClosedBy(c, Segmented(epsilon, points), last_n, (LastKey + 1) % (KeyMax + 1))
<1>1. PICK g \in Seq(SegmentRecord) : g = Segmented(epsilon, points)
  BY SegmentedFacts
<1>2. PICK N \in Nat : N = last_n
  BY OrderedFacts
<1>3. PICK e \in Nat : N >= 1 => e = (LastKey + 1) % (KeyMax + 1)
  <2>1. N >= 1 => (LastKey + 1) % (KeyMax + 1) \in Nat
    <3> SUFFICES ASSUME N >= 1 PROVE (LastKey + 1) % (KeyMax + 1) \in Nat
      OBVIOUS
    <3>1. LastKey \in Nat
      BY <1>2, LastKeyFacts
    <3> QED BY <3>1, KeyMaxNat
  <2>2. CASE N >= 1
    BY <2>1, <2>2
  <2>3. CASE ~(N >= 1)
    BY <2>3, 0 \in Nat
  <2> QED BY <2>2, <2>3
<1>4. c = Append(g, Sentinel(N)) \/ (N >= 1 /\ c = g \o <<Segment(e, 0, 1, N), Sentinel(N)>>)
  <2>1. CASE N > 1 /\ IsLevel(g[Len(g)])
    BY <1>1, <1>2, <1>3, <2>1 DEF Closed
  <2>2. CASE ~(N > 1 /\ IsLevel(g[Len(g)]))
    BY <1>1, <1>2, <2>2 DEF Closed
  <2> QED BY <2>1, <2>2
<1>5. ClosedBy(c, g, N, e)
  BY <1>4 DEF ClosedBy
<1>6. c \in Seq(SegmentRecord) /\ (Len(c) = Len(g) + 1 \/ Len(c) = Len(g) + 2)
  BY <1>5, ClosedFacts
<1>7. Len(g) \in Nat
  OBVIOUS
<1>8. N = 0 => c = <<Sentinel(0)>>
  <2> SUFFICES ASSUME N = 0 PROVE c = <<Sentinel(0)>>
    OBVIOUS
  <2>1. points = << >>
    BY <1>2 DEF Ordered
  <2>2. g = << >>
    BY <1>1, <2>1, SegmentedFacts
  <2> QED BY <1>4, <2>2
<1> QED
  BY <1>1, <1>2, <1>3, <1>5, <1>6, <1>7, <1>8

(* ... and where only the last key may be the largest one.                 *)
LEMMA ClosedPredicts ==
    ASSUME instance \in Instances, NEW epsilon \in Nat \ {0}, NEW points, Numbered(points),
           last_n = Len(points), IsData(data), OneMax(data), last_n >= 1 => Indexed(data) >= 1,
           \A j \in 1..Len(points) : points[j].x <= End(data),
           NEW c, c = Closed(Segmented(epsilon, points))
    PROVE  IsLevelOf(c, points, epsilon, End(data))
<1>1. /\ last_n \in Nat
      /\ last_n = 0 => c = <<Sentinel(0)>>
      /\ last_n >= 1 => ClosedBy(c, Segmented(epsilon, points), last_n, (LastKey + 1) % (KeyMax + 1))
  BY ClosedTyped DEF Numbered
<1>2. CASE last_n = 0
  <2>1. points = << >>
    <3>1. points \in Seq(InputPoint)
      BY DEF Numbered, Ordered
    <3>2. Len(points) = 0
      BY <1>2
    <3> QED BY <3>1, <3>2
  <2> QED BY <1>1, <1>2, <2>1, EmptyLevel
<1>3. CASE last_n >= 1
  <2>1. points # << >>
    BY <1>3
  <2>2. PICK o : /\ Spread(epsilon, o, Firsts(points, 1, Len(points)))
                 /\ Segmented(epsilon, points) = Floated(o)
    BY <2>1, SegmentedFacts DEF Numbered
  <2>3. End(data) \in Nat /\ End(data) <= KeyMax
    BY <1>3, KeyPointsNumbered
  <2>4. (LastKey + 1) % (KeyMax + 1) = End(data)
    <3>1. LastKey + 1 = End(data)
      BY <1>3, LastKeyFacts
    <3>2. End(data) % (KeyMax + 1) = End(data)
      BY <2>3, KeyMaxNat
    <3> QED BY <3>1, <3>2
  <2>5. ClosedBy(c, Floated(o), Len(points), End(data))
    BY <1>1, <1>3, <2>2, <2>4
  <2> QED BY <2>1, <2>2, <2>3, <2>5, LevelClosed
<1>4. last_n = 0 \/ last_n >= 1
  BY <1>1
<1> QED
  BY <1>2, <1>3, <1>4

-----------------------------------------------------------------------------
(* The inductive invariant: the index as far as it is built, the file and  *)
(* the search.                                                             *)

\* The object holds its index.
Held == phase \in {"memory", "writing"} \/ (phase = "mapped" /\ header_bytes # 0)

\* Keys, first key, segments and offsets of an index of instance i, unfinished maybe.
IsIndex(i, d, f, S, O) ==
    /\ d \in Inputs(i) /\ f \in {0, d[1]}
    /\ OffsetsFit(S, O)
    /\ OneMax(d) => IndexOf(d, S, O, i.EpsilonRecursive)

\* It has a level, and its top level one segment if it is searched from there.
IsComplete(i, O) ==
    /\ Len(O) >= 2
    /\ i.EpsilonRecursive > 0 => O[Len(O)] - O[Len(O) - 1] <= 2

\* How many keys the next level indexes.
CountsKeys ==
    /\ last_n >= 1 => Indexed(data) >= 1
    /\ segments = << >> => last_n = Indexed(data)
    /\ segments # << >> =>
          last_n = levels_offsets[Len(levels_offsets)] - levels_offsets[Len(levels_offsets) - 1] - 1

BuildInv ==
    /\ instance \in Instances /\ guard_bit0 \in {0, 1}
    /\ Held => IsIndex(instance, data, first_key, segments, levels_offsets)
    /\ Held /\ pc \notin {"build", "logic_error"} => IsComplete(instance, levels_offsets)
    /\ pc = "build" => phase = "memory" /\ CountsKeys
    /\ pc = "logic_error" => phase = "memory" /\ ~OneMax(data)

LEMMA OneLevelAtLeast ==
    ASSUME NEW S, NEW O, OffsetsFit(S, O)
    PROVE  S # << >> <=> Len(O) >= 2
<1>1. Len(O) \in Nat /\ Len(O) >= 1 /\ Len(S) \in Nat /\ \A i \in 1..Len(O) : O[i] \in Nat
  BY OffsetsFacts
<1>2. S = << >> <=> Len(S) = 0
  BY DEF OffsetsFit
<1>3. Len(O) >= 2 => O[1] < O[Len(O)]
  <2> SUFFICES ASSUME Len(O) >= 2 PROVE O[1] < O[Len(O)]
    OBVIOUS
  <2>1. 1 \in 1..Len(O) /\ Len(O) \in 1..Len(O) /\ 1 < Len(O)
    BY <1>1
  <2> QED BY <2>1 DEF OffsetsFit
<1>4. O[1] = 0 /\ O[Len(O)] = Len(S)
  BY DEF OffsetsFit
<1>5. CASE Len(O) >= 2
  <2>1. 0 < Len(S)
    BY <1>3, <1>4, <1>5
  <2>2. Len(S) # 0
    BY <1>1, <2>1
  <2> QED BY <1>2, <1>5, <2>2
<1>6. CASE Len(O) = 1
  <2>1. Len(S) = 0
    BY <1>4, <1>6
  <2> QED BY <1>2, <1>6, <2>1
<1>7. Len(O) >= 2 \/ Len(O) = 1
  BY <1>1
<1> QED
  BY <1>5, <1>6, <1>7

(* The points a level is built over.                                       *)
LEMMA FirstLevelPoints ==
    ASSUME IsData(data), last_n = Indexed(data)
    PROVE  [i \in 1..last_n |-> in_fun(i - 1)] = KeyPoints(data)
<1>1. Indexed(data) \in Nat
  BY IndexedFacts
<1>2. ASSUME NEW i \in 1..Indexed(data) PROVE in_fun(i - 1) = KeyPoint(data, i - 1)
  BY DEF in_fun, KeyPoint, Flagged, n
<1> QED
  BY <1>1, <1>2 DEF KeyPoints

LEMMA UpperLevelPoints ==
    ASSUME OffsetsFit(segments, levels_offsets), NEW m \in Nat, m = Len(levels_offsets) - 1, m >= 1,
           last_n = levels_offsets[m + 1] - levels_offsets[m] - 1
    PROVE  /\ [i \in 1..last_n |-> Point(At(levels_offsets[m] + (i - 1)).key, i - 1)]
                  = UpperPoints(Level(m))
           /\ last_n = Len(UpperPoints(Level(m))) /\ last_n \in Nat
           /\ UpperPoints(Level(m)) \in Seq(InputPoint)
           /\ \A j \in 1..last_n : UpperPoints(Level(m))[j].y = j - 1
<1>1. m \in 1..(Len(levels_offsets) - 1)
  OBVIOUS
<1>2. PICK a \in Nat, b \in Nat : /\ a = levels_offsets[m] /\ b = levels_offsets[m + 1] /\ a < b
                                  /\ Len(Level(m)) = b - a /\ Level(m) \in Seq(SegmentRecord)
                                  /\ \A i \in 1..(b - a) : Level(m)[i] = segments[a + i]
  <2>1. /\ levels_offsets[m] \in Nat /\ levels_offsets[m + 1] \in Nat
        /\ levels_offsets[m] < levels_offsets[m + 1] /\ levels_offsets[m + 1] <= Len(segments)
        /\ LevelOf(segments, levels_offsets, m) \in Seq(SegmentRecord)
        /\ Len(LevelOf(segments, levels_offsets, m)) = levels_offsets[m + 1] - levels_offsets[m]
        /\ \A i \in 1..(levels_offsets[m + 1] - levels_offsets[m]) :
              /\ LevelOf(segments, levels_offsets, m)[i] = segments[levels_offsets[m] + i]
              /\ levels_offsets[m] + i \in 1..Len(segments)
    BY <1>1, LevelFacts
  <2>2. PICK a \in Nat, b \in Nat : a = levels_offsets[m] /\ b = levels_offsets[m + 1]
    BY <2>1
  <2> QED BY <2>1, <2>2 DEF Level
<1>3. PICK c \in Nat : c = b - a - 1 /\ last_n = c /\ Len(Level(m)) - 1 = c
  <2>2. a < b /\ Len(Level(m)) = b - a
    BY <1>2
  <2>3. PICK c \in Nat : c = b - a - 1
    <3>1. b - a - 1 \in Nat
      BY <2>2
    <3> QED BY <3>1
  <2>4. last_n = c
    BY <1>2, <2>3
  <2>5. Len(Level(m)) - 1 = c
    BY <2>2, <2>3
  <2> QED BY <2>3, <2>4, <2>5
<1>4. PICK o : o = Level(m)
  OBVIOUS
<1>5. ASSUME NEW i \in 1..c PROVE At(a + (i - 1)) = o[i] /\ o[i].key \in Nat
  <2>5. c = b - a - 1
    BY <1>3
  <2>3. i \in 1..(b - a) /\ (a + (i - 1)) + 1 = a + i
    BY <2>5
  <2>4. Len(o) = b - a
    BY <1>2, <1>4
  <2>1. i \in 1..(b - a) /\ (a + (i - 1)) + 1 = a + i /\ i \in 1..Len(o)
    BY <2>3, <2>4
  <2>2. o[i] \in SegmentRecord
    BY <1>2, <1>4, <2>1, SeqElements
  <2> QED BY <1>2, <1>4, <2>1, <2>2 DEF At, SegmentRecord
<1>6. [i \in 1..c |-> Point(At(a + (i - 1)).key, i - 1)] = UpperPoints(o)
  BY <1>3, <1>4, <1>5 DEF UpperPoints
<1>7. ASSUME NEW i \in 1..c PROVE UpperPoints(o)[i] \in InputPoint /\ UpperPoints(o)[i].y = i - 1
  <2>1. UpperPoints(o)[i] = [x |-> o[i].key, y |-> i - 1]
    BY <1>3, <1>4 DEF UpperPoints, Point
  <2>2. i - 1 \in Nat
    OBVIOUS
  <2> QED BY <1>5, <2>1, <2>2 DEF InputPoint
<1>8. HasLength(UpperPoints(o), c)
  BY <1>3, <1>4 DEF UpperPoints, HasLength
<1>9. UpperPoints(o) \in Seq(InputPoint) /\ Len(UpperPoints(o)) = c
  BY <1>7, <1>8, SeqMade
<1> QED
  BY <1>2, <1>3, <1>4, <1>6, <1>7, <1>9

(* Points in order, each y one above the one before.                       *)
LEMMA IncreasingOrdered ==
    ASSUME NEW s \in Seq(InputPoint), Increasing(s), \A j \in 1..Len(s) : s[j].y = j - 1
    PROVE  Numbered(s)
<1>1. Len(s) \in Nat /\ \A j \in 1..Len(s) : s[j].x \in Nat /\ s[j].y = j - 1
  <2>1. Len(s) \in Nat /\ \A j \in 1..Len(s) : s[j] \in InputPoint
    BY SeqElements
  <2> QED BY <2>1 DEF InputPoint
<1>2. ASSUME NEW i \in 1..Len(s), NEW j \in 1..Len(s), i <= j PROVE s[i].x <= s[j].x
  <2> DEFINE T == {m \in i..Len(s) : s[i].x <= s[m].x}
  <2>1. i \in T
    BY <1>1
  <2>2. ASSUME NEW m \in i..(Len(s) - 1), m \in T PROVE m + 1 \in T
    <3>5. Len(s) \in Nat
      BY <1>1
    <3>1. m \in 1..(Len(s) - 1) /\ m \in 1..Len(s) /\ m + 1 \in 1..Len(s) /\ m + 1 \in i..Len(s)
      BY <3>5
    <3>2. s[i].x <= s[m].x /\ s[m].x <= s[m + 1].x
      BY <2>2, <3>1 DEF Increasing
    <3>3. s[i].x \in Nat /\ s[m].x \in Nat /\ s[m + 1].x \in Nat
      BY <1>1, <3>1
    <3>4. s[i].x <= s[m + 1].x
      BY <3>2, <3>3
    <3> QED BY <3>1, <3>4
  <2>3. \A m \in i..Len(s) : m \in T
    <3> HIDE DEF T
    <3>1. PICK a \in Int, b \in Int : a = i /\ b = Len(s)
      BY <1>1
    <3>2. a \in T /\ \A m \in a..(b - 1) : m \in T => m + 1 \in T
      BY <2>1, <2>2, <3>1
    <3>3. \A m \in a..b : m \in T
      BY <3>2, IntervalInduction
    <3> QED BY <3>1, <3>3
  <2>4. j \in T
    BY <1>1, <1>2, <2>3
  <2> QED BY <2>4
<1>3. ASSUME NEW i \in 1..Len(s), NEW j \in 1..Len(s), i <= j PROVE s[i].x <= s[j].x /\ s[i].y <= s[j].y
  <2>1. s[i].x <= s[j].x
    BY <1>2, <1>3
  <2>2. s[i].y = i - 1 /\ s[j].y = j - 1
    BY <1>1
  <2> QED BY <1>1, <1>3, <2>1, <2>2
<1> QED
  BY <1>1, <1>3 DEF Numbered, Ordered

LEMMA OrderedIncreases ==
    ASSUME NEW s, Ordered(s)
    PROVE  Increasing(s)
<1>1. \A i \in 1..(Len(s) - 1) : i \in 1..Len(s) /\ i + 1 \in 1..Len(s) /\ i <= i + 1
  BY OrderedFacts
<1> QED
  BY <1>1, OrderedFacts DEF Increasing

\* The points fit the level that is built next.
FitPoints(points) ==
    /\ Numbered(points)
    /\ \A j \in 1..Len(points) : points[j].x <= End(data)
    /\ points = PointsOf(data, segments, levels_offsets, Len(levels_offsets))

LEMMA BuildLevelKeeps ==
    ASSUME BuildInv, pc = "build", NEW epsilon \in Nat \ {0}, NEW points \in Seq(InputPoint),
           \A j \in 1..Len(points) : points[j].y = j - 1, last_n = Len(points),
           epsilon = EpsilonOf(EpsilonRecursive, Len(levels_offsets)),
           OneMax(data) => FitPoints(points),
           BuildLevel(epsilon, points), UNCHANGED mapped_vars
    PROVE  BuildInv'
<1>1. /\ instance \in Instances /\ guard_bit0 \in {0, 1} /\ phase = "memory" /\ CountsKeys
      /\ IsIndex(instance, data, first_key, segments, levels_offsets)
  BY DEF BuildInv, Held
<1>2. IsData(data)
  BY <1>1, InputFacts DEF IsIndex
<1>3. phase' = phase /\ header_bytes' = header_bytes
  BY DEF mapped_vars
<1>4. OffsetsFit(segments, levels_offsets)
  BY <1>1 DEF IsIndex
<1>5. CASE ~Increasing(points)
  <2>1. pc' = "logic_error" /\ UNCHANGED <<instance, guard_bit0, data, first_key, segments, levels_offsets, last_n>>
    BY <1>5 DEF BuildLevel, index, parameters
  <2>2. ~OneMax(data)
    BY <1>5, OrderedIncreases DEF FitPoints, Numbered
  <2> QED BY <1>1, <1>3, <2>1, <2>2 DEF BuildInv, Held
<1>6. CASE Increasing(points)
  <2>1. PICK c : c = Closed(Segmented(epsilon, points))
    OBVIOUS
  <2>2. /\ segments' = segments \o c /\ last_n' = Len(c) - 1
        /\ levels_offsets' = Append(levels_offsets, Len(segments) + Len(c))
        /\ UNCHANGED <<pc, instance, guard_bit0, data, first_key>>
    BY <1>6, <2>1 DEF BuildLevel, parameters
  <2>3. Numbered(points)
    BY <1>6, IncreasingOrdered
  <2>4. last_n >= 1 => Indexed(data) >= 1
    BY <1>1 DEF CountsKeys
  <2>5. c \in Seq(SegmentRecord) /\ Len(c) >= 1 /\ Len(c) \in Nat /\ last_n \in Nat
        /\ (last_n = 0 => c = <<Sentinel(0)>>)
    BY <1>1, <1>2, <2>1, <2>3, <2>4, ClosedTyped DEF Numbered
  <2>6. IsAdded(segments, levels_offsets, c, segments', levels_offsets')
    BY <2>2 DEF IsAdded
  <2>7. PICK c2 \in Seq(SegmentRecord) : c2 = c
    BY <2>5
  <2>8. PICK S2, O2 : S2 = segments' /\ O2 = levels_offsets'
    OBVIOUS
  <2>9. /\ OffsetsFit(S2, O2) /\ Len(O2) = Len(levels_offsets) + 1
        /\ \A l \in 1..Len(levels_offsets) : O2[l] = levels_offsets[l]
        /\ O2[Len(levels_offsets) + 1] = Len(segments) + Len(c)
    <3>1. Len(c2) >= 1 /\ IsAdded(segments, levels_offsets, c2, S2, O2)
      BY <2>5, <2>6, <2>7, <2>8
    <3>2. /\ OffsetsFit(S2, O2) /\ Len(O2) = Len(levels_offsets) + 1
          /\ \A l \in 1..(Len(levels_offsets) - 1) :
                LevelOf(S2, O2, l) = LevelOf(segments, levels_offsets, l)
          /\ LevelOf(S2, O2, Len(levels_offsets)) = c2
          /\ \A l \in 1..Len(levels_offsets) : O2[l] = levels_offsets[l]
          /\ O2[Len(levels_offsets) + 1] = Len(segments) + Len(c2)
      BY <1>4, <3>1, LevelAdded
    <3> QED BY <2>7, <3>2
  <2>10. ASSUME OneMax(data) PROVE IndexOf(data, S2, O2, EpsilonRecursive)
    <3>1. FitPoints(points)
      BY <2>10
    <3>2. IsLevelOf(c, points, epsilon, End(data))
      BY <1>1, <1>2, <2>1, <2>4, <2>10, <3>1, ClosedPredicts DEF FitPoints
    <3>3. IsLevelOf(c, PointsOf(data, segments, levels_offsets, Len(levels_offsets)),
                    EpsilonOf(EpsilonRecursive, Len(levels_offsets)), End(data))
      BY <3>1, <3>2 DEF FitPoints
    <3>4. IndexOf(data, segments, levels_offsets, EpsilonRecursive)
      BY <1>1, <2>10 DEF IsIndex, EpsilonRecursive
    <3>5. IsAdded(segments, levels_offsets, c, S2, O2)
      BY <2>6, <2>8
    <3> QED BY <1>4, <3>3, <3>4, <3>5, IndexGrows
  <2>11. IsIndex(instance, data, first_key, S2, O2)
    BY <1>1, <2>9, <2>10 DEF IsIndex, EpsilonRecursive
  <2>12. CountsKeys'
    <3>1. PICK m \in Nat : m = Len(levels_offsets) /\ m >= 1 /\ levels_offsets[m] = Len(segments)
      BY <1>4, OffsetsFacts DEF OffsetsFit
    <3>2. Len(O2) = m + 1 /\ O2[m + 1] = Len(segments) + Len(c) /\ O2[(m + 1) - 1] = Len(segments)
      <4>1. (m + 1) - 1 = m /\ m \in 1..m
        BY <3>1
      <4> QED BY <2>9, <3>1, <4>1
    <3>3. Len(segments) \in Nat /\ Len(c) \in Nat
      BY <1>4, <2>5, OffsetsFacts
    <3>4. last_n' = O2[Len(O2)] - O2[Len(O2) - 1] - 1
      BY <2>2, <3>2, <3>3
    <3>5. S2 # << >>
      <4>1. Len(O2) >= 2
        BY <3>1, <3>2
      <4> QED BY <2>9, <4>1, OneLevelAtLeast
    <3>6. last_n' >= 1 => Indexed(data) >= 1
      <4>1. last_n = 0 => last_n' = 0
        <5>1. Len(<<Sentinel(0)>>) = 1
          OBVIOUS
        <5> QED BY <2>2, <2>5, <5>1
      <4>2. last_n = 0 \/ last_n >= 1
        BY <2>5
      <4> QED BY <2>4, <4>1, <4>2
    <3> QED BY <2>2, <2>8, <3>4, <3>5, <3>6 DEF CountsKeys
  <2> QED
    BY <1>1, <1>3, <2>2, <2>8, <2>11, <2>12 DEF BuildInv, Held
<1> QED
  BY <1>5, <1>6

LEMMA FirstLevelKeeps ==
    ASSUME BuildInv, BuildFirstLevel, UNCHANGED mapped_vars
    PROVE  BuildInv'
<1>1. pc = "build" /\ segments = << >>
  BY DEF BuildFirstLevel
<1>2. /\ instance \in Instances /\ guard_bit0 \in {0, 1} /\ CountsKeys
      /\ IsIndex(instance, data, first_key, segments, levels_offsets)
  BY <1>1 DEF BuildInv, Held
<1>3. IsData(data) /\ OffsetsFit(segments, levels_offsets) /\ last_n = Indexed(data)
  BY <1>1, <1>2, InputFacts DEF IsIndex, CountsKeys
<1>4. Len(levels_offsets) = 1
  <2>1. PICK w \in Nat : w = Len(levels_offsets) /\ w >= 1 /\ ~(w >= 2)
    BY <1>1, <1>3, OffsetsFacts, OneLevelAtLeast
  <2>2. w = 1
    BY <2>1
  <2> QED BY <2>1, <2>2
<1>5. PICK points : points = [i \in 1..last_n |-> in_fun(i - 1)]
  OBVIOUS
<1>6. points = KeyPoints(data)
  BY <1>3, <1>5, FirstLevelPoints
<1>7. /\ Numbered(points) /\ Len(points) = last_n
      /\ \A j \in 1..last_n : points[j].x <= End(data)
  BY <1>3, <1>6, KeyPointsNumbered
<1>8. points \in Seq(InputPoint) /\ \A j \in 1..Len(points) : points[j].y = j - 1
  BY <1>7 DEF Numbered, Ordered
<1>9. FitPoints(points)
  BY <1>4, <1>6, <1>7 DEF FitPoints, PointsOf
<1>10. Epsilon = EpsilonOf(EpsilonRecursive, Len(levels_offsets)) /\ Epsilon \in Nat \ {0}
  BY <1>2, <1>4, InstanceFacts DEF EpsilonOf
<1>11. BuildLevel(Epsilon, points)
  BY <1>5 DEF BuildFirstLevel
<1> QED
  BY <1>1, <1>7, <1>8, <1>9, <1>10, <1>11, BuildLevelKeeps

LEMMA UpperLevelKeeps ==
    ASSUME BuildInv, BuildUpperLevel, UNCHANGED mapped_vars
    PROVE  BuildInv'
<1>1. pc = "build" /\ segments # << >> /\ EpsilonRecursive > 0 /\ last_n > 1
  BY DEF BuildUpperLevel, HasUpperLevel
<1>2. /\ instance \in Instances /\ guard_bit0 \in {0, 1} /\ CountsKeys
      /\ IsIndex(instance, data, first_key, segments, levels_offsets)
  BY <1>1 DEF BuildInv, Held
<1>3. IsData(data) /\ OffsetsFit(segments, levels_offsets)
  BY <1>2, InputFacts DEF IsIndex
<1>4. PICK m \in Nat : m = Len(levels_offsets) - 1 /\ m >= 1 /\ Len(levels_offsets) = m + 1
  <2>1. Len(levels_offsets) \in Nat /\ Len(levels_offsets) >= 2
    BY <1>1, <1>3, OffsetsFacts, OneLevelAtLeast
  <2> QED BY <2>1
<1>5. last_n = levels_offsets[m + 1] - levels_offsets[m] - 1
  BY <1>1, <1>2, <1>4 DEF CountsKeys
<1>6. PICK points : points = [i \in 1..last_n |-> Point(At(levels_offsets[m] + (i - 1)).key, i - 1)]
  OBVIOUS
<1>7. /\ points = UpperPoints(Level(m)) /\ last_n = Len(points) /\ last_n \in Nat
      /\ points \in Seq(InputPoint) /\ \A j \in 1..Len(points) : points[j].y = j - 1
  <2>1. /\ points = UpperPoints(Level(m))
        /\ last_n = Len(UpperPoints(Level(m))) /\ last_n \in Nat
        /\ UpperPoints(Level(m)) \in Seq(InputPoint)
        /\ \A j \in 1..last_n : UpperPoints(Level(m))[j].y = j - 1
    BY <1>3, <1>4, <1>5, <1>6, UpperLevelPoints
  <2> QED BY <2>1
<1>8. BuildLevel(EpsilonRecursive, points)
  BY <1>4, <1>6 DEF BuildUpperLevel
<1>9. EpsilonRecursive = EpsilonOf(EpsilonRecursive, Len(levels_offsets)) /\ EpsilonRecursive \in Nat \ {0}
  <2>1. EpsilonRecursive \in Nat
    BY <1>2, InstanceFacts
  <2> QED BY <1>1, <1>4, <2>1 DEF EpsilonOf
<1>10. ASSUME OneMax(data) PROVE FitPoints(points)
  <2>1. IndexOf(data, segments, levels_offsets, EpsilonRecursive)
    BY <1>2, <1>10 DEF IsIndex, EpsilonRecursive
  <2>2. m \in 1..(Len(levels_offsets) - 1) /\ Indexed(data) >= 1
    <3>1. last_n >= 1
      BY <1>1, <1>7
    <3> QED BY <1>2, <1>4, <3>1 DEF CountsKeys
  <2>3. PICK s, end : s = PointsOf(data, segments, levels_offsets, m) /\ end = End(data)
    OBVIOUS
  <2>4. IsLevelOf(Level(m), s, EpsilonOf(EpsilonRecursive, m), end)
    BY <2>1, <2>2, <2>3 DEF IndexOf, Level
  <2>5. s # << >>
    BY <1>3, <2>1, <2>2, <2>3, LevelsBegin
  <2>6. /\ Numbered(UpperPoints(Level(m))) /\ Len(UpperPoints(Level(m))) = Len(Level(m)) - 1
        /\ \A j \in 1..(Len(Level(m)) - 1) :
              UpperPoints(Level(m))[j].x = Level(m)[j].key /\ Level(m)[j].key <= end
    BY <2>4, <2>5, UpperPointsNumbered
  <2>7. points = PointsOf(data, segments, levels_offsets, Len(levels_offsets))
    <3>1. Len(levels_offsets) # 1 /\ Len(levels_offsets) - 1 = m
      BY <1>4
    <3> QED BY <1>7, <3>1 DEF PointsOf, Level
  <2>8. \A j \in 1..Len(points) : points[j].x <= end
    BY <1>7, <2>6
  <2> QED BY <1>7, <2>3, <2>6, <2>7, <2>8 DEF FitPoints
<1> QED
  BY <1>1, <1>7, <1>8, <1>9, <1>10, BuildLevelKeeps

LEMMA BuiltKeeps ==
    ASSUME BuildInv, Built, UNCHANGED mapped_vars
    PROVE  BuildInv'
<1>1. pc = "build" /\ segments # << >> /\ ~HasUpperLevel /\ pc' = "built"
      /\ UNCHANGED <<instance, guard_bit0, data, first_key, segments, levels_offsets, last_n, phase, header_bytes>>
  BY DEF Built, index, parameters, mapped_vars
<1>2. /\ instance \in Instances /\ guard_bit0 \in {0, 1} /\ CountsKeys
      /\ IsIndex(instance, data, first_key, segments, levels_offsets)
  BY <1>1 DEF BuildInv, Held
<1>3. OffsetsFit(segments, levels_offsets) /\ Len(levels_offsets) >= 2 /\ Len(levels_offsets) \in Nat
  BY <1>1, <1>2, OffsetsFacts, OneLevelAtLeast DEF IsIndex
<1>4. PICK m \in Nat : m = Len(levels_offsets) - 1 /\ m + 1 = Len(levels_offsets) /\ m >= 1
  BY <1>3
<1>5. PICK a \in Nat, b \in Nat : a = levels_offsets[m] /\ b = levels_offsets[m + 1]
  <2>1. m \in 1..Len(levels_offsets) /\ m + 1 \in 1..Len(levels_offsets)
    BY <1>4
  <2> QED BY <1>3, <2>1, OffsetsFacts
<1>6. ASSUME EpsilonRecursive > 0 PROVE b - a <= 2
  <2>1. ~(last_n > 1)
    BY <1>1, <1>6 DEF HasUpperLevel
  <2>2. last_n = b - a - 1
    BY <1>1, <1>2, <1>4, <1>5 DEF CountsKeys
  <2> QED BY <2>1, <2>2
<1>7. IsComplete(instance, levels_offsets)
  BY <1>3, <1>4, <1>5, <1>6 DEF IsComplete, EpsilonRecursive
<1> QED
  BY <1>1, <1>2, <1>7 DEF BuildInv, Held

LEMMA BuildKeeps ==
    ASSUME BuildInv, Build, UNCHANGED mapped_vars
    PROVE  BuildInv'
BY FirstLevelKeeps, UpperLevelKeeps, BuiltKeeps DEF Build

-----------------------------------------------------------------------------
(* The file.                                                               *)

Units == Nat \cup SegmentRecord

\* What is written of an object, header_bytes still 0; and the size of its header.
ImageOf(f, O, S, d) == <<0, Len(d), f>> \o <<Len(O)>> \o O \o <<Len(S)>> \o S \o d
HeaderOf(O, S) == 5 + Len(O) + Len(S)

\* All but the first unit of the file g.
HoldsObject(g, f, O, S, d) ==
    /\ g \in Seq(Units) /\ Len(g) = HeaderOf(O, S) + Len(d)
    /\ g[2] = Len(d) /\ g[3] = f /\ g[4] = Len(O) /\ g[5 + Len(O)] = Len(S)
    /\ \A i \in 1..Len(O) : g[4 + i] = O[i]
    /\ \A i \in 1..Len(S) : g[5 + Len(O) + i] = S[i]
    /\ \A i \in 1..Len(d) : g[HeaderOf(O, S) + i] = d[i]

\* The units written so far, and the whole file with the header patched.
IsPartial(g, f, O, S, d) ==
    /\ g \in Seq(Units) /\ Len(g) <= Len(ImageOf(f, O, S, d))
    /\ \A i \in 1..Len(g) : g[i] = ImageOf(f, O, S, d)[i]
IsPatched(g, f, O, S, d) == HoldsObject(g, f, O, S, d) /\ g[1] = HeaderOf(O, S)

\* v stands in w behind the first m.
StandsIn(v, w, m) == \A i \in 1..Len(v) : w[m + i] = v[i]

\* w is the m units of u and the l of v.
Continues(w, u, m, v, l) ==
    /\ Len(w) = m + l /\ m = Len(u) /\ l = Len(v)
    /\ \A i \in 1..m : w[i] = u[i]
    /\ StandsIn(v, w, m)

IsConcat(w, u, v) == w = u \o v

LEMMA Appended ==
    ASSUME NEW X, NEW u \in Seq(X), NEW v \in Seq(X), NEW m \in Nat, NEW l \in Nat,
           m = Len(u), l = Len(v), NEW w, IsConcat(w, u, v)
    PROVE  w \in Seq(X) /\ Continues(w, u, m, v, l)
BY DEF Continues, StandsIn, IsConcat

LEMMA SeqWider ==
    ASSUME NEW X, NEW Y, X \subseteq Y, NEW s \in Seq(X)
    PROVE  s \in Seq(Y)
<1>1. PICK m \in Nat : m = Len(s) /\ \A i \in 1..m : s[i] \in Y
  BY SeqElements
<1>2. HasLength(s, m)
  BY <1>1 DEF HasLength
<1> QED
  BY <1>1, <1>2, SeqMade

LEMMA StillStands ==
    ASSUME NEW w, NEW u, NEW m \in Nat, NEW v, NEW l \in Nat, Continues(w, u, m, v, l),
           NEW q \in Nat, NEW t, Len(t) \in Nat, q + Len(t) <= m, StandsIn(t, u, q)
    PROVE  StandsIn(t, w, q)
<1>1. ASSUME NEW i \in 1..Len(t) PROVE w[q + i] = t[i]
  <2>1. q + i \in 1..m
    OBVIOUS
  <2> QED BY <2>1 DEF Continues, StandsIn
<1> QED
  BY <1>1 DEF StandsIn

LEMMA ImageHolds ==
    ASSUME NEW f \in Nat, NEW O \in Seq(Nat), NEW S \in Seq(SegmentRecord), NEW d \in Seq(Nat)
    PROVE  HoldsObject(ImageOf(f, O, S, d), f, O, S, d) /\ ImageOf(f, O, S, d)[1] = 0
<1>1. O \in Seq(Units) /\ S \in Seq(Units) /\ d \in Seq(Units)
  <2>1. Nat \subseteq Units /\ SegmentRecord \subseteq Units
    BY DEF Units
  <2> QED BY <2>1, SeqWider
<1>2. PICK nO \in Nat, nS \in Nat, nd \in Nat : nO = Len(O) /\ nS = Len(S) /\ nd = Len(d)
  OBVIOUS
<1>3. PICK mb \in Nat, mc \in Nat, me \in Nat : mb = 4 + nO /\ mc = mb + 1 /\ me = mc + nS
  OBVIOUS
<1>4. PICK a, t : a = <<0, nd, f>> \o <<nO>> /\ t = <<nS>>
  OBVIOUS
<1>5. a \in Seq(Units) /\ Len(a) = 4 /\ a[1] = 0 /\ a[2] = nd /\ a[3] = f /\ a[4] = nO
  <2>1. 0 \in Units /\ nd \in Units /\ f \in Units /\ nO \in Units
    BY DEF Units
  <2>2. PICK u, v : u = <<0, nd, f>> /\ v = <<nO>> /\ IsConcat(a, u, v)
    BY <1>4 DEF IsConcat
  <2>3. /\ u \in Seq(Units) /\ Len(u) = 3 /\ u[1] = 0 /\ u[2] = nd /\ u[3] = f
        /\ v \in Seq(Units) /\ Len(v) = 1 /\ v[1] = nO
    BY <2>1, <2>2
  <2>4. a \in Seq(Units) /\ Continues(a, u, 3, v, 1)
    BY <1>4, <2>2, <2>3, Appended, 3 \in Nat, 1 \in Nat
  <2>5. Len(a) = 4 /\ (\A i \in 1..3 : a[i] = u[i]) /\ a[3 + 1] = v[1]
    BY <2>3, <2>4 DEF Continues, StandsIn
  <2> QED BY <2>3, <2>4, <2>5
<1>6. t \in Seq(Units) /\ Len(t) = 1 /\ t[1] = nS
  <2>1. nS \in Units
    BY DEF Units
  <2> QED BY <1>4, <2>1
<1>7. PICK b, c, e, g : IsConcat(b, a, O) /\ IsConcat(c, b, t) /\ IsConcat(e, c, S) /\ IsConcat(g, e, d)
  BY DEF IsConcat
<1>8. b \in Seq(Units) /\ Continues(b, a, 4, O, nO) /\ Len(b) = mb
  <2>1. b \in Seq(Units) /\ Continues(b, a, 4, O, nO)
    BY <1>1, <1>2, <1>3, <1>5, <1>7, Appended, 4 \in Nat
  <2> QED BY <1>3, <2>1 DEF Continues
<1>9. c \in Seq(Units) /\ Continues(c, b, mb, t, 1) /\ Len(c) = mc
  <2>1. c \in Seq(Units) /\ Continues(c, b, mb, t, 1)
    BY <1>3, <1>6, <1>7, <1>8, Appended, 1 \in Nat
  <2> QED BY <1>3, <2>1 DEF Continues
<1>10. e \in Seq(Units) /\ Continues(e, c, mc, S, nS) /\ Len(e) = me
  <2>1. e \in Seq(Units) /\ Continues(e, c, mc, S, nS)
    BY <1>1, <1>2, <1>3, <1>7, <1>9, Appended
  <2> QED BY <1>3, <2>1 DEF Continues
<1>11. g \in Seq(Units) /\ Continues(g, e, me, d, nd) /\ Len(g) = me + nd
  <2>1. g \in Seq(Units) /\ Continues(g, e, me, d, nd)
    BY <1>1, <1>2, <1>3, <1>7, <1>10, Appended
  <2> QED BY <1>3, <2>1 DEF Continues
<1>12. StandsIn(O, b, 4) /\ StandsIn(t, c, mb) /\ StandsIn(S, e, mc) /\ StandsIn(d, g, me)
  BY <1>8, <1>9, <1>10, <1>11 DEF Continues
<1>13. StandsIn(O, c, 4) /\ StandsIn(a, b, 0)
  <2>3. 4 + Len(O) <= mb
    BY <1>2, <1>3
  <2>1. StandsIn(O, c, 4)
    BY <1>2, <1>3, <1>9, <1>12, <2>3, StillStands, 1 \in Nat, 4 \in Nat
  <2>2. \A i \in 1..Len(a) : b[0 + i] = a[i]
    <3>1. \A i \in 1..4 : b[i] = a[i]
      BY <1>8 DEF Continues
    <3>2. Len(a) = 4
      BY <1>5
    <3> QED BY <3>1, <3>2
  <2> QED BY <2>1, <2>2 DEF StandsIn
<1>14. StandsIn(a, c, 0)
  <2>1. 0 + Len(a) <= mb
    BY <1>3, <1>5
  <2> QED BY <2>1, <1>3, <1>5, <1>9, <1>13, StillStands, 0 \in Nat, 1 \in Nat, 4 \in Nat
<1>15. StandsIn(O, e, 4) /\ StandsIn(t, e, mb) /\ StandsIn(a, e, 0)
  <2>1. 4 + Len(O) <= mc /\ mb + Len(t) <= mc /\ 0 + Len(a) <= mc
    BY <1>2, <1>3, <1>5, <1>6
  <2> QED BY <1>2, <1>3, <1>5, <1>6, <1>10, <1>12, <1>13, <1>14, <2>1, StillStands, 0 \in Nat, 1 \in Nat, 4 \in Nat
<1>16. StandsIn(O, g, 4) /\ StandsIn(t, g, mb) /\ StandsIn(a, g, 0) /\ StandsIn(S, g, mc)
  <2>1. 4 + Len(O) <= me /\ mb + Len(t) <= me /\ 0 + Len(a) <= me /\ mc + Len(S) <= me
    BY <1>2, <1>3, <1>5, <1>6
  <2> QED BY <1>2, <1>3, <1>5, <1>6, <1>11, <1>12, <1>15, <2>1, StillStands, 0 \in Nat, 1 \in Nat, 4 \in Nat
<1>17. g = ImageOf(f, O, S, d)
  BY <1>2, <1>4, <1>7 DEF ImageOf, IsConcat
<1>18. g[1] = 0 /\ g[2] = nd /\ g[3] = f /\ g[4] = nO /\ g[mb + 1] = nS
  <2>1. \A i \in 1..4 : g[0 + i] = a[i]
    BY <1>5, <1>16 DEF StandsIn
  <2>2. g[1] = a[1] /\ g[2] = a[2] /\ g[3] = a[3] /\ g[4] = a[4]
    BY <2>1
  <2>3. g[mb + 1] = t[1]
    BY <1>6, <1>16 DEF StandsIn
  <2> QED BY <1>5, <1>6, <2>2, <2>3
<1>19. mb + 1 = 5 + nO /\ mc = 5 + nO /\ me = 5 + nO + nS
  BY <1>3
<1>20. HoldsObject(g, f, O, S, d)
  BY <1>2, <1>11, <1>12, <1>16, <1>18, <1>19 DEF HoldsObject, HeaderOf, StandsIn
<1> QED
  BY <1>17, <1>18, <1>20

(* What stands in a file is what is read from it.                          *)
LEMMA ReadBack ==
    ASSUME NEW X, NEW g \in Seq(X), NEW Y, NEW t \in Seq(Y), NEW m \in Nat,
           m + Len(t) <= Len(g), StandsIn(t, g, m)
    PROVE  SubSeq(g, m + 1, m + Len(t)) = t
<1>1. PICK a \in Nat : a = Len(t)
  OBVIOUS
<1>2. Len(g) \in Nat /\ \A i \in 1..Len(g) : g[i] \in X
  OBVIOUS
<1>3. \A i \in (m + 1)..(m + a) : g[i] \in X
  <2> SUFFICES ASSUME NEW i \in (m + 1)..(m + a) PROVE g[i] \in X
    OBVIOUS
  <2>1. i \in 1..Len(g)
    BY <1>1, <1>2
  <2> QED BY <1>2, <2>1
<1>4. PICK from \in Int, to \in Int : from = m + 1 /\ to = m + a
  OBVIOUS
<1>5. PICK s : s = SubSeq(g, from, to)
  OBVIOUS
<1>6. /\ s \in Seq(X) /\ Len(s) = (IF from <= to THEN to - from + 1 ELSE 0)
      /\ \A i \in 1..(to - from + 1) : s[i] = g[from + i - 1]
  BY <1>3, <1>4, <1>5
<1>7. Len(s) = a
  BY <1>1, <1>4, <1>6
<1>8. \A i \in 1..a : s[i] = t[i]
  <2> SUFFICES ASSUME NEW i \in 1..a PROVE s[i] = t[i]
    OBVIOUS
  <2>1. i \in 1..(to - from + 1) /\ from + i - 1 = m + i
    BY <1>4
  <2>2. s[i] = g[m + i]
    BY <1>6, <2>1
  <2> QED BY <1>1, <2>2 DEF StandsIn
<1>9. s = t
  <2>1. s = [i \in 1..a |-> s[i]]
    BY <1>6, <1>7
  <2>2. t = [i \in 1..a |-> t[i]]
    BY <1>1
  <2> QED BY <1>8, <2>1, <2>2
<1> QED
  BY <1>1, <1>4, <1>5, <1>9

\* The file g holds, or begins to hold, the object w.
IsWritten(i, w, g) ==
    \E f, O, S, d :
        /\ w = <<f, O, S, d>> /\ IsIndex(i, d, f, S, O) /\ IsComplete(i, O)
        /\ IsPartial(g, f, O, S, d) \/ IsPatched(g, f, O, S, d)

\* The object may be searched: its members are those of an index.
Searched == phase = "memory" \/ (phase = "mapped" /\ header_bytes # 0)

MappedInv ==
    /\ phase \in {"memory", "writing", "mapped", "gone"}
    /\ phase = "memory" => file = << >> /\ written = << >>
    /\ phase # "memory" =>
          Is("mapped") /\ pc \notin {"build", "logic_error"} /\ IsWritten(instance, written, file)
    /\ phase \in {"memory", "writing", "gone"} => header_bytes = 0
    /\ phase = "writing" =>
          /\ pc = "built" /\ written = Contents
          /\ IsPartial(file, first_key, levels_offsets, segments, data)
    /\ phase = "gone" => pc \in {"built", "undefined"}
    /\ pc = "undefined" => phase = "gone" /\ ~HoldsContainers
    /\ phase = "mapped" /\ header_bytes = 0 => pc = "built"
    /\ phase = "mapped" /\ header_bytes # 0 =>
          written = Contents /\ IsPatched(file, first_key, levels_offsets, segments, data)

LEMMA IndexTyped ==
    ASSUME NEW i \in Instances, NEW f, NEW O, NEW S, NEW d, IsIndex(i, d, f, S, O)
    PROVE  f \in Nat /\ O \in Seq(Nat) /\ S \in Seq(SegmentRecord) /\ d \in Seq(Nat)
<1>1. IsData(d) /\ f \in {0, d[1]}
  BY InputFacts DEF IsIndex
<1>2. O \in Seq(Nat) /\ S \in Seq(SegmentRecord)
  BY DEF IsIndex, OffsetsFit
<1>3. d \in Seq(0..KeyMax) /\ 0..KeyMax \subseteq Nat
  BY <1>1, KeyMaxNat DEF IsData
<1>4. d \in Seq(Nat)
  BY <1>3, SeqWider
<1>5. d[1] \in Nat
  BY <1>1, IndexedFacts
<1> QED
  BY <1>1, <1>2, <1>4, <1>5

(* What is written of a file ...                                           *)
LEMMA FileBegins ==
    ASSUME NEW f \in Nat, NEW O \in Seq(Nat), NEW S \in Seq(SegmentRecord), NEW d \in Seq(Nat)
    PROVE  IsPartial(<< >>, f, O, S, d)
<1>1. ImageOf(f, O, S, d) \in Seq(Units)
  BY ImageHolds DEF HoldsObject
<1>2. Len(ImageOf(f, O, S, d)) \in Nat
  BY <1>1
<1> QED
  BY <1>2 DEF IsPartial

LEMMA FileGrows ==
    ASSUME NEW f \in Nat, NEW O \in Seq(Nat), NEW S \in Seq(SegmentRecord), NEW d \in Seq(Nat),
           NEW g, IsPartial(g, f, O, S, d), Len(g) < Len(ImageOf(f, O, S, d))
    PROVE  IsPartial(Append(g, ImageOf(f, O, S, d)[Len(g) + 1]), f, O, S, d)
<1>1. PICK w \in Seq(Units) : w = ImageOf(f, O, S, d)
  BY ImageHolds DEF HoldsObject
<1>2. PICK m \in Nat : m = Len(g) /\ m < Len(w) /\ Len(w) \in Nat /\ w[m + 1] \in Units
  <2>1. Len(g) \in Nat /\ Len(w) \in Nat /\ \A i \in 1..Len(w) : w[i] \in Units
    BY <1>1 DEF IsPartial
  <2>2. Len(g) + 1 \in 1..Len(w)
    BY <1>1, <2>1
  <2> QED BY <1>1, <2>1, <2>2
<1>3. PICK g2 : g2 = Append(g, w[m + 1])
  OBVIOUS
<1>4. g \in Seq(Units) /\ \A i \in 1..m : g[i] = w[i]
  BY <1>1, <1>2 DEF IsPartial
<1>5. g2 \in Seq(Units) /\ Len(g2) = m + 1 /\ (\A i \in 1..m : g2[i] = g[i]) /\ g2[m + 1] = w[m + 1]
  BY <1>2, <1>3, <1>4
<1>6. \A i \in 1..(m + 1) : i \in 1..m \/ i = m + 1
  OBVIOUS
<1> QED
  BY <1>1, <1>2, <1>3, <1>4, <1>5, <1>6 DEF IsPartial

LEMMA FilePatched ==
    ASSUME NEW f \in Nat, NEW O \in Seq(Nat), NEW S \in Seq(SegmentRecord), NEW d \in Seq(Nat),
           NEW g, IsPartial(g, f, O, S, d), Len(g) = Len(ImageOf(f, O, S, d))
    PROVE  IsPatched([g EXCEPT ![1] = HeaderOf(O, S)], f, O, S, d)
<1>1. PICK w : w = ImageOf(f, O, S, d)
  OBVIOUS
<1>2. HoldsObject(w, f, O, S, d)
  BY <1>1, ImageHolds
<1>3. PICK nO \in Nat, nS \in Nat, nd \in Nat : nO = Len(O) /\ nS = Len(S) /\ nd = Len(d)
  OBVIOUS
<1>4. PICK h \in Nat, N \in Nat : h = HeaderOf(O, S) /\ h = 5 + nO + nS /\ N = h + nd /\ N = Len(w)
  <2>1. 5 + nO + nS \in Nat /\ HeaderOf(O, S) = 5 + nO + nS
    BY <1>3 DEF HeaderOf
  <2> QED BY <1>2, <1>3, <2>1 DEF HoldsObject
<1>5. g \in Seq(Units) /\ Len(g) = N /\ \A i \in 1..N : g[i] = w[i]
  BY <1>1, <1>4 DEF IsPartial
<1>6. PICK g2 : g2 = [g EXCEPT ![1] = h]
  OBVIOUS
<1>7. h \in Units
  BY DEF Units
<1>8. /\ g2 \in Seq(Units) /\ Len(g2) = N /\ g2[1] = h
      /\ \A i \in 2..N : g2[i] = w[i]
  <2>1. 1 \in 1..N
    BY <1>4
  <2>2. g2 \in Seq(Units) /\ Len(g2) = N
    <3>1. DOMAIN g = 1..N /\ g = [i \in 1..N |-> g[i]]
      BY <1>5
    <3>2. g2 = [i \in 1..N |-> g2[i]]
      BY <1>6, <3>1
    <3>3. \A i \in 1..N : g2[i] = h \/ g2[i] = g[i]
      BY <1>6, <3>1
    <3>4. \A i \in 1..N : g[i] \in Units
      BY <1>5, SeqElements
    <3>5. \A i \in 1..N : g2[i] \in Units
      BY <1>7, <3>3, <3>4
    <3> QED BY <3>2, <3>5, SeqMade DEF HasLength
  <2>3. g2[1] = h /\ \A i \in 2..N : g2[i] = g[i]
    BY <1>5, <1>6, <2>1
  <2> QED BY <1>5, <2>2, <2>3
<1>9. /\ g2[2] = nd /\ g2[3] = f /\ g2[4] = nO /\ g2[5 + nO] = nS
  <2>1. 2 \in 2..N /\ 3 \in 2..N /\ 4 \in 2..N /\ 5 + nO \in 2..N
    BY <1>4
  <2>2. w[2] = nd /\ w[3] = f /\ w[4] = nO /\ w[5 + nO] = nS
    BY <1>2, <1>3 DEF HoldsObject
  <2> QED BY <1>8, <2>1, <2>2
<1>10. /\ \A i \in 1..nO : g2[4 + i] = O[i]
       /\ \A i \in 1..nS : g2[5 + nO + i] = S[i]
       /\ \A i \in 1..nd : g2[h + i] = d[i]
  <2>1. /\ \A i \in 1..nO : w[4 + i] = O[i]
        /\ \A i \in 1..nS : w[5 + nO + i] = S[i]
        /\ \A i \in 1..nd : w[h + i] = d[i]
    BY <1>2, <1>3, <1>4 DEF HoldsObject
  <2>2. /\ \A i \in 1..nO : 4 + i \in 2..N
        /\ \A i \in 1..nS : 5 + nO + i \in 2..N
        /\ \A i \in 1..nd : h + i \in 2..N
    BY <1>4
  <2> QED BY <1>8, <2>1, <2>2
<1>11. HoldsObject(g2, f, O, S, d)
  BY <1>3, <1>4, <1>8, <1>9, <1>10 DEF HoldsObject
<1> QED
  BY <1>4, <1>6, <1>8, <1>11 DEF IsPatched

(* ... and what is read from it.                                           *)
LEMMA FileRead ==
    ASSUME NEW f \in Nat, NEW O \in Seq(Nat), NEW S \in Seq(SegmentRecord), NEW d \in Seq(Nat),
           NEW g, IsPatched(g, f, O, S, d)
    PROVE  /\ g[2] = Len(d) /\ g[3] = f /\ g[4] = Len(O) /\ g[5 + Len(O)] = Len(S)
           /\ g[1] = 5 + Len(O) + Len(S)
           /\ \A i \in 1..Len(d) : g[g[1] + i] = d[i]
           /\ SubSeq(g, 5, 4 + Len(O)) = O
           /\ SubSeq(g, (5 + Len(O)) + 1, (5 + Len(O)) + Len(S)) = S
           /\ SubSeq(g, g[1] + 1, g[1] + g[2]) = d
           /\ Len(g) = g[1] + g[2] /\ g[1] \in Nat
<1>1. HoldsObject(g, f, O, S, d) /\ g[1] = HeaderOf(O, S)
  BY DEF IsPatched
<1>2. PICK nO \in Nat, nS \in Nat, nd \in Nat : nO = Len(O) /\ nS = Len(S) /\ nd = Len(d)
  OBVIOUS
<1>3. PICK b \in Nat, h \in Nat : b = 5 + nO /\ h = b + nS /\ h = HeaderOf(O, S)
  BY <1>2 DEF HeaderOf
<1>4. /\ g \in Seq(Units) /\ Len(g) = h + nd
      /\ StandsIn(O, g, 4) /\ StandsIn(S, g, b) /\ StandsIn(d, g, h)
  BY <1>1, <1>2, <1>3 DEF HoldsObject, StandsIn
<1>5. SubSeq(g, 5, 4 + nO) = O
  <2>1. 4 + Len(O) <= Len(g) /\ 4 + 1 = 5
    BY <1>2, <1>3, <1>4
  <2>2. SubSeq(g, 4 + 1, 4 + Len(O)) = O
    BY <1>4, <2>1, ReadBack, 4 \in Nat
  <2> QED BY <1>2, <2>1, <2>2
<1>6. SubSeq(g, b + 1, b + nS) = S
  <2>1. b + Len(S) <= Len(g)
    BY <1>2, <1>3, <1>4
  <2> QED BY <1>2, <1>4, <2>1, ReadBack
<1>7. SubSeq(g, h + 1, h + nd) = d
  <2>1. h + Len(d) <= Len(g)
    BY <1>2, <1>3, <1>4
  <2> QED BY <1>2, <1>4, <2>1, ReadBack
<1>8. /\ g[3] = f /\ g[4] = nO /\ g[5 + nO] = nS /\ g[2] = nd /\ g[1] = h
      /\ \A i \in 1..nd : g[h + i] = d[i]
  BY <1>1, <1>2, <1>3 DEF HoldsObject
<1>9. h = 5 + nO + nS
  BY <1>3
<1> QED
  BY <1>2, <1>3, <1>4, <1>5, <1>6, <1>7, <1>8, <1>9

FileInv == BuildInv /\ MappedInv

\* The index and the file stay as they are.
Stays ==
    /\ UNCHANGED <<instance, guard_bit0, data, first_key, segments, levels_offsets, mapped_vars>>
    /\ pc \notin {"build", "logic_error"} /\ pc' \notin {"build", "logic_error", "undefined"}
    /\ Searched

LEMMA StaysKeeps ==
    ASSUME FileInv, Stays
    PROVE  FileInv'
<1>1. /\ UNCHANGED <<instance, guard_bit0, data, first_key, segments, levels_offsets>>
      /\ UNCHANGED <<phase, file, header_bytes, written>>
      /\ pc \notin {"build", "logic_error"} /\ pc' \notin {"build", "logic_error", "undefined"}
      /\ Searched
  BY DEF Stays, mapped_vars
<1>2. BuildInv'
  BY <1>1 DEF FileInv, BuildInv, Held, Searched
<1>3. Contents' = Contents
  BY <1>1 DEF Contents
<1>4. MappedInv'
  BY <1>1, <1>3 DEF FileInv, MappedInv, Is, Searched
<1> QED
  BY <1>2, <1>4 DEF FileInv

LEMMA BuildFileKeeps ==
    ASSUME FileInv, Build, UNCHANGED mapped_vars
    PROVE  FileInv'
<1>1. phase = "memory" /\ pc' \in {"build", "built", "logic_error"}
  BY DEF FileInv, BuildInv, Build, BuildFirstLevel, BuildUpperLevel, Built, BuildLevel
<1>2. UNCHANGED <<phase, file, header_bytes, written>>
  BY DEF mapped_vars
<1> QED
  BY <1>1, <1>2, BuildKeeps DEF FileInv, MappedInv

LEMMA ImageIs == Image = ImageOf(first_key, levels_offsets, segments, data)
BY DEF Image, ImageOf, n

\* The object in memory is complete.
IsWhole ==
    /\ IsIndex(instance, data, first_key, segments, levels_offsets)
    /\ IsComplete(instance, levels_offsets)
    /\ first_key \in Nat /\ levels_offsets \in Seq(Nat)
    /\ segments \in Seq(SegmentRecord) /\ data \in Seq(Nat)

LEMMA WholeHeld ==
    ASSUME BuildInv, Held, pc = "built"
    PROVE  IsWhole
<1>1. /\ instance \in Instances
      /\ IsIndex(instance, data, first_key, segments, levels_offsets)
      /\ IsComplete(instance, levels_offsets)
  BY DEF BuildInv
<1> QED
  BY <1>1, IndexTyped DEF IsWhole

LEMMA StartWritingKeeps ==
    ASSUME FileInv, Is("mapped"), StartWriting
    PROVE  FileInv'
<1>1. /\ pc = "built" /\ phase = "memory" /\ phase' = "writing" /\ written' = Contents
      /\ UNCHANGED <<pc, instance, guard_bit0, data, first_key, segments, levels_offsets, file, header_bytes>>
  BY DEF StartWriting, vars, index, parameters
<1>2. IsWhole
  BY <1>1, WholeHeld DEF FileInv, Held
<1>3. file = << >>
  BY <1>1 DEF FileInv, MappedInv
<1>4. IsPartial(file, first_key, levels_offsets, segments, data)
  BY <1>2, <1>3, FileBegins DEF IsWhole
<1>5. IsWritten(instance, written', file)
  BY <1>1, <1>2, <1>4 DEF IsWritten, IsWhole, Contents
<1>6. BuildInv'
  BY <1>1 DEF FileInv, BuildInv, Held
<1>7. written' = Contents'
  BY <1>1 DEF Contents
<1>8. MappedInv'
  BY <1>1, <1>4, <1>5, <1>7 DEF FileInv, MappedInv, Is
<1> QED
  BY <1>6, <1>8 DEF FileInv

LEMMA WriteUnitKeeps ==
    ASSUME FileInv, WriteUnit
    PROVE  FileInv'
<1>1. /\ phase = "writing" /\ Len(file) < Len(Image) /\ file' = Append(file, Image[Len(file) + 1])
      /\ UNCHANGED <<pc, instance, guard_bit0, data, first_key, segments, levels_offsets>>
      /\ UNCHANGED <<phase, header_bytes, written>>
  BY DEF WriteUnit, vars, index, parameters
<1>2. /\ pc = "built" /\ written = Contents /\ Is("mapped")
      /\ IsPartial(file, first_key, levels_offsets, segments, data)
  BY <1>1 DEF FileInv, MappedInv
<1>3. IsWhole
  BY <1>1, <1>2, WholeHeld DEF FileInv, Held
<1>4. IsPartial(file', first_key, levels_offsets, segments, data)
  BY <1>1, <1>2, <1>3, ImageIs, FileGrows DEF IsWhole
<1>5. IsWritten(instance, written, file')
  BY <1>2, <1>3, <1>4 DEF IsWritten, IsWhole, Contents
<1>6. BuildInv'
  BY <1>1, <1>2 DEF FileInv, BuildInv, Held
<1>7. Contents' = Contents
  BY <1>1 DEF Contents
<1>8. MappedInv'
  BY <1>1, <1>2, <1>4, <1>5, <1>7 DEF FileInv, MappedInv, Is
<1> QED
  BY <1>6, <1>8 DEF FileInv

LEMMA PatchHeaderKeeps ==
    ASSUME FileInv, PatchHeader
    PROVE  FileInv'
<1>1. /\ phase = "writing" /\ Len(file) = Len(Image) /\ file' = [file EXCEPT ![1] = HeaderSize]
      /\ phase' = "mapped" /\ header_bytes' = HeaderSize
      /\ UNCHANGED <<pc, instance, guard_bit0, data, first_key, segments, levels_offsets, written>>
  BY DEF PatchHeader, AllWritten, vars, index, parameters
<1>2. /\ pc = "built" /\ written = Contents /\ Is("mapped")
      /\ IsPartial(file, first_key, levels_offsets, segments, data)
  BY <1>1 DEF FileInv, MappedInv
<1>3. IsWhole
  BY <1>1, <1>2, WholeHeld DEF FileInv, Held
<1>4. IsPatched(file', first_key, levels_offsets, segments, data)
  <2>1. HeaderSize = HeaderOf(levels_offsets, segments)
    BY DEF HeaderSize, HeaderOf
  <2> QED BY <1>1, <1>2, <1>3, <2>1, ImageIs, FilePatched DEF IsWhole
<1>5. IsWritten(instance, written, file')
  BY <1>2, <1>3, <1>4 DEF IsWritten, IsWhole, Contents
<1>6. BuildInv'
  BY <1>1, <1>2 DEF FileInv, BuildInv, Held
<1>7. Contents' = Contents
  BY <1>1 DEF Contents
<1>9. HeaderSize # 0
  <2>1. Len(levels_offsets) \in Nat /\ Len(segments) \in Nat
    BY <1>3 DEF IsWhole
  <2> QED BY <2>1 DEF HeaderSize
<1>10. MappedInv'
  BY <1>1, <1>2, <1>4, <1>5, <1>7, <1>9 DEF FileInv, MappedInv, Is
<1> QED
  BY <1>6, <1>10 DEF FileInv

LEMMA LoseKeeps ==
    ASSUME FileInv, Lose
    PROVE  FileInv'
<1>1. /\ pc = "built" /\ phase \in {"writing", "mapped"} /\ phase' = "gone" /\ header_bytes' = 0
      /\ UNCHANGED <<pc, instance, guard_bit0, file, written>>
  BY DEF Lose, parameters
<1>2. BuildInv'
  BY <1>1 DEF FileInv, BuildInv, Held
<1>3. MappedInv'
  BY <1>1 DEF FileInv, MappedInv, Is
<1> QED
  BY <1>2, <1>3 DEF FileInv

(* An unfinished file has no header.                                       *)
LEMMA PartialUnpatched ==
    ASSUME NEW f \in Nat, NEW O \in Seq(Nat), NEW S \in Seq(SegmentRecord), NEW d \in Seq(Nat),
           NEW g, IsPartial(g, f, O, S, d), g # << >>
    PROVE  g[1] = 0
<1>1. g \in Seq(Units) /\ \A i \in 1..Len(g) : g[i] = ImageOf(f, O, S, d)[i]
  BY DEF IsPartial
<1>2. 1 \in 1..Len(g)
  BY <1>1
<1> QED
  BY <1>1, <1>2, ImageHolds

(* The keys of a whole file are read as they were written.                 *)
LEMMA KeysRead ==
    ASSUME NEW f \in Nat, NEW O \in Seq(Nat), NEW S \in Seq(SegmentRecord), NEW d \in Seq(Nat),
           IsPatched(file, f, O, S, d)
    PROVE  [i \in 1..file[2] |-> AsKey(file[1] + i)] = d
<1>1. PICK nO \in Nat, nS \in Nat, nd \in Nat : nO = Len(O) /\ nS = Len(S) /\ nd = Len(d)
  OBVIOUS
<1>2. /\ file[2] = nd /\ file[4] = nO /\ file[5 + nO] = nS /\ file[1] = 5 + nO + nS
      /\ Len(file) = file[1] + file[2]
      /\ \A i \in 1..nd : file[file[1] + i] = d[i]
  BY <1>1, FileRead
<1>3. SegmentsBegin = 5 + nO /\ SegmentsEnd = 5 + nO + nS
  BY <1>2 DEF SegmentsBegin, SegmentsEnd
<1>4. ASSUME NEW i \in 1..nd PROVE AsKey(file[1] + i) = d[i]
  <2>1. PICK b \in Nat, e \in Nat : b = 5 + nO /\ e = 5 + nO + nS
    OBVIOUS
  <2>2. PICK x \in Nat : x = file[1] + i /\ x > e /\ ~(x > Len(file))
    <3>1. file[1] + i \in Nat /\ file[1] + i > e /\ Len(file) = e + nd /\ file[1] + i = e + i
      BY <1>2, <2>1
    <3> QED BY <3>1
  <2>3. x \notin (b + 1)..e
    BY <2>2
  <2>4. AsKey(x) = file[x]
    BY <1>3, <2>1, <2>2, <2>3 DEF AsKey
  <2> QED BY <1>2, <2>2, <2>4
<1>5. d = [i \in 1..nd |-> d[i]]
  BY <1>1
<1> QED
  BY <1>2, <1>4, <1>5

LEMMA LoadKeeps ==
    ASSUME FileInv, Load
    PROVE  FileInv'
<1>1. /\ phase = "gone" /\ Is("mapped") /\ IsWritten(instance, written, file)
      /\ pc \in {"built", "undefined"} /\ (pc = "undefined" => ~HoldsContainers)
      /\ instance \in Instances /\ guard_bit0 \in {0, 1} /\ header_bytes = 0
      /\ UNCHANGED <<instance, guard_bit0, file, written>>
  BY DEF Load, FileInv, BuildInv, MappedInv, index, parameters
<1>2. CASE ~HoldsContainers
  <2>1. pc' = "undefined" /\ phase' = "gone" /\ header_bytes' = 0
    BY <1>1, <1>2 DEF Load
  <2>2. BuildInv'
    BY <1>1, <2>1 DEF BuildInv, Held
  <2>3. ~HoldsContainers'
    BY <1>1, <1>2 DEF HoldsContainers, SegmentsBegin, SegmentsEnd
  <2>4. MappedInv'
    BY <1>1, <2>1, <2>3 DEF MappedInv, Is
  <2> QED BY <2>2, <2>4 DEF FileInv
<1>3. CASE HoldsContainers
  <2>1. /\ pc = "built" /\ pc' = "built" /\ phase' = "mapped" /\ header_bytes' = file[1]
        /\ first_key' = file[3]
        /\ levels_offsets' = SubSeq(file, 5, 4 + file[4])
        /\ segments' = SubSeq(file, (5 + file[4]) + 1, (5 + file[4]) + file[5 + file[4]])
        /\ data' = [i \in 1..file[2] |-> AsKey(file[1] + i)]
    BY <1>1, <1>3 DEF Load, SegmentsBegin, SegmentsEnd
  <2>2. CASE file[1] = 0
    <3>1. BuildInv'
      BY <1>1, <2>1, <2>2 DEF BuildInv, Held
    <3>2. MappedInv'
      BY <1>1, <2>1, <2>2 DEF MappedInv, Is
    <3> QED BY <3>1, <3>2 DEF FileInv
  <2>3. CASE file[1] # 0
    <3>1. PICK f, O, S, d :
             /\ written = <<f, O, S, d>> /\ IsIndex(instance, d, f, S, O) /\ IsComplete(instance, O)
             /\ IsPartial(file, f, O, S, d) \/ IsPatched(file, f, O, S, d)
      BY <1>1 DEF IsWritten
    <3>2. f \in Nat /\ O \in Seq(Nat) /\ S \in Seq(SegmentRecord) /\ d \in Seq(Nat)
      BY <1>1, <3>1, IndexTyped
    <3>3. file # << >>
      BY <1>3 DEF HoldsContainers
    <3>4. IsPatched(file, f, O, S, d)
      BY <2>3, <3>1, <3>2, <3>3, PartialUnpatched
    <3>5. /\ file[3] = f /\ file[4] = Len(O) /\ file[5 + Len(O)] = Len(S)
          /\ SubSeq(file, 5, 4 + Len(O)) = O
          /\ SubSeq(file, (5 + Len(O)) + 1, (5 + Len(O)) + Len(S)) = S
      BY <3>2, <3>4, FileRead
    <3>6. data' = d
      BY <2>1, <3>2, <3>4, KeysRead
    <3>7. first_key' = f /\ levels_offsets' = O /\ segments' = S /\ data' = d
      BY <2>1, <3>5, <3>6
    <3>8. BuildInv'
      BY <1>1, <2>1, <3>1, <3>7 DEF BuildInv, Held
    <3>9. written' = Contents'
      BY <1>1, <3>1, <3>7 DEF Contents
    <3>10. MappedInv'
      BY <1>1, <2>1, <2>3, <3>4, <3>7, <3>9 DEF MappedInv, Is
    <3> QED BY <3>8, <3>10 DEF FileInv
  <2> QED BY <2>2, <2>3
<1> QED
  BY <1>2, <1>3

-----------------------------------------------------------------------------
(* The steps of the variants.                                              *)

LEMMA FileInit ==
    ASSUME VariantInit
    PROVE  FileInv
<1>1. /\ instance \in Instances /\ data \in Inputs(instance) /\ pc = "build" /\ segments = << >>
      /\ levels_offsets = <<0>> /\ last_n = n - ignore_last
      /\ first_key \in {0, data[1]}
      /\ phase = "memory" /\ file = << >> /\ written = << >> /\ header_bytes = 0
      /\ guard_bit0 \in {0, 1}
  BY DEF VariantInit, Empty, MappedInit
<1>2. PICK S, O : S = segments /\ O = levels_offsets
  OBVIOUS
<1>3. Len(O) = 1 /\ O[1] = 0 /\ S = << >> /\ O \in Seq(Nat) /\ S \in Seq(SegmentRecord) /\ Len(S) = 0
  BY <1>1, <1>2
<1>4. OffsetsFit(S, O)
  <2>1. \A i, j \in 1..1 : ~(i < j)
    OBVIOUS
  <2>2. O # << >> /\ O[Len(O)] = Len(S)
    <3>1. O[Len(O)] = 0
      BY <1>3
    <3>2. Len(<< >>) = 0
      OBVIOUS
    <3>3. Len(O) # 0
      BY <1>3
    <3> QED BY <1>3, <3>1, <3>2, <3>3
  <2>3. \A i, j \in 1..Len(O) : i < j => O[i] < O[j]
    BY <1>3, <2>1
  <2> QED BY <1>3, <2>2, <2>3 DEF OffsetsFit
<1>5. \A d, recursive : IndexOf(d, S, O, recursive)
  <2>1. 1..(Len(O) - 1) = {}
    BY <1>3
  <2> QED BY <2>1 DEF IndexOf
<1>6. IsIndex(instance, data, first_key, segments, levels_offsets)
  BY <1>1, <1>2, <1>4, <1>5 DEF IsIndex
<1>7. last_n = Indexed(data)
  BY <1>1 DEF Indexed, n, ignore_last
<1>8. IsData(data)
  BY <1>1, InputFacts
<1>9. CountsKeys
  BY <1>1, <1>7 DEF CountsKeys
<1>10. BuildInv
  BY <1>1, <1>6, <1>9 DEF BuildInv, Held
<1>11. MappedInv
  BY <1>1 DEF MappedInv
<1> QED
  BY <1>10, <1>11 DEF FileInv

\* The steps of a search, and what keeps the index and the file in any variant.
SearchStep == Search \/ Return

LEMMA SearchStays ==
    ASSUME SearchStep
    PROVE  /\ UNCHANGED index
           /\ pc \in {"built", "descend", "found", "answered"}
           /\ pc' \in {"built", "descend", "found", "answered", "out_of_bounds"}
<1>1. StartSearch => UNCHANGED index /\ pc = "built" /\ pc' = "descend"
  BY DEF StartSearch
<1>2. Bisect => UNCHANGED index /\ pc = "descend" /\ pc' = "found"
  BY DEF Bisect
<1>3. Descend => UNCHANGED index /\ pc = "descend" /\ pc' \in {"descend", "out_of_bounds"}
  BY DEF Descend, OutOfBounds
<1>4. AtTheBottom => UNCHANGED index /\ pc = "descend" /\ pc' = "found"
  BY DEF AtTheBottom
<1>5. Answer => UNCHANGED index /\ pc = "found" /\ pc' \in {"answered", "out_of_bounds"}
  BY DEF Answer, OutOfBounds
<1>6. Return => UNCHANGED index /\ pc = "answered" /\ pc' = "built"
  BY DEF Return
<1> QED
  BY <1>1, <1>2, <1>3, <1>4, <1>5, <1>6 DEF SearchStep, Search

LEMMA FileStep ==
    ASSUME FileInv, [VariantNext]_all_vars
    PROVE  FileInv'
<1>1. CASE Common
  BY <1>1, BuildFileKeeps DEF Common
<1>2. ASSUME UNCHANGED index, UNCHANGED mapped_vars, pc \notin {"build", "logic_error"},
             pc' \notin {"build", "logic_error", "undefined"}, Searched
      PROVE  FileInv'
  BY <1>2, StaysKeeps DEF Stays, index, parameters
<1>3. (~Is("mapped") => phase = "memory") /\ (phase = "memory" => Searched)
  BY DEF FileInv, MappedInv, Searched
<1>4. CASE Plain
  <2>1. SearchStep /\ UNCHANGED mapped_vars /\ Searched
    BY <1>3, <1>4 DEF Plain, SearchStep, Is
  <2> QED BY <1>2, <2>1, SearchStays
<1>5. CASE Bucketing
  <2>1. UNCHANGED mapped_vars /\ Searched
    BY <1>3, <1>5 DEF Bucketing, Is
  <2>2. CASE BuildTopLevel
    <3>1. UNCHANGED index /\ pc = "built" /\ pc' \in {"built", "invalid_argument"}
      BY <2>2 DEF BuildTopLevel
    <3> QED BY <1>2, <2>1, <3>1
  <2>3. CASE BucketingSearch
    <3>1. UNCHANGED index /\ pc = "built" /\ pc' \in {"found", "answered"}
      BY <2>3 DEF BucketingSearch
    <3> QED BY <1>2, <2>1, <3>1
  <2>4. CASE Answer \/ Return
    <3>1. SearchStep
      BY <2>4 DEF SearchStep, Search
    <3> QED BY <1>2, <2>1, <3>1, SearchStays
  <2> QED BY <1>5, <2>2, <2>3, <2>4 DEF Bucketing
<1>6. CASE EliasFano
  <2>1. UNCHANGED mapped_vars /\ Searched
    BY <1>3, <1>6 DEF EliasFano, Is
  <2>2. CASE BuildVector
    <3>1. UNCHANGED index /\ pc = "built" /\ pc' = "built"
      BY <2>2 DEF BuildVector
    <3> QED BY <1>2, <2>1, <3>1
  <2>3. CASE EliasFanoSearch
    <3>1. UNCHANGED index /\ pc = "built" /\ pc' \in {"found", "out_of_bounds"}
      BY <2>3 DEF EliasFanoSearch
    <3> QED BY <1>2, <2>1, <3>1
  <2>4. CASE EliasFanoAnswer
    <3>1. UNCHANGED index /\ pc = "found" /\ pc' = "answered"
      BY <2>4 DEF EliasFanoAnswer
    <3> QED BY <1>2, <2>1, <3>1
  <2>5. CASE EliasFanoReturn
    <3>1. UNCHANGED index /\ pc = "answered" /\ pc' = "built"
      BY <2>5 DEF EliasFanoReturn, Return
    <3> QED BY <1>2, <2>1, <3>1
  <2> QED BY <1>6, <2>2, <2>3, <2>4, <2>5 DEF EliasFano
<1>7. CASE Mapped
  <2>1. CASE Serialize
    BY <1>7, <2>1, StartWritingKeeps, WriteUnitKeeps, PatchHeaderKeeps DEF Serialize, Mapped
  <2>2. CASE Lose
    BY <2>2, LoseKeeps
  <2>3. CASE Load
    BY <2>3, LoadKeeps
  <2>4. CASE phase = "mapped" /\ header_bytes # 0 /\ SearchStep /\ UNCHANGED mapped_vars
    BY <1>2, <2>4, SearchStays DEF Searched
  <2> QED BY <1>7, <2>1, <2>2, <2>3, <2>4 DEF Mapped, SearchStep
<1>8. CASE UNCHANGED all_vars
  <2>1. /\ UNCHANGED <<pc, instance, guard_bit0, data, first_key, segments, levels_offsets, last_n>>
        /\ UNCHANGED <<phase, file, header_bytes, written>>
    BY <1>8 DEF all_vars, vars, index, parameters, mapped_vars
  <2>2. BuildInv'
    BY <2>1 DEF FileInv, BuildInv, Held, CountsKeys
  <2>3. Contents' = Contents /\ HoldsContainers' = HoldsContainers
    BY <2>1 DEF Contents, HoldsContainers, SegmentsBegin, SegmentsEnd
  <2>4. MappedInv'
    BY <2>1, <2>3 DEF FileInv, MappedInv, Is
  <2> QED BY <2>2, <2>4 DEF FileInv
<1> QED
  BY <1>1, <1>4, <1>5, <1>6, <1>7, <1>8 DEF VariantNext

-----------------------------------------------------------------------------
(* The vector of Elias and Fano.                                           *)

(* The position of the highest one.                                        *)
LEMMA HighestBit ==
    ASSUME NEW x \in Nat \ {0}
    PROVE  hi(x) \in 0..x /\ 2^hi(x) <= x /\ x < 2^(hi(x) + 1)
<1>1. PICK T : T = {i \in Nat : x < 2^(i + 1)}
  OBVIOUS
<1>2. x \in T
  <2>1. x < 2^x /\ 2^(x + 1) = 2^x + 2^x /\ 2^x \in Nat
    BY PowersOfTwo
  <2>2. x < 2^(x + 1)
    BY <2>1
  <2> QED BY <1>1, <2>2
<1>3. PICK i : i \in T /\ \A j \in T : i <= j
  <2>1. T \in SUBSET Nat /\ T # {}
    BY <1>1, <1>2
  <2> QED BY <2>1, LeastElement
<1>4. i \in Nat /\ i <= x /\ x < 2^(i + 1)
  BY <1>1, <1>2, <1>3
<1>5. 2^i <= x
  <2>1. CASE i = 0
    BY <2>1, PowerZero
  <2>2. CASE i # 0
    <3>1. i - 1 \in Nat /\ (i - 1) + 1 = i /\ ~(i <= i - 1)
      BY <1>4, <2>2
    <3>2. i - 1 \notin T
      BY <1>3, <3>1
    <3>3. ~(x < 2^((i - 1) + 1))
      BY <1>1, <3>1, <3>2
    <3>4. ~(x < 2^i) /\ 2^i \in Nat
      BY <1>4, <3>1, <3>3, PowersOfTwo
    <3> QED BY <3>4
  <2> QED BY <2>1, <2>2
<1>6. \E j \in 0..x : 2^j <= x /\ x < 2^(j + 1)
  BY <1>4, <1>5
<1> QED
  BY <1>6 DEF hi

(* A number and its high and low part.                                     *)
LEMMA Digits ==
    ASSUME NEW a \in Nat, NEW w \in Nat \ {0}
    PROVE  /\ a \div w \in Nat /\ a % w \in Nat /\ a % w < w
           /\ a = (a \div w) * w + (a % w)
<1>1. PICK d \in Nat : d = w /\ d > 0
  OBVIOUS
<1>2. PICK q \in Nat, r \in Nat : q = a \div d /\ r = a % d
  BY <1>1
<1>3. d * q <= a /\ a < d * q + d
  BY <1>1, <1>2, DivisionFacts
<1>4. r = a - d * q
  BY <1>1, <1>2
<1>5. r < d /\ a = d * q + r /\ d * q = q * d
  BY <1>3, <1>4
<1> QED
  BY <1>1, <1>2, <1>5

LEMMA DigitsOrdered ==
    ASSUME NEW w \in Nat \ {0}, NEW a \in Nat, NEW b \in Nat,
           NEW p \in Nat, NEW q \in Nat, NEW r \in Nat, NEW s \in Nat,
           a = p * w + q, b = r * w + s, q < w, s < w
    PROVE  a < b <=> p < r \/ (p = r /\ q < s)
<1>1. CASE p < r
  <2>1. p + 1 <= r
    BY <1>1
  <2>2. (p + 1) * w <= r * w
    BY <2>1
  <2>3. (p + 1) * w = p * w + w
    OBVIOUS
  <2> QED BY <1>1, <2>2, <2>3
<1>2. CASE r < p
  <2>1. r + 1 <= p
    BY <1>2
  <2>2. (r + 1) * w <= p * w
    BY <2>1
  <2>3. (r + 1) * w = r * w + w
    OBVIOUS
  <2> QED BY <1>2, <2>2, <2>3
<1>3. CASE p = r
  BY <1>3
<1> QED
  BY <1>1, <1>2, <1>3

(* The high parts H, below Z, and the low parts L of m numbers in          *)
(* increasing order.                                                       *)
Parts(H, L, m, Z) ==
    /\ m \in Nat \ {0} /\ Z \in Nat \ {0}
    /\ \A i \in 1..m : H[i] \in Nat /\ H[i] < Z /\ L[i] \in Nat
    /\ \A i, j \in 1..m : i < j => H[i] < H[j] \/ (H[i] = H[j] /\ L[i] < L[j])

\* The positions of their ones.
Places(H, m) == {H[i] + i - 1 : i \in 1..m}

(* The vector v of these numbers.                                          *)
Represents(v, H, L, m, Z) ==
    /\ Parts(H, L, m, Z)
    /\ Len(v.low) = m /\ \A i \in 1..m : v.low[i] = L[i]
    /\ Len(v.high) = m + Z
    /\ \A j \in 0..(m + Z - 1) : v.high[j + 1] = IF j \in Places(H, m) THEN 1 ELSE 0

LEMMA PartsFacts ==
    ASSUME NEW v, NEW H, NEW L, NEW m, NEW Z, Represents(v, H, L, m, Z)
    PROVE  /\ m \in Nat /\ m > 0 /\ Z \in Nat /\ Z > 0
           /\ \A i \in 1..m : H[i] \in Nat /\ H[i] < Z /\ L[i] \in Nat
           /\ \A i, j \in 1..m : i < j => H[i] < H[j] \/ (H[i] = H[j] /\ L[i] < L[j])
           /\ \A i, j \in 1..m : i < j => H[i] <= H[j]
<1>1. Parts(H, L, m, Z)
  BY DEF Represents
<1>2. /\ m \in Nat /\ m > 0 /\ Z \in Nat /\ Z > 0
      /\ \A i \in 1..m : H[i] \in Nat /\ H[i] < Z /\ L[i] \in Nat
      /\ \A i, j \in 1..m : i < j => H[i] < H[j] \/ (H[i] = H[j] /\ L[i] < L[j])
  BY <1>1 DEF Parts
<1>3. ASSUME NEW i \in 1..m, NEW j \in 1..m, i < j PROVE H[i] <= H[j]
  <2>1. H[i] \in Nat /\ H[j] \in Nat /\ (H[i] < H[j] \/ H[i] = H[j])
    BY <1>2, <1>3
  <2> QED BY <2>1
<1> QED
  BY <1>2, <1>3

\* The ones of v are at these positions of size bits, and the zeros at the others.
OnesAt(v, P, size) ==
    /\ \A p : p \in Occurrences(v, 1) <=> p \in 0..(size - 1) /\ p \in P
    /\ \A p : p \in Occurrences(v, 0) <=> p \in 0..(size - 1) /\ p \notin P

LEMMA OneAt ==
    ASSUME NEW v, NEW P, NEW size \in Nat, OnesAt(v, P, size), NEW q \in 0..(size - 1)
    PROVE  (q \in P => q \in Occurrences(v, 1)) /\ (q \notin P => q \in Occurrences(v, 0))
BY DEF OnesAt

LEMMA PlaceOf ==
    ASSUME NEW v, NEW H, NEW L, NEW m, NEW Z, Represents(v, H, L, m, Z)
    PROVE  \E P, size : /\ P = Places(H, m) /\ size \in Nat /\ size = m + Z /\ Len(v.high) = size
                        /\ OnesAt(v, P, size)
<1>0. m \in Nat /\ Z \in Nat
  BY PartsFacts
<1>1. PICK size \in Nat : size = m + Z /\ Len(v.high) = size
  <2>2. Len(v.high) = m + Z
    BY DEF Represents
  <2> QED BY <1>0, <2>2
<1>5. PICK P : P = Places(H, m)
  OBVIOUS
<1>2. \A p \in 0..(size - 1) : v.high[p + 1] = IF p \in P THEN 1 ELSE 0
  <2>1. 0..(size - 1) = 0..(m + Z - 1)
    BY <1>0, <1>1
  <2> QED BY <1>5, <2>1 DEF Represents
<1>4. /\ Occurrences(v, 1) = {p \in 0..(size - 1) : v.high[p + 1] = 1}
      /\ Occurrences(v, 0) = {p \in 0..(size - 1) : v.high[p + 1] = 0}
  BY <1>1 DEF Occurrences
<1>6. OnesAt(v, P, size)
  BY <1>2, <1>4 DEF OnesAt
<1> QED
  BY <1>1, <1>5, <1>6

\* The first r of the m numbers are those in T.
IsHead(T, m, r) == r \in 0..m /\ \A i \in 1..m : i \in T <=> i <= r

LEMMA HeadExists ==
    ASSUME NEW m \in Nat, NEW T,
           \A i, j \in 1..m : i <= j /\ j \in T => i \in T
    PROVE  \E r \in 0..m : IsHead(T, m, r)
<1>1. PICK U : U = (1..m) \cap T
  OBVIOUS
<1>2. CASE U = {}
  <2>1. 0 \in 0..m /\ \A i \in 1..m : i \in T <=> i <= 0
    BY <1>1, <1>2
  <2> QED BY <2>1 DEF IsHead
<1>3. CASE U # {}
  <2>1. U \in SUBSET Int /\ (\A i \in U : i <= m) /\ m \in Int
    BY <1>1
  <2>2. PICK r : r \in U /\ \A i \in U : i <= r
    BY <1>3, <2>1, GreatestElement
  <2>3. r \in 1..m /\ r \in T
    BY <1>1, <2>2
  <2>4. \A i \in 1..m : i \in T <=> i <= r
    BY <1>1, <2>2, <2>3
  <2> QED BY <2>3, <2>4 DEF IsHead
<1> QED
  BY <1>2, <1>3

\* How many numbers have a high part of at most h; how many are below that of h and l.
UpTo(H, m, h, r) == r \in 0..m /\ \A i \in 1..m : H[i] <= h <=> i <= r
Under(H, L, m, h, l, c) ==
    c \in 0..m /\ \A i \in 1..m : (H[i] < h \/ (H[i] = h /\ L[i] < l)) <=> i <= c
\* How many of the numbers' ones are at most at position j.
OnesTo(H, m, j, c) == c \in 0..m /\ \A i \in 1..m : H[i] + i - 1 <= j <=> i <= c

LEMMA UpToExists ==
    ASSUME NEW v, NEW H, NEW L, NEW m, NEW Z, Represents(v, H, L, m, Z), NEW h \in Nat
    PROVE  \E r \in Nat : UpTo(H, m, h, r)
<1>1. /\ m \in Nat /\ \A i \in 1..m : H[i] \in Nat
      /\ \A i, j \in 1..m : i < j => H[i] <= H[j]
  BY PartsFacts
<1>2. PICK T : T = {i \in 1..m : H[i] <= h}
  OBVIOUS
<1>3. ASSUME NEW i \in 1..m, NEW j \in 1..m, i <= j, j \in T PROVE i \in T
  <2>1. H[j] <= h /\ H[i] <= H[j] /\ H[i] \in Nat /\ H[j] \in Nat
    BY <1>1, <1>2, <1>3
  <2> QED BY <1>2, <2>1
<1>4. PICK r \in 0..m : IsHead(T, m, r)
  BY <1>1, <1>3, HeadExists
<1>5. r \in Nat /\ \A i \in 1..m : H[i] <= h <=> i <= r
  BY <1>1, <1>2, <1>4 DEF IsHead
<1>6. UpTo(H, m, h, r)
  BY <1>5 DEF UpTo
<1> QED
  BY <1>5, <1>6

LEMMA UnderExists ==
    ASSUME NEW v, NEW H, NEW L, NEW m, NEW Z, Represents(v, H, L, m, Z), NEW h \in Nat, NEW l \in Nat
    PROVE  \E c \in Nat : Under(H, L, m, h, l, c)
<1>1. /\ m \in Nat /\ \A i \in 1..m : H[i] \in Nat /\ L[i] \in Nat
      /\ \A i, j \in 1..m : i < j => H[i] < H[j] \/ (H[i] = H[j] /\ L[i] < L[j])
  BY PartsFacts
<1>2. PICK T : T = {i \in 1..m : H[i] < h \/ (H[i] = h /\ L[i] < l)}
  OBVIOUS
<1>3. ASSUME NEW i \in 1..m, NEW j \in 1..m, i <= j, j \in T PROVE i \in T
  <2>1. /\ H[j] < h \/ (H[j] = h /\ L[j] < l)
        /\ H[i] \in Nat /\ H[j] \in Nat /\ L[i] \in Nat /\ L[j] \in Nat
    BY <1>1, <1>2, <1>3
  <2>2. i = j \/ H[i] < H[j] \/ (H[i] = H[j] /\ L[i] < L[j])
    BY <1>1, <1>3
  <2> QED BY <1>2, <1>3, <2>1, <2>2
<1>4. PICK r \in 0..m : IsHead(T, m, r)
  BY <1>1, <1>3, HeadExists
<1>5. r \in Nat /\ \A i \in 1..m : (H[i] < h \/ (H[i] = h /\ L[i] < l)) <=> i <= r
  BY <1>1, <1>2, <1>4 DEF IsHead
<1>6. Under(H, L, m, h, l, r)
  BY <1>5 DEF Under
<1> QED
  BY <1>5, <1>6

LEMMA OnesToExists ==
    ASSUME NEW v, NEW H, NEW L, NEW m, NEW Z, Represents(v, H, L, m, Z), NEW p \in Nat
    PROVE  \E c \in Nat : OnesTo(H, m, p, c)
<1>1. /\ m \in Nat /\ \A i \in 1..m : H[i] \in Nat
      /\ \A i, j \in 1..m : i < j => H[i] <= H[j]
  BY PartsFacts
<1>2. PICK T : T = {i \in 1..m : H[i] + i - 1 <= p}
  OBVIOUS
<1>3. ASSUME NEW i \in 1..m, NEW j \in 1..m, i <= j, j \in T PROVE i \in T
  <2>1. H[j] + j - 1 <= p /\ H[i] <= H[j] /\ H[i] \in Nat /\ H[j] \in Nat
    BY <1>1, <1>2, <1>3
  <2>2. H[i] + i - 1 <= p
    BY <1>3, <2>1
  <2> QED BY <1>2, <2>2
<1>4. PICK r \in 0..m : IsHead(T, m, r)
  BY <1>1, <1>3, HeadExists
<1>5. r \in Nat /\ \A i \in 1..m : H[i] + i - 1 <= p <=> i <= r
  BY <1>1, <1>2, <1>4 DEF IsHead
<1>6. OnesTo(H, m, p, r)
  BY <1>5 DEF OnesTo
<1> QED
  BY <1>5, <1>6

\* The positions of the bits bit up to position j.
BitsTo(v, bit, j) == {h \in Occurrences(v, bit) : h <= j}

(* How many ones and zeros there are up to a position.                     *)
LEMMA BitsCounted ==
    ASSUME NEW v, NEW H, NEW L, NEW m, NEW Z, Represents(v, H, L, m, Z),
           NEW j \in 0..(m + Z - 1), NEW c \in Nat, OnesTo(H, m, j, c)
    PROVE  /\ IsFiniteSet(BitsTo(v, 1, j)) /\ Cardinality(BitsTo(v, 1, j)) = c
           /\ IsFiniteSet(BitsTo(v, 0, j)) /\ Cardinality(BitsTo(v, 0, j)) = j + 1 - c
<1>1. /\ m \in Nat /\ Z \in Nat /\ \A i \in 1..m : H[i] \in Nat
      /\ \A i1, i2 \in 1..m : i1 < i2 => H[i1] <= H[i2]
  BY PartsFacts
<1>2. c \in 0..m /\ \A i \in 1..m : H[i] + i - 1 <= j <=> i <= c
  BY DEF OnesTo
<1>3. PICK A : A = BitsTo(v, 1, j)
  OBVIOUS
<1>4. PICK B : B = BitsTo(v, 0, j)
  OBVIOUS
<1>0. PICK X : X = Places(H, m)
  OBVIOUS
<1>9. ASSUME NEW p \in 0..j
      PROVE  p \in 0..(Len(v.high) - 1) /\ v.high[p + 1] = IF p \in X THEN 1 ELSE 0
  <2>1. p \in 0..(m + Z - 1)
    BY <1>1
  <2>2. v.high[p + 1] = IF p \in X THEN 1 ELSE 0
    BY <1>0, <2>1 DEF Represents
  <2>3. Len(v.high) = m + Z
    BY DEF Represents
  <2>4. p \in 0..(Len(v.high) - 1)
    BY <1>1, <2>1, <2>3
  <2> QED BY <2>2, <2>4
<1>10. ASSUME NEW bit, NEW p PROVE p \in BitsTo(v, bit, j) <=> p \in 0..j /\ v.high[p + 1] = bit
  <2>1. Len(v.high) = m + Z
    BY DEF Represents
  <2>2. p \in 0..(Len(v.high) - 1) /\ p <= j <=> p \in 0..j
    BY <1>1, <2>1
  <2> QED BY <2>2 DEF BitsTo, Occurrences
<1>5. \A p : p \in A <=> p \in 0..j /\ p \in X
  BY <1>3, <1>9, <1>10
<1>6. \A p : p \in B <=> p \in 0..j /\ p \notin A
  BY <1>4, <1>5, <1>9, <1>10
<1>7. IsFiniteSet(A) /\ Cardinality(A) = c
  <2>1. PICK f : f = [i \in 1..c |-> H[i] + i - 1]
    OBVIOUS
  <2>2. \A i \in 1..c : i \in 1..m /\ f[i] = H[i] + i - 1 /\ H[i] \in Nat
    BY <1>1, <1>2, <2>1
  <2>3. f \in [1..c -> A]
    <3>1. ASSUME NEW i \in 1..c PROVE f[i] \in A
      <4>1. i \in 1..m /\ i <= c
        BY <1>1, <1>2
      <4>2. f[i] <= j /\ f[i] \in 0..j
        BY <1>2, <2>2, <4>1
      <4>3. f[i] \in X
        BY <1>0, <2>2, <4>1 DEF Places
      <4> QED BY <1>5, <4>2, <4>3
    <3> QED BY <2>1, <3>1
  <2>4. ASSUME NEW i1 \in 1..c, NEW i2 \in 1..c, f[i1] = f[i2] PROVE i1 = i2
    <3>1. ASSUME NEW a \in 1..c, NEW b \in 1..c, a < b PROVE f[a] < f[b]
      <4>1. H[a] <= H[b] /\ H[a] \in Nat /\ H[b] \in Nat
        BY <1>1, <2>2, <3>1
      <4> QED BY <2>2, <3>1, <4>1
    <3>2. f[i1] \in Int /\ f[i2] \in Int
      BY <2>2
    <3>3. ~(i1 < i2) /\ ~(i2 < i1)
      BY <2>4, <3>1, <3>2
    <3> QED BY <3>3
  <2>5. ASSUME NEW p \in A PROVE \E i \in 1..c : f[i] = p
    <3>1. PICK i \in 1..m : p = H[i] + i - 1 /\ p \in 0..j
      BY <1>0, <1>5 DEF Places
    <3>2. i \in 1..c
      BY <1>1, <1>2, <3>1
    <3> QED BY <2>2, <3>1, <3>2
  <2>6. ExistsBijection(1..c, A)
    BY <2>3, <2>4, <2>5 DEF ExistsBijection, Bijection, Injection, Surjection, IsInjective
  <2>7. IsFiniteSet(1..c) /\ Cardinality(1..c) = c
    <3>1. IsFiniteSet(1..c) /\ Cardinality(1..c) = IF 1 > c THEN 0 ELSE c - 1 + 1
      BY FS_Interval, 1 \in Int, c \in Int
    <3> QED BY <3>1
  <2> QED BY <2>6, <2>7, FS_Bijection
<1>8. IsFiniteSet(B) /\ Cardinality(B) = j + 1 - c
  <2>1. B = (0..j) \ A /\ (0..j) \cap A = A
    BY <1>5, <1>6
  <2>2. j \in Int /\ IsFiniteSet(0..j) /\ Cardinality(0..j) = j + 1
    <3>1. j \in Nat
      BY <1>1
    <3>2. IsFiniteSet(0..j) /\ Cardinality(0..j) = IF 0 > j THEN 0 ELSE j - 0 + 1
      BY <3>1, FS_Interval, 0 \in Int, j \in Int
    <3> QED BY <3>1, <3>2
  <2>3. IsFiniteSet((0..j) \ A) /\ Cardinality((0..j) \ A) = Cardinality(0..j) - Cardinality((0..j) \cap A)
    BY <2>2, FS_Difference
  <2>4. j + 1 - c = (j + 1) - c
    BY <2>2
  <2> QED BY <1>7, <2>1, <2>2, <2>3, <2>4
<1> QED
  BY <1>3, <1>4, <1>7, <1>8

(* An occurrence is selected by how many there are up to it.               *)
LEMMA Selected ==
    ASSUME NEW v, NEW bit, NEW j, NEW c,
           j \in Occurrences(v, bit), IsFiniteSet(BitsTo(v, bit, j)), Cardinality(BitsTo(v, bit, j)) = c,
           \A h \in Occurrences(v, bit) : h \in Int /\ IsFiniteSet(BitsTo(v, bit, h))
    PROVE  high_select(v, bit, c) = j
<1>1. ASSUME NEW a \in Occurrences(v, bit), NEW b \in Occurrences(v, bit), a < b
      PROVE  Cardinality(BitsTo(v, bit, a)) # Cardinality(BitsTo(v, bit, b))
  <2>1. PICK A, B : A = BitsTo(v, bit, a) /\ B = BitsTo(v, bit, b)
    OBVIOUS
  <2>2. A \in SUBSET B /\ b \in B /\ b \notin A
    <3>1. a \in Int /\ b \in Int /\ \A h \in Occurrences(v, bit) : h \in Int
      OBVIOUS
    <3>2. \A h \in Occurrences(v, bit) : h <= a => h <= b
      BY <1>1, <3>1
    <3>3. b <= b /\ ~(b <= a)
      BY <1>1, <3>1
    <3> QED BY <2>1, <3>2, <3>3 DEF BitsTo
  <2>3. IsFiniteSet(B) /\ A # B
    BY <2>1, <2>2
  <2>4. Cardinality(B) = Cardinality(A) => B = A
    BY <2>2, <2>3, FS_Subset
  <2> QED BY <2>1, <2>3, <2>4
<1>2. ASSUME NEW h \in Occurrences(v, bit), Cardinality(BitsTo(v, bit, h)) = c PROVE h = j
  <2>1. h \in Int /\ j \in Int
    OBVIOUS
  <2>2. ~(h < j) /\ ~(j < h)
    BY <1>1, <1>2
  <2> QED BY <2>1, <2>2
<1>3. PICK d : d = high_select(v, bit, c)
  OBVIOUS
<1>4. d = CHOOSE h \in Occurrences(v, bit) : Cardinality(BitsTo(v, bit, h)) = c
  BY <1>3 DEF high_select, BitsTo
<1>5. d \in Occurrences(v, bit) /\ Cardinality(BitsTo(v, bit, d)) = c
  BY <1>4
<1> QED
  BY <1>2, <1>3, <1>5

LEMMA BitsFinite ==
    ASSUME NEW v, NEW H, NEW L, NEW m, NEW Z, Represents(v, H, L, m, Z), NEW bit \in {0, 1}
    PROVE  \A h \in Occurrences(v, bit) : h \in Int /\ IsFiniteSet(BitsTo(v, bit, h))
<1> SUFFICES ASSUME NEW h \in Occurrences(v, bit) PROVE h \in Int /\ IsFiniteSet(BitsTo(v, bit, h))
  OBVIOUS
<1>1. m \in Nat /\ Z \in Nat
  BY PartsFacts
<1>2. h \in 0..(m + Z - 1)
  <2>1. PICK P, size : size = m + Z /\ OnesAt(v, P, size)
    BY PlaceOf
  <2>2. h \in 0..(size - 1)
    BY <2>1 DEF OnesAt
  <2> QED BY <1>1, <2>1, <2>2
<1>3. h \in Nat
  BY <1>1, <1>2
<1>4. PICK c \in Nat : OnesTo(H, m, h, c)
  BY <1>3, OnesToExists
<1> QED
  BY <1>2, <1>3, <1>4, BitsCounted

LEMMA ZeroSelected ==
    ASSUME NEW v, NEW H, NEW L, NEW m, NEW Z, Represents(v, H, L, m, Z),
           NEW h \in Nat, h < Z, NEW r \in Nat, UpTo(H, m, h, r)
    PROVE  high_select(v, 0, h + 1) = h + r
<1>1. /\ m \in Nat /\ Z \in Nat /\ \A i \in 1..m : H[i] \in Nat
  BY PartsFacts
<1>2. r \in 0..m /\ \A i \in 1..m : H[i] <= h <=> i <= r
  BY DEF UpTo
<1>3. h + r \in 0..(m + Z - 1) /\ h + r \in Nat
  BY <1>1, <1>2
<1>4. ASSUME NEW i \in 1..m
      PROVE  /\ i <= r => H[i] + i - 1 < h + r
             /\ ~(i <= r) => H[i] + i - 1 > h + r
  <2>1. H[i] \in Nat /\ i \in Nat /\ (H[i] <= h <=> i <= r)
    BY <1>1, <1>2
  <2> QED BY <2>1
<1>5. OnesTo(H, m, h + r, r)
  <2>1. ASSUME NEW i \in 1..m PROVE H[i] + i - 1 <= h + r <=> i <= r
    <3>1. H[i] + i - 1 \in Int
      BY <1>1
    <3> QED BY <1>3, <1>4, <3>1
  <2> QED BY <1>2, <2>1 DEF OnesTo
<1>6. h + r \notin Places(H, m)
  <2>1. ASSUME NEW i \in 1..m PROVE h + r # H[i] + i - 1
    <3>1. H[i] + i - 1 \in Int
      BY <1>1
    <3> QED BY <1>3, <1>4, <3>1
  <2> QED BY <2>1 DEF Places
<1>7. h + r \in Occurrences(v, 0)
  <2>1. PICK P, size : P = Places(H, m) /\ size \in Nat /\ size = m + Z /\ OnesAt(v, P, size)
    BY PlaceOf
  <2>2. PICK p : p = h + r /\ p \in 0..(size - 1) /\ p \notin P
    BY <1>1, <1>3, <1>6, <2>1
  <2>3. p \in Occurrences(v, 0)
    BY <2>1, <2>2 DEF OnesAt
  <2> QED BY <2>2, <2>3
<1>8. IsFiniteSet(BitsTo(v, 0, h + r)) /\ Cardinality(BitsTo(v, 0, h + r)) = h + 1
  <2>1. IsFiniteSet(BitsTo(v, 0, h + r)) /\ Cardinality(BitsTo(v, 0, h + r)) = (h + r) + 1 - r
    BY <1>3, <1>5, BitsCounted
  <2>2. (h + r) + 1 - r = h + 1
    BY <1>3
  <2> QED BY <2>1, <2>2
<1>9. \A p \in Occurrences(v, 0) : p \in Int /\ IsFiniteSet(BitsTo(v, 0, p))
  BY BitsFinite
<1> QED
  BY <1>7, <1>8, <1>9, Selected

LEMMA OneSelected ==
    ASSUME NEW v, NEW H, NEW L, NEW m, NEW Z, Represents(v, H, L, m, Z), NEW i \in 1..m
    PROVE  high_select(v, 1, i) = H[i] + i - 1
<1>1. /\ m \in Nat /\ Z \in Nat /\ \A j \in 1..m : H[j] \in Nat /\ H[j] < Z
      /\ \A j1, j2 \in 1..m : j1 < j2 => H[j1] <= H[j2]
  BY PartsFacts
<1>2. PICK p \in Nat : p = H[i] + i - 1
  BY <1>1
<1>3. p \in 0..(m + Z - 1) /\ i \in Nat
  <2>1. H[i] \in Nat /\ H[i] < Z
    BY <1>1
  <2> QED BY <1>1, <1>2, <2>1
<1>4. OnesTo(H, m, p, i)
  <2>1. ASSUME NEW j \in 1..m PROVE H[j] + j - 1 <= p <=> j <= i
    <3>1. H[j] \in Nat /\ H[i] \in Nat /\ (j < i => H[j] <= H[i]) /\ (i < j => H[i] <= H[j])
      BY <1>1
    <3>2. CASE j < i
      BY <1>2, <3>1, <3>2
    <3>3. CASE j > i
      <4>1. H[i] <= H[j] /\ j \in Nat
        BY <1>1, <3>1, <3>3
      <4> QED BY <1>2, <1>3, <3>1, <3>3, <4>1
    <3>4. CASE j = i
      BY <1>2, <1>3, <3>1, <3>4
    <3> QED BY <1>1, <1>3, <3>2, <3>3, <3>4
  <2>2. i \in 0..m
    BY <1>1
  <2> QED BY <2>1, <2>2 DEF OnesTo
<1>5. p \in Occurrences(v, 1)
  <2>1. p \in Places(H, m)
    BY <1>2 DEF Places
  <2>3. PICK P, size : P = Places(H, m) /\ size \in Nat /\ size = m + Z /\ OnesAt(v, P, size)
    BY PlaceOf
  <2>2. p \in 0..(size - 1) /\ p \in P
    BY <1>1, <1>3, <2>1, <2>3
  <2> QED BY <2>2, <2>3, OneAt
<1>6. IsFiniteSet(BitsTo(v, 1, p)) /\ Cardinality(BitsTo(v, 1, p)) = i
  BY <1>3, <1>4, BitsCounted
<1>7. \A q \in Occurrences(v, 1) : q \in Int /\ IsFiniteSet(BitsTo(v, 1, q))
  BY BitsFinite
<1> QED
  BY <1>2, <1>5, <1>6, <1>7, Selected

(* The bit just below the numbers not under h and l is the one of the last *)
(* number under them, if that has the high part h, and else a zero.        *)
LEMMA BitUnder ==
    ASSUME NEW v, NEW H, NEW L, NEW m, NEW Z, Represents(v, H, L, m, Z),
           NEW h \in Nat, h < Z, NEW l \in Nat, NEW c \in Nat, Under(H, L, m, h, l, c), h + c >= 1
    PROVE  /\ h + c - 1 \in 0..(m + Z - 1)
           /\ v.high[h + c] = IF c >= 1 /\ H[c] = h THEN 1 ELSE 0
           /\ h + c - 1 \in Places(H, m) <=> c >= 1 /\ H[c] = h
<1>1. /\ m \in Nat /\ Z \in Nat /\ \A i \in 1..m : H[i] \in Nat
      /\ \A i, j \in 1..m : i < j => H[i] <= H[j]
  BY PartsFacts
<1>2. c \in 0..m /\ \A i \in 1..m : (H[i] < h \/ (H[i] = h /\ L[i] < l)) <=> i <= c
  BY DEF Under
<1>3. PICK p \in Nat : p = h + c - 1 /\ p + 1 = h + c /\ p \in 0..(m + Z - 1)
  BY <1>1, <1>2
<1>4. ASSUME c >= 1, H[c] = h PROVE p \in Places(H, m)
  <2>1. c \in 1..m /\ p = H[c] + c - 1
    BY <1>1, <1>2, <1>3, <1>4
  <2> QED BY <2>1 DEF Places
<1>5. ASSUME NEW i \in 1..m, p = H[i] + i - 1 PROVE c >= 1 /\ H[c] = h
  <2>1. H[i] \in Nat /\ i \in Nat /\ i >= 1
    BY <1>1
  <2>2. CASE ~(i <= c)
    <3>1. ~(H[i] < h)
      BY <1>2, <2>2
    <3> QED BY <1>3, <1>5, <2>1, <2>2, <3>1
  <2>3. CASE i <= c
    <3>1. c \in 1..m /\ c >= 1
      BY <1>1, <1>2, <2>1, <2>3
    <3>2. H[c] <= h /\ H[c] \in Nat
      <4>1. H[c] < h \/ H[c] = h
        BY <1>2, <3>1
      <4> QED BY <1>1, <3>1, <4>1
    <3>3. i < c => H[i] <= H[c]
      BY <1>1, <3>1
    <3>4. ~(i < c)
      BY <1>3, <1>5, <2>1, <3>2, <3>3
    <3>5. i = c
      BY <2>1, <2>3, <3>4
    <3>6. H[c] = h
      <4>1. h + c - 1 = H[c] + c - 1 /\ c \in Nat
        BY <1>3, <1>5, <3>5
      <4> QED BY <3>2, <4>1
    <3> QED BY <3>1, <3>6
  <2> QED BY <2>2, <2>3
<1>6. p \in Places(H, m) <=> c >= 1 /\ H[c] = h
  BY <1>4, <1>5 DEF Places
<1>7. v.high[p + 1] = IF p \in Places(H, m) THEN 1 ELSE 0
  BY <1>3 DEF Represents
<1> QED
  BY <1>3, <1>6, <1>7

(* The search goes down to the last number under h and l.                  *)
LEMMA StepsTaken ==
    ASSUME NEW v, NEW H, NEW L, NEW m, NEW Z, Represents(v, H, L, m, Z),
           NEW h \in Nat, h < Z, NEW l \in Nat,
           NEW r \in Nat, UpTo(H, m, h, r), NEW c \in Nat, Under(H, L, m, h, l, c)
    PROVE  c <= r /\ StepsDown(v, h + r, r, l) = r - c + 1
<1>1. /\ m \in Nat /\ Z \in Nat /\ \A i \in 1..m : H[i] \in Nat /\ L[i] \in Nat
  BY PartsFacts
<1>2. /\ c \in 0..m /\ \A i \in 1..m : (H[i] < h \/ (H[i] = h /\ L[i] < l)) <=> i <= c
      /\ r \in 0..m /\ \A i \in 1..m : H[i] <= h <=> i <= r
  BY DEF Under, UpTo
<1>3. c <= r
  <2> SUFFICES ASSUME ~(c <= r) PROVE FALSE
    OBVIOUS
  <2>1. c \in 1..m
    BY <1>1, <1>2
  <2>2. H[c] < h \/ H[c] = h
    BY <1>1, <1>2, <2>1
  <2>3. H[c] <= h
    BY <1>1, <2>1, <2>2
  <2> QED BY <1>2, <2>1, <2>3
<1>4. PICK sel \in Nat, e \in Nat : sel = h + r /\ e = r - c + 1 /\ e <= sel + 1 /\ e >= 1
  BY <1>3
<1>5. PICK A : A = {d \in 1..sel : \/ v.high[sel - d + 1] = 0
                                   \/ d <= r /\ v.low[r - d + 1] < l}
  OBVIOUS
<1>6. PICK T : T = {sel + 1} \cup A
  OBVIOUS
<1>7. T \in SUBSET Nat /\ T # {}
  BY <1>5, <1>6
\* The ones that are passed over.
<1>8. ASSUME NEW d \in 1..sel, d < e PROVE d \notin A
  <2>1. PICK i \in Nat : i = r - d + 1 /\ i \in 1..m /\ i > c /\ i <= r
    BY <1>1, <1>2, <1>4, <1>8
  <2>2. H[i] = h /\ ~(L[i] < l) /\ H[i] \in Nat
    <3>1. H[i] <= h /\ ~(H[i] < h \/ (H[i] = h /\ L[i] < l)) /\ H[i] \in Nat
      BY <1>1, <1>2, <2>1
    <3> QED BY <3>1
  <2>3. v.low[r - d + 1] = L[i]
    BY <2>1 DEF Represents
  <2>4. PICK p \in Nat : p = sel - d /\ p = H[i] + i - 1 /\ p \in 0..(m + Z - 1)
    BY <1>1, <1>2, <1>4, <2>1, <2>2
  <2>5. v.high[p + 1] = 1
    <3>1. p \in Places(H, m)
      BY <2>1, <2>4 DEF Places
    <3>2. v.high[p + 1] = IF p \in Places(H, m) THEN 1 ELSE 0
      BY <2>4 DEF Represents
    <3> QED BY <3>1, <3>2
  <2>6. v.high[sel - d + 1] = 1
    BY <2>4, <2>5
  <2> QED BY <1>5, <2>2, <2>3, <2>6
<1>9. e \in T
  <2>1. CASE e = sel + 1
    BY <1>6, <2>1
  <2>2. CASE e # sel + 1
    <3>1. e \in 1..sel /\ h + c >= 1 /\ sel - e + 1 = h + c
      BY <1>3, <1>4, <2>2
    <3>2. CASE c >= 1 /\ H[c] = h
      <4>1. c \in 1..m /\ c <= c /\ e <= r /\ r - e + 1 = c
        BY <1>2, <1>3, <1>4, <3>2
      <4>2. L[c] < l
        <5>1. H[c] < h \/ (H[c] = h /\ L[c] < l)
          BY <1>2, <4>1
        <5> QED BY <3>2, <5>1
      <4>3. v.low[r - e + 1] = L[c]
        BY <4>1 DEF Represents
      <4> QED BY <1>5, <1>6, <3>1, <4>1, <4>2, <4>3
    <3>3. CASE ~(c >= 1 /\ H[c] = h)
      <4>1. v.high[h + c] = 0
        BY <3>1, <3>3, BitUnder
      <4> QED BY <1>5, <1>6, <3>1, <4>1
    <3> QED BY <3>2, <3>3
  <2> QED BY <2>1, <2>2
<1>10. Min(T) \in T /\ \A y \in T : Min(T) <= y
  BY <1>7, LeastElement
<1>11. PICK s \in Nat : s = Min(T)
  BY <1>7, <1>10
<1>12. s <= e /\ s \in T
  BY <1>9, <1>10, <1>11
<1>13. ~(s < e)
  <2>1. s \in A \/ s = sel + 1
    BY <1>6, <1>12
  <2>2. s \in A => s \in 1..sel
    BY <1>5
  <2> QED BY <1>4, <1>8, <1>11, <2>1, <2>2
<1>14. s = e
  BY <1>4, <1>11, <1>12, <1>13
<1>15. StepsDown(v, sel, r, l) = Min(T)
  BY <1>5, <1>6 DEF StepsDown
<1> QED
  BY <1>3, <1>4, <1>11, <1>14, <1>15

\* The m numbers N are in increasing order.
Ascends(N, m) ==
    /\ m \in Nat \ {0} /\ \A i \in 1..m : N[i] \in Nat
    /\ \A i, j \in 1..m : i < j => N[i] < N[j]

\* The low parts have W values, and the high parts Z.
HighOf(N, m, W) == [i \in 1..m |-> N[i] \div W]
LowOf(N, m, W) == [i \in 1..m |-> N[i] % W]

(* The vector v of the numbers N.                                          *)
Stores(v, N, m, W, Z) ==
    /\ Ascends(N, m) /\ W \in Nat \ {0} /\ Z \in Nat \ {0}
    /\ 2^v.wl = W /\ v.size = N[m] + 1 /\ v.size < W * Z
    /\ Represents(v, HighOf(N, m, W), LowOf(N, m, W), m, Z)

(* Numbers in increasing order are as many as the last one says at most.   *)
LEMMA AscendsFar ==
    ASSUME NEW N, NEW m, Ascends(N, m)
    PROVE  \A i \in 1..m : i <= N[i] + 1
<1>1. m \in Nat /\ m >= 1 /\ \A i \in 1..m : N[i] \in Nat
  BY DEF Ascends
<1>2. PICK T : T = {i \in 1..m : i <= N[i] + 1}
  OBVIOUS
<1>3. 1 \in T
  BY <1>1, <1>2
<1>4. ASSUME NEW i \in 1..(m - 1), i \in T PROVE i + 1 \in T
  <2>1. i \in 1..m /\ i + 1 \in 1..m /\ i < i + 1
    BY <1>1
  <2>2. i <= N[i] + 1 /\ N[i] < N[i + 1] /\ N[i] \in Nat /\ N[i + 1] \in Nat
    BY <1>1, <1>2, <1>4, <2>1 DEF Ascends
  <2>3. i + 1 <= N[i + 1] + 1
    BY <2>1, <2>2
  <2> QED BY <1>2, <2>1, <2>3
<1>5. \A i \in 1..m : i \in T
  <2>1. 1 \in Int /\ m \in Int
    BY <1>1
  <2> QED BY <1>3, <1>4, <2>1, IntervalInduction
<1> QED
  BY <1>2, <1>5

LEMMA HighestGrows ==
    ASSUME NEW x \in Nat \ {0}, NEW y \in Nat \ {0}, x <= y
    PROVE  hi(x) \in Nat /\ hi(y) \in Nat /\ hi(x) <= hi(y)
<1>1. PICK a \in Nat : a = hi(x) /\ 2^a <= x /\ x < 2^(a + 1)
  BY HighestBit
<1>2. PICK b \in Nat : b = hi(y) /\ 2^b <= y /\ y < 2^(b + 1)
  BY HighestBit
<1>3. ~(b + 1 <= a)
  <2> SUFFICES ASSUME b + 1 <= a PROVE FALSE
    OBVIOUS
  <2>1. b + 1 \in Nat
    OBVIOUS
  <2>2. PICK p \in Nat, q \in Nat : p = 2^(b + 1) /\ q = 2^a
    BY <2>1, PowersOfTwo
  <2>3. p <= q
    BY <2>1, <2>2, PowersGrow
  <2>4. q <= x /\ y < p
    BY <1>1, <1>2, <2>2
  <2> QED BY <2>3, <2>4
<1> QED
  BY <1>1, <1>2, <1>3

\* The widths that sd_vector chooses for m numbers below size: of all, of the high
\* part and of the low part.
Widths(size, m, logn, logm, wl) ==
    /\ logn = hi(size) + 1 /\ logm = (IF hi(m) + 1 = logn THEN hi(m) ELSE hi(m) + 1)
    /\ wl = logn - logm

LEMMA WidthsFit ==
    ASSUME NEW size \in Nat \ {0}, NEW m \in Nat \ {0}, m <= size,
           NEW logn, NEW logm, NEW wl, Widths(size, m, logn, logm, wl)
    PROVE  /\ logn \in Nat /\ logm \in Nat /\ wl \in Nat /\ wl >= 1
           /\ 2^wl \in Nat \ {0} /\ 2^logm \in Nat \ {0} /\ 2^wl * 2^logm = 2^logn
           /\ size < 2^logn
<1>1. PICK a \in Nat, b \in Nat : a = hi(m) /\ b = hi(size) /\ a <= b
  BY HighestGrows
<1>2. /\ logn = b + 1 /\ logm = (IF a + 1 = b + 1 THEN a ELSE a + 1) /\ wl = logn - logm
  BY <1>1 DEF Widths
<1>3. logn \in Nat /\ logm \in Nat /\ wl \in Nat /\ wl >= 1 /\ wl + logm = logn
  BY <1>1, <1>2
<1>4. size < 2^logn
  <2>1. size < 2^(hi(size) + 1)
    BY HighestBit
  <2> QED BY <1>1, <1>2, <2>1
<1>5. 2^(wl + logm) = 2^wl * 2^logm
  BY <1>3, PowersAdd
<1>6. 2^wl \in Nat /\ wl < 2^wl /\ 2^logm \in Nat /\ logm < 2^logm
  BY <1>3, PowersOfTwo
<1>7. 2^wl # 0 /\ 2^logm # 0
  BY <1>3, <1>6
<1> QED
  BY <1>3, <1>4, <1>5, <1>6, <1>7

LEMMA HalvesFit ==
    ASSUME NEW N, NEW m, Ascends(N, m), NEW W \in Nat \ {0}, NEW Z \in Nat \ {0}, N[m] < W * Z
    PROVE  Parts(HighOf(N, m, W), LowOf(N, m, W), m, Z)
<1>1. /\ m \in Nat /\ m >= 1 /\ \A i \in 1..m : N[i] \in Nat
      /\ \A i, j \in 1..m : i < j => N[i] < N[j]
  BY DEF Ascends
<1>2. PICK H, L : H = HighOf(N, m, W) /\ L = LowOf(N, m, W)
  OBVIOUS
<1>3. ASSUME NEW i \in 1..m
      PROVE  H[i] \in Nat /\ L[i] \in Nat /\ L[i] < W /\ N[i] = H[i] * W + L[i]
  <2>1. H[i] = N[i] \div W /\ L[i] = N[i] % W /\ N[i] \in Nat
    BY <1>1, <1>2 DEF HighOf, LowOf
  <2>2. /\ N[i] \div W \in Nat /\ N[i] % W \in Nat /\ N[i] % W < W
        /\ N[i] = (N[i] \div W) * W + (N[i] % W)
    BY <2>1, Digits
  <2> QED BY <2>1, <2>2
<1>4. ASSUME NEW i \in 1..m PROVE H[i] < Z
  <2>1. PICK a \in Nat, q \in Nat, r \in Nat, b \in Nat :
           a = N[i] /\ q = H[i] /\ r = L[i] /\ b = N[m] /\ a = q * W + r
    <3>1. m \in 1..m
      BY <1>1
    <3> QED BY <1>1, <1>3, <3>1
  <2>2. a <= b
    <3>1. i = m \/ i < m
      BY <1>1
    <3>2. m \in 1..m
      BY <1>1
    <3>3. i < m => N[i] < N[m]
      BY <1>1, <3>2
    <3>4. CASE i = m
      <4>1. a = b
        BY <2>1, <3>4
      <4> QED BY <4>1
    <3>5. CASE i < m
      <4>1. a < b
        BY <2>1, <3>3, <3>5
      <4> QED BY <4>1
    <3> QED BY <3>1, <3>4, <3>5
  <2>3. b < W * Z
    BY <2>1
  <2>4. ~(Z <= q)
    <3> SUFFICES ASSUME Z <= q PROVE FALSE
      OBVIOUS
    <3>1. W * Z <= q * W
      OBVIOUS
    <3> QED BY <2>1, <2>2, <2>3, <3>1
  <2> QED BY <2>1, <2>4
<1>5. ASSUME NEW i \in 1..m, NEW j \in 1..m, i < j
      PROVE  H[i] < H[j] \/ (H[i] = H[j] /\ L[i] < L[j])
  <2>1. PICK a \in Nat, b \in Nat : a = N[i] /\ b = N[j] /\ a < b
    BY <1>1, <1>5
  <2>2. a = H[i] * W + L[i] /\ b = H[j] * W + L[j] /\ L[i] < W /\ L[j] < W
    BY <1>3, <2>1
  <2>3. H[i] \in Nat /\ H[j] \in Nat /\ L[i] \in Nat /\ L[j] \in Nat
    BY <1>3
  <2>4. PICK p \in Nat, q \in Nat, r \in Nat, t \in Nat : p = H[i] /\ q = L[i] /\ r = H[j] /\ t = L[j]
    BY <2>3
  <2>5. a = p * W + q /\ b = r * W + t /\ q < W /\ t < W
    BY <2>2, <2>4
  <2>6. p < r \/ (p = r /\ q < t)
    BY <2>1, <2>5, DigitsOrdered
  <2> QED BY <2>4, <2>6
<1> QED
  BY <1>1, <1>2, <1>3, <1>4, <1>5 DEF Parts

(* What sd_vector makes of numbers in increasing order.                    *)
LEMMA VectorStores ==
    ASSUME NEW N, NEW m, Ascends(N, m), Len(N) = m
    PROVE  \E W \in Nat, Z \in Nat, p \in Nat :
              Stores(sd_vector(N), N, m, W, Z) /\ W * Z = 2^p /\ p >= 1
<1>1. /\ m \in Nat /\ m >= 1 /\ \A i \in 1..m : N[i] \in Nat /\ i <= N[i] + 1
  <2>1. m \in Nat /\ m >= 1 /\ \A i \in 1..m : N[i] \in Nat
    BY DEF Ascends
  <2> QED BY <2>1, AscendsFar
<1>2. PICK size \in Nat \ {0} : size = N[m] + 1 /\ m <= size
  <2>1. m \in 1..m
    BY <1>1
  <2>2. N[m] \in Nat /\ m <= N[m] + 1
    BY <1>1, <2>1
  <2> QED BY <2>2
<1>3. PICK logn, logm, wl : Widths(size, m, logn, logm, wl)
  BY DEF Widths
<1>4. /\ logn \in Nat /\ logm \in Nat /\ wl \in Nat /\ wl >= 1
      /\ 2^wl \in Nat \ {0} /\ 2^logm \in Nat \ {0} /\ 2^wl * 2^logm = 2^logn
      /\ size < 2^logn
  BY <1>1, <1>2, <1>3, WidthsFit
<1>5. PICK W \in Nat \ {0}, Z \in Nat \ {0} : W = 2^wl /\ Z = 2^logm /\ W * Z = 2^logn /\ size < W * Z
  BY <1>4
<1>6. PICK v : v = sd_vector(N)
  OBVIOUS
<1>7. PICK H, L : H = HighOf(N, m, W) /\ L = LowOf(N, m, W)
  OBVIOUS
<1>8. Parts(H, L, m, Z)
  <2>1. N[m] < W * Z
    <3>1. N[m] \in Nat /\ W * Z \in Nat
      <4>1. m \in 1..m
        BY <1>1
      <4> QED BY <1>1, <4>1
    <3> QED BY <1>2, <1>5, <3>1
  <2> QED BY <1>7, <2>1, HalvesFit
<1>9. /\ v.size = size /\ v.wl = wl
      /\ v.low = [i \in 1..m |-> N[i] % 2^wl]
      /\ v.high = [j \in 1..(m + 2^logm) |->
                      IF j - 1 \in {(N[i] \div 2^wl) + i - 1 : i \in 1..m} THEN 1 ELSE 0]
  BY <1>2, <1>3, <1>6 DEF sd_vector, Widths
<1>10. Places(H, m) = {(N[i] \div W) + i - 1 : i \in 1..m}
  BY <1>7 DEF Places, HighOf
<1>11. \A i \in 1..m : N[i] % W = L[i]
  BY <1>7 DEF LowOf
<1>12. Len(v.low) = m /\ \A i \in 1..m : v.low[i] = L[i]
  <2>1. v.low = [i \in 1..m |-> N[i] % W]
    BY <1>5, <1>9
  <2> QED BY <1>1, <1>11, <2>1
<1>18. v.high = [j \in 1..(m + Z) |-> IF j - 1 \in Places(H, m) THEN 1 ELSE 0]
  <2>1. 2^wl = W /\ 2^logm = Z
    BY <1>5
  <2> QED BY <1>9, <1>10, <2>1
<1>13. Len(v.high) = m + Z
  <2>1. m + Z \in Nat
    BY <1>1
  <2> QED BY <1>18, <2>1
<1>14. ASSUME NEW j \in 0..(m + Z - 1) PROVE v.high[j + 1] = IF j \in Places(H, m) THEN 1 ELSE 0
  <2>1. j + 1 \in 1..(m + Z) /\ (j + 1) - 1 = j
    BY <1>1
  <2> QED BY <1>18, <2>1
<1>15. Represents(v, H, L, m, Z)
  BY <1>8, <1>12, <1>13, <1>14 DEF Represents
<1>16. Stores(v, N, m, W, Z)
  BY <1>2, <1>5, <1>7, <1>9, <1>15 DEF Stores
<1>17. logn >= 1
  BY <1>3 , <1>4, HighestBit DEF Widths
<1> QED
  BY <1>4, <1>5, <1>6, <1>16, <1>17

\* Of the m numbers N, c are below a.
CountsBelow(N, m, a, c) == c \in 0..m /\ \A i \in 1..m : N[i] < a <=> i <= c

LEMMA BelowExists ==
    ASSUME NEW N, NEW m, Ascends(N, m), NEW a \in Nat
    PROVE  \E c \in Nat : CountsBelow(N, m, a, c)
<1>1. /\ m \in Nat /\ \A i \in 1..m : N[i] \in Nat
      /\ \A i, j \in 1..m : i < j => N[i] < N[j]
  BY DEF Ascends
<1>2. PICK T : T = {i \in 1..m : N[i] < a}
  OBVIOUS
<1>3. ASSUME NEW i \in 1..m, NEW j \in 1..m, i <= j, j \in T PROVE i \in T
  <2>1. N[j] < a /\ (i < j => N[i] < N[j]) /\ (i = j \/ i < j) /\ N[i] \in Nat /\ N[j] \in Nat
    BY <1>1, <1>2, <1>3
  <2>2. N[i] < a
    BY <2>1
  <2> QED BY <1>2, <2>2
<1>4. PICK r \in 0..m : IsHead(T, m, r)
  BY <1>1, <1>3, HeadExists
<1>5. r \in Nat /\ \A i \in 1..m : N[i] < a <=> i <= r
  BY <1>1, <1>2, <1>4 DEF IsHead
<1>6. CountsBelow(N, m, a, r)
  BY <1>5 DEF CountsBelow
<1> QED
  BY <1>5, <1>6

(* What is known of the numbers, their parts, and their vector.            *)
LEMMA StoresFacts ==
    ASSUME NEW v, NEW N, NEW m, NEW W, NEW Z, Stores(v, N, m, W, Z)
    PROVE  /\ m \in Nat /\ m >= 1 /\ W \in Nat /\ W > 0 /\ Z \in Nat /\ Z > 0
           /\ \A i \in 1..m : N[i] \in Nat
           /\ \A i, j \in 1..m : i < j => N[i] < N[j]
           /\ v.size = N[m] + 1 /\ v.size \in Nat /\ v.size < W * Z
BY DEF Stores, Ascends

LEMMA HalvesAre ==
    ASSUME NEW v, NEW N, NEW m, NEW W, NEW Z, Stores(v, N, m, W, Z), NEW i \in 1..m
    PROVE  \E h \in Nat, l \in Nat :
              /\ h = HighOf(N, m, W)[i] /\ l = LowOf(N, m, W)[i] /\ v.low[i] = l
              /\ N[i] = h * W + l /\ l < W
<1>1. N[i] \in Nat /\ W \in Nat \ {0}
  BY StoresFacts
<1>2. HighOf(N, m, W)[i] = N[i] \div W /\ LowOf(N, m, W)[i] = N[i] % W
  BY DEF HighOf, LowOf
<1>3. v.low[i] = LowOf(N, m, W)[i]
  BY DEF Stores, Represents
<1>4. /\ N[i] \div W \in Nat /\ N[i] % W \in Nat /\ N[i] % W < W
      /\ N[i] = (N[i] \div W) * W + (N[i] % W)
  BY <1>1, Digits
<1> QED
  BY <1>2, <1>3, <1>4

\* The parts of a, as many as there are high parts, and how many numbers have its high
\* part or a lower one.
LooksUp(v, N, m, W, Z, a, h, l, r) ==
    /\ h \in Nat /\ l \in Nat /\ r \in Nat
    /\ a \div 2^v.wl = h /\ a % 2^v.wl = l /\ a = h * W + l /\ l < W /\ h < Z
    /\ UpTo(HighOf(N, m, W), m, h, r)
    /\ SelHigh(v, a) = h + r /\ RankLow(v, a) = r

LEMMA LookedUp ==
    ASSUME NEW v, NEW N, NEW m, NEW W, NEW Z, Stores(v, N, m, W, Z), NEW a \in Nat, a < W * Z
    PROVE  \E h \in Nat, l \in Nat, r \in Nat : LooksUp(v, N, m, W, Z, a, h, l, r)
<1>1. W \in Nat /\ W > 0 /\ Z \in Nat /\ Z > 0 /\ 2^v.wl = W
  BY StoresFacts DEF Stores
<1>2. PICK h \in Nat, l \in Nat : h = a \div W /\ l = a % W /\ l < W /\ a = h * W + l
  BY <1>1, Digits
<1>3. h < Z
  <2> SUFFICES ASSUME Z <= h PROVE FALSE
    BY <1>1
  <2>1. W * Z <= h * W
    BY <1>1
  <2> QED BY <1>1, <1>2, <2>1
<1>4. Represents(v, HighOf(N, m, W), LowOf(N, m, W), m, Z)
  BY DEF Stores
<1>5. PICK r \in Nat : UpTo(HighOf(N, m, W), m, h, r)
  BY <1>4, UpToExists
<1>6. high_select(v, 0, h + 1) = h + r
  BY <1>3, <1>4, <1>5, ZeroSelected
<1>7. SelHigh(v, a) = h + r
  BY <1>1, <1>2, <1>6 DEF SelHigh
<1>8. RankLow(v, a) = r
  <2>1. RankLow(v, a) = (h + r) - h
    BY <1>1, <1>2, <1>7 DEF RankLow
  <2>2. (h + r) - h = r
    OBVIOUS
  <2> QED BY <2>1, <2>2
<1> QED
  BY <1>1, <1>2, <1>3, <1>5, <1>7, <1>8 DEF LooksUp

\* Below, in parts.
LEMMA UnderIs ==
    ASSUME NEW v, NEW N, NEW m, NEW W, NEW Z, Stores(v, N, m, W, Z),
           NEW h \in Nat, NEW l \in Nat, l < W, NEW a \in Nat, a = h * W + l, NEW c
    PROVE  /\ CountsBelow(N, m, a, c) => Under(HighOf(N, m, W), LowOf(N, m, W), m, h, l, c)
           /\ CountsBelow(N, m, a + 1, c) => Under(HighOf(N, m, W), LowOf(N, m, W), m, h, l + 1, c)
<1>1. PICK H, L : H = HighOf(N, m, W) /\ L = LowOf(N, m, W)
  OBVIOUS
<1>2. ASSUME NEW i \in 1..m
      PROVE  /\ N[i] < a <=> H[i] < h \/ (H[i] = h /\ L[i] < l)
             /\ N[i] < a + 1 <=> H[i] < h \/ (H[i] = h /\ L[i] < l + 1)
  <2>1. PICK p \in Nat, q \in Nat : p = H[i] /\ q = L[i] /\ N[i] = p * W + q /\ q < W
    BY <1>1, HalvesAre
  <2>2. PICK b \in Nat : b = N[i]
    BY StoresFacts
  <2>3. W \in Nat \ {0} /\ b = p * W + q
    BY <2>1, <2>2, StoresFacts
  <2>4. b < a <=> p < h \/ (p = h /\ q < l)
    BY <2>1, <2>3, DigitsOrdered
  <2>5. a < b <=> h < p \/ (h = p /\ l < q)
    BY <2>1, <2>3, DigitsOrdered
  <2>6. b < a + 1 <=> ~(a < b)
    OBVIOUS
  <2>7. ~(h < p \/ (h = p /\ l < q)) <=> p < h \/ (p = h /\ q < l + 1)
    OBVIOUS
  <2> QED BY <2>1, <2>2, <2>4, <2>5, <2>6, <2>7
<1>3. CountsBelow(N, m, a, c) => Under(H, L, m, h, l, c)
  BY <1>2 DEF CountsBelow, Under
<1>4. CountsBelow(N, m, a + 1, c) => Under(H, L, m, h, l + 1, c)
  BY <1>2 DEF CountsBelow, Under
<1> QED
  BY <1>1, <1>3, <1>4

\* Which number lies before the search's end in high.
IsAtEnd(v, N, m, W, h, c) ==
    /\ h + c >= 1 => v.high[h + c] = IF c >= 1 /\ HighOf(N, m, W)[c] = h THEN 1 ELSE 0

(* Where the search goes down to, for a itself and for the next number.    *)
LEMMA SearchedDown ==
    ASSUME NEW v, NEW N, NEW m, NEW W, NEW Z, Stores(v, N, m, W, Z),
           NEW a \in Nat, NEW h, NEW l, NEW r, LooksUp(v, N, m, W, Z, a, h, l, r),
           NEW c \in Nat
    PROVE  /\ CountsBelow(N, m, a, c) => /\ c <= r /\ StepsDown(v, h + r, r, l) = r - c + 1
                                   /\ IsAtEnd(v, N, m, W, h, c)
           /\ CountsBelow(N, m, a + 1, c) => /\ c <= r /\ StepsDown(v, h + r, r, l + 1) = r - c + 1
                                       /\ IsAtEnd(v, N, m, W, h, c)
<1>1. /\ h \in Nat /\ l \in Nat /\ r \in Nat /\ a = h * W + l /\ l < W /\ h < Z
      /\ UpTo(HighOf(N, m, W), m, h, r)
  BY DEF LooksUp
<1>2. Represents(v, HighOf(N, m, W), LowOf(N, m, W), m, Z)
  BY DEF Stores
<1>3. ASSUME NEW x \in Nat, Under(HighOf(N, m, W), LowOf(N, m, W), m, h, x, c)
      PROVE  /\ c <= r /\ StepsDown(v, h + r, r, x) = r - c + 1
             /\ IsAtEnd(v, N, m, W, h, c)
  <2>1. c <= r /\ StepsDown(v, h + r, r, x) = r - c + 1
    BY <1>1, <1>2, <1>3, StepsTaken
  <2>2. h + c >= 1 => v.high[h + c] = IF c >= 1 /\ HighOf(N, m, W)[c] = h THEN 1 ELSE 0
    BY <1>1, <1>2, <1>3, BitUnder
  <2> QED BY <2>1, <2>2 DEF IsAtEnd
<1>4. l + 1 \in Nat
  BY <1>1
<1> QED
  BY <1>1, <1>3, <1>4, UnderIs

LEMMA DigitsUnique ==
    ASSUME NEW w \in Nat \ {0}, NEW p \in Nat, NEW q \in Nat, NEW r \in Nat, NEW s \in Nat,
           p * w + q = r * w + s, q < w, s < w
    PROVE  p = r /\ q = s
<1>1. PICK a \in Nat : a = p * w + q
  OBVIOUS
<1>2. PICK b \in Nat : b = r * w + s
  OBVIOUS
<1>3. a < b <=> p < r \/ (p = r /\ q < s)
  BY <1>1, <1>2, DigitsOrdered
<1>4. b < a <=> r < p \/ (r = p /\ s < q)
  BY <1>1, <1>2, DigitsOrdered
<1>5. a = b
  BY <1>1, <1>2
<1>6. ~(p < r \/ (p = r /\ q < s)) /\ ~(r < p \/ (r = p /\ s < q))
  BY <1>3, <1>4, <1>5
<1> QED
  BY <1>6

(* rank: how many numbers are below a.                                     *)
LEMMA RankIs ==
    ASSUME NEW v, NEW N, NEW m, NEW W, NEW Z, Stores(v, N, m, W, Z),
           NEW a \in Nat, a < W * Z, NEW c \in Nat, CountsBelow(N, m, a, c)
    PROVE  rank1(v, a) = c
<1>1. PICK h \in Nat, l \in Nat, r \in Nat : LooksUp(v, N, m, W, Z, a, h, l, r)
  BY LookedUp
<1>2. c <= r /\ StepsDown(v, h + r, r, l) = r - c + 1
  BY <1>1, SearchedDown
<1>3. SelHigh(v, a) = h + r /\ RankLow(v, a) = r /\ a % 2^v.wl = l
  BY <1>1 DEF LooksUp
<1>4. PICK s \in Nat, d \in Nat : s = h + r /\ d = r - c + 1 /\ StepsDown(v, s, r, l) = d
  BY <1>2
<1>5. rank1(v, a) = IF r = 0 \/ d > s THEN 0 ELSE r - d + 1
  BY <1>3, <1>4 DEF rank1
<1>6. r = 0 \/ d > s => c = 0
  BY <1>2, <1>4
<1>7. r - d + 1 = c
  BY <1>2, <1>4
<1> QED
  BY <1>5, <1>6, <1>7

(* operator[]: whether a is one of the numbers.                            *)
LEMMA AtIs ==
    ASSUME NEW v, NEW N, NEW m, NEW W, NEW Z, Stores(v, N, m, W, Z),
           NEW a \in Nat, a < W * Z
    PROVE  At1(v, a) <=> \E i \in 1..m : N[i] = a
<1>1. PICK h \in Nat, l \in Nat, r \in Nat : LooksUp(v, N, m, W, Z, a, h, l, r)
  BY LookedUp
<1>2. Ascends(N, m) /\ a + 1 \in Nat /\ m \in Nat /\ \A i \in 1..m : N[i] \in Nat
  <2>1. Ascends(N, m)
    BY DEF Stores
  <2> QED BY <2>1, StoresFacts
<1>3. PICK c \in Nat : CountsBelow(N, m, a + 1, c)
  BY <1>2, BelowExists
<1>4. c <= r /\ StepsDown(v, h + r, r, l + 1) = r - c + 1 /\ IsAtEnd(v, N, m, W, h, c)
  BY <1>1, <1>3, SearchedDown
<1>5. /\ SelHigh(v, a) = h + r /\ RankLow(v, a) = r /\ a % 2^v.wl = l /\ a = h * W + l /\ l < W
  BY <1>1 DEF LooksUp
<1>6. PICK s \in Nat, d \in Nat :
         /\ s = h + r /\ d = r - c + 1 /\ StepsDown(v, s, r, l + 1) = d
         /\ s - d + 1 = h + c /\ r - d + 1 = c
  BY <1>4
<1>7. At1(v, a) <=> r # 0 /\ d <= s /\ v.high[h + c] = 1 /\ v.low[c] = l
  <2>1. At1(v, a) <=> r # 0 /\ d <= s /\ v.high[s - d + 1] = 1 /\ v.low[r - d + 1] = l
    BY <1>5, <1>6 DEF At1
  <2> QED BY <1>6, <2>1
<1>8. c \in 0..m /\ \A i \in 1..m : N[i] < a + 1 <=> i <= c
  BY <1>3 DEF CountsBelow
<1>9. ASSUME At1(v, a) PROVE \E i \in 1..m : N[i] = a
  <2>1. d <= s /\ v.high[h + c] = 1 /\ v.low[c] = l
    BY <1>7, <1>9
  <2>2. h + c >= 1
    BY <1>4, <1>6, <2>1
  <2>3. c >= 1 /\ HighOf(N, m, W)[c] = h
    BY <1>4, <2>1, <2>2 DEF IsAtEnd
  <2>4. c \in 1..m
    BY <1>2, <1>8, <2>3
  <2>5. N[c] = h * W + l
    BY <2>1, <2>3, <2>4, HalvesAre
  <2> QED BY <1>5, <2>4, <2>5
<1>10. ASSUME NEW i \in 1..m, N[i] = a PROVE At1(v, a)
  <2>1. i <= c /\ c \in 1..m /\ c >= 1
    <3>1. N[i] < a + 1
      BY <1>10
    <3>2. i <= c
      BY <1>8, <3>1
    <3> QED BY <1>2, <1>8, <3>2
  <2>2. i = c
    <3>1. N[c] < a + 1 /\ N[c] \in Nat
      BY <1>2, <1>8, <2>1
    <3>2. i < c => N[i] < N[c]
      BY <2>1, StoresFacts
    <3>3. ~(i < c)
      BY <1>10, <3>1, <3>2
    <3> QED BY <2>1, <3>3
  <2>3. PICK p \in Nat, q \in Nat : /\ p = HighOf(N, m, W)[c] /\ v.low[c] = q
                                    /\ N[c] = p * W + q /\ q < W
    BY <2>1, HalvesAre
  <2>4. p = h /\ q = l
    <3>1. p * W + q = h * W + l /\ W \in Nat \ {0} /\ l < W /\ q < W
      BY <1>5, <1>10, <2>2, <2>3, StoresFacts
    <3> QED BY <3>1, DigitsUnique
  <2>5. r # 0 /\ d <= s /\ h + c >= 1
    BY <1>4, <1>6, <2>1
  <2>6. v.high[h + c] = 1
    BY <1>4, <2>1, <2>3, <2>4, <2>5 DEF IsAtEnd
  <2> QED BY <1>7, <2>3, <2>4, <2>5, <2>6
<1> QED
  BY <1>9, <1>10

(* select: the i-th number.                                                *)
LEMMA SelectIs ==
    ASSUME NEW v, NEW N, NEW m, NEW W, NEW Z, Stores(v, N, m, W, Z), NEW i \in 1..m
    PROVE  select1(v, i) = N[i]
<1>1. PICK h \in Nat, l \in Nat : /\ h = HighOf(N, m, W)[i] /\ v.low[i] = l
                                  /\ N[i] = h * W + l
  BY HalvesAre
<1>2. Represents(v, HighOf(N, m, W), LowOf(N, m, W), m, Z)
  BY DEF Stores
<1>3. high_select(v, 1, i) = h + i - 1
  BY <1>1, <1>2, OneSelected
<1>4. i \in Nat /\ 2^v.wl = W /\ W \in Nat
  BY StoresFacts DEF Stores
<1>5. h + i - 1 + 1 - i = h
  BY <1>4
<1>6. select1(v, i) = l + h * W
  BY <1>1, <1>3, <1>4, <1>5 DEF select1
<1>7. l + h * W = h * W + l
  BY <1>4
<1> QED
  BY <1>1, <1>6, <1>7

(* The gaps below the numbers do not shrink.                               *)
LEMMA GapsGrow ==
    ASSUME NEW N, NEW m, Ascends(N, m), NEW i \in 1..m
    PROVE  \A j \in i..m : N[j] - j >= N[i] - i
<1>1. m \in Nat /\ \A j \in 1..m : N[j] \in Nat
  BY DEF Ascends
<1>2. PICK T : T = {j \in i..m : N[j] - j >= N[i] - i}
  OBVIOUS
<1>3. i \in T
  BY <1>1, <1>2
<1>4. ASSUME NEW j \in i..(m - 1), j \in T PROVE j + 1 \in T
  <2>1. j \in 1..m /\ j + 1 \in 1..m /\ j < j + 1 /\ j + 1 \in i..m
    BY <1>1
  <2>2. N[j] < N[j + 1] /\ N[j] \in Nat /\ N[j + 1] \in Nat /\ N[i] \in Nat /\ N[j] - j >= N[i] - i
    BY <1>1, <1>2, <1>4, <2>1 DEF Ascends
  <2>3. N[j + 1] - (j + 1) >= N[i] - i
    BY <2>1, <2>2
  <2> QED BY <1>2, <2>1, <2>3
<1>5. \A j \in i..m : j \in T
  <2>1. i \in Int /\ m \in Int
    BY <1>1
  <2> QED BY <1>3, <1>4, <2>1, IntervalInduction
<1> QED
  BY <1>2, <1>5

(* select for zeros: the numbers left out.                                 *)
LEMMA ZeroSelectIs ==
    ASSUME NEW v, NEW N, NEW m, NEW W, NEW Z, Stores(v, N, m, W, Z),
           NEW a \in Nat, ~\E i \in 1..m : N[i] = a, NEW c \in Nat, CountsBelow(N, m, a, c)
    PROVE  select0(v, a + 1 - c) = a
<1>1. /\ m \in Nat /\ m >= 1 /\ \A i \in 1..m : N[i] \in Nat
      /\ \A i, j \in 1..m : i < j => N[i] < N[j]
  BY StoresFacts
<1>2. c \in 0..m /\ \A i \in 1..m : N[i] < a <=> i <= c
  BY DEF CountsBelow
<1>3. Len(v.low) = m
  BY DEF Stores, Represents
<1>4. PICK z \in Int : z = a + 1 - c
  OBVIOUS
<1>5. PICK A : A = {j \in 1..m : select1(v, j) + 1 - j < z}
  OBVIOUS
<1>6. ASSUME NEW j \in 1..m PROVE j \in A <=> j <= c
  <2>1. PICK x \in Nat : x = N[j] /\ x # a /\ (x < a <=> j <= c)
    BY <1>1, <1>2
  <2>2. j \in A <=> x + 1 - j < z
    BY <1>5, <2>1, SelectIs
  <2>3. ASSUME j <= c PROVE x + 1 - j < z
    <3>1. c \in 1..m /\ c \in j..m
      BY <1>1, <1>2, <2>3
    <3>2. PICK y \in Nat : y = N[c] /\ y < a
      BY <1>1, <1>2, <3>1
    <3>3. N[c] - c >= N[j] - j
      BY <3>1, GapsGrow DEF Stores
    <3> QED BY <1>4, <2>1, <3>2, <3>3
  <2>4. ASSUME ~(j <= c) PROVE ~(x + 1 - j < z)
    <3>1. c + 1 \in 1..m /\ j \in (c + 1)..m /\ ~(c + 1 <= c)
      BY <1>1, <1>2, <2>4
    <3>2. PICK y \in Nat : y = N[c + 1] /\ y > a
      <4>1. N[c + 1] \in Nat /\ N[c + 1] # a /\ ~(N[c + 1] < a)
        BY <1>1, <1>2, <3>1
      <4> QED BY <4>1
    <3>3. N[j] - j >= N[c + 1] - (c + 1)
      BY <3>1, GapsGrow DEF Stores
    <3> QED BY <1>4, <2>1, <3>2, <3>3
  <2> QED BY <2>2, <2>3, <2>4
<1>7. PICK T : T = {0} \cup A
  OBVIOUS
<1>8. Max(T) = c
  <2>1. A \subseteq 1..m
    BY <1>5
  <2>2. T \in SUBSET Int /\ T # {} /\ \A y \in T : y <= c
    BY <1>1, <1>6, <1>7, <2>1
  <2>3. c \in T
    <3>1. CASE c = 0
      BY <1>7, <3>1
    <3>2. CASE c # 0
      <4>1. c \in 1..m /\ c <= c
        BY <1>1, <1>2, <3>2
      <4> QED BY <1>6, <1>7, <4>1
    <3> QED BY <3>1, <3>2
  <2>4. Max(T) \in T /\ \A y \in T : y <= Max(T)
    <3>1. c \in Int
      OBVIOUS
    <3> QED BY <2>2, <3>1, GreatestElement
  <2>5. PICK t \in Int : t = Max(T)
    BY <2>2, <2>4
  <2>6. t <= c /\ c <= t
    BY <2>2, <2>3, <2>4, <2>5
  <2> QED BY <2>5, <2>6
<1>9. select0(v, z) = IF c = 0 THEN z - 1 ELSE select1(v, c) + z - (select1(v, c) + 1 - c)
  <2>1. T = {0} \cup {j \in 1..Len(v.low) : select1(v, j) + 1 - j < z}
    BY <1>3, <1>5, <1>7
  <2> QED BY <1>8, <2>1 DEF select0
<1>10. CASE c = 0
  <2>1. select0(v, z) = z - 1 /\ z = a + 1
    BY <1>4, <1>9, <1>10
  <2> QED BY <1>4, <2>1
<1>11. CASE c # 0
  <2>1. c \in 1..m
    BY <1>1, <1>2, <1>11
  <2>2. PICK y \in Nat : y = select1(v, c)
    BY <1>1, <2>1, SelectIs
  <2>3. select0(v, z) = y + z - (y + 1 - c)
    BY <1>9, <1>11, <2>2
  <2>4. y + z - (y + 1 - c) = a
    BY <1>4
  <2> QED BY <1>4, <2>3, <2>4
<1> QED
  BY <1>10, <1>11

(* There are as many zeros as high parts.                                  *)
LEMMA ZerosAre ==
    ASSUME NEW v, NEW H, NEW L, NEW m, NEW Z, Represents(v, H, L, m, Z)
    PROVE  Cardinality(Occurrences(v, 0)) = Z
<1>1. /\ m \in Nat /\ m > 0 /\ Z \in Nat /\ Z > 0 /\ \A i \in 1..m : H[i] \in Nat /\ H[i] < Z
  BY PartsFacts
<1>2. PICK j \in Nat : j = m + Z - 1 /\ j \in 0..(m + Z - 1) /\ j + 1 - m = Z
  BY <1>1
<1>3. OnesTo(H, m, j, m)
  <2>1. ASSUME NEW i \in 1..m PROVE H[i] + i - 1 <= j <=> i <= m
    <3>1. H[i] \in Nat /\ H[i] < Z
      BY <1>1
    <3> QED BY <1>1, <1>2, <3>1
  <2>2. m \in 0..m
    BY <1>1
  <2> QED BY <2>1, <2>2 DEF OnesTo
<1>4. Cardinality(BitsTo(v, 0, j)) = Z
  BY <1>1, <1>2, <1>3, BitsCounted
<1>5. BitsTo(v, 0, j) = Occurrences(v, 0)
  <2>1. ASSUME NEW h \in Occurrences(v, 0) PROVE h <= j
    <3>1. PICK P, size : size \in Nat /\ size = m + Z /\ OnesAt(v, P, size)
      BY PlaceOf
    <3>2. h \in 0..(size - 1)
      BY <3>1 DEF OnesAt
    <3> QED BY <1>1, <1>2, <3>1, <3>2
  <2> QED BY <2>1 DEF BitsTo
<1> QED
  BY <1>4, <1>5

(* The last one at or below a position.                                    *)
LEMMA LastOne ==
    ASSUME NEW v, NEW H, NEW L, NEW m, NEW Z, Represents(v, H, L, m, Z),
           NEW p \in Nat, NEW c \in 1..m, OnesTo(H, m, p, c)
    PROVE  Max({j \in Occurrences(v, 1) : j <= p}) = H[c] + c - 1
<1>1. /\ m \in Nat /\ m > 0 /\ Z \in Nat /\ Z > 0 /\ \A i \in 1..m : H[i] \in Nat /\ H[i] < Z
      /\ \A i, j \in 1..m : i < j => H[i] <= H[j]
  BY PartsFacts
<1>2. PICK T : T = {j \in Occurrences(v, 1) : j <= p}
  OBVIOUS
<1>3. PICK P, size : P = Places(H, m) /\ size \in Nat /\ size = m + Z /\ OnesAt(v, P, size)
  BY PlaceOf
<1>4. \A j : j \in Occurrences(v, 1) <=> j \in 0..(size - 1) /\ j \in P
  BY <1>3 DEF OnesAt
<1>5. PICK q \in Nat : q = H[c] + c - 1 /\ q \in 0..(size - 1) /\ q \in P
  <2>1. H[c] \in Nat /\ H[c] < Z /\ c \in Nat /\ c >= 1 /\ c <= m
    BY <1>1
  <2>2. H[c] + c - 1 \in Nat /\ H[c] + c - 1 \in 0..(size - 1)
    BY <1>1, <1>3, <2>1
  <2>3. H[c] + c - 1 \in P
    BY <1>3 DEF Places
  <2> QED BY <2>2, <2>3
<1>6. c \in 0..m /\ \A i \in 1..m : H[i] + i - 1 <= p <=> i <= c
  BY DEF OnesTo
<1>7. q \in T
  <2>1. q <= p
    BY <1>5, <1>6
  <2> QED BY <1>2, <1>4, <1>5, <2>1
<1>8. ASSUME NEW y \in T PROVE y <= q /\ y \in Int
  <2>1. y \in 0..(size - 1) /\ y \in P /\ y <= p
    BY <1>2, <1>4
  <2>2. PICK i \in 1..m : y = H[i] + i - 1
    BY <1>3, <2>1 DEF Places
  <2>3. i <= c
    BY <1>6, <2>1, <2>2
  <2>4. H[i] <= H[c] /\ H[i] \in Nat /\ H[c] \in Nat
    <3>1. i = c \/ i < c
      BY <1>1, <2>3
    <3> QED BY <1>1, <3>1
  <2> QED BY <1>3, <1>5, <2>1, <2>2, <2>3, <2>4
<1>9. Max(T) \in T /\ \A y \in T : y <= Max(T)
  <2>1. T \in SUBSET Int /\ T # {} /\ q \in Int
    BY <1>7, <1>8
  <2> QED BY <1>8, <2>1, GreatestElement
<1>10. PICK t \in Int : t = Max(T)
  BY <1>8, <1>9
<1>11. t <= q /\ q <= t
  BY <1>7, <1>8, <1>9, <1>10
<1>12. t = q
  BY <1>10, <1>11
<1> QED
  BY <1>2, <1>5, <1>10, <1>12

(* The high bits of the number under h and l, by its one or by counting.   *)
LEMMA HighBitsAre ==
    ASSUME NEW v, NEW N, NEW m, NEW W, NEW Z, Stores(v, N, m, W, Z),
           NEW a \in Nat, NEW h, NEW l, NEW r, LooksUp(v, N, m, W, Z, a, h, l, r),
           NEW c \in 1..m, CountsBelow(N, m, a, c)
    PROVE  HighBits(v, a, h + c - 1, c - 1) = HighOf(N, m, W)[c]
<1>1. PICK H, L : H = HighOf(N, m, W) /\ L = LowOf(N, m, W)
  OBVIOUS
<1>2. Represents(v, H, L, m, Z)
  BY <1>1 DEF Stores
<1>3. /\ m \in Nat /\ Z \in Nat /\ c \in Nat /\ c >= 1
      /\ \A i \in 1..m : H[i] \in Nat /\ L[i] \in Nat
  BY <1>2, PartsFacts
<1>4. h \in Nat /\ l \in Nat /\ a \div 2^v.wl = h /\ h < Z /\ a = h * W + l /\ l < W
  BY DEF LooksUp
<1>5. Under(H, L, m, h, l, c)
  BY <1>1, <1>4, UnderIs
<1>6. \A i \in 1..m : (H[i] < h \/ (H[i] = h /\ L[i] < l)) <=> i <= c
  BY <1>5 DEF Under
<1>7. PICK p \in Nat : p = h + c - 1 /\ p + 1 = h + c
  BY <1>3, <1>4
<1>8. v.high[p + 1] = IF H[c] = h THEN 1 ELSE 0
  <2>1. v.high[h + c] = IF c >= 1 /\ H[c] = h THEN 1 ELSE 0
    <3>1. h + c >= 1
      BY <1>3, <1>4
    <3> QED BY <1>2, <1>3, <1>4, <1>5, <3>1, BitUnder
  <2> QED BY <1>3, <1>7, <2>1
<1>9. CASE H[c] = h
  <2>1. HighBits(v, a, p, c - 1) = a \div 2^v.wl
    BY <1>8, <1>9 DEF HighBits
  <2> QED BY <1>1, <1>4, <1>7, <1>9, <2>1
<1>10. CASE H[c] # h
  <2>1. HighBits(v, a, p, c - 1) = Max({j \in Occurrences(v, 1) : j <= p}) - (c - 1)
    BY <1>8, <1>10 DEF HighBits
  <2>2. OnesTo(H, m, p, c)
    <3>1. ASSUME NEW i \in 1..m PROVE H[i] + i - 1 <= p <=> i <= c
      <4>1. H[i] \in Nat /\ i \in Nat /\ L[i] \in Nat
        BY <1>3
      <4>2. CASE i <= c
        <5>1. H[i] < h \/ (H[i] = h /\ L[i] < l)
          BY <1>6, <4>2
        <5>2. H[i] <= h
          BY <1>4, <4>1, <5>1
        <5> QED BY <1>3, <1>4, <1>7, <4>1, <4>2, <5>2
      <4>3. CASE ~(i <= c)
        <5>1. ~(H[i] < h)
          BY <1>6, <4>3
        <5> QED BY <1>3, <1>4, <1>7, <4>1, <4>3, <5>1
      <4> QED BY <4>2, <4>3
    <3>2. c \in 0..m
      BY <1>3
    <3> QED BY <3>1, <3>2 DEF OnesTo
  <2>3. Max({j \in Occurrences(v, 1) : j <= p}) = H[c] + c - 1
    BY <1>2, <2>2, LastOne
  <2>4. PICK q \in Nat : q = H[c]
    BY <1>3
  <2>7. Max({j \in Occurrences(v, 1) : j <= p}) = q + c - 1
    BY <2>3, <2>4
  <2>8. q + c - 1 - (c - 1) = q
    BY <1>3
  <2>5. HighBits(v, a, p, c - 1) = H[c]
    BY <2>1, <2>4, <2>7, <2>8
  <2>6. HighBits(v, a, h + c - 1, c - 1) = HighBits(v, a, p, c - 1)
    BY <1>7
  <2> QED BY <1>1, <2>5, <2>6
<1> QED
  BY <1>9, <1>10

(* pred asks for a zero that high does not have only if the number just    *)
(* above the last one is sought and takes more high bits.                  *)
LEMMA OutOfBoundsIs ==
    ASSUME NEW v, NEW N, NEW m, NEW W, NEW Z, Stores(v, N, m, W, Z), NEW i \in Nat
    PROVE  /\ PredOutOfBounds(v, i) => i = v.size /\ W * Z = v.size + 1
           /\ i <= v.size /\ ~PredOutOfBounds(v, i) => i + 1 < W * Z
<1>1. W \in Nat /\ W > 0 /\ Z \in Nat /\ Z > 0 /\ v.size \in Nat /\ v.size < W * Z
  BY StoresFacts
<1>2. 2^v.wl = W
  BY DEF Stores
<1>3. PICK a \in Nat : a = i + 1
  OBVIOUS
<1>4. PICK h \in Nat, l \in Nat : h = a \div W /\ l < W /\ a = h * W + l
  BY <1>1, Digits
<1>5. Cardinality(Occurrences(v, 0)) = Z
  BY ZerosAre DEF Stores
<1>6. PredOutOfBounds(v, i) <=> i <= v.size /\ ~(Z >= h + 1)
  BY <1>2, <1>3, <1>4, <1>5 DEF PredOutOfBounds, HasZeros
<1>7. PICK s \in Nat, t \in Nat : s = v.size /\ t = W * Z /\ s < t
  BY <1>1
<1>8. Z <= h => t <= a
  <2> SUFFICES ASSUME Z <= h PROVE t <= a
    OBVIOUS
  <2>1. W * Z <= h * W
    BY <1>1
  <2> QED BY <1>1, <1>4, <1>7, <2>1
<1>9. h < Z => a < t
  <2> SUFFICES ASSUME h < Z PROVE a < t
    OBVIOUS
  <2>1. (h + 1) * W <= W * Z
    <3>1. h + 1 <= Z
      BY <1>1
    <3> QED BY <1>1, <3>1
  <2>2. (h + 1) * W = h * W + W
    BY <1>1
  <2> QED BY <1>1, <1>4, <1>7, <2>1, <2>2
<1>10. ~(Z >= h + 1) <=> Z <= h
  BY <1>1
<1>11. ASSUME PredOutOfBounds(v, i) PROVE i = s /\ t = s + 1
  <2>1. i <= s /\ t <= a
    BY <1>6, <1>7, <1>8, <1>10, <1>11
  <2> QED BY <1>3, <1>7, <2>1
<1>12. ASSUME i <= s, ~PredOutOfBounds(v, i) PROVE a < t
  <2>1. ~(Z <= h)
    BY <1>6, <1>7, <1>10, <1>12
  <2> QED BY <1>1, <1>9, <2>1
<1> QED
  BY <1>3, <1>7, <1>11, <1>12

\* The c-th number is the last one that does not exceed i.
IsPred(p, N, m, i, c) ==
    /\ c \in 1..m /\ p = [rank |-> c - 1, key |-> N[c]]
    /\ N[c] <= i /\ (c < m => i < N[c + 1])

(* pred finds the last number that does not exceed i.                      *)
LEMMA PredIs ==
    ASSUME NEW v, NEW N, NEW m, NEW W, NEW Z, Stores(v, N, m, W, Z), N[1] = 0,
           NEW i \in Nat, ~PredOutOfBounds(v, i)
    PROVE  \E c \in Nat : IsPred(pred(v, i), N, m, i, c)
<1>1. /\ m \in Nat /\ m >= 1 /\ \A j \in 1..m : N[j] \in Nat
      /\ v.size = N[m] + 1 /\ v.size \in Nat
  BY StoresFacts
<1>2. CASE i > v.size
  <2>1. pred(v, i) = LastOf(v)
    BY <1>2 DEF pred
  <2>2. m \in 1..m
    BY <1>1
  <2>3. LastOf(v) = [rank |-> m - 1, key |-> N[m]]
    <3>1. Len(v.low) = m
      BY DEF Stores, Represents
    <3> QED BY <2>2, <3>1, SelectIs DEF LastOf
  <2>4. N[m] <= i /\ ~(m < m)
    <3>1. N[m] \in Nat
      BY <1>1, <2>2
    <3> QED BY <1>1, <1>2, <3>1
  <2>5. IsPred(pred(v, i), N, m, i, m)
    BY <2>1, <2>2, <2>3, <2>4 DEF IsPred
  <2> QED BY <1>1, <2>5
<1>3. CASE ~(i > v.size)
  <2>1. PICK a \in Nat : a = i + 1 /\ a < W * Z
    <3>1. i <= v.size
      BY <1>1, <1>3
    <3>2. i + 1 < W * Z
      BY <3>1, OutOfBoundsIs
    <3> QED BY <3>2
  <2>2. PICK h \in Nat, l \in Nat, r \in Nat : LooksUp(v, N, m, W, Z, a, h, l, r)
    BY <2>1, LookedUp
  <2>3. PICK c \in Nat : CountsBelow(N, m, a, c)
    BY BelowExists DEF Stores
  <2>4. c \in 0..m /\ \A j \in 1..m : N[j] < a <=> j <= c
    BY <2>3 DEF CountsBelow
  <2>5. c \in 1..m
    <3>1. 1 \in 1..m /\ N[1] < a
      BY <1>1, <2>1
    <3>2. 1 <= c
      BY <2>4, <3>1
    <3> QED BY <1>1, <2>4, <3>2
  <2>6. c <= r /\ StepsDown(v, h + r, r, l) = r - c + 1
    BY <2>2, <2>3, SearchedDown
  <2>7. /\ SelHigh(v, a) = h + r /\ RankLow(v, a) = r /\ a % 2^v.wl = l
    BY <2>2 DEF LooksUp
  <2>8. PICK s \in Nat, d \in Nat :
           /\ s = h + r /\ d = r - c + 1 /\ StepsDown(v, s, r, l) = d
           /\ s - d = h + c - 1 /\ r - d = c - 1 /\ r - d + 1 = c /\ ~(d > s) /\ r # 0
    <3>1. c >= 1
      BY <2>5
    <3> QED BY <2>6, <3>1
  <2>9. pred(v, i) = [rank |-> r - d, key |-> v.low[r - d + 1] + HighBits(v, a, s - d, r - d) * 2^v.wl]
    BY <1>3, <2>1, <2>7, <2>8 DEF pred
  <2>10. HighBits(v, a, s - d, r - d) = HighOf(N, m, W)[c]
    BY <2>2, <2>3, <2>5, <2>8, HighBitsAre
  <2>11. v.low[c] + HighOf(N, m, W)[c] * W = N[c]
    <3>1. PICK p \in Nat, q \in Nat : p = HighOf(N, m, W)[c] /\ v.low[c] = q /\ N[c] = p * W + q
      BY <2>5, HalvesAre
    <3>2. q + p * W = p * W + q
      BY StoresFacts
    <3> QED BY <3>1, <3>2
  <2>12. pred(v, i) = [rank |-> c - 1, key |-> N[c]]
    <3>1. 2^v.wl = W
      BY DEF Stores
    <3> QED BY <2>8, <2>9, <2>10, <2>11, <3>1
  <2>13. N[c] <= i
    <3>1. N[c] < a /\ N[c] \in Nat
      BY <1>1, <2>4, <2>5
    <3> QED BY <2>1, <3>1
  <2>14. c < m => i < N[c + 1]
    <3> SUFFICES ASSUME c < m PROVE i < N[c + 1]
      OBVIOUS
    <3>1. c + 1 \in 1..m /\ ~(c + 1 <= c)
      BY <1>1, <2>5
    <3>2. ~(N[c + 1] < a) /\ N[c + 1] \in Nat
      BY <1>1, <2>4, <3>1
    <3> QED BY <2>1, <3>2
  <2> QED BY <2>5, <2>12, <2>13, <2>14 DEF IsPred
<1> QED
  BY <1>2, <1>3

\* The numbers N, of which there are m, as a set.
ValuesOf(N, m) == {N[i] : i \in 1..m}

LEMMA BelowCounted ==
    ASSUME NEW N, NEW m, Ascends(N, m), NEW a \in Nat, NEW c \in Nat, CountsBelow(N, m, a, c)
    PROVE  Cardinality({x \in ValuesOf(N, m) : x < a}) = c
<1>1. /\ m \in Nat /\ \A i \in 1..m : N[i] \in Nat
      /\ \A i, j \in 1..m : i < j => N[i] < N[j]
  BY DEF Ascends
<1>2. c \in 0..m /\ \A i \in 1..m : N[i] < a <=> i <= c
  BY DEF CountsBelow
<1>3. PICK A : A = {x \in ValuesOf(N, m) : x < a}
  OBVIOUS
<1>4. PICK f : f = [i \in 1..c |-> N[i]]
  OBVIOUS
<1>5. ASSUME NEW i \in 1..c PROVE f[i] = N[i] /\ i \in 1..m /\ N[i] \in A /\ N[i] \in Nat
  <2>1. i \in 1..m /\ i <= c
    BY <1>1, <1>2
  <2>2. N[i] < a
    BY <1>2, <2>1
  <2> QED BY <1>1, <1>3, <1>4, <2>1, <2>2 DEF ValuesOf
<1>6. f \in [1..c -> A]
  BY <1>4, <1>5
<1>7. ASSUME NEW i \in 1..c, NEW j \in 1..c, f[i] = f[j] PROVE i = j
  <2>1. i \in 1..m /\ j \in 1..m /\ N[i] = N[j] /\ N[i] \in Nat /\ N[j] \in Nat
    BY <1>5, <1>7
  <2>2. ~(i < j) /\ ~(j < i)
    BY <1>1, <2>1
  <2> QED BY <2>2
<1>8. ASSUME NEW x \in A PROVE \E i \in 1..c : f[i] = x
  <2>1. PICK i \in 1..m : N[i] = x /\ x < a
    BY <1>3 DEF ValuesOf
  <2>2. i \in 1..c
    <3>1. i <= c
      BY <1>2, <2>1
    <3> QED BY <1>1, <3>1
  <2> QED BY <1>5, <2>1, <2>2
<1>9. ExistsBijection(1..c, A)
  BY <1>6, <1>7, <1>8 DEF ExistsBijection, Bijection, Injection, Surjection, IsInjective
<1>10. IsFiniteSet(1..c) /\ Cardinality(1..c) = c
  <2>1. IsFiniteSet(1..c) /\ Cardinality(1..c) = IF 1 > c THEN 0 ELSE c - 1 + 1
    BY FS_Interval, 1 \in Int, c \in Int
  <2> QED BY <2>1
<1> QED
  BY <1>3, <1>9, <1>10, FS_Bijection

(* How many numbers do not exceed x.                                       *)
LEMMA UpToCounted ==
    ASSUME NEW N, NEW m, Ascends(N, m), NEW x \in Nat, NEW c \in Nat, CountsBelow(N, m, x + 1, c)
    PROVE  Cardinality({y \in ValuesOf(N, m) : y <= x}) = c
<1>1. m \in Nat /\ \A i \in 1..m : N[i] \in Nat
  BY DEF Ascends
<1>2. PICK a \in Nat : a = x + 1
  OBVIOUS
<1>3. Cardinality({y \in ValuesOf(N, m) : y < a}) = c
  BY <1>2, BelowCounted
<1>4. ASSUME NEW y \in ValuesOf(N, m) PROVE y < a <=> y <= x
  <2>1. y \in Nat
    BY <1>1 DEF ValuesOf
  <2> QED BY <1>2, <2>1
<1>5. {y \in ValuesOf(N, m) : y < a} = {y \in ValuesOf(N, m) : y <= x}
  BY <1>4
<1> QED
  BY <1>3, <1>5

\* What the support structures of v answer for the set S of numbers.
Answers(v, S) ==
    /\ \A i \in 0..(v.size - 1) : At1(v, i) <=> i \in S
    /\ \A i \in 0..(v.size - 1) : rank1(v, i) = Cardinality({x \in S : x < i})
    /\ \A x \in S : select1(v, Cardinality({y \in S : y <= x})) = x
    /\ \A x \in (0..(v.size - 1)) \ S :
          select0(v, x + 1 - Cardinality({y \in S : y <= x})) = x

LEMMA StoresAnswers ==
    ASSUME NEW v, NEW N, NEW m, NEW W, NEW Z, Stores(v, N, m, W, Z)
    PROVE  Answers(v, ValuesOf(N, m))
<1>1. PICK S : S = ValuesOf(N, m)
  OBVIOUS
<1>2. /\ m \in Nat /\ m >= 1 /\ \A i \in 1..m : N[i] \in Nat
      /\ \A i, j \in 1..m : i < j => N[i] < N[j]
      /\ v.size \in Nat /\ v.size < W * Z /\ W \in Nat /\ Z \in Nat
  BY StoresFacts
<1>3. Ascends(N, m)
  BY DEF Stores
<1>4. ASSUME NEW i \in 0..(v.size - 1)
      PROVE  i \in Nat /\ i < W * Z
  <2>1. PICK s \in Nat, t \in Nat : s = v.size /\ t = W * Z /\ s < t
    BY <1>2
  <2>2. i \in 0..(s - 1)
    BY <2>1
  <2>3. i \in Nat /\ i < t
    BY <2>1, <2>2
  <2> QED BY <2>1, <2>3
<1>5. ASSUME NEW i \in 0..(v.size - 1) PROVE At1(v, i) <=> i \in S
  <2>1. At1(v, i) <=> \E j \in 1..m : N[j] = i
    BY <1>4, AtIs
  <2>2. i \in S <=> \E j \in 1..m : N[j] = i
    BY <1>1 DEF ValuesOf
  <2> QED BY <2>1, <2>2
<1>6. ASSUME NEW i \in 0..(v.size - 1) PROVE rank1(v, i) = Cardinality({x \in S : x < i})
  <2>1. i \in Nat /\ i < W * Z
    BY <1>4
  <2>2. PICK c \in Nat : CountsBelow(N, m, i, c)
    BY <1>3, <2>1, BelowExists
  <2>3. rank1(v, i) = c
    BY <2>1, <2>2, RankIs
  <2>4. Cardinality({x \in S : x < i}) = c
    BY <1>1, <1>3, <2>1, <2>2, BelowCounted
  <2> QED BY <2>3, <2>4
<1>7. ASSUME NEW x \in S PROVE select1(v, Cardinality({y \in S : y <= x})) = x
  <2>1. PICK i \in 1..m : x = N[i] /\ x \in Nat
    BY <1>1, <1>2 DEF ValuesOf
  <2>2. CountsBelow(N, m, x + 1, i)
    <3>1. ASSUME NEW j \in 1..m PROVE N[j] < x + 1 <=> j <= i
      <4>1. PICK y \in Nat : y = N[j] /\ (j < i => y < x) /\ (i < j => x < y) /\ (i = j => x = y)
        BY <1>2, <2>1
      <4>2. j < i \/ i < j \/ i = j
        BY <1>2
      <4> QED BY <2>1, <4>1, <4>2
    <3>2. i \in 0..m
      BY <1>2
    <3> QED BY <3>1, <3>2 DEF CountsBelow
  <2>3. i \in Nat
    BY <1>2
  <2>4. Cardinality({y \in S : y <= x}) = i
    BY <1>1, <1>3, <2>1, <2>2, <2>3, UpToCounted
  <2> QED BY <2>1, <2>4, SelectIs
<1>8. ASSUME NEW x \in (0..(v.size - 1)) \ S
      PROVE  select0(v, x + 1 - Cardinality({y \in S : y <= x})) = x
  <2>1. x \in Nat
    BY <1>4
  <2>2. ~\E i \in 1..m : N[i] = x
    BY <1>1 DEF ValuesOf
  <2>3. x + 1 \in Nat
    BY <2>1
  <2>4. PICK c \in Nat : CountsBelow(N, m, x + 1, c)
    BY <1>3, <2>3, BelowExists
  <2>5. CountsBelow(N, m, x, c)
    <3>1. c \in 0..m /\ \A i \in 1..m : N[i] < x + 1 <=> i <= c
      BY <2>4 DEF CountsBelow
    <3>2. ASSUME NEW i \in 1..m PROVE N[i] < x <=> i <= c
      <4>1. PICK y \in Nat : y = N[i] /\ y # x /\ (y < x + 1 <=> i <= c)
        BY <1>2, <2>2, <3>1
      <4>2. y < x <=> y < x + 1
        BY <2>1, <4>1
      <4> QED BY <4>1, <4>2
    <3> QED BY <3>1, <3>2 DEF CountsBelow
  <2>6. Cardinality({y \in S : y <= x}) = c
    BY <1>1, <1>3, <2>1, <2>4, UpToCounted
  <2>7. select0(v, x + 1 - c) = x
    BY <2>1, <2>2, <2>5, ZeroSelectIs
  <2> QED BY <2>6, <2>7
<1> QED
  BY <1>1, <1>5, <1>6, <1>7, <1>8 DEF Answers

-----------------------------------------------------------------------------
(* The keys an Elias-Fano index puts into its vector.                      *)

\* What the sentinel leaves of the segments, above the first key.
KeysAbove == [i \in 1..(Len(segments) - 1) |-> segments[i].key - first_key]

\* The m numbers are the keys of the first level above the first one.
AreKeys(N, m, o) ==
    /\ Ascends(N, m) /\ Len(N) = m /\ N[1] = 0 /\ Len(o) = m + 1
    /\ \A i \in 1..m : N[i] = o[i].key - first_key /\ o[i].key \in Nat /\ first_key <= o[i].key

(* Numbers that grow by each step grow by any number of them.              *)
LEMMA StepsGrow ==
    ASSUME NEW m \in Nat, NEW N, \A i \in 1..m : N[i] \in Nat,
           \A i \in 1..(m - 1) : N[i] # N[i + 1],
           \A i, j \in 1..m : i <= j => N[i] <= N[j]
    PROVE  \A i, j \in 1..m : i < j => N[i] < N[j]
<1> SUFFICES ASSUME NEW i \in 1..m, NEW j \in 1..m, i < j PROVE N[i] < N[j]
  OBVIOUS
<1>1. i \in 1..(m - 1) /\ i + 1 \in 1..m /\ i <= i + 1 /\ i + 1 <= j
  OBVIOUS
<1>2. N[i] <= N[i + 1] /\ N[i + 1] <= N[j] /\ N[i] # N[i + 1]
  BY <1>1
<1>3. N[i] \in Nat /\ N[i + 1] \in Nat /\ N[j] \in Nat
  BY <1>1
<1> QED
  BY <1>2, <1>3

LEMMA OneLevel ==
    ASSUME Indexes, Len(levels_offsets) <= 2
    PROVE  /\ levels_offsets[1] = 0 /\ Level(1)[1].key = data[1]
           /\ Len(Level(1)) = Len(segments) /\ Len(segments) \in Nat /\ Len(segments) >= 2
           /\ \A i \in 1..Len(segments) : segments[i] = Level(1)[i]
           /\ IsLevelOf(Level(1), KeyPoints(data), EpsilonOf(EpsilonRecursive, 1), End(data))
<1>1. 1 \in 1..(Len(levels_offsets) - 1) /\ Len(levels_offsets) = 2
  <2>1. PICK w \in Nat : w = Len(levels_offsets) /\ w >= 2
    BY OffsetsFacts DEF Indexes
  <2>2. w = 2
    BY <2>1
  <2> QED BY <2>1, <2>2
<1>2. PICK a \in Nat, c \in Nat : IsAt(1, a, c)
  BY <1>1, LevelIsAt
<1>3. /\ a = 0 /\ c >= 2 /\ levels_offsets[1] = 0 /\ Len(segments) = c
      /\ c = Len(Level(1)) /\ \A i \in 1..c : segments[i] = Level(1)[i]
  <2>1. levels_offsets[1] = 0 /\ levels_offsets[2] = Len(segments)
    BY <1>1 DEF Indexes, OffsetsFit
  <2>2. a = 0 /\ c >= 2 /\ levels_offsets[2] = 0 + c /\ c = Len(Level(1))
        /\ \A i \in 1..c : segments[0 + i] = Level(1)[i]
    BY <1>2, <2>1 DEF IsAt, IsPart
  <2> QED BY <2>1, <2>2
<1>4. /\ IsLevelOf(Level(1), KeyPoints(data), EpsilonOf(EpsilonRecursive, 1), End(data))
      /\ Level(1)[1].key = data[1]
  BY <1>1, LevelAt DEF LevelPoints, PointsOf
<1> QED
  BY <1>3, <1>4

LEMMA KeysAscend ==
    ASSUME Indexes, ~Flagged(data, Indexed(data) - 1), Len(levels_offsets) <= 2, first_key = data[1]
    PROVE  /\ \E m \in Nat : AreKeys(KeysAbove, m, Level(1))
           /\ \A i \in 1..Len(segments) : segments[i] = Level(1)[i]
           /\ Len(Level(1)) = Len(segments) /\ levels_offsets[1] = 0
<1>1. PICK o, s, epsilon : o = Level(1) /\ s = KeyPoints(data) /\ epsilon = EpsilonOf(EpsilonRecursive, 1)
  OBVIOUS
<1>4. PICK c \in Nat : /\ c >= 2 /\ levels_offsets[1] = 0 /\ Len(segments) = c
                        /\ c = Len(o) /\ \A i \in 1..c : segments[i] = o[i]
  BY <1>1, OneLevel
<1>5. IsLevelOf(o, s, epsilon, End(data)) /\ s = KeyPoints(data) /\ o[1].key = data[1]
  BY <1>1, OneLevel
<1>6. /\ \A i \in 1..c : o[i].key \in Nat
      /\ \A i, j \in 1..c : i <= j => o[i].key <= o[j].key
  BY <1>4, <1>5, LevelHasKeys
<1>7. PICK m \in Nat \ {0} : m = c - 1 /\ c = m + 1
  BY <1>4
<1>8. PICK f \in Nat : f = first_key /\ f = o[1].key
  <2>1. 1 \in 1..c
    BY <1>4
  <2> QED BY <1>5, <1>6, <2>1
<1>9. PICK N : N = KeysAbove /\ N = [i \in 1..m |-> o[i].key - f]
  <2>1. ASSUME NEW i \in 1..m PROVE segments[i].key - first_key = o[i].key - f
    BY <1>4, <1>7, <1>8
  <2>2. Len(segments) - 1 = m
    BY <1>4, <1>7
  <2>3. KeysAbove = [i \in 1..m |-> o[i].key - f]
    BY <2>1, <2>2 DEF KeysAbove
  <2> QED BY <2>3
<1>10. ASSUME NEW i \in 1..m PROVE o[i].key \in Nat /\ f <= o[i].key /\ N[i] = o[i].key - f /\ N[i] \in Nat
  <2>1. i \in 1..c /\ 1 \in 1..c /\ 1 <= i
    BY <1>7
  <2>2. o[i].key \in Nat /\ o[1].key <= o[i].key
    BY <1>6, <2>1
  <2>3. N[i] = o[i].key - f
    BY <1>9
  <2> QED BY <1>8, <2>2, <2>3
<1>11. ASSUME NEW i \in 1..(m - 1) PROVE N[i] # N[i + 1]
  <2>1. i \in 1..m /\ i + 1 \in 1..m /\ i \in 1..(Len(o) - 2)
    BY <1>4, <1>7
  <2>2. o[i].key # o[i + 1].key
    BY <1>5, <2>1, KeysDiffer
  <2> QED BY <1>10, <2>1, <2>2
<1>12. ASSUME NEW i \in 1..m, NEW j \in 1..m, i <= j PROVE N[i] <= N[j]
  <2>1. i \in 1..c /\ j \in 1..c
    BY <1>7
  <2>2. o[i].key <= o[j].key
    BY <1>6, <1>12, <2>1
  <2>3. PICK p \in Nat, q \in Nat : p = o[i].key /\ q = o[j].key /\ f <= p /\ f <= q
    BY <1>10
  <2>4. p <= q /\ N[i] = p - f /\ N[j] = q - f
    BY <1>10, <2>2, <2>3
  <2> QED BY <2>3, <2>4
<1>13. \A i, j \in 1..m : i < j => N[i] < N[j]
  BY <1>10, <1>11, <1>12, StepsGrow
<1>14. Ascends(N, m)
  BY <1>10, <1>13 DEF Ascends
<1>15. Len(N) = m
  BY <1>9
<1>16. N[1] = 0
  <2>1. 1 \in 1..m
    BY <1>7
  <2>2. N[1] = f - f
    BY <1>8, <1>10, <2>1
  <2> QED BY <2>2
<1>17. AreKeys(N, m, o)
  BY <1>4, <1>7, <1>8, <1>10, <1>14, <1>15, <1>16 DEF AreKeys
<1> QED
  BY <1>1, <1>4, <1>9, <1>17

(* The vector that is made of the keys.                                    *)
LEMMA VectorStored ==
    ASSUME Indexes, ~Flagged(data, Indexed(data) - 1), Len(levels_offsets) <= 2, first_key = data[1]
    PROVE  \E m \in Nat, W \in Nat, Z \in Nat, p \in Nat :
              /\ AreKeys(KeysAbove, m, Level(1))
              /\ Stores(sd_vector(KeysAbove), KeysAbove, m, W, Z) /\ W * Z = 2^p /\ p >= 1
<1>1. PICK N : N = KeysAbove
  OBVIOUS
<1>2. PICK m \in Nat : AreKeys(N, m, Level(1))
  BY <1>1, KeysAscend
<1>3. Ascends(N, m) /\ Len(N) = m
  BY <1>2 DEF AreKeys
<1>4. \E W \in Nat, Z \in Nat, p \in Nat :
         Stores(sd_vector(N), N, m, W, Z) /\ W * Z = 2^p /\ p >= 1
  BY <1>3, VectorStores
<1> QED
  BY <1>1, <1>4, <1>2

\* Segment i is the one for y, and its key is that of the i-th number.
FoundAt(i, number, y) ==
    /\ i \in 0..(Len(segments) - 2) /\ number + first_key = At(i).key /\ At(i).key <= y
    /\ y < At(i + 1).key \/ i = Len(segments) - 2

\* What pred has to say of i.
IsFound(v, i, y) ==
    /\ PredOutOfBounds(v, i) => i = v.size /\ \E j \in 1..v.size : 2^j = v.size + 1
    /\ ~PredOutOfBounds(v, i) => FoundAt(pred(v, i).rank, pred(v, i).key, y)

(* pred finds the segment for a key, or asks for a bit the vector has not. *)
LEMMA PredFinds ==
    ASSUME Indexes, ~Flagged(data, Indexed(data) - 1), Len(levels_offsets) <= 2, first_key = data[1],
           NEW v, v = sd_vector(KeysAbove), NEW y \in Nat, first_key \in Nat, first_key <= y
    PROVE  IsFound(v, y - first_key, y)
<1>1. PICK N, o : N = KeysAbove /\ o = Level(1)
  OBVIOUS
<1>2. PICK m \in Nat, W \in Nat, Z \in Nat, p \in Nat :
         /\ AreKeys(N, m, o) /\ Stores(v, N, m, W, Z) /\ W * Z = 2^p /\ p >= 1
  BY <1>1, VectorStored
<1>3. PICK i \in Nat, f \in Nat : f = first_key /\ i = y - f /\ y = i + f
  <2>1. PICK f \in Nat : f = first_key /\ f <= y
    OBVIOUS
  <2>2. y - f \in Nat /\ y = (y - f) + f
    BY <2>1
  <2> QED BY <2>1, <2>2
<1>4. y = i + f
  BY <1>3
<1>5. ASSUME PredOutOfBounds(v, i) PROVE i = v.size /\ \E j \in 1..v.size : 2^j = v.size + 1
  <2>1. i = v.size /\ W * Z = v.size + 1
    BY <1>2, <1>5, OutOfBoundsIs
  <2>2. PICK q \in Nat : q = 2^p /\ p < q
    BY PowersOfTwo
  <2>3. q = i + 1
    BY <1>2, <2>1, <2>2
  <2>4. p \in 1..i
    BY <1>2, <2>2, <2>3
  <2> QED BY <2>1, <2>2, <2>3, <2>4
<1>6. ASSUME ~PredOutOfBounds(v, i) PROVE FoundAt(pred(v, i).rank, pred(v, i).key, y)
  <2>1. N[1] = 0
    BY <1>2 DEF AreKeys
  <2>2. PICK c \in Nat : IsPred(pred(v, i), N, m, i, c)
    BY <1>2, <1>6, <2>1, PredIs
  <2>3. /\ c \in 1..m /\ pred(v, i).rank = c - 1 /\ pred(v, i).key = N[c]
        /\ N[c] <= i /\ (c < m => i < N[c + 1])
    BY <2>2 DEF IsPred
  <2>4. /\ Len(segments) = m + 1 /\ segments[c] = o[c] /\ segments[c + 1] = o[c + 1]
    <3>1. Len(o) = m + 1 /\ Len(o) = Len(segments) /\ \A j \in 1..Len(segments) : segments[j] = o[j]
      BY <1>2, <1>1, KeysAscend DEF AreKeys
    <3>2. Len(segments) = m + 1 /\ c \in 1..(m + 1) /\ c + 1 \in 1..(m + 1)
      BY <2>3, <3>1
    <3> QED BY <3>1, <3>2
  <2>5. At(c - 1) = o[c] /\ At((c - 1) + 1) = o[c + 1]
    <3>1. (c - 1) + 1 = c
      OBVIOUS
    <3> QED BY <2>4, <3>1 DEF At
  <2>6. \A j \in 1..m : N[j] = o[j].key - f /\ o[j].key \in Nat /\ f <= o[j].key
    BY <1>2, <1>3 DEF AreKeys
  <2>7. N[c] + f = o[c].key /\ o[c].key <= y
    <3>1. PICK b \in Nat : b = o[c].key /\ N[c] = b - f
      BY <2>3, <2>6
    <3>2. b - f <= i
      BY <2>3, <3>1
    <3>3. (b - f) + f = b /\ b <= y
      BY <1>4, <3>2
    <3> QED BY <3>1, <3>3
  <2>8. ASSUME c < m PROVE y < o[c + 1].key
    <3>1. c + 1 \in 1..m
      BY <2>3, <2>8
    <3>2. PICK b \in Nat : b = o[c + 1].key /\ N[c + 1] = b - f
      BY <2>6, <3>1
    <3>3. i < b - f
      BY <2>3, <2>8, <3>2
    <3>4. y < b
      BY <1>4, <3>3
    <3> QED BY <3>2, <3>4
  <2>9. c - 1 \in 0..((m + 1) - 2) /\ (c < m \/ c - 1 = (m + 1) - 2)
    BY <2>3
  <2> QED BY <1>3, <2>3, <2>4, <2>5, <2>7, <2>8, <2>9 DEF FoundAt
<1>7. IsFound(v, i, y)
  BY <1>5, <1>6 DEF IsFound
<1> QED
  BY <1>3, <1>7

-----------------------------------------------------------------------------
(* The table of a BucketingPGMIndex.                                       *)

\* h is how far above the first key the c segments begin: with the first, and in order.
Rises(h, c) ==
    /\ c \in Nat /\ c >= 1 /\ h[0] = 0
    /\ \A j \in 0..(c - 1) : h[j] \in Nat
    /\ \A i, j \in 0..(c - 1) : i <= j => h[i] <= h[j]

\* m is the first segment at or above t.
PartBegins(h, c, m, t) ==
    /\ m \in 0..c
    /\ \A j \in 0..(c - 1) : h[j] < t <=> j < m

LEMMA PartExists ==
    ASSUME NEW h, NEW c, Rises(h, c), NEW t \in Nat
    PROVE  \E m \in Nat : PartBegins(h, c, m, t)
<1>1. PICK N \in Nat : N = c
  BY DEF Rises
<1>2. PICK A : A = {j \in 0..N : j = N \/ ~(h[j] < t)}
  OBVIOUS
<1>3. A \in SUBSET Nat /\ N \in A
  BY <1>2
<1>4. PICK m \in Nat : m \in A /\ \A y \in A : m <= y
  <2>1. A # {}
    BY <1>3
  <2> QED BY <1>3, <2>1, LeastElement
<1>5. ASSUME NEW j \in 0..(N - 1) PROVE h[j] < t <=> j < m
  <2>1. j \in 0..N /\ j # N /\ h[j] \in Nat
    BY <1>1 DEF Rises
  <2>2. CASE j < m
    <3>1. j \notin A
      BY <1>4, <2>2
    <3> QED BY <1>2, <2>1, <2>2, <3>1
  <2>3. CASE ~(j < m)
    <3>1. m <= j /\ m \in 0..(N - 1) /\ m # N
      BY <1>2, <1>4, <2>3
    <3>2. ~(h[m] < t)
      BY <1>2, <1>4, <3>1
    <3>3. h[m] <= h[j] /\ h[m] \in Nat
      BY <1>1, <3>1 DEF Rises
    <3>4. ~(h[j] < t)
      BY <2>1, <3>2, <3>3
    <3> QED BY <2>3, <3>4
  <2> QED BY <2>2, <2>3
<1>6. m \in 0..N
  BY <1>2, <1>4
<1> QED
  BY <1>1, <1>5, <1>6 DEF PartBegins

LEMMA PartsInOrder ==
    ASSUME NEW h, NEW c, Rises(h, c), NEW m1, NEW m2, NEW t1 \in Nat, NEW t2 \in Nat, t1 <= t2,
           PartBegins(h, c, m1, t1), PartBegins(h, c, m2, t2)
    PROVE  m1 <= m2
<1>1. c \in Nat /\ m1 \in 0..c /\ m2 \in 0..c
  BY DEF Rises, PartBegins
<1>2. SUFFICES ASSUME m2 < m1 PROVE FALSE
  BY <1>1
<1>3. m2 \in 0..(c - 1) /\ ~(m2 < m2)
  BY <1>1, <1>2
<1>4. h[m2] \in Nat /\ h[m2] < t1 /\ ~(h[m2] < t2)
  BY <1>2, <1>3 DEF Rises, PartBegins
<1> QED
  BY <1>4

LEMMA GreaterOfTwo ==
    ASSUME NEW a \in Int, NEW b \in Int, NEW T, T = {a, b}, NEW m, m = Max(T)
    PROVE  (m = a \/ m = b) /\ a <= m /\ b <= m
<1>1. T \in SUBSET Int /\ T # {}
  OBVIOUS
<1>2. \E c \in Int : \A y \in T : y <= c
  <2>1. a <= b \/ b <= a
    OBVIOUS
  <2> QED BY <2>1
<1>3. Max(T) \in T /\ \A y \in T : y <= Max(T)
  BY <1>1, <1>2, GreatestElement
<1>4. m \in T /\ \A y \in T : y <= m
  BY <1>3
<1> QED
  BY <1>4

\* The first segment from p on, but not the first of all, at or above t.
CellFrom(h, c, p, t) == Min({j \in Max({1, p})..c : j = c \/ h[j] >= t})

(* Looking from where the part before begins on finds where one begins.    *)
LEMMA CellFound ==
    ASSUME NEW h, NEW c, Rises(h, c), NEW p, NEW s \in Nat, PartBegins(h, c, p, s),
           NEW t \in Nat, t >= 1, s <= t
    PROVE  PartBegins(h, c, CellFrom(h, c, p, t), t)
<1>1. PICK m \in Nat : PartBegins(h, c, m, t)
  BY PartExists
<1>2. PICK N \in Nat : N = c /\ N >= 1 /\ p \in 0..N /\ m \in 0..N /\ h[0] = 0
  BY <1>1 DEF Rises, PartBegins
<1>3. p <= m
  BY <1>1, PartsInOrder
<1>4. 1 <= m
  <2>1. 0 \in 0..(c - 1) /\ h[0] < t
    BY <1>2
  <2>2. 0 < m
    BY <1>1, <2>1 DEF PartBegins
  <2> QED BY <2>2
<1>5. PICK q \in Nat : q = Max({1, p}) /\ q <= m /\ 1 <= q
  <2>1. PICK T : T = {1, p}
    OBVIOUS
  <2>2. PICK q : q = Max(T)
    OBVIOUS
  <2>3. 1 \in Int /\ p \in Int
    BY <1>2
  <2>4. (q = 1 \/ q = p) /\ 1 <= q /\ p <= q
    BY <2>1, <2>2, <2>3, GreaterOfTwo
  <2> QED BY <1>2, <1>3, <1>4, <2>1, <2>2, <2>4
<1>6. PICK A : A = {j \in q..N : j = N \/ h[j] >= t}
  OBVIOUS
<1>7. ASSUME NEW j \in q..N PROVE j \in A <=> m <= j
  <2>1. CASE j = N
    BY <1>2, <1>6, <2>1
  <2>2. CASE j # N
    <3>1. j \in 0..(c - 1)
      BY <1>2, <2>2
    <3>2. h[j] \in Nat /\ (h[j] < t <=> j < m)
      BY <1>1, <3>1 DEF Rises, PartBegins
    <3>3. h[j] >= t <=> m <= j
      BY <3>1, <3>2
    <3> QED BY <1>6, <2>2, <3>3
  <2> QED BY <2>1, <2>2
<1>8. A \in SUBSET Nat /\ m \in A /\ \A j \in A : m <= j
  <2>1. A \in SUBSET Nat /\ \A j \in A : j \in q..N
    BY <1>6
  <2>2. m \in q..N
    BY <1>2, <1>5
  <2> QED BY <1>7, <2>1, <2>2
<1>9. Min(A) = m
  <2>1. Min(A) \in A /\ \A y \in A : Min(A) <= y
    <3>1. A # {}
      BY <1>8
    <3> QED BY <1>8, <3>1, LeastElement
  <2>2. PICK u \in Nat : u = Min(A) /\ u <= m /\ m <= u
    BY <1>8, <2>1
  <2>3. u = m
    BY <2>2
  <2> QED BY <2>2, <2>3
<1> QED
  BY <1>1, <1>2, <1>5, <1>6, <1>9 DEF CellFrom

\* How many keys a part of the table stands for, and how many cells the table has.
PartWidth ==
    IF pow_two_top_level THEN (KeyMax + 1) \div TopLevelSize
    ELSE Max({CEIL_INT_DIV(last_key - first_key, TopLevelSize), 1})
CellCount ==
    IF pow_two_top_level THEN CEIL_INT_DIV(last_key - first_key, PartWidth) + 2
    ELSE TopLevelSize + 2

\* The cells are wide enough for their entries, parts are not empty, and all begin at a
\* distance that is a key.
Tabled ==
    /\ ~(TopLevelBitSize # 0 /\ TopLevelBitSize < BIT_WIDTH(Len(segments)))
    /\ TopLevelSize <= KeyMax + 1
    /\ \A i \in 1..(CellCount - 2) : i * PartWidth <= KeyMax

LEMMA CeilingFacts ==
    ASSUME NEW a \in Nat, NEW w \in Nat, w > 0
    PROVE  CEIL_INT_DIV(a, w) \in Nat /\ a <= w * CEIL_INT_DIV(a, w)
<1>1. PICK b \in Nat : b = a + w - 1 /\ a + w = b + 1
  <2>1. a + w - 1 \in Nat /\ a + w = (a + w - 1) + 1
    OBVIOUS
  <2> QED BY <2>1
<1>2. PICK q \in Nat : q = b \div w /\ w * q <= b /\ b < w * q + w
  BY DivisionFacts
<1>3. a <= w * q
  <2>1. PICK z \in Int : z = w * q
    BY <1>2
  <2> QED BY <1>1, <1>2, <2>1
<1> QED
  BY <1>1, <1>2, <1>3 DEF CEIL_INT_DIV

\* A distance and the part of w keys it falls in.
InPart(d, w, j) == j = d \div w /\ w * j <= d /\ d < w * (j + 1)

LEMMA PartFacts ==
    ASSUME NEW d \in Nat, NEW w \in Nat, w > 0
    PROVE  \E j \in Nat : InPart(d, w, j)
<1>1. PICK j \in Nat : j = d \div w /\ w * j <= d /\ d < w * j + w
  BY DivisionFacts
<1>2. w * (j + 1) = w * j + w
  OBVIOUS
<1> QED
  BY <1>1, <1>2 DEF InPart

(* A part is not beyond the c parts that hold the distance u.              *)
LEMMA PartInside ==
    ASSUME NEW d \in Nat, NEW u \in Nat, d <= u, NEW w \in Nat, w > 0, NEW c \in Nat, u <= w * c,
           NEW j \in Nat, InPart(d, w, j)
    PROVE  j <= c
<1> SUFFICES ASSUME c < j PROVE FALSE
  OBVIOUS
<1>1. PICK e \in Nat : j = c + e /\ e >= 1
  <2>1. j - c \in Nat /\ j = c + (j - c) /\ j - c >= 1
    OBVIOUS
  <2> QED BY <2>1
<1>2. w * j = w * c + w * e
  BY <1>1
<1>3. w * e >= 0 /\ w * c \in Nat /\ w * e \in Nat
  BY ProductSign, <1>1
<1>4. w * j <= w * c
  BY <1>2, <1>3 DEF InPart
<1>5. w * e = 0
  BY <1>2, <1>3, <1>4
<1>6. PICK g \in Nat : e = g + 1
  <2>1. e - 1 \in Nat /\ e = (e - 1) + 1
    BY <1>1
  <2> QED BY <2>1
<1>7. w * e = w * g + w /\ w * g \in Nat
  BY <1>6, ProductSign
<1> QED
  BY <1>5, <1>7

LEMMA PartWidthFacts ==
    ASSUME IsData(data), first_key = data[1], TopLevelSize \in Nat, TopLevelSize > 0, Tabled
    PROVE  /\ PartWidth \in Nat /\ PartWidth > 0 /\ CellCount \in Nat /\ CellCount >= 2
           /\ last_key \in Nat /\ first_key \in Nat /\ first_key <= last_key
           /\ last_key - first_key <= PartWidth * (CellCount - 2)
<1>1. PICK f \in Nat, l \in Nat, u \in Nat : f = first_key /\ l = last_key /\ f <= l /\ u = l - f
  <2>1. 1 \in 1..Len(data) /\ Len(data) \in 1..Len(data) /\ 1 <= Len(data)
    BY IndexedFacts
  <2>2. data[1] \in Nat /\ data[Len(data)] \in Nat /\ data[1] <= data[Len(data)]
    BY <2>1, IndexedFacts
  <2>3. PICK f \in Nat, l \in Nat : f = first_key /\ l = last_key /\ f <= l
    BY <2>2 DEF last_key, n
  <2>4. l - f \in Nat
    BY <2>3
  <2> QED BY <2>3, <2>4
<1>2. PICK s \in Nat : s = TopLevelSize /\ s > 0 /\ s <= KeyMax + 1
  BY DEF Tabled
<1>3. u = last_key - first_key
  BY <1>1
<1>4. CASE pow_two_top_level
  <2>1. PICK r \in Nat : r = KeyMax + 1 /\ s <= r
    BY <1>2, KeyMaxNat
  <2>2. PICK w \in Nat : w = r \div s /\ r < s * w + s
    BY <1>2, <2>1, DivisionFacts
  <2>3. w > 0
    <3>1. ASSUME w = 0 PROVE FALSE
      <4>1. s * w = 0
        BY <3>1
      <4> QED BY <2>1, <2>2, <4>1
    <3> QED BY <3>1
  <2>4. PartWidth = w
    BY <1>2, <1>4, <2>1, <2>2 DEF PartWidth
  <2>5. PICK c \in Nat : c = CEIL_INT_DIV(u, w) /\ u <= w * c
    BY <2>3, CeilingFacts
  <2>6. CellCount = c + 2
    BY <1>3, <1>4, <2>4, <2>5 DEF CellCount
  <2>7. CellCount \in Nat /\ CellCount >= 2 /\ CellCount - 2 = c
    BY <2>6
  <2> QED BY <1>1, <2>3, <2>4, <2>5, <2>7
<1>5. CASE ~pow_two_top_level
  <2>1. PICK q \in Nat : q = CEIL_INT_DIV(u, s) /\ u <= s * q
    BY <1>2, CeilingFacts
  <2>2. PICK T : T = {q, 1}
    OBVIOUS
  <2>10. PICK w : w = Max(T)
    OBVIOUS
  <2>3. w \in Nat /\ q <= w /\ 1 <= w
    <3>1. q \in Int /\ 1 \in Int
      OBVIOUS
    <3>2. (w = q \/ w = 1) /\ q <= w /\ 1 <= w
      BY <2>2, <2>10, <3>1, GreaterOfTwo
    <3> QED BY <3>2
  <2>4. PartWidth = w
    BY <1>2, <1>3, <1>5, <2>1, <2>2, <2>10 DEF PartWidth
  <2>5. PICK e \in Nat : w = q + e
    <3>1. w - q \in Nat /\ w = q + (w - q)
      BY <2>3
    <3> QED BY <3>1
  <2>6. w * s = s * q + s * e /\ s * e >= 0 /\ s * q \in Int /\ s * e \in Int
    BY <2>5, ProductSign
  <2>7. u <= w * s
    BY <2>1, <2>6
  <2>8. CellCount = s + 2
    BY <1>2, <1>5 DEF CellCount
  <2>9. CellCount \in Nat /\ CellCount >= 2 /\ CellCount - 2 = s
    BY <2>8
  <2> QED BY <1>1, <2>3, <2>4, <2>7, <2>9
<1> QED
  BY <1>4, <1>5

(* No start of a part wraps around.                                        *)
LEMMA StartsUnwrapped ==
    ASSUME Tabled, PartWidth \in Nat, PartWidth > 0, NEW i \in Nat, i \in 1..(CellCount - 2)
    PROVE  InK(InK(i) * PartWidth) = i * PartWidth /\ i * PartWidth \in Nat /\ i * PartWidth >= 1
<1>1. PICK w \in Nat, g \in Nat : w = PartWidth /\ w = g + 1
  <2>1. PartWidth - 1 \in Nat /\ PartWidth = (PartWidth - 1) + 1
    OBVIOUS
  <2> QED BY <2>1
<1>2. i * w = i * g + i /\ i * g >= 0 /\ i * g \in Int /\ i >= 1
  BY <1>1, ProductSign
<1>3. PICK z \in Nat : z = i * w /\ i <= z /\ z >= 1
  BY <1>1, <1>2
<1>4. z <= KeyMax
  BY <1>1, <1>3 DEF Tabled
<1>5. \A x \in Nat : x <= KeyMax => InK(x) = x
  <2> SUFFICES ASSUME NEW x \in Nat, x <= KeyMax PROVE x % (KeyMax + 1) = x
    BY DEF InK
  <2>1. x \in 0..KeyMax /\ KeyMax + 1 > 0 /\ KeyMax + 1 \in Nat
    BY KeyMaxNat
  <2> QED BY <2>1, KeyMaxNat
<1>6. i <= KeyMax
  BY <1>3, <1>4, KeyMaxNat
<1>7. InK(i) = i /\ InK(z) = z
  BY <1>3, <1>4, <1>5, <1>6
<1> QED
  BY <1>1, <1>3, <1>7

\* What Table asks of its cells, and of one for i after the one p.
CellAfter(p, i, w) ==
    Min({j \in Max({1, p})..Len(segments) :
            j = Len(segments) \/ At(j).key - first_key >= InK(InK(i) * w)})
IsCells(cell, w, size) ==
    cell = [i \in 0..(size - 1) |->
              CASE i = 0 -> 0
                [] i = size - 1 -> Len(segments)
                [] OTHER -> CellAfter(cell[i - 1], i, w)]
Cells(w, size) == CHOOSE cell : IsCells(cell, w, size)

LEMMA TableIs ==
    ASSUME NEW w, NEW size
    PROVE  Table(w, size) = [i \in 1..size |-> Cells(w, size)[i - 1]]
BY DEF Table, Cells, IsCells, CellAfter

LEMMA CellInside ==
    ASSUME NEW c \in Nat, c >= 1, NEW p \in 0..c, NEW A, NEW q, q = Max({1, p}),
           A \subseteq q..c, c \in q..c => c \in A
    PROVE  Min(A) \in 0..c
<1>1. PICK T : T = {1, p}
  OBVIOUS
<1>2. (q = 1 \/ q = p) /\ 1 <= q
  <2>1. 1 \in Int /\ p \in Int /\ q = Max(T)
    BY <1>1
  <2> QED BY <1>1, <2>1, GreaterOfTwo
<1>3. q \in Nat /\ q <= c
  BY <1>2
<1>4. A \in SUBSET Nat /\ A # {} /\ \A j \in A : j <= c
  BY <1>3
<1>5. Min(A) \in A
  BY <1>4, LeastElement
<1>6. PICK m \in Nat : m = Min(A) /\ m <= c
  BY <1>4, <1>5
<1> QED
  BY <1>6

LEMMA CellsExist ==
    ASSUME NEW w, NEW N \in Nat, N >= 1, Len(segments) \in Nat, Len(segments) >= 1
    PROVE  IsCells(Cells(w, N + 1), w, N + 1)
<1>1. PICK c \in Nat : c = Len(segments) /\ c >= 1
  OBVIOUS
<1>2. PICK X : X = 0..c
  OBVIOUS
<1> DEFINE Value(i, p) == IF i = N THEN c ELSE CellAfter(p, i, w)
           G == [m \in 0..(N - 1) |-> [p \in X |-> Value(m + 1, p)]]
<1>3. ASSUME NEW m \in 0..(N - 1), NEW p \in X PROVE Value(m + 1, p) \in X
  <2>1. CASE m + 1 = N
    BY <1>2, <2>1
  <2>2. CASE m + 1 # N
    <3>1. PICK q : q = Max({1, p})
      OBVIOUS
    <3>2. PICK A : A = {j \in q..c : j = c \/ At(j).key - first_key >= InK(InK(m + 1) * w)}
      OBVIOUS
    <3>3. A \subseteq q..c /\ (c \in q..c => c \in A)
      BY <3>2
    <3>4. Min(A) \in 0..c
      BY <1>1, <1>2, <3>1, <3>3, CellInside
    <3>5. CellAfter(p, m + 1, w) = Min(A)
      BY <1>1, <3>1, <3>2 DEF CellAfter
    <3> QED BY <1>2, <2>2, <3>4, <3>5
  <2> QED BY <2>1, <2>2
<1>4. G \in [0..(N - 1) -> [X -> X]]
  BY <1>3
<1>5. \A m \in 0..(N - 1), p \in X : G[m][p] = Value(m + 1, p)
  OBVIOUS
<1>6. 0 \in X
  BY <1>1, <1>2
<1> HIDE DEF G
<1>7. PICK f : Iterates(f, X, 0, G, N)
  BY <1>4, <1>6, RecursionExists
<1>8. f \in [0..N -> X] /\ f[0] = 0 /\ \A i \in 1..N : f[i] = G[i - 1][f[i - 1]]
  BY <1>7 DEF Iterates
<1>9. ASSUME NEW i \in 1..N PROVE f[i] = Value(i, f[i - 1])
  <2>1. i - 1 \in 0..(N - 1) /\ i - 1 \in 0..N /\ (i - 1) + 1 = i
    OBVIOUS
  <2>2. f[i - 1] \in X
    BY <1>8, <2>1
  <2>3. G[i - 1][f[i - 1]] = Value((i - 1) + 1, f[i - 1])
    BY <1>5, <2>1, <2>2
  <2> QED BY <1>8, <2>1, <2>3
<1>10. (N + 1) - 1 = N
  OBVIOUS
<1>11. IsCells(f, w, N + 1)
  <2>1. f = [i \in 0..N |-> f[i]]
    BY <1>8
  <2>2. ASSUME NEW i \in 0..N
        PROVE  f[i] = CASE i = 0 -> 0
                        [] i = N -> Len(segments)
                        [] OTHER -> CellAfter(f[i - 1], i, w)
    <3>1. CASE i = 0
      <4>1. i # N
        BY <3>1
      <4> QED BY <1>8, <3>1, <4>1
    <3>2. CASE i # 0
      <4>1. i \in 1..N
        BY <3>2
      <4> QED BY <1>1, <1>9, <3>2, <4>1
    <3> QED BY <3>1, <3>2
  <2> QED BY <1>10, <2>1, <2>2 DEF IsCells
<1> QED
  BY <1>11 DEF Cells

\* h[j] is how far above the first key segment j of the c segments begins.
IsAbove(h, c) ==
    /\ Rises(h, c) /\ c = Len(segments)
    /\ \A j \in 0..(c - 1) : At(j).key \in Nat /\ h[j] = At(j).key - first_key

(* The cells but for the last are the segments the parts begin with.       *)
LEMMA CellsBegin ==
    ASSUME NEW h, NEW c, IsAbove(h, c), NEW w \in Nat, w > 0, NEW N \in Nat, N >= 1,
           \A i \in 1..(N - 1) : InK(InK(i) * w) = i * w /\ i * w \in Nat /\ i * w >= 1,
           NEW g, IsCells(g, w, N + 1)
    PROVE  /\ g[N] = c
           /\ \A i \in 0..(N - 1) : PartBegins(h, c, g[i], i * w)
<1>1. /\ Rises(h, c) /\ c = Len(segments) /\ c \in Nat /\ c >= 1
      /\ \A j \in 0..(c - 1) : h[j] = At(j).key - first_key
  BY DEF IsAbove, Rises
<1>2. \A i \in 0..N : g[i] = CASE i = 0 -> 0
                               [] i = N -> c
                               [] OTHER -> CellAfter(g[i - 1], i, w)
  <2>1. (N + 1) - 1 = N
    OBVIOUS
  <2> QED BY <1>1, <2>1 DEF IsCells
<1>3. g[0] = 0 /\ g[N] = c
  <2>1. 0 \in 0..N /\ N \in 0..N /\ N # 0
    OBVIOUS
  <2> QED BY <1>2, <2>1
<1>4. ASSUME NEW i \in 1..(N - 1) PROVE g[i] = CellAfter(g[i - 1], i, w)
  <2>1. i \in 0..N /\ i # 0 /\ i # N
    OBVIOUS
  <2> QED BY <1>2, <2>1
<1>5. ASSUME NEW p, NEW i \in 1..(N - 1), NEW t, t = i * w, p \in 0..c
      PROVE  CellAfter(p, i, w) = CellFrom(h, c, p, t)
  <2>1. PICK q : q = Max({1, p})
    OBVIOUS
  <2>2. InK(InK(i) * w) = t
    BY <1>5
  <2>3. q \in Nat
    <3>1. PICK T : T = {1, p}
      OBVIOUS
    <3>2. 1 \in Int /\ p \in Int /\ q = Max(T)
      BY <1>5, <2>1, <3>1
    <3>3. q = 1 \/ q = p
      BY <3>1, <3>2, GreaterOfTwo
    <3> QED BY <1>5, <3>3
  <2>4. {j \in q..c : j = c \/ At(j).key - first_key >= t} = {j \in q..c : j = c \/ h[j] >= t}
    <3>1. ASSUME NEW j \in q..c, j # c PROVE At(j).key - first_key = h[j]
      <4>1. j \in 0..(c - 1)
        BY <1>1, <2>3, <3>1
      <4> QED BY <1>1, <4>1
    <3> QED BY <3>1
  <2> QED BY <1>1, <2>1, <2>2, <2>4 DEF CellAfter, CellFrom
<1> DEFINE S == {i \in 0..(N - 1) : PartBegins(h, c, g[i], i * w)}
<1>6. 0 \in S
  <2>1. 0 \in 0..(N - 1) /\ 0 * w = 0
    OBVIOUS
  <2>2. PartBegins(h, c, 0, 0)
    <3>1. \A j \in 0..(c - 1) : h[j] \in Nat
      BY <1>1 DEF Rises
    <3>2. \A j \in 0..(c - 1) : ~(h[j] < 0) /\ ~(j < 0)
      BY <3>1
    <3>3. 0 \in 0..c
      BY <1>1
    <3> QED BY <3>2, <3>3 DEF PartBegins
  <2> QED BY <1>3, <2>1, <2>2
<1>7. ASSUME NEW i \in 0..((N - 1) - 1), i \in S PROVE i + 1 \in S
  <2>1. i + 1 \in 1..(N - 1) /\ (i + 1) - 1 = i /\ i + 1 \in 0..(N - 1)
    OBVIOUS
  <2>2. PICK s \in Nat, t \in Nat : s = i * w /\ t = (i + 1) * w /\ t >= 1 /\ s <= t
    <3>1. i * w >= 0 /\ i * w \in Int
      BY ProductSign
    <3>2. (i + 1) * w = i * w + w
      OBVIOUS
    <3>3. (i + 1) * w \in Nat /\ (i + 1) * w >= 1
      BY <2>1
    <3> QED BY <3>1, <3>2, <3>3
  <2>3. PICK p : p = g[i] /\ PartBegins(h, c, p, s)
    BY <1>7, <2>2
  <2>4. PartBegins(h, c, CellFrom(h, c, p, t), t)
    BY <1>1, <2>2, <2>3, CellFound
  <2>5. p \in 0..c
    BY <2>3 DEF PartBegins
  <2>6. g[i + 1] = CellFrom(h, c, p, t)
    BY <1>4, <1>5, <2>1, <2>2, <2>3, <2>5
  <2> QED BY <2>1, <2>2, <2>4, <2>6
<1> HIDE DEF S
<1>8. \A i \in 0..(N - 1) : i \in S
  <2>1. 0 \in Int /\ N - 1 \in Int
    OBVIOUS
  <2> QED BY <1>6, <1>7, <2>1, IntervalInduction
<1> QED
  BY <1>3, <1>8 DEF S

LEMMA AboveExists ==
    ASSUME Indexes, Len(levels_offsets) <= 2, first_key = data[1]
    PROVE  \E h : IsAbove(h, Len(segments))
<1>1. PICK o, s, epsilon : o = Level(1) /\ s = KeyPoints(data) /\ epsilon = EpsilonOf(EpsilonRecursive, 1)
  OBVIOUS
<1>2. PICK c \in Nat : /\ c >= 2 /\ Len(segments) = c /\ c = Len(o)
                       /\ \A i \in 1..c : segments[i] = o[i]
  BY <1>1, OneLevel
<1>3. IsLevelOf(o, s, epsilon, End(data)) /\ o[1].key = data[1]
  BY <1>1, OneLevel
<1>4. /\ \A i \in 1..c : o[i].key \in Nat
      /\ \A i, j \in 1..c : i <= j => o[i].key <= o[j].key
  BY <1>2, <1>3, LevelHasKeys
<1>5. PICK f \in Nat : f = first_key /\ f = o[1].key
  <2>1. 1 \in 1..c
    BY <1>2
  <2> QED BY <1>3, <1>4, <2>1
<1>6. PICK h : h = [j \in 0..(c - 1) |-> o[j + 1].key - f]
  OBVIOUS
<1>7. ASSUME NEW j \in 0..(c - 1)
      PROVE  /\ h[j] = o[j + 1].key - f /\ o[j + 1].key \in Nat /\ f <= o[j + 1].key /\ h[j] \in Nat
             /\ At(j) = o[j + 1]
  <2>1. j + 1 \in 1..c /\ 1 \in 1..c /\ 1 <= j + 1
    BY <1>2
  <2>2. o[j + 1].key \in Nat /\ f <= o[j + 1].key
    BY <1>4, <1>5, <2>1
  <2>3. h[j] = o[j + 1].key - f
    BY <1>6
  <2>4. At(j) = o[j + 1]
    BY <1>2, <2>1 DEF At
  <2> QED BY <2>2, <2>3, <2>4
<1>8. ASSUME NEW i \in 0..(c - 1), NEW j \in 0..(c - 1), i <= j PROVE h[i] <= h[j]
  <2>1. i + 1 \in 1..c /\ j + 1 \in 1..c /\ i + 1 <= j + 1
    BY <1>2, <1>8
  <2>2. o[i + 1].key <= o[j + 1].key
    BY <1>4, <2>1
  <2>3. PICK p \in Nat, q \in Nat : p = o[i + 1].key /\ q = o[j + 1].key /\ h[i] = p - f /\ h[j] = q - f
    BY <1>7
  <2> QED BY <2>2, <2>3
<1>9. h[0] = 0
  <2>1. 0 \in 0..(c - 1) /\ 0 + 1 = 1
    BY <1>2
  <2>2. h[0] = f - f
    BY <1>5, <1>7, <2>1
  <2> QED BY <2>2
<1>10. Rises(h, c)
  BY <1>2, <1>7, <1>8, <1>9 DEF Rises
<1>11. \A j \in 0..(c - 1) : At(j).key \in Nat /\ h[j] = At(j).key - first_key
  BY <1>5, <1>7
<1>12. IsAbove(h, c)
  BY <1>2, <1>10, <1>11 DEF IsAbove
<1> QED
  BY <1>2, <1>12

\* b is the first segment of a part above d, or there is none; u segments are not above d.
PartEnds(h, c, b, d) == b = c \/ \E t \in Nat : d < t /\ PartBegins(h, c, b, t)
ReachTo(h, c, d, u) == u <= c /\ \A j \in 0..(c - 1) : h[j] <= d <=> j < u

(* Counting from the segment a part begins with to that of the next part   *)
(* ends at the last one not above d.                                       *)
LEMMA PartCounted ==
    ASSUME NEW h, NEW c, Rises(h, c), NEW d \in Nat, NEW u \in Nat, ReachTo(h, c, d, u),
           NEW a, NEW s \in Nat, s <= d, PartBegins(h, c, a, s),
           NEW b, PartEnds(h, c, b, d),
           NEW S, S = {j \in a..(b - 1) : h[j] <= d}
    PROVE  a + Cardinality(S) - 1 = u - 1
<1>1. PICK N \in Nat : N = c
  BY DEF Rises
<1>2. \A j \in 0..(N - 1) : h[j] \in Nat /\ (h[j] <= d <=> j < u)
  BY <1>1 DEF Rises, ReachTo
<1>3. a \in 0..N /\ b \in 0..N /\ u <= N
  BY <1>1 DEF PartBegins, PartEnds, ReachTo
<1>4. a <= u
  <2> SUFFICES ASSUME u < a PROVE FALSE
    BY <1>3
  <2>1. u \in 0..(N - 1)
    BY <1>3
  <2>2. h[u] < s
    BY <1>1, <2>1 DEF PartBegins
  <2>3. h[u] <= d
    BY <1>2, <2>1, <2>2
  <2> QED BY <1>2, <2>1, <2>3
<1>5. u <= b
  <2> SUFFICES ASSUME b < u PROVE FALSE
    BY <1>3
  <2>1. b \in 0..(N - 1) /\ b # c
    BY <1>1, <1>3
  <2>2. PICK t \in Nat : d < t /\ PartBegins(h, c, b, t)
    BY <2>1 DEF PartEnds
  <2>3. h[b] <= d
    BY <1>2, <2>1
  <2>4. h[b] < t
    BY <1>2, <2>1, <2>2, <2>3
  <2> QED BY <1>1, <2>1, <2>2, <2>4 DEF PartBegins
<1>6. S = a..(u - 1)
  <2>1. ASSUME NEW j \in a..(b - 1) PROVE h[j] <= d <=> j < u
    <3>1. j \in 0..(N - 1)
      BY <1>3
    <3> QED BY <1>2, <3>1
  <2>2. \A j : j \in a..(u - 1) <=> j \in a..(b - 1) /\ j < u
    BY <1>3, <1>5
  <2> QED BY <2>1, <2>2
<1>7. PICK z \in Int : z = Cardinality(S) /\ z = u - a
  <2>1. PICK p \in Int, q \in Int : p = a /\ q = u - 1 /\ p <= q + 1 /\ q - p + 1 = u - a
    BY <1>3, <1>4
  <2>2. Cardinality(p..q) = IF p > q THEN 0 ELSE q - p + 1
    BY <2>1, FS_Interval
  <2>3. (IF p > q THEN 0 ELSE q - p + 1) = q - p + 1
    BY <2>1
  <2>4. Cardinality(S) = q - p + 1
    BY <1>6, <2>1, <2>2, <2>3
  <2>5. q - p + 1 \in Int
    OBVIOUS
  <2> QED BY <2>1, <2>4, <2>5
<1>8. a + z - 1 = u - 1
  BY <1>3, <1>7
<1> QED
  BY <1>7, <1>8

\* The table is that of the segments.
IsTabled == top_level = Table(PartWidth, CellCount) /\ step = PartWidth

(* The table leads to the last segment not above a key that it is for.     *)
LEMMA SegmentFor ==
    ASSUME Indexes, Len(levels_offsets) <= 2, first_key = data[1],
           TopLevelSize \in Nat, TopLevelSize > 0, Tabled, IsTabled,
           NEW x \in 0..(KeyMax - 1), first_key <= x, x <= last_key
    PROVE  \E u \in Nat : /\ IsLast(Level(1), x, u) /\ segment_for_key(x) = u - 1
                          /\ Level(1)[u].key <= x /\ x < Level(1)[u + 1].key
<1>1. PICK o, s, epsilon : o = Level(1) /\ s = KeyPoints(data) /\ epsilon = EpsilonOf(EpsilonRecursive, 1)
  OBVIOUS
<1>2. PICK c \in Nat : c >= 2 /\ Len(segments) = c /\ c = Len(o)
  BY <1>1, OneLevel
<1>3. IsLevelOf(o, s, epsilon, End(data)) /\ o[1].key = first_key
  BY <1>1, OneLevel
<1>4. PICK u \in Nat : IsLast(o, x, u) /\ o[u].key <= x /\ x < o[u + 1].key
  BY <1>3, LastExists
<1>5. PICK h : IsAbove(h, c)
  BY <1>2, AboveExists
<1>6. PICK w \in Nat, N \in Nat : w = PartWidth /\ w > 0 /\ CellCount = N + 1 /\ N >= 1 /\ N - 1 \in Nat
         /\ last_key - first_key <= w * (N - 1)
  <2>1. IsData(data)
    BY DEF Indexes
  <2>2. PICK w \in Nat, m \in Nat : w = PartWidth /\ w > 0 /\ m = CellCount /\ m >= 2
           /\ last_key - first_key <= w * (m - 2)
    BY <2>1, PartWidthFacts
  <2>3. PICK N \in Nat : m = N + 1 /\ N >= 1 /\ m - 2 = N - 1 /\ N - 1 \in Nat
    <3>1. m - 1 \in Nat /\ m = (m - 1) + 1 /\ m - 1 >= 1 /\ m - 2 = (m - 1) - 1 /\ (m - 1) - 1 \in Nat
      BY <2>2
    <3> QED BY <3>1
  <2> QED BY <2>2, <2>3
<1>7. PICK d \in Nat, e \in Nat : d = x - first_key /\ e = last_key - first_key /\ d <= e
  <2>1. IsData(data)
    BY DEF Indexes
  <2>2. first_key \in Nat /\ last_key \in Nat
    BY <2>1, PartWidthFacts
  <2>3. x \in Nat
    OBVIOUS
  <2> QED BY <2>2, <2>3
<1>8. PICK g : g = Cells(w, N + 1) /\ IsCells(g, w, N + 1)
  BY <1>2, <1>6, CellsExist
<1>9. /\ g[N] = c
      /\ \A i \in 0..(N - 1) : PartBegins(h, c, g[i], i * w)
  <2>1. ASSUME NEW i \in 1..(N - 1)
        PROVE  InK(InK(i) * w) = i * w /\ i * w \in Nat /\ i * w >= 1
    <3>1. i \in Nat /\ i \in 1..(CellCount - 2)
      BY <1>6
    <3> QED BY <1>6, <3>1, StartsUnwrapped
  <2> QED BY <1>5, <1>6, <1>8, <2>1, CellsBegin
<1>10. PICK j \in Nat : InPart(d, w, j) /\ j <= N - 1
  <2>1. PICK j \in Nat : InPart(d, w, j)
    BY <1>6, PartFacts
  <2>2. e <= w * (N - 1)
    BY <1>6, <1>7
  <2>3. j <= N - 1
    BY <1>6, <1>7, <2>1, <2>2, PartInside
  <2> QED BY <2>1, <2>3
<1>11. top_level[j + 1] = g[j] /\ top_level[j + 2] = g[j + 1]
  <2>1. top_level = [i \in 1..(N + 1) |-> g[i - 1]]
    BY <1>6, <1>8, TableIs DEF IsTabled
  <2>2. /\ j + 1 \in 1..(N + 1) /\ (j + 1) - 1 = j
        /\ j + 2 \in 1..(N + 1) /\ (j + 2) - 1 = j + 1
    BY <1>6, <1>10
  <2> QED BY <2>1, <2>2
<1>12. PICK a, b : a = g[j] /\ b = g[j + 1]
  OBVIOUS
<1>13. segment_for_key(x) = a + Cardinality({i \in a..(b - 1) : At(i).key <= x}) - 1
  <2>1. (x - first_key) \div step = j
    BY <1>6, <1>7, <1>10 DEF InPart, IsTabled
  <2> QED BY <1>11, <1>12, <2>1 DEF segment_for_key
<1>14. PICK t0 \in Nat : t0 = j * w /\ t0 <= d /\ PartBegins(h, c, a, t0)
  <2>1. j \in 0..(N - 1)
    BY <1>6, <1>10
  <2>2. w * j \in Nat /\ w * j = j * w /\ w * j <= d
    <3>1. w * j >= 0 /\ w * j \in Int /\ w * j = j * w
      BY ProductSign
    <3> QED BY <1>10, <3>1 DEF InPart
  <2> QED BY <1>9, <1>12, <2>1, <2>2
<1>15. PartEnds(h, c, b, d)
  <2>1. CASE j = N - 1
    <3>1. j + 1 = N
      BY <1>6, <2>1
    <3> QED BY <1>9, <1>12, <3>1 DEF PartEnds
  <2>2. CASE j # N - 1
    <3>1. j + 1 \in 0..(N - 1)
      BY <1>6, <1>10, <2>2
    <3>2. PICK q \in Nat : q = j + 1
      OBVIOUS
    <3>3. w * q >= 0 /\ w * q \in Int /\ w * q = q * w
      BY ProductSign
    <3>4. q * w \in Nat /\ d < q * w
      BY <1>10, <3>2, <3>3 DEF InPart
    <3>5. PartBegins(h, c, b, q * w)
      BY <1>9, <1>12, <3>1, <3>2
    <3> QED BY <3>4, <3>5 DEF PartEnds
  <2> QED BY <2>1, <2>2
<1>16. u <= c /\ \A i \in 0..(c - 1) : At(i).key <= x <=> i < u
  <2>1. u \in 1..(c - 1) /\ \A i \in 1..c : o[i].key <= x <=> i <= u
    BY <1>2, <1>4 DEF IsLast
  <2>2. ASSUME NEW i \in 0..(c - 1) PROVE At(i).key <= x <=> i < u
    <3>1. i + 1 \in 1..c /\ (i + 1 <= u <=> i < u)
      BY <1>2
    <3>2. At(i) = o[i + 1]
      BY <1>1, <1>2, <3>1, OneLevel DEF At
    <3> QED BY <2>1, <3>1, <3>2
  <2> QED BY <2>1, <2>2
<1>17. \A i \in 0..(c - 1) : h[i] <= d <=> At(i).key <= x
  <2> SUFFICES ASSUME NEW i \in 0..(c - 1) PROVE h[i] <= d <=> At(i).key <= x
    OBVIOUS
  <2>1. PICK y \in Nat : y = At(i).key /\ h[i] = y - first_key
    BY <1>5 DEF IsAbove
  <2>2. first_key \in Nat
    BY PartWidthFacts DEF Indexes
  <2>3. y - first_key <= x - first_key <=> y <= x
    BY <2>2
  <2> QED BY <1>7, <2>1, <2>3
<1>18. Rises(h, c)
  BY <1>5 DEF IsAbove
<1>19. PICK S : S = {i \in a..(b - 1) : h[i] <= d}
  OBVIOUS
<1>20. a + Cardinality(S) - 1 = u - 1
  <2>1. ReachTo(h, c, d, u)
    BY <1>16, <1>17 DEF ReachTo
  <2> QED BY <1>14, <1>15, <1>18, <1>19, <2>1, PartCounted
<1>21. S = {i \in a..(b - 1) : At(i).key <= x}
  <2>1. a \in 0..c /\ b \in 0..c
    BY <1>2, <1>14, <1>15 DEF PartBegins, PartEnds
  <2>2. ASSUME NEW i \in a..(b - 1) PROVE i \in 0..(c - 1)
    BY <2>1
  <2> QED BY <1>17, <1>19, <2>2
<1> QED
  BY <1>1, <1>4, <1>13, <1>20, <1>21

-----------------------------------------------------------------------------
(* The search.                                                             *)

\* A PGMIndex, in memory or in a file, a bucketing index with a table that fits, or an
\* Elias-Fano index whose segments begin at different keys, whose largest key is at most
\* the last one, asked for a key below the sentinel's and not below the first segment's.
Regular ==
    /\ OneMax(data)
    /\ Is("bucketing") => Tabled
    /\ Is("elias_fano") => ~Flagged(data, Indexed(data) - 1)
    /\ k < KeyMax /\ ~NotRaised

\* The segments of the first level begin at different keys.
Distinct == OneMax(data) /\ Indexed(data) >= 1 /\ ~Flagged(data, Indexed(data) - 1)

\* The vector is that of the segments' keys, and what the search has got from it.
VectorInv ==
    /\ ~Is("elias_fano") => ef = NoVector
    /\ Is("elias_fano") =>
          /\ first_key = data[1] /\ Len(levels_offsets) <= 2
          /\ pc \in {"build", "logic_error"} => ef = NoVector
          /\ ef # NoVector => ef = sd_vector(KeysAbove)
          /\ Distinct =>
                /\ pc = "found" => FoundAt(it, origin, k)
                /\ pc = "out_of_bounds" => EndsBelowPowerOfTwo

\* The table is that of the segments.
TableInv ==
    Is("bucketing") =>
        /\ first_key = data[1] /\ Len(levels_offsets) <= 2
        /\ pc \in {"build", "logic_error"} => top_level = << >>
        /\ top_level # << >> => IsTabled

\* A bucketing index does not search for keys beyond the first and the last.
OffTheKeys ==
    /\ Is("bucketing")
    /\ \/ key < first_key /\ answer = [pos |-> 0, lo |-> 0, hi |-> 0]
       \/ key > data[n] /\ answer = [pos |-> n, lo |-> n, hi |-> n]

\* The search has come to a segment of level l, and if no prediction on the way is led
\* astray by the arithmetic, to one that serves the key.
HasReached(l, x) == Within(l, x) /\ (Accurate => Lands(l, x))

\* Where the search has come.
SearchInv ==
    /\ key \in 0..KeyMax
    /\ Regular =>
          /\ pc # "invalid_argument" /\ (pc = "out_of_bounds" => Is("elias_fano"))
          /\ pc = "descend" /\ EpsilonRecursive > 0 =>
                level \in 0..(Len(levels_offsets) - 2) /\ HasReached(level + 1, it)
          /\ pc = "found" => HasReached(1, it)
          /\ pc = "answered" /\ Accurate => OffTheKeys \/ \E pos : IsAnswer(pos)

Inv == FileInv /\ VectorInv /\ TableInv /\ SearchInv

(* What holds of an index that is built.                                   *)
LEMMA CompleteIndexes ==
    ASSUME FileInv, Searched, pc \notin {"build", "logic_error"},
           OneMax(data), Indexed(data) >= 1
    PROVE  Indexes
<1>1. /\ instance \in Instances /\ guard_bit0 \in {0, 1}
      /\ IsIndex(instance, data, first_key, segments, levels_offsets)
      /\ IsComplete(instance, levels_offsets)
  BY DEF FileInv, BuildInv, Held, Searched
<1>2. IsData(data) /\ OffsetsFit(segments, levels_offsets)
  BY <1>1, InputFacts DEF IsIndex
<1>3. IndexOf(data, segments, levels_offsets, EpsilonRecursive)
  BY <1>1 DEF IsIndex, EpsilonRecursive
<1>4. EpsilonRecursive \in Nat /\ linear_search_threshold \in Nat /\ Floating \in {"SoftFloat", "float"}
  BY <1>1, ParametersAssumption DEF EpsilonRecursive, linear_search_threshold, Floating
<1> QED
  BY <1>1, <1>2, <1>3, <1>4 DEF Indexes, IsComplete

(* The hypotheses about an index do not change while it is searched.       *)
LEMMA RegularKept ==
    ASSUME UNCHANGED <<instance, guard_bit0, data, first_key, segments, levels_offsets, key>>
    PROVE  /\ Regular' = Regular /\ Accurate' = Accurate
           /\ \A l, x : HasReached(l, x)' = HasReached(l, x)
<1>1. PartWidth' = PartWidth
  BY DEF PartWidth, TopLevelSize, pow_two_top_level, last_key, n
<1>2. CellCount' = CellCount
  BY <1>1 DEF CellCount, TopLevelSize, pow_two_top_level, last_key, n
<1>3. Tabled' = Tabled
  BY <1>1, <1>2 DEF Tabled, TopLevelSize, TopLevelBitSize
<1>4. Regular' = Regular
  BY <1>3 DEF Regular, Is, NotRaised, k
<1>5. k' = k /\ Serving' = Serving /\ (\A i : At(i)' = At(i)) /\ Floating' = Floating
  BY DEF Serving, At, k, Floating
<1>6. \A s : SoftSlope(s)' = SoftSlope(s)
  BY DEF SoftSlope
<1>7. \A s, x : Product(s, x)' = Product(s, x)
  BY <1>5, <1>6 DEF Product
<1>8. \A s, x : WithinHalf(s, x)' = WithinHalf(s, x)
  BY <1>7 DEF WithinHalf
<1>9. Accurate' = Accurate
  BY <1>5, <1>8 DEF Accurate
<1>10. \A l, x : Lands(l, x)' = Lands(l, x) /\ Within(l, x)' = Within(l, x)
  BY DEF Lands, Within, Level, k, Scans, EpsilonRecursive, linear_search_threshold
<1> QED
  BY <1>4, <1>9, <1>10 DEF HasReached

(* What holds wherever the index is searched.                              *)
LEMMA SearchedFacts ==
    ASSUME FileInv, Searched, pc \notin {"build", "logic_error"},
           key \in 0..KeyMax, Regular
    PROVE  /\ Indexes /\ InKeys /\ IsData(data) /\ Indexed(data) >= 1
           /\ k = Max({first_key, key}) /\ first_key \in Nat /\ first_key <= data[1]
           /\ key \in 0..(KeyMax - 1) /\ key <= k
           /\ EpsilonRecursive > 0 =>
                 levels_offsets[Len(levels_offsets)] - levels_offsets[Len(levels_offsets) - 1] <= 2
<1>1. /\ instance \in Instances
      /\ IsIndex(instance, data, first_key, segments, levels_offsets)
      /\ IsComplete(instance, levels_offsets)
  BY DEF FileInv, BuildInv, Held, Searched
<1>2. IsData(data) /\ first_key \in {0, data[1]} /\ OffsetsFit(segments, levels_offsets)
  BY <1>1, InputFacts DEF IsIndex
<1>3. data[1] \in Nat /\ data # << >> /\ Len(data) \in Nat
      /\ \A i \in 1..Len(data) : data[i] \in Nat
  BY <1>2, IndexedFacts DEF IsData
<1>4. PICK f \in Nat, x \in Nat : f = first_key /\ x = key /\ f <= data[1] /\ x <= KeyMax
  BY <1>2, <1>3, KeyMaxNat
<1>5. k = Max({f, x}) /\ k \in Nat /\ x <= k
  <2>1. PICK T \in SUBSET Int : T = {f, x} /\ T # {}
    <3>1. {f, x} \in SUBSET Int /\ {f, x} # {}
      OBVIOUS
    <3> QED BY <3>1
  <2>2. PICK m \in Int : \A y \in T : y <= m
    <3>1. f <= x \/ x <= f
      OBVIOUS
    <3> QED BY <2>1, <3>1
  <2>3. Max(T) \in T /\ \A y \in T : y <= Max(T)
    BY <2>1, <2>2, GreatestElement
  <2>4. k = Max(T) /\ Max({f, x}) = Max(T)
    BY <1>4, <2>1 DEF k
  <2> QED BY <2>1, <2>3, <2>4
<1>6. k < KeyMax /\ data[1] <= k
  <2>1. ~(k < data[1])
    BY <1>3 DEF Regular, NotRaised
  <2> QED BY <1>3, <1>5, <2>1 DEF Regular
<1>7. InKeys
  BY <1>5, <1>6, KeyMaxNat DEF InKeys
<1>8. x <= KeyMax - 1
  BY <1>4, <1>5, <1>6, KeyMaxNat
<1>9. Indexed(data) >= 1
  <2>1. ASSUME Indexed(data) = 0 PROVE FALSE
    <3>1. PICK N \in Nat : N = Len(data) /\ N >= 1 /\ N <= 0 + 1 /\ (0 = N <=> data[N] # KeyMax)
      BY <1>2, <2>1, IndexedFacts
    <3>2. N = 1 /\ data[1] = KeyMax
      BY <3>1
    <3> QED BY <1>5, <1>6, <3>2, KeyMaxNat
  <2>2. Indexed(data) \in Nat
    BY <1>2, IndexedFacts
  <2> QED BY <2>1, <2>2
<1>10. Indexes
  BY <1>9, CompleteIndexes DEF Regular
<1> QED
  BY <1>1, <1>2, <1>4, <1>5, <1>7, <1>8, <1>9, <1>10, KeyMaxNat DEF IsComplete, EpsilonRecursive

(* Nothing the search has reached changes with the file.                   *)
LEMMA SearchUnmoved ==
    ASSUME SearchInv, UNCHANGED <<pc, parameters, data, first_key, segments, levels_offsets, key, level, it, answer>>
    PROVE  SearchInv'
<1>1. UNCHANGED <<instance, guard_bit0, data, first_key, segments, levels_offsets, key, pc, level, it, answer>>
  BY DEF parameters
<1>2. /\ Regular' = Regular /\ Accurate' = Accurate
      /\ \A l, x : HasReached(l, x)' = HasReached(l, x)
  BY <1>1, RegularKept
<1>3. \A pos : IsAnswer(pos)' = IsAnswer(pos)
  BY <1>1 DEF IsAnswer, n, k
<1>4. EpsilonRecursive' = EpsilonRecursive /\ Is("elias_fano")' = Is("elias_fano")
  BY <1>1 DEF EpsilonRecursive, Is
<1>5. OffTheKeys' = OffTheKeys
  BY <1>1 DEF OffTheKeys, Is, n
<1>6. HasReached(level + 1, it)' = HasReached(level + 1, it) /\ HasReached(1, it)' = HasReached(1, it)
  BY <1>1, <1>2
<1> QED
  BY <1>1, <1>2, <1>3, <1>4, <1>5, <1>6 DEF SearchInv

\* Where an index may be searched, and from there.
Searchable ==
    /\ FileInv /\ Searched /\ pc \notin {"build", "logic_error"}
    /\ key \in 0..KeyMax /\ Regular
AtTheTop == level = height - 1 /\ it = LevelBegin(height - 1)
OnTheWay == level \in 0..(Len(levels_offsets) - 2) /\ HasReached(level + 1, it)

LEMMA TopReached ==
    Searchable /\ EpsilonRecursive > 0 /\ AtTheTop => OnTheWay
<1> SUFFICES ASSUME Searchable, EpsilonRecursive > 0, AtTheTop PROVE OnTheWay
  OBVIOUS
<1>1. /\ Indexes /\ InKeys
      /\ levels_offsets[Len(levels_offsets)] - levels_offsets[Len(levels_offsets) - 1] <= 2
  BY SearchedFacts DEF Searchable
<1>2. PICK m \in Nat : m = Len(levels_offsets) - 1 /\ m >= 1 /\ Len(levels_offsets) = m + 1
  <2>1. Len(levels_offsets) \in Nat /\ Len(levels_offsets) >= 2
    BY <1>1, OffsetsFacts DEF Indexes
  <2> QED BY <2>1
<1>3. Lands(m, levels_offsets[m])
  BY <1>1, <1>2, TopLands
<1>4. height - 1 = m - 1 /\ (m - 1) + 1 = m /\ m - 1 \in 0..(Len(levels_offsets) - 2)
  BY <1>2 DEF height
<1>5. HasReached(m, levels_offsets[m])
  BY <1>3, LandsWithin DEF HasReached
<1> QED
  BY <1>4, <1>5 DEF AtTheTop, OnTheWay, LevelBegin

LEMMA StartSearchSteps ==
    ASSUME Inv, Searched, FileInv', StartSearch, UNCHANGED mapped_vars
    PROVE  SearchInv'
<1>1. /\ pc = "built" /\ pc' = "descend" /\ level' = height - 1 /\ it' = LevelBegin(height - 1)
      /\ key' \in Sought(data)
      /\ UNCHANGED <<instance, data, first_key, segments, levels_offsets, phase, header_bytes>>
  BY DEF StartSearch, index, parameters, mapped_vars
<1>2. key' \in 0..KeyMax
  <2>1. instance \in Instances /\ data \in Inputs(instance)
    BY DEF Inv, FileInv, BuildInv, IsIndex, Held, Searched
  <2>2. Sought(data) \subseteq 0..KeyMax
    BY <2>1, InputFacts
  <2> QED BY <1>1, <2>2
<1>3. ASSUME Regular', (EpsilonRecursive > 0)' PROVE OnTheWay'
  <2>1. Searchable'
    BY <1>1, <1>2, <1>3 DEF Searchable, Searched
  <2>2. AtTheTop'
    BY <1>1 DEF AtTheTop, height, LevelBegin
  <2> QED BY <1>3, <2>1, <2>2, TopReached, PTL
<1> QED
  BY <1>1, <1>2, <1>3 DEF SearchInv, OnTheWay

LEMMA BisectSteps ==
    ASSUME Inv, Searched, Bisect
    PROVE  SearchInv'
<1>1. /\ pc = "descend" /\ pc' = "found" /\ it' = upper_bound(0, segments_count) - 1
      /\ UNCHANGED <<instance, guard_bit0, data, first_key, segments, levels_offsets, key>>
  BY DEF Bisect, index, parameters
<1>2. /\ Regular' = Regular
      /\ \A l, x : HasReached(l, x)' = HasReached(l, x)
  BY <1>1, RegularKept
<1>3. ASSUME Regular PROVE HasReached(1, it')
  <2>1. Indexes /\ InKeys
    BY <1>1, <1>3, SearchedFacts DEF Inv, SearchInv
  <2>2. Lands(1, it')
    BY <1>1, <2>1, FlatLands
  <2> QED BY <2>2, LandsWithin DEF HasReached
<1>4. Regular => HasReached(1, it)'
  BY <1>2, <1>3 DEF HasReached, Within, Lands
<1> QED
  BY <1>1, <1>2, <1>4 DEF Inv, SearchInv

LEMMA DescendSteps ==
    ASSUME Inv, Searched, Descend
    PROVE  SearchInv'
<1>1. /\ pc = "descend" /\ EpsilonRecursive > 0 /\ level > 0
      /\ UNCHANGED <<instance, guard_bit0, data, first_key, segments, levels_offsets, key>>
  BY DEF Descend, OutOfBounds, index, parameters, query
<1>2. /\ Regular' = Regular
      /\ \A l, x : HasReached(l, x)' = HasReached(l, x)
  BY <1>1, RegularKept
<1>3. ASSUME Regular
      PROVE  pc' = "descend" /\ level' \in 0..(Len(levels_offsets) - 2) /\ HasReached(level' + 1, it')
  <2>1. /\ Indexes /\ InKeys
        /\ level \in 0..(Len(levels_offsets) - 2) /\ HasReached(level + 1, it)
    BY <1>1, <1>3, SearchedFacts DEF Inv, SearchInv
  <2>2. PICK l \in 1..(Len(levels_offsets) - 2) : l = level
    BY <1>1, <2>1
  <2>3. (level - 1) + 1 = l /\ l - 1 \in 0..(Len(levels_offsets) - 2) /\ level - 1 = l - 1
    <3>1. Len(levels_offsets) \in Nat
      BY <2>1, OffsetsFacts DEF Indexes
    <3> QED BY <2>2, <3>1
  <2>4. LevelBegin(level - 1) = levels_offsets[l] /\ LevelBegin(level) = levels_offsets[l + 1]
    BY <2>2, <2>3 DEF LevelBegin
  <2>5. PICK pos, begin, lo, to :
           /\ pos = Position(it)
           /\ begin = levels_offsets[l] /\ lo = ScanFrom(begin, pos)
           /\ to = begin + PGM_ADD_EPS(pos, EpsilonRecursive, levels_offsets[l + 1] - begin - 1)
           /\ IF ~Scans
              THEN it' = upper_bound(lo, to) - 1 /\ level' = level - 1 /\ pc' = pc
              ELSE IF ScanEnds(lo) = {} THEN OutOfBounds
              ELSE it' = Min(ScanEnds(lo)) /\ level' = level - 1 /\ pc' = pc
    <3>1. EpsilonRecursive > linear_search_threshold <=> ~Scans
      BY <2>1 DEF Indexes, Scans
    <3> QED BY <2>4, <3>1 DEF Descend
  <2>6. Within(l + 1, it) /\ (Accurate => Lands(l + 1, it))
    BY <2>1, <2>2 DEF HasReached
  <2>7. CASE ~Scans
    <3>1. Within(l, upper_bound(lo, to) - 1)
      BY <1>1, <2>1, <2>5, <2>6, <2>7, BisectWithin
    <3>2. Accurate => Lands(l, upper_bound(lo, to) - 1)
      BY <1>1, <2>1, <2>5, <2>6, <2>7, BisectLands
    <3> QED BY <1>1, <2>2, <2>3, <2>5, <2>7, <3>1, <3>2 DEF HasReached
  <2>8. CASE Scans
    <3>1. ScanEnds(lo) # {} /\ Within(l, Min(ScanEnds(lo)))
      BY <1>1, <2>1, <2>5, <2>6, ScanWithin
    <3>2. Accurate => Lands(l, Min(ScanEnds(lo)))
      BY <1>1, <2>1, <2>5, <2>6, ScanLands
    <3> QED BY <1>1, <2>2, <2>3, <2>5, <2>8, <3>1, <3>2 DEF HasReached
  <2> QED BY <2>7, <2>8
<1>4. Regular => HasReached(level + 1, it)'
  BY <1>2, <1>3
<1>5. EpsilonRecursive' = EpsilonRecursive
  BY <1>1 DEF EpsilonRecursive
<1> QED
  BY <1>1, <1>2, <1>3, <1>4, <1>5 DEF Inv, SearchInv

LEMMA AtTheBottomSteps ==
    ASSUME Inv, AtTheBottom
    PROVE  SearchInv'
<1>1. /\ pc = "descend" /\ EpsilonRecursive > 0 /\ level = 0 /\ pc' = "found"
      /\ UNCHANGED <<instance, guard_bit0, data, first_key, segments, levels_offsets, key, it>>
  BY DEF AtTheBottom, index, parameters, query
<1>2. /\ Regular' = Regular
      /\ \A l, x : HasReached(l, x)' = HasReached(l, x)
  BY <1>1, RegularKept
<1>3. HasReached(1, it)' = HasReached(1, it)
  BY <1>1, <1>2
<1>4. Regular => HasReached(1, it)
  BY <1>1 DEF Inv, SearchInv
<1> QED
  BY <1>1, <1>2, <1>3, <1>4 DEF Inv, SearchInv

LEMMA AnswerSteps ==
    ASSUME Inv, Searched, Answer
    PROVE  SearchInv'
<1>1. /\ pc = "found"
      /\ UNCHANGED <<instance, guard_bit0, data, first_key, segments, levels_offsets, key>>
  BY DEF Answer, OutOfBounds, index, parameters, query
<1>2. Regular' = Regular /\ Accurate' = Accurate
  BY <1>1, RegularKept
<1>3. \A pos : IsAnswer(pos)' =
          /\ answer' = [pos |-> pos, lo |-> PGM_SUB_EPS(pos, Epsilon), hi |-> PGM_ADD_EPS(pos, Epsilon, n)]
          /\ Predicts(pos, KeyPoints(data), Epsilon, End(data), k)
  BY <1>1 DEF IsAnswer, n, k
<1>4. ASSUME Regular PROVE pc' = "answered" /\ (Accurate => \E pos : IsAnswer(pos)')
  <2>1. Indexes /\ InKeys /\ Within(1, it) /\ (Accurate => Lands(1, it))
    BY <1>1, <1>4, SearchedFacts DEF Inv, SearchInv, HasReached
  <2>2. 1 \in 1..(Len(levels_offsets) - 1)
    BY <2>1, OffsetsFacts DEF Indexes
  <2>3. it \in Nat /\ it + 1 < Len(segments)
    BY <2>1, <2>2, WithinGives
  <2>4. LevelPoints(1) = KeyPoints(data) /\ EpsilonOf(EpsilonRecursive, 1) = Epsilon
    BY DEF LevelPoints, PointsOf, EpsilonOf
  <2>5. ~(it < 0) /\ ~(it + 1 >= Len(segments))
    <3>1. Len(segments) \in Nat
      BY <2>1, OffsetsFacts DEF Indexes
    <3> QED BY <2>3, <3>1
  <2>6. PICK pos :
           /\ pos = Position(it)
           /\ answer' = [pos |-> pos, lo |-> PGM_SUB_EPS(pos, Epsilon), hi |-> PGM_ADD_EPS(pos, Epsilon, n)]
           /\ pc' = "answered"
    BY <2>5 DEF Answer
  <2>7. ASSUME Accurate PROVE IsAnswer(pos)'
    <3>1. Predicts(pos, LevelPoints(1), EpsilonOf(EpsilonRecursive, 1), End(data), k)
      BY <2>1, <2>2, <2>6, <2>7, LandsPredicts
    <3> QED BY <1>3, <2>4, <2>6, <3>1
  <2> QED BY <2>6, <2>7
<1> QED
  BY <1>1, <1>2, <1>4 DEF Inv, SearchInv

LEMMA SearchedKey ==
    ASSUME FileInv, Held
    PROVE  \A x \in Sought(data) : x \in 0..KeyMax
<1>1. instance \in Instances /\ data \in Inputs(instance)
  BY DEF FileInv, BuildInv, IsIndex
<1> QED
  BY <1>1, InputFacts

-----------------------------------------------------------------------------
(* The search of an Elias-Fano index.                                      *)

LEMMA VectorElsewhere ==
    ASSUME VectorInv, ~Is("elias_fano"), UNCHANGED <<instance, ef>>
    PROVE  VectorInv'
BY DEF VectorInv, Is

LEMMA VectorUnmoved ==
    ASSUME VectorInv, UNCHANGED <<instance, data, first_key, segments, levels_offsets, ef>>,
           UNCHANGED <<pc, key, it, origin>> \/ pc' \notin {"found", "out_of_bounds"},
           pc' \in {"build", "logic_error"} => pc \in {"build", "logic_error"}
    PROVE  VectorInv'
<1>1. Is("elias_fano")' = Is("elias_fano") /\ Distinct' = Distinct /\ KeysAbove' = KeysAbove
  BY DEF Is, Distinct, KeysAbove
<1>2. ASSUME UNCHANGED <<pc, key, it, origin>>
      PROVE  FoundAt(it, origin, k)' = FoundAt(it, origin, k)
             /\ EndsBelowPowerOfTwo' = EndsBelowPowerOfTwo
  BY <1>2 DEF FoundAt, At, k, EndsBelowPowerOfTwo
<1> QED
  BY <1>1, <1>2 DEF VectorInv

LEMMA VectorInitial ==
    ASSUME VariantInit
    PROVE  VectorInv
<1>1. /\ pc = "build" /\ levels_offsets = <<0>> /\ ef = NoVector
      /\ first_key = IF FromFile THEN 0 ELSE data[1]
  BY DEF VariantInit, Empty, EliasFanoInit
<1>2. Len(levels_offsets) <= 2
  BY <1>1
<1>3. Is("elias_fano") => ~FromFile
  BY DEF Is, FromFile
<1> QED
  BY <1>1, <1>2, <1>3 DEF VectorInv

(* A bucketing or an Elias-Fano index has one level.                       *)
LEMMA OneLevelBuilt ==
    ASSUME Inv, Build, Is("elias_fano") \/ Is("bucketing"), Len(levels_offsets) <= 2
    PROVE  Len(levels_offsets') <= 2
<1>1. pc = "build"
  BY DEF Build, BuildFirstLevel, BuildUpperLevel, Built
<1>2. phase = "memory" /\ instance \in Instances
      /\ IsIndex(instance, data, first_key, segments, levels_offsets)
  BY <1>1 DEF Inv, FileInv, BuildInv, MappedInv, Held
<1>3. EpsilonRecursive = 0
  BY <1>2, VariantsAssumption DEF Is, EpsilonRecursive
<1>4. CASE BuildFirstLevel
  <2>1. segments = << >> /\ OffsetsFit(segments, levels_offsets)
    BY <1>2, <1>4 DEF BuildFirstLevel, IsIndex
  <2>2. PICK w \in Nat : w = Len(levels_offsets) /\ w >= 1 /\ ~(w >= 2)
    BY <2>1, OffsetsFacts, OneLevelAtLeast
  <2>3. PICK u : levels_offsets' = levels_offsets \/ levels_offsets' = Append(levels_offsets, u)
    BY <1>4 DEF BuildFirstLevel, BuildLevel, index
  <2>4. levels_offsets \in Seq(Nat)
    BY <2>1 DEF OffsetsFit
  <2>5. PICK O \in Seq(Nat) : O = levels_offsets /\ Len(O) = 1
    <3>1. w = 1
      BY <2>2
    <3> QED BY <2>2, <2>4, <3>1
  <2>6. Len(Append(O, u)) = 1 + 1
    <3>1. PICK X : X = Nat \cup {u}
      OBVIOUS
    <3>2. O \in Seq(X) /\ u \in X
      BY <2>5, <3>1, SeqWider
    <3>3. Len(Append(O, u)) = Len(O) + 1
      BY <3>2
    <3> QED BY <2>5, <3>3
  <2>7. CASE levels_offsets' = levels_offsets
    BY <2>7
  <2>8. CASE levels_offsets' = Append(levels_offsets, u)
    BY <2>5, <2>6, <2>8
  <2> QED BY <2>3, <2>7, <2>8
<1>5. CASE BuildUpperLevel
  BY <1>3, <1>5 DEF BuildUpperLevel, HasUpperLevel
<1>6. CASE Built
  BY <1>6 DEF Built, index
<1> QED
  BY <1>4, <1>5, <1>6 DEF Build

LEMMA VectorBuild ==
    ASSUME Inv, Build, UNCHANGED ef_vars, Is("elias_fano")
    PROVE  VectorInv'
<1>1. pc = "build" /\ pc' \in {"build", "built", "logic_error"}
      /\ UNCHANGED <<instance, data, first_key, ef>>
  BY DEF Build, BuildFirstLevel, BuildUpperLevel, Built, BuildLevel, ef_vars, index, parameters
<1>2. Is("elias_fano")' /\ first_key' = data'[1] /\ ef' = NoVector /\ Len(levels_offsets) <= 2
  BY <1>1 DEF Inv, VectorInv, Is
<1>3. Len(levels_offsets') <= 2
  BY <1>2, OneLevelBuilt
<1> QED
  BY <1>1, <1>2, <1>3 DEF VectorInv

(* What a search has found, whether the vector is known to have it or not. *)
LEMMA VectorSearched ==
    ASSUME Inv, EliasFanoSearch, Is("elias_fano"), key' \in 0..KeyMax
    PROVE  VectorInv'
<1>1. /\ pc = "built" /\ ef # NoVector /\ pc' \in {"found", "out_of_bounds"}
      /\ UNCHANGED <<instance, data, first_key, segments, levels_offsets, ef>>
  BY DEF EliasFanoSearch, index, parameters
<1>2. /\ Is("elias_fano")' /\ Distinct' = Distinct /\ KeysAbove' = KeysAbove
      /\ first_key = data[1] /\ Len(levels_offsets) <= 2 /\ ef = sd_vector(KeysAbove)
  BY <1>1 DEF Inv, VectorInv, Is, Distinct, KeysAbove
<1>3. ASSUME Distinct
      PROVE  /\ pc' = "found" => FoundAt(it, origin, k)'
             /\ pc' = "out_of_bounds" => EndsBelowPowerOfTwo'
  <2>1. phase = "memory"
    BY DEF Is, Inv, FileInv, MappedInv
  <2>2. Indexes
    BY <1>1, <1>3, <2>1, CompleteIndexes DEF Inv, Distinct, Searched
  <2>3. first_key \in Nat
    <3>1. IsData(data)
      BY <2>2 DEF Indexes
    <3>2. 1 \in 1..Len(data)
      BY <3>1, IndexedFacts
    <3> QED BY <1>2, <3>1, <3>2, IndexedFacts
  <2>4. PICK f \in Nat, x \in Nat, y \in Nat :
           f = first_key /\ x = key' /\ y = Max({f, x}) /\ f <= y /\ y = k'
    <3>1. PICK f \in Nat, x \in Nat : f = first_key /\ x = key'
      BY <2>3, KeyMaxNat
    <3>2. PICK T \in SUBSET Int : T = {f, x} /\ T # {}
      <4>1. {f, x} \in SUBSET Int /\ {f, x} # {}
        OBVIOUS
      <4> QED BY <4>1
    <3>3. PICK m \in Int : \A z \in T : z <= m
      <4>1. f <= x \/ x <= f
        OBVIOUS
      <4> QED BY <3>2, <4>1
    <3>4. Max(T) \in T /\ \A z \in T : z <= Max(T)
      BY <3>2, <3>3, GreatestElement
    <3>5. k' = Max({f, x})
      BY <1>1, <3>1 DEF k
    <3> QED BY <3>1, <3>2, <3>4, <3>5
  <2>5. IsFound(ef, y - f, y)
    BY <1>2, <1>3, <2>2, <2>3, <2>4, PredFinds DEF Distinct
  <2>6. /\ PredOutOfBounds(ef, y - f) => pc' = "out_of_bounds"
        /\ ~PredOutOfBounds(ef, y - f) =>
              pc' = "found" /\ it' = pred(ef, y - f).rank /\ origin' = pred(ef, y - f).key
    BY <2>4 DEF EliasFanoSearch
  <2>7. EndsBelowPowerOfTwo' <=> (y - f = ef.size /\ \E j \in 1..ef.size : 2^j = ef.size + 1)
    BY <1>1, <2>4 DEF EndsBelowPowerOfTwo
  <2>8. \A i, number : it' = i /\ origin' = number => (FoundAt(it, origin, k)' <=> FoundAt(i, number, y))
    BY <1>1, <2>4 DEF FoundAt, At
  <2>9. CASE PredOutOfBounds(ef, y - f)
    <3>1. pc' = "out_of_bounds"
      BY <2>6, <2>9
    <3>2. EndsBelowPowerOfTwo'
      BY <2>5, <2>7, <2>9 DEF IsFound
    <3> QED BY <3>1, <3>2
  <2>10. CASE ~PredOutOfBounds(ef, y - f)
    <3>1. pc' = "found" /\ it' = pred(ef, y - f).rank /\ origin' = pred(ef, y - f).key
      BY <2>6, <2>10
    <3>2. FoundAt(it, origin, k)'
      BY <2>5, <2>8, <2>10, <3>1 DEF IsFound
    <3> QED BY <3>1, <3>2
  <2> QED BY <2>9, <2>10
<1>4. pc' \notin {"build", "logic_error"} /\ ef' = ef /\ first_key' = data'[1] /\ Len(levels_offsets') <= 2
  BY <1>1, <1>2
<1> QED
  BY <1>1, <1>2, <1>3, <1>4 DEF VectorInv

LEMMA VectorStep ==
    ASSUME Inv, [VariantNext]_all_vars
    PROVE  VectorInv'
<1>1. VectorInv
  BY DEF Inv
<1>2. CASE Common
  <2>1. Build /\ UNCHANGED ef_vars /\ UNCHANGED <<instance, ef>>
    BY <1>2 DEF Common, Build, BuildFirstLevel, BuildUpperLevel, Built, BuildLevel, ef_vars, index, parameters
  <2> QED BY <1>1, <2>1, VectorBuild, VectorElsewhere
<1>3. CASE Plain \/ Bucketing \/ Mapped
  <2>1. ~Is("elias_fano") /\ UNCHANGED ef
    BY <1>3 DEF Plain, Bucketing, Mapped, Is, ef_vars
  <2>2. UNCHANGED instance
    <3>1. ASSUME SearchStep PROVE UNCHANGED instance
      BY <3>1, SearchStays DEF index, parameters
    <3>2. ASSUME BuildTopLevel \/ BucketingSearch PROVE UNCHANGED instance
      BY <3>2 DEF BuildTopLevel, BucketingSearch, index, parameters
    <3>3. ASSUME Serialize \/ Lose \/ Load PROVE UNCHANGED instance
      BY <3>3 DEF Serialize, StartWriting, WriteUnit, PatchHeader, Lose, Load, vars, index, parameters
    <3> QED BY <1>3, <3>1, <3>2, <3>3 DEF Plain, Bucketing, Mapped, SearchStep, Search
  <2> QED BY <1>1, <2>1, <2>2, VectorElsewhere
<1>4. CASE EliasFano
  <2>1. Is("elias_fano")
    BY <1>4 DEF EliasFano
  <2>2. CASE BuildVector
    <3>1. /\ pc = "built" /\ pc' = "built" /\ ef' = sd_vector(KeysAbove)
          /\ UNCHANGED <<instance, data, first_key, segments, levels_offsets>>
      BY <2>2 DEF BuildVector, KeysAbove, index, parameters
    <3>2. KeysAbove' = KeysAbove /\ first_key = data[1] /\ Len(levels_offsets) <= 2
      BY <1>1, <2>1, <3>1 DEF KeysAbove, VectorInv
    <3> QED BY <2>1, <3>1, <3>2 DEF VectorInv, Is
  <2>3. CASE EliasFanoSearch
    <3>1. key' \in Sought(data)
      BY <2>3 DEF EliasFanoSearch
    <3>2. FileInv /\ Held
      BY <2>1 DEF Inv, FileInv, MappedInv, Held, Is
    <3>3. key' \in 0..KeyMax
      BY <3>1, <3>2, SearchedKey
    <3> QED BY <2>1, <2>3, <3>3, VectorSearched
  <2>4. CASE EliasFanoAnswer \/ EliasFanoReturn
    <3>1. /\ pc' \in {"answered", "built"}
          /\ UNCHANGED <<instance, data, first_key, segments, levels_offsets, ef>>
      BY <2>4 DEF EliasFanoAnswer, EliasFanoReturn, Return, ef_vars, index, parameters
    <3> QED BY <1>1, <3>1, VectorUnmoved
  <2> QED BY <1>4, <2>2, <2>3, <2>4 DEF EliasFano
<1>5. CASE UNCHANGED all_vars
  <2>1. UNCHANGED <<instance, data, first_key, segments, levels_offsets, ef, pc, key, it, origin>>
    BY <1>5 DEF all_vars, vars, index, parameters, query, ef_vars
  <2> QED BY <1>1, <2>1, VectorUnmoved
<1> QED
  BY <1>2, <1>3, <1>4, <1>5 DEF VariantNext

\* An Elias-Fano index has found a segment, and with it the key it begins at.
VectorFound == Is("elias_fano") /\ pc = "found"
IsThere == Lands(1, it) /\ origin + first_key = At(it).key

(* The segment found serves the key.                                       *)
LEMMA FoundServes ==
    Searchable /\ VectorInv /\ VectorFound => IsThere
<1> SUFFICES ASSUME Searchable, VectorInv, Is("elias_fano"), pc = "found"
             PROVE  Lands(1, it) /\ origin + first_key = At(it).key
  BY DEF VectorFound, IsThere
<1>1. Indexes /\ InKeys /\ Indexed(data) >= 1
  BY SearchedFacts DEF Searchable
<1>2. ~Flagged(data, Indexed(data) - 1) /\ Distinct
  BY <1>1 DEF Searchable, Regular, Distinct, Is
<1>3. FoundAt(it, origin, k) /\ first_key = data[1] /\ Len(levels_offsets) <= 2
  BY <1>2 DEF VectorInv
<1>4. PICK o, s, epsilon : o = Level(1) /\ s = LevelPoints(1) /\ epsilon = EpsilonOf(EpsilonRecursive, 1)
  OBVIOUS
<1>5. IsLevelOf(o, s, epsilon, End(data))
  <2>1. 1 \in 1..(Len(levels_offsets) - 1)
    BY <1>1, OffsetsFacts DEF Indexes
  <2> QED BY <1>1, <1>4, <2>1, LevelAt
<1>6. PICK c \in Nat : c = Len(o) /\ o[c].key = KeyMax
  BY <1>5, LevelHasKeys
<1>7. c = Len(segments) /\ levels_offsets[1] = 0 /\ \A j \in 1..c : segments[j] = o[j]
  BY <1>1, <1>2, <1>3, <1>4, <1>6, KeysAscend
<1>8. PICK i \in 1..(c - 1) : it = i - 1 /\ it + 1 = i /\ (it + 1) + 1 = i + 1
  <2>1. it \in 0..(c - 2)
    BY <1>3, <1>7 DEF FoundAt
  <2>2. it + 1 \in 1..(c - 1) /\ it = (it + 1) - 1
    BY <2>1
  <2> QED BY <2>1, <2>2
<1>9. At(it) = o[i] /\ At(it + 1) = o[i + 1]
  <2>1. i \in 1..c /\ i + 1 \in 1..c
    BY <1>8
  <2> QED BY <1>7, <1>8, <2>1 DEF At
<1>10. k < o[i + 1].key
  <2>1. CASE it = Len(segments) - 2
    <3>1. i + 1 = c
      BY <1>7, <1>8, <2>1
    <3>2. k < KeyMax
      BY <1>1, KeyMaxNat DEF InKeys
    <3> QED BY <1>6, <3>1, <3>2
  <2>2. CASE k < At(it + 1).key
    BY <1>9, <2>2
  <2> QED BY <1>3, <2>1, <2>2 DEF FoundAt
<1>11. o[i].key <= k
  BY <1>3, <1>9 DEF FoundAt
<1>12. Lands(1, it)
  <2>1. it = levels_offsets[1] + i - 1
    BY <1>7, <1>8
  <2>2. Serves(o, i, k) /\ i \in 1..(Len(o) - 1)
    BY <1>6, <1>10, <1>11 DEF Serves
  <2> QED BY <1>4, <1>10, <2>1, <2>2 DEF Lands
<1> QED
  BY <1>3, <1>12 DEF FoundAt

LEMMA EliasFanoSearchSteps ==
    ASSUME Inv, FileInv', VectorInv', EliasFanoSearch, Is("elias_fano"), key' \in 0..KeyMax
    PROVE  SearchInv'
<1>1. /\ pc' \in {"found", "out_of_bounds"} /\ Is("elias_fano")'
  BY DEF EliasFanoSearch, index, parameters, Is
<1>2. phase' = "memory"
  BY <1>1 DEF FileInv, MappedInv, Is
<1>3. ASSUME Regular', pc' = "found" PROVE HasReached(1, it)'
  <2>1. Searchable'
    BY <1>2, <1>3 DEF Searchable, Searched
  <2>2. VectorFound'
    BY <1>1, <1>3 DEF VectorFound
  <2>3. IsThere'
    BY <2>1, <2>2, FoundServes, PTL
  <2>4. Lands(1, it)'
    BY <2>3 DEF IsThere
  <2>5. Lands(1, it)' => Within(1, it)'
    BY DEF Lands, Within
  <2> QED BY <2>4, <2>5 DEF HasReached
<1> QED
  BY <1>1, <1>3 DEF SearchInv

LEMMA EliasFanoAnswerSteps ==
    ASSUME Inv, EliasFanoAnswer, Is("elias_fano")
    PROVE  SearchInv'
<1>1. /\ pc = "found" /\ pc' = "answered"
      /\ UNCHANGED <<instance, guard_bit0, data, first_key, segments, levels_offsets, key>>
  BY DEF EliasFanoAnswer, index, parameters
<1>2. Regular' = Regular /\ Accurate' = Accurate
  BY <1>1, RegularKept
<1>3. \A pos : IsAnswer(pos)' =
          /\ answer' = [pos |-> pos, lo |-> PGM_SUB_EPS(pos, Epsilon), hi |-> PGM_ADD_EPS(pos, Epsilon, n)]
          /\ Predicts(pos, KeyPoints(data), Epsilon, End(data), k)
  BY <1>1 DEF IsAnswer, n, k
<1>4. ASSUME Regular, Accurate PROVE \E pos : IsAnswer(pos)'
  <2>1. Searchable
    BY <1>1, <1>4 DEF Inv, FileInv, MappedInv, SearchInv, Is, Searchable, Searched
  <2>2. Indexes /\ InKeys /\ Lands(1, it) /\ origin + first_key = At(it).key
    <3>1. VectorFound
      BY <1>1 DEF VectorFound
    <3> QED BY <1>4, <2>1, <3>1, SearchedFacts, FoundServes DEF Inv, Searchable, IsThere
  <2>3. 1 \in 1..(Len(levels_offsets) - 1)
    BY <2>2, OffsetsFacts DEF Indexes
  <2>4. PICK pos : pos = Position(it)
    OBVIOUS
  <2>8. Predicts(pos, LevelPoints(1), EpsilonOf(EpsilonRecursive, 1), End(data), k)
    BY <1>4, <2>2, <2>3, <2>4, LandsPredicts
  <2>5. LevelPoints(1) = KeyPoints(data) /\ EpsilonOf(EpsilonRecursive, 1) = Epsilon
    BY DEF LevelPoints, PointsOf, EpsilonOf
  <2>6. [At(it) EXCEPT !.key = origin + first_key] = At(it)
    <3>1. it \in Nat /\ it + 1 < Len(segments) /\ Len(segments) \in Nat /\ segments \in Seq(SegmentRecord)
      BY <2>2, <2>3, LandsWithin, WithinGives, OffsetsFacts DEF Indexes, OffsetsFit
    <3>2. it + 1 \in 1..Len(segments)
      BY <3>1
    <3>3. PICK r \in SegmentRecord : r = At(it) /\ origin + first_key = r.key
      BY <2>2, <3>1, <3>2, SeqElements DEF At
    <3>4. [r EXCEPT !.key = r.key] = r
      BY DEF SegmentRecord
    <3> QED BY <3>3, <3>4
  <2>7. answer' = [pos |-> pos, lo |-> PGM_SUB_EPS(pos, Epsilon), hi |-> PGM_ADD_EPS(pos, Epsilon, n)]
    BY <2>4, <2>6 DEF EliasFanoAnswer, Position
  <2> QED BY <1>3, <2>5, <2>7, <2>8
<1>5. key' \in 0..KeyMax
  BY <1>1 DEF Inv, SearchInv
<1> QED
  BY <1>1, <1>2, <1>4, <1>5 DEF SearchInv

-----------------------------------------------------------------------------
(* The search of a bucketing index.                                        *)

LEMMA TableKept ==
    ASSUME TableInv, UNCHANGED <<instance, data, first_key, segments, levels_offsets, top_level, step>>,
           pc' \in {"build", "logic_error"} => pc \in {"build", "logic_error"}
    PROVE  TableInv'
<1>1. PartWidth' = PartWidth
  BY DEF PartWidth, TopLevelSize, pow_two_top_level, last_key, n
<1>2. CellCount' = CellCount
  BY <1>1 DEF CellCount, TopLevelSize, pow_two_top_level, last_key, n
<1>3. Table(PartWidth, CellCount)' = Table(PartWidth, CellCount)
  BY <1>1, <1>2 DEF Table, At
<1>4. IsTabled' = IsTabled
  BY <1>1, <1>3 DEF IsTabled
<1> QED
  BY <1>4 DEF TableInv, Is

LEMMA TableBuilt ==
    ASSUME TableInv, BuildTopLevel, Is("bucketing")
    PROVE  TableInv'
<1>1. /\ pc = "built" /\ pc' \in {"built", "invalid_argument"}
      /\ UNCHANGED <<instance, data, first_key, segments, levels_offsets>>
  BY DEF BuildTopLevel, index, parameters
<1>2. PartWidth' = PartWidth
  BY <1>1 DEF PartWidth, TopLevelSize, pow_two_top_level, last_key, n
<1>3. CellCount' = CellCount
  BY <1>1, <1>2 DEF CellCount, TopLevelSize, pow_two_top_level, last_key, n
<1>4. Table(PartWidth, CellCount)' = Table(PartWidth, CellCount)
  BY <1>1, <1>2, <1>3 DEF Table, At
<1>5. step' = PartWidth /\ top_level' \in {<< >>, Table(PartWidth, CellCount)}
  BY DEF BuildTopLevel, PartWidth, CellCount
<1>6. ASSUME top_level' # << >> PROVE IsTabled'
  BY <1>2, <1>4, <1>5, <1>6 DEF IsTabled
<1> QED
  BY <1>1, <1>6 DEF TableInv, Is

LEMMA TableInitial ==
    ASSUME VariantInit
    PROVE  TableInv
<1>1. /\ pc = "build" /\ levels_offsets = <<0>> /\ top_level = << >>
      /\ first_key = IF FromFile THEN 0 ELSE data[1]
  BY DEF VariantInit, Empty, BucketingInit
<1>2. Len(levels_offsets) <= 2
  BY <1>1
<1>3. Is("bucketing") => ~FromFile
  BY DEF Is, FromFile
<1> QED
  BY <1>1, <1>2, <1>3 DEF TableInv

LEMMA TableStep ==
    ASSUME Inv, [VariantNext]_all_vars
    PROVE  TableInv'
<1>1. TableInv
  BY DEF Inv
<1>2. CASE Common
  <2>1. /\ Build /\ pc = "build" /\ pc' \in {"build", "built", "logic_error"}
        /\ UNCHANGED <<instance, data, first_key, top_level>>
    BY <1>2 DEF Common, Build, BuildFirstLevel, BuildUpperLevel, Built, BuildLevel, bucketing_vars,
                index, parameters
  <2>2. ASSUME Is("bucketing") PROVE Len(levels_offsets') <= 2
    BY <1>1, <2>1, <2>2, OneLevelBuilt DEF TableInv
  <2> QED BY <1>1, <2>1, <2>2 DEF TableInv, Is
<1>3. ASSUME Plain \/ EliasFano \/ Mapped PROVE ~Is("bucketing") /\ UNCHANGED instance
  <2>1. ASSUME SearchStep PROVE UNCHANGED instance
    BY <2>1, SearchStays DEF index, parameters
  <2>2. ASSUME BuildVector \/ EliasFanoSearch \/ EliasFanoAnswer \/ EliasFanoReturn
        PROVE  UNCHANGED instance
    BY <2>2 DEF BuildVector, EliasFanoSearch, EliasFanoAnswer, EliasFanoReturn, Return, index, parameters
  <2>3. ASSUME Serialize \/ Lose \/ Load PROVE UNCHANGED instance
    BY <2>3 DEF Serialize, StartWriting, WriteUnit, PatchHeader, Lose, Load, vars, index, parameters
  <2> QED BY <1>3, <2>1, <2>2, <2>3 DEF Plain, EliasFano, Mapped, SearchStep, Search, Is
<1>4. CASE Bucketing
  <2>1. CASE BuildTopLevel
    BY <1>1, <1>4, <2>1, TableBuilt DEF Bucketing
  <2>2. CASE BucketingSearch \/ ((Answer \/ Return) /\ UNCHANGED bucketing_vars)
    <3>1. /\ UNCHANGED <<instance, data, first_key, segments, levels_offsets, top_level, step>>
          /\ pc' \notin {"build", "logic_error"}
      BY <2>2 DEF BucketingSearch, Answer, OutOfBounds, Return, bucketing_vars, index, parameters
    <3> QED BY <1>1, <3>1, TableKept
  <2> QED BY <1>4, <2>1, <2>2 DEF Bucketing
<1>5. CASE UNCHANGED all_vars
  BY <1>1, <1>5, TableKept DEF all_vars, vars, index, parameters, bucketing_vars
<1>6. CASE Plain \/ EliasFano \/ Mapped
  BY <1>3, <1>6 DEF TableInv, Is
<1> QED
  BY <1>2, <1>4, <1>5, <1>6 DEF VariantNext

\* A bucketing index has looked a segment up.
TableFound ==
    /\ Is("bucketing") /\ top_level # << >> /\ pc = "found"
    /\ first_key <= key /\ key <= last_key /\ it = segment_for_key(key)
HasLanded == Lands(1, it)

LEMMA TableServes ==
    Searchable /\ TableInv /\ TableFound => HasLanded
<1> SUFFICES ASSUME Searchable, TableInv, TableFound PROVE Lands(1, it)
  BY DEF HasLanded
<1>1. /\ Indexes /\ InKeys /\ first_key \in Nat /\ key \in 0..(KeyMax - 1)
      /\ k = Max({first_key, key})
  BY SearchedFacts DEF Searchable
<1>2. Is("bucketing") /\ Tabled /\ IsTabled /\ first_key = data[1] /\ Len(levels_offsets) <= 2
  BY DEF Searchable, Regular, TableInv, TableFound
<1>3. TopLevelSize \in Nat /\ TopLevelSize > 0
  <2>1. instance \in Instances
    BY DEF Searchable, FileInv, BuildInv
  <2>2. TopLevelSize \in Nat \ {0, 1}
    BY <1>2, <2>1, VariantsAssumption DEF Is, TopLevelSize
  <2> QED BY <2>2
<1>4. k = key
  <2>1. PICK f \in Int, x \in Int : f = first_key /\ x = key /\ f <= x
    BY <1>1 DEF TableFound
  <2>2. PICK T : T = {f, x}
    OBVIOUS
  <2>3. k = Max(T)
    BY <1>1, <2>1, <2>2
  <2>4. (k = f \/ k = x) /\ x <= k
    BY <2>1, <2>2, <2>3, GreaterOfTwo
  <2> QED BY <2>1, <2>4
<1>5. PICK o : o = Level(1)
  OBVIOUS
<1>6. PICK u \in Nat : IsLast(o, k, u) /\ it = u - 1 /\ o[u].key <= k /\ k < o[u + 1].key
  BY <1>1, <1>2, <1>3, <1>4, <1>5, SegmentFor DEF TableFound
<1>7. levels_offsets[1] = 0
  BY <1>1, <1>2, OneLevel
<1>8. it = levels_offsets[1] + u - 1
  BY <1>6, <1>7
<1>9. u \in 1..(Len(o) - 1) /\ Serves(o, u, k)
  BY <1>6 DEF IsLast, Serves
<1> QED
  BY <1>5, <1>6, <1>8, <1>9 DEF Lands

LEMMA BucketingSteps ==
    ASSUME Inv, FileInv', TableInv', Bucketing, phase = "memory"
    PROVE  SearchInv'
<1>1. Is("bucketing") /\ Held /\ Searched /\ phase' = "memory"
  BY DEF Bucketing, mapped_vars, Held, Searched
<1>2. key \in 0..KeyMax /\ FileInv
  BY DEF Inv, SearchInv
<1>3. CASE BuildTopLevel
  <2>1. /\ pc' \in {"built", "invalid_argument"}
        /\ UNCHANGED <<instance, guard_bit0, data, first_key, segments, levels_offsets, key>>
    BY <1>3 DEF BuildTopLevel, index, parameters, query
  <2>2. ASSUME Regular', pc' = "invalid_argument" PROVE FALSE
    <3>1. Tabled
      BY <1>1, <2>1, <2>2, RegularKept DEF Regular
    <3> QED BY <1>3, <2>2, <3>1 DEF BuildTopLevel, Tabled
  <2> QED BY <1>2, <2>1, <2>2 DEF SearchInv
<1>4. CASE BucketingSearch
  <2>1. /\ UNCHANGED <<instance, data, first_key, segments, levels_offsets, top_level, step>>
        /\ top_level # << >> /\ key' \in Sought(data) /\ pc' \in {"answered", "found"}
    BY <1>4 DEF BucketingSearch, index, parameters, bucketing_vars
  <2>2. key' \in 0..KeyMax
    BY <1>1, <1>2, <2>1, SearchedKey
  <2>3. first_key \in Nat /\ last_key \in Nat
    <3>1. IsData(data) /\ first_key = data[1]
      BY <1>1, <1>2, InputFacts DEF FileInv, BuildInv, IsIndex, Inv, TableInv
    <3>2. 1 \in 1..Len(data) /\ Len(data) \in 1..Len(data)
      BY <3>1, IndexedFacts
    <3> QED BY <3>1, <3>2, IndexedFacts DEF last_key, n
  <2>4. CASE key' < first_key \/ key' > last_key
    <3>1. /\ pc' = "answered"
          /\ \/ key' < first_key /\ answer' = [pos |-> 0, lo |-> 0, hi |-> 0]
             \/ key' > last_key /\ answer' = [pos |-> n, lo |-> n, hi |-> n]
      BY <1>4, <2>4 DEF BucketingSearch
    <3>2. OffTheKeys'
      BY <1>1, <2>1, <3>1 DEF OffTheKeys, Is, last_key, n
    <3> QED BY <2>2, <3>1, <3>2 DEF SearchInv
  <2>5. CASE ~(key' < first_key \/ key' > last_key)
    <3>1. pc' = "found" /\ it' = segment_for_key(key')
      BY <1>4, <2>5 DEF BucketingSearch
    <3>2. first_key <= key' /\ key' <= last_key
      <4>1. PICK x \in Nat : x = key'
        BY <2>2, KeyMaxNat
      <4> QED BY <2>3, <2>5, <4>1
    <3>3. TableFound'
      BY <1>1, <2>1, <3>1, <3>2 DEF TableFound, Is, last_key, n, segment_for_key, At
    <3>4. ASSUME Regular' PROVE HasReached(1, it)'
      <4>1. Searchable'
        BY <1>1, <2>2, <3>1, <3>4 DEF Searchable, Searched
      <4>2. HasLanded'
        BY <3>3, <4>1, TableServes, PTL
      <4>3. Lands(1, it)' => Within(1, it)'
        BY DEF Lands, Within
      <4> QED BY <4>2, <4>3 DEF HasLanded, HasReached
    <3> QED BY <2>2, <3>1, <3>4 DEF SearchInv
  <2> QED BY <2>4, <2>5
<1>5. CASE Answer
  BY <1>1, <1>5, AnswerSteps
<1>6. CASE Return
  <2>1. pc' = "built" /\ key' = 0
    BY <1>6 DEF Return
  <2> QED BY <2>1, KeyMaxNat DEF SearchInv
<1> QED
  BY <1>3, <1>4, <1>5, <1>6 DEF Bucketing

LEMMA SearchStepSteps ==
    ASSUME Inv, Searched, FileInv', SearchStep, UNCHANGED mapped_vars
    PROVE  SearchInv'
<1>1. CASE Return
  <2>1. pc' = "built" /\ key' = 0
    BY <1>1 DEF Return
  <2> QED BY <2>1, KeyMaxNat DEF SearchInv
<1> QED
  BY <1>1, StartSearchSteps, BisectSteps, DescendSteps, AtTheBottomSteps, AnswerSteps
     DEF SearchStep, Search

(* No state of a search.                                                   *)
LEMMA OtherSteps ==
    ASSUME key' \in 0..KeyMax, pc' \in {"build", "built", "logic_error", "undefined"}
    PROVE  SearchInv'
BY DEF SearchInv

LEMMA InvInit ==
    ASSUME VariantInit
    PROVE  Inv
<1>1. pc = "build" /\ key = 0
  BY DEF VariantInit, Empty
<1> QED
  BY <1>1, FileInit, VectorInitial, TableInitial, KeyMaxNat DEF Inv, SearchInv

LEMMA InvStep ==
    ASSUME Inv, [VariantNext]_all_vars
    PROVE  Inv'
<1>1. FileInv'
  BY FileStep DEF Inv
<1>2. VectorInv'
  BY VectorStep
<1>3. TableInv'
  BY TableStep
<1> SUFFICES SearchInv'
  BY <1>1, <1>2, <1>3 DEF Inv
<1>4. key \in 0..KeyMax
  BY DEF Inv, SearchInv
<1>5. (~Is("mapped") => phase = "memory") /\ (phase = "memory" => Searched)
  BY DEF Inv, FileInv, MappedInv, Searched
<1>6. CASE Common
  <2>1. pc' \in {"build", "built", "logic_error"} /\ key' = key
    BY <1>6 DEF Common, Build, BuildFirstLevel, BuildUpperLevel, Built, BuildLevel, query
  <2> QED BY <1>4, <2>1, OtherSteps
<1>7. CASE Plain
  <2>1. SearchStep /\ UNCHANGED mapped_vars /\ Searched
    BY <1>5, <1>7 DEF Plain, SearchStep, Is
  <2> QED BY <1>1, <2>1, SearchStepSteps DEF Inv
<1>8. CASE Bucketing
  <2>1. phase = "memory"
    BY <1>5, <1>8 DEF Bucketing, Is
  <2> QED BY <1>1, <1>8, <1>3, <2>1, BucketingSteps
<1>9. CASE EliasFano
  <2>1. Is("elias_fano") /\ phase = "memory"
    BY <1>5, <1>9 DEF EliasFano, Is
  <2>2. CASE BuildVector
    <3>1. pc' = "built" /\ key' = key
      BY <2>2 DEF BuildVector, query
    <3> QED BY <1>4, <3>1, OtherSteps
  <2>3. CASE EliasFanoSearch
    <3>1. \A x \in Sought(data) : x \in 0..KeyMax
      BY <2>1, SearchedKey DEF Inv, Held
    <3>2. key' \in 0..KeyMax
      BY <2>3, <3>1 DEF EliasFanoSearch
    <3> QED BY <1>1, <1>2, <2>1, <2>3, <3>2, EliasFanoSearchSteps
  <2>4. CASE EliasFanoAnswer
    BY <2>1, <2>4, EliasFanoAnswerSteps
  <2>5. CASE EliasFanoReturn
    <3>1. pc' = "built" /\ key' = 0
      BY <2>5 DEF EliasFanoReturn, Return
    <3> QED BY <3>1, KeyMaxNat, OtherSteps
  <2> QED BY <1>9, <2>2, <2>3, <2>4, <2>5 DEF EliasFano
<1>10. CASE Mapped
  <2>1. CASE Serialize
    <3>1. UNCHANGED vars
      BY <2>1 DEF Serialize, StartWriting, WriteUnit, PatchHeader
    <3> QED BY <1>1, <3>1, SearchUnmoved DEF Inv, vars, index, query
  <2>2. CASE Lose \/ Load
    <3>1. pc' \in {"built", "undefined"} /\ key' = key
      BY <2>2 DEF Lose, Load, query, Inv, FileInv, MappedInv
    <3> QED BY <1>1, <1>4, <3>1, OtherSteps DEF Inv
  <2>3. CASE phase = "mapped" /\ header_bytes # 0 /\ SearchStep /\ UNCHANGED mapped_vars
    BY <1>1, <2>3, SearchStepSteps DEF Inv, Searched
  <2> QED BY <1>10, <2>1, <2>2, <2>3 DEF Mapped, SearchStep
<1>11. CASE UNCHANGED all_vars
  BY <1>1, <1>11, SearchUnmoved DEF Inv, all_vars, vars, index, query
<1> QED
  BY <1>1, <1>2, <1>6, <1>7, <1>8, <1>9, <1>10, <1>11 DEF VariantNext

(* Every index, in memory or read back from a file, has levels that start  *)
(* where levels_offsets says, each with the segments of the points it is   *)
(* built over; a search has come to a segment of the level it is at, and   *)
(* to one that serves the key where no product on the way is led astray;   *)
(* and a file holds a beginning of what the object held, or all of it with *)
(* its header patched.                                                     *)
THEOREM AlwaysInv == VariantSpec => []Inv
BY InvInit, InvStep, PTL DEF VariantSpec

-----------------------------------------------------------------------------
(* The theorems.                                                           *)

(* No search reads outside the arrays of the index, however its levels are *)
(* walked down and however wrong the products of its slopes are, and no    *)
(* constructor fails.                                                      *)
THEOREM AlwaysStaysInBounds == VariantSpec => [](Regular => StaysInBounds)
<1>1. Inv => (Regular => StaysInBounds)
  <2>1. ASSUME Inv, Regular PROVE StaysInBounds
    <3>1. pc # "logic_error"
      BY <2>1 DEF Inv, FileInv, BuildInv, Regular
    <3>2. pc # "invalid_argument" /\ (pc = "out_of_bounds" => Is("elias_fano"))
      BY <2>1 DEF Inv, SearchInv
    <3>3. ASSUME pc = "out_of_bounds" PROVE EndsBelowPowerOfTwo
      <4>1. Is("elias_fano")
        BY <3>2, <3>3
      <4>2. Searched /\ key \in 0..KeyMax
        BY <2>1, <4>1 DEF Inv, FileInv, MappedInv, SearchInv, Is, Searched
      <4>3. Indexed(data) >= 1
        BY <2>1, <3>3, <4>2, SearchedFacts DEF Inv
      <4>4. Distinct
        BY <2>1, <4>1, <4>3 DEF Regular, Distinct, Is
      <4> QED BY <2>1, <3>3, <4>1, <4>4 DEF Inv, VectorInv
    <3> QED BY <3>1, <3>2, <3>3 DEF StaysInBounds
  <2> QED BY <2>1
<1> QED BY <1>1, AlwaysInv, PTL

(* Every support structure of the vector answers for the keys of the       *)
(* segments, however many they are and however far apart, where no two     *)
(* segments begin at the same key.                                         *)
THEOREM AlwaysVectorHoldsKeys == VariantSpec => [](Distinct => VectorHoldsKeys)
<1>1. Inv => (Distinct => VectorHoldsKeys)
  <2> SUFFICES ASSUME Inv, Distinct, pc = "built", ef # NoVector PROVE Answers(ef, Numbers)
    BY DEF VectorHoldsKeys, Answers
  <2>1. /\ Is("elias_fano") /\ first_key = data[1] /\ Len(levels_offsets) <= 2
        /\ ef = sd_vector(KeysAbove)
    BY DEF Inv, VectorInv
  <2>2. Searched
    BY <2>1 DEF Inv, FileInv, MappedInv, Is, Searched
  <2>3. Indexes
    BY <2>2, CompleteIndexes DEF Inv, Distinct
  <2>4. PICK m \in Nat, W \in Nat, Z \in Nat :
           AreKeys(KeysAbove, m, Level(1)) /\ Stores(ef, KeysAbove, m, W, Z)
    BY <2>1, <2>3, VectorStored DEF Distinct
  <2>5. Answers(ef, ValuesOf(KeysAbove, m))
    BY <2>4, StoresAnswers
  <2>6. ValuesOf(KeysAbove, m) = Numbers
    <3>1. m = Len(segments) - 1
      <4>1. Len(Level(1)) = m + 1 /\ Len(Level(1)) = Len(segments)
        BY <2>1, <2>3, <2>4, KeysAscend DEF AreKeys, Distinct
      <4> QED BY <4>1
    <3> QED BY <3>1 DEF ValuesOf, KeysAbove, Numbers
  <2> QED BY <2>5, <2>6
<1> QED BY <1>1, AlwaysInv, PTL

(* The key that pred puts together from the high and the low bits is that  *)
(* of the segment it finds, for every key.                                 *)
THEOREM AlwaysPredRecoversKey == VariantSpec => [](Distinct => PredRecoversKey)
<1>1. Inv => (Distinct => PredRecoversKey)
  <2> SUFFICES ASSUME Inv, Distinct, pc = "found", ef # NoVector PROVE origin + first_key = At(it).key
    BY DEF PredRecoversKey
  <2>1. FoundAt(it, origin, k)
    BY DEF Inv, VectorInv
  <2> QED BY <2>1 DEF FoundAt
<1> QED BY <1>1, AlwaysInv, PTL

(* segment_for_key ends in the rightmost segment that does not begin above *)
(* the key, if no product on the way is led astray, where no bisected      *)
(* upper level can be led to the first of two segments of the same key,    *)
(* which only a run of equal keys before the largest key of the type makes.*)
THEOREM AlwaysRightmostSegment ==
    VariantSpec => [](Regular /\ (Scans \/ ~Flagged(data, Indexed(data) - 1)) => RightmostSegment)
<1>1. Inv => (Regular /\ (Scans \/ ~Flagged(data, Indexed(data) - 1)) => RightmostSegment)
  <2>1. ASSUME Inv, Regular, Accurate, Scans \/ ~Flagged(data, Indexed(data) - 1), pc = "found"
        PROVE  SegmentFound
    <3>1. Searched /\ key \in 0..KeyMax /\ Lands(1, it)
      BY <2>1 DEF Inv, FileInv, MappedInv, SearchInv, Searched, HasReached
    <3>2. Indexes /\ InKeys
      BY <2>1, <3>1, SearchedFacts DEF Inv
    <3>3. it \in 0..(segments_count - 1) /\ At(it).key <= k /\ At(it + 1).key > k
      BY <2>1, <3>1, <3>2, LandsRightmost
    <3> QED BY <3>3 DEF SegmentFound
  <2>2. pc # "found" => SegmentFound
    BY DEF SegmentFound
  <2> QED BY <2>1, <2>2 DEF RightmostSegment, Unpredicted
<1> QED BY <1>1, AlwaysInv, PTL

\* What is known when a search has returned a range.
Returned ==
    /\ IsData(data) /\ key \in 0..(KeyMax - 1) /\ k = Max({first_key, key}) /\ key <= k
    /\ first_key \in Nat /\ first_key <= data[1] /\ data[1] <= k /\ k < KeyMax /\ k \in Nat
    /\ \E pos : IsAnswer(pos)

\* What is known when a bucketing index has not searched.
Skipped == IsData(data) /\ key \in Nat /\ first_key = data[1] /\ OffTheKeys /\ phase = "memory"

LEMMA AnsweredFacts ==
    ASSUME Inv, Regular, Accurate, pc = "answered"
    PROVE  Returned \/ Skipped
<1>1. /\ Searched /\ (~Is("mapped") => phase = "memory")
      /\ key \in 0..KeyMax /\ (OffTheKeys \/ \E pos : IsAnswer(pos))
  BY DEF Inv, FileInv, MappedInv, SearchInv, Searched
<1>2. /\ InKeys /\ IsData(data)
      /\ k = Max({first_key, key}) /\ first_key \in Nat /\ first_key <= data[1]
      /\ key \in 0..(KeyMax - 1) /\ key <= k
  BY <1>1, SearchedFacts DEF Inv
<1>3. k \in Nat /\ k < KeyMax /\ data[1] <= k /\ key \in Nat
  BY <1>2, KeyMaxNat DEF InKeys
<1>4. CASE OffTheKeys
  <2>1. first_key = data[1] /\ phase = "memory"
    BY <1>1, <1>4 DEF OffTheKeys, Is, Inv, TableInv
  <2> QED BY <1>2, <1>3, <1>4, <2>1 DEF Skipped
<1>5. CASE \E pos : IsAnswer(pos)
  BY <1>2, <1>3, <1>5 DEF Returned
<1> QED
  BY <1>1, <1>4, <1>5

(* The first occurrence of the last key.                                   *)
LEMMA LastRank ==
    ASSUME IsData(data)
    PROVE  Rank(data[n]) \in Nat /\ Rank(data[n]) < n /\ n \in Nat
<1>1. n \in Nat /\ n \in 1..n /\ data[n] \in Nat
  BY IndexedFacts DEF n
<1>2. Rank(data[n]) \in Nat /\ Rank(data[n]) <= n /\ (data[n] < data[n] <=> n <= Rank(data[n]))
  BY <1>1, RankFacts
<1> QED
  BY <1>1, <1>2

(* Above the last key the range goes past its first occurrence.            *)
LEMMA LastReached ==
    ASSUME Returned, key > data[n]
    PROVE  Rank(data[n]) < answer.hi
<1>1. IsData(data) /\ key \in 0..(KeyMax - 1) /\ key <= k /\ k \in Nat
  BY DEF Returned
<1>2. /\ n \in Nat /\ n >= 1 /\ Indexed(data) \in Nat /\ Indexed(data) <= n
      /\ (Indexed(data) = n <=> data[n] # KeyMax) /\ n <= Indexed(data) + 1
      /\ \A i \in 1..n : data[i] \in Nat
      /\ \A i, j \in 1..n : i <= j => data[i] <= data[j]
  BY <1>1, IndexedFacts DEF n
<1>3. PICK x \in Nat : x = data[n] /\ x < KeyMax /\ x < key /\ x <= k
  <2>1. PICK x \in Nat, y \in Nat, z \in Nat : x = data[n] /\ y = key /\ z = k
    BY <1>1, <1>2, KeyMaxNat
  <2>2. x < y /\ y < KeyMax /\ y <= z
    BY <1>1, <2>1, KeyMaxNat
  <2>3. x < KeyMax /\ x <= z
    BY <2>1, <2>2, KeyMaxNat
  <2> QED BY <2>1, <2>2, <2>3
<1>4. PICK r \in Nat : r = Rank(x) /\ r < n /\ \A m \in 1..n : data[m] < x <=> m <= r
  BY <1>1, <1>3, LastRank, RankFacts
<1>5. PICK j \in 1..n : j = r + 1 /\ data[j] = x /\ (j = 1 \/ data[j - 1] # data[j])
  <2>1. r + 1 \in 1..n /\ ~(r + 1 <= r) /\ n \in 1..n /\ r + 1 <= n
    BY <1>2, <1>4
  <2>2. data[r + 1] = x
    <3>1. data[r + 1] <= data[n] /\ ~(data[r + 1] < x) /\ data[r + 1] \in Nat
      BY <1>2, <1>4, <2>1
    <3> QED BY <1>3, <3>1
  <2>3. r # 0 => data[r] < x
    <3>1. r # 0 => r \in 1..n /\ r <= r
      BY <1>2, <1>4
    <3> QED BY <1>4, <3>1
  <2> QED BY <2>1, <2>2, <2>3
<1>6. j \in 1..Indexed(data)
  BY <1>2, <1>3
<1>7. PICK q : /\ q \in Firsts(KeyPoints(data), 1, Len(KeyPoints(data)))
               /\ q.x = x /\ q.y = r
  <2>1. /\ KeyPoints(data)[j].y = j - 1 /\ KeyPoints(data)[j].x = data[j]
        /\ KeyPoints(data)[j] \in Firsts(KeyPoints(data), 1, Len(KeyPoints(data)))
    BY <1>1, <1>5, <1>6, KeyPointsKept
  <2> QED BY <1>5, <2>1
<1>8. PICK pos : IsAnswer(pos)
  BY DEF Returned
<1>9. pos \in Nat /\ r <= pos + Epsilon + 1
  <2>1. pos \in Nat /\ (q.x <= k => q.y <= pos + Epsilon + 1)
    BY <1>7, <1>8 DEF IsAnswer, Predicts
  <2> QED BY <1>3, <1>7, <2>1
<1> QED
  BY <1>1, <1>3, <1>4, <1>8, <1>9, AnswerFacts

(* The range of a key beyond the first and the last is right unsearched.   *)
LEMMA SkippedInRange ==
    ASSUME Skipped
    PROVE  /\ key \notin Range(data)
           /\ key < data[n] => answer.lo <= Rank(key) /\ Rank(key) <= answer.hi
           /\ key > data[n] => answer.hi = n /\ Rank(data[n]) < n
<1>1. PICK x \in Nat, r \in Nat, d \in Nat : /\ x = key /\ r = Rank(key) /\ d = n /\ r <= d
                                           /\ \A i \in 1..d : data[i] < x <=> i <= r
  BY RankFacts DEF Skipped
<1>2. /\ d >= 1 /\ DOMAIN data = 1..d /\ (\A i \in 1..d : data[i] \in Nat)
      /\ \A i, j \in 1..d : i <= j => data[i] <= data[j]
  <2>1. /\ data # << >> /\ data \in Seq(Nat) /\ \A i, j \in 1..Len(data) : i <= j => data[i] <= data[j]
    BY IndexedFacts DEF Skipped, IsData
  <2> QED BY <1>1, <2>1 DEF n
<1>3. PICK low \in Nat, top \in Nat : low = data[1] /\ top = data[d] /\ low <= top
  BY <1>2
<1>4. \A i \in 1..d : low <= data[i] /\ data[i] <= top
  BY <1>2, <1>3
<1>5. CASE x < low /\ answer = [pos |-> 0, lo |-> 0, hi |-> 0]
  <2>1. r = 0
    <3>1. ~(1 <= r)
      BY <1>1, <1>2, <1>3, <1>5
    <3> QED BY <3>1
  <2>2. key \notin Range(data)
    BY <1>1, <1>2, <1>4, <1>5 DEF Range
  <2>3. answer.lo = 0 /\ answer.hi = 0
    BY <1>5
  <2> QED BY <1>1, <1>3, <1>5, <2>1, <2>2, <2>3
<1>6. CASE x > top /\ answer = [pos |-> d, lo |-> d, hi |-> d]
  <2>1. key \notin Range(data)
    BY <1>1, <1>2, <1>4, <1>6 DEF Range
  <2>2. answer.hi = d
    BY <1>6
  <2>3. Rank(top) < d
    BY <1>1, <1>2, <1>3, LastRank DEF Skipped
  <2> QED BY <1>1, <1>3, <1>6, <2>1, <2>2, <2>3
<1> QED
  BY <1>1, <1>3, <1>5, <1>6 DEF Skipped, OffTheKeys

(* The range that a search returns holds the first occurrence of its key,  *)
(* if no product on the way is led astray.                                 *)
THEOREM AlwaysFirstOccurrenceInRange == VariantSpec => [](Regular => FirstOccurrenceInRange)
<1>1. Inv => (Regular => FirstOccurrenceInRange)
  <2>1. ASSUME Inv, Regular, Accurate, pc = "answered" PROVE FirstOccurrenceFound
    <3>1. CASE Returned
      BY <3>1, OccurrenceInRange DEF Returned
    <3>2. CASE Skipped
      BY <3>2, SkippedInRange DEF FirstOccurrenceFound
    <3> QED BY <2>1, <3>1, <3>2, AnsweredFacts
  <2>2. pc # "answered" => FirstOccurrenceFound
    BY DEF FirstOccurrenceFound
  <2> QED BY <2>1, <2>2 DEF FirstOccurrenceInRange, Unpredicted
<1> QED BY <1>1, AlwaysInv, PTL

(* Searching the range alone finds where an absent key would be, and above *)
(* the last key the range reaches past its first occurrence, if no product *)
(* on the way is led astray.                                               *)
THEOREM AlwaysLowerBoundInRange == VariantSpec => [](Regular => LowerBoundInRange)
<1>1. Inv => (Regular => LowerBoundInRange)
  <2>1. ASSUME Inv, Regular, Accurate, pc = "answered", key \notin Range(data), key < data[n]
        PROVE  answer.lo <= Rank(key) /\ Rank(key) <= answer.hi
    <3>1. CASE Returned
      BY <2>1, <3>1, AbsentInRange DEF Returned
    <3>2. CASE Skipped
      BY <2>1, <3>2, SkippedInRange
    <3> QED BY <2>1, <3>1, <3>2, AnsweredFacts
  <2>2. ASSUME Inv, Regular, Accurate, pc = "answered", key > data[n]
        PROVE  Rank(data[n]) < answer.hi
    <3>1. CASE Returned
      BY <2>2, <3>1, LastReached
    <3>2. CASE Skipped
      BY <2>2, <3>2, SkippedInRange
    <3> QED BY <2>2, <3>1, <3>2, AnsweredFacts
  <2> QED BY <2>1, <2>2 DEF LowerBoundInRange, Unpredicted
<1> QED BY <1>1, AlwaysInv, PTL

(* Above the last key the range ends with the keys, where that key is one  *)
(* of its own and no product on the way is led astray.                     *)
THEOREM AlwaysEndInRangeUnlessRun ==
    VariantSpec => [](Regular /\ (n = 1 \/ data[n - 1] # data[n]) => EndInRangeUnlessRun)
<1>1. Inv => (Regular /\ (n = 1 \/ data[n - 1] # data[n]) => EndInRangeUnlessRun)
  <2>1. ASSUME Inv, Regular, Accurate, n = 1 \/ data[n - 1] # data[n], pc = "answered", key > data[n]
        PROVE  answer.hi = n
    <3>1. CASE Returned
      BY <2>1, <3>1, EndOfRange DEF Returned
    <3>2. CASE Skipped
      BY <2>1, <3>2, SkippedInRange
    <3> QED BY <2>1, <3>1, <3>2, AnsweredFacts
  <2> QED BY <2>1 DEF EndInRangeUnlessRun, EndInRange, Unpredicted
<1> QED BY <1>1, AlwaysInv, PTL

(* An object over a file whose header is patched holds what was written,   *)
(* whether it was written by the same process or loaded later.             *)
THEOREM AlwaysLoadedIsWrittenIfPatched == VariantSpec => []LoadedIsWrittenIfPatched
<1>1. Inv => LoadedIsWrittenIfPatched
  BY DEF Inv, FileInv, MappedInv, LoadedIsWrittenIfPatched, LoadedIsWritten
<1> QED BY <1>1, AlwaysInv, PTL

(* A header that is not zero vouches for the whole file, wherever the      *)
(* process that wrote it died.                                             *)
THEOREM AlwaysHeaderVouches == VariantSpec => []HeaderVouches
<1>1. ASSUME Inv, file # << >>, file[1] # 0
      PROVE  /\ Len(file) = file[1] + file[2]
             /\ SubSeq(file, file[1] + 1, Len(file)) = written[4]
  <2>1. instance \in Instances /\ IsWritten(instance, written, file)
    BY <1>1 DEF Inv, FileInv, BuildInv, MappedInv
  <2>2. PICK f, O, S, d :
           /\ written = <<f, O, S, d>> /\ IsIndex(instance, d, f, S, O)
           /\ IsPartial(file, f, O, S, d) \/ IsPatched(file, f, O, S, d)
    BY <2>1 DEF IsWritten
  <2>3. f \in Nat /\ O \in Seq(Nat) /\ S \in Seq(SegmentRecord) /\ d \in Seq(Nat)
    BY <2>1, <2>2, IndexTyped
  <2>4. IsPatched(file, f, O, S, d)
    BY <1>1, <2>2, <2>3, PartialUnpatched
  <2>5. /\ SubSeq(file, file[1] + 1, file[1] + file[2]) = d
        /\ Len(file) = file[1] + file[2]
    BY <2>3, <2>4, FileRead
  <2> QED BY <2>2, <2>5
<1>2. Inv => HeaderVouches
  BY <1>1 DEF HeaderVouches
<1> QED BY <1>2, AlwaysInv, PTL

-----------------------------------------------------------------------------
(* The queries on the keys that a mapped object answers.                   *)

\* The positions before the bound to, from r on.
AreFrom(T, from, to, r) == \A i : i \in T <=> i \in from..(to - 1) /\ r <= i

(* The least of a bound and the positions before it from r on.             *)
LEMMA FirstFrom ==
    ASSUME NEW from \in Nat, NEW to \in Nat, NEW r \in Nat, from <= r,
           NEW T, AreFrom(T, from, to, r)
    PROVE  (r <= to => Min({to} \cup T) = r) /\ (to <= r => Min({to} \cup T) = to)
<1>1. PICK A : A = {to} \cup T
  OBVIOUS
<1>2. A \in SUBSET Nat /\ A # {} /\ to \in A
  BY <1>1 DEF AreFrom
<1>3. Min(A) \in A /\ \A y \in A : Min(A) <= y
  BY <1>2, LeastElement
<1>4. PICK u \in Nat : u = Min(A)
  BY <1>2, <1>3
<1>5. u <= to /\ (u = to \/ r <= u)
  BY <1>1, <1>2, <1>3, <1>4 DEF AreFrom
<1>6. r < to => r \in A
  BY <1>1 DEF AreFrom
<1>7. r < to => u <= r
  BY <1>3, <1>4, <1>6
<1> QED
  BY <1>1, <1>4, <1>5, <1>7

\* Where the keys below x end, and those at most x, of d keys in all.
Splits(d, x, r, u) ==
    /\ d \in Nat /\ x \in Nat /\ r \in Nat /\ u \in Nat /\ r <= u /\ u <= d
    /\ \A i \in 1..d : /\ data[i] \in Nat
                       /\ data[i] < x <=> i <= r
                       /\ data[i] <= x <=> i <= u

LEMMA LowerBoundIn ==
    ASSUME NEW x, NEW r, NEW u, Splits(n, x, r, u),
           NEW from \in Nat, NEW to \in Nat, to <= n, from <= r
    PROVE  (r <= to => lower_bound_in(from, to, x) = r) /\ (to <= r => lower_bound_in(from, to, x) = to)
<1>4. /\ n \in Nat /\ x \in Nat /\ r \in Nat /\ u \in Nat
      /\ \A i \in 1..n : data[i] \in Nat
      /\ \A i \in 1..n : data[i] < x <=> i <= r
      /\ \A i \in 1..n : data[i] <= x <=> i <= u
  BY DEF Splits
<1>1. PICK T : T = {i \in from..(to - 1) : data[i + 1] >= x}
  OBVIOUS
<1>2. AreFrom(T, from, to, r)
  <2>1. ASSUME NEW i \in from..(to - 1) PROVE data[i + 1] >= x <=> r <= i
    <3>1. i + 1 \in 1..n /\ i \in Nat
      BY <1>4
    <3>2. data[i + 1] \in Nat /\ (data[i + 1] < x <=> i + 1 <= r)
      BY <1>4, <3>1
    <3>3. data[i + 1] >= x <=> ~(i + 1 <= r)
      BY <1>4, <3>2
    <3>4. ~(i + 1 <= r) <=> r <= i
      BY <1>4, <3>1
    <3> QED BY <3>3, <3>4
  <2> QED BY <1>1, <2>1 DEF AreFrom
<1>3. (r <= to => Min({to} \cup T) = r) /\ (to <= r => Min({to} \cup T) = to)
  BY <1>2, <1>4, FirstFrom
<1> QED
  BY <1>1, <1>3 DEF lower_bound_in

LEMMA UpperBoundIn ==
    ASSUME NEW x, NEW r, NEW u, Splits(n, x, r, u),
           NEW from \in Nat, NEW to \in Nat, to <= n, from <= u
    PROVE  (u <= to => upper_bound_in(from, to, x) = u) /\ (to <= u => upper_bound_in(from, to, x) = to)
<1>4. /\ n \in Nat /\ x \in Nat /\ r \in Nat /\ u \in Nat
      /\ \A i \in 1..n : data[i] \in Nat
      /\ \A i \in 1..n : data[i] < x <=> i <= r
      /\ \A i \in 1..n : data[i] <= x <=> i <= u
  BY DEF Splits
<1>1. PICK T : T = {i \in from..(to - 1) : data[i + 1] > x}
  OBVIOUS
<1>2. AreFrom(T, from, to, u)
  <2>1. ASSUME NEW i \in from..(to - 1) PROVE data[i + 1] > x <=> u <= i
    <3>1. i + 1 \in 1..n /\ i \in Nat
      BY <1>4
    <3>2. data[i + 1] \in Nat /\ (data[i + 1] <= x <=> i + 1 <= u)
      BY <1>4, <3>1
    <3>3. data[i + 1] > x <=> ~(i + 1 <= u)
      BY <1>4, <3>2
    <3>4. ~(i + 1 <= u) <=> u <= i
      BY <1>4, <3>1
    <3> QED BY <3>3, <3>4
  <2> QED BY <1>1, <2>1 DEF AreFrom
<1>3. (u <= to => Min({to} \cup T) = u) /\ (to <= u => Min({to} \cup T) = to)
  BY <1>2, <1>4, FirstFrom
<1> QED
  BY <1>1, <1>3 DEF upper_bound_in

\* The steps that mapped_upper_bound may stop at, from position i on.
Stops(i, s) == i + s >= n \/ data[i + s + 1] # key
StepsUpTo == {2^j : j \in 0..n}
IsStride(i, t) ==
    /\ i + t >= n \/ data[i + t + 1] # key
    /\ \A j \in 0..n : 2^j < t => i + 2^j < n /\ data[i + 2^j + 1] = key

(* The first step that mapped_upper_bound stops at is 1, or twice a step   *)
(* that it went on from.                                                   *)
LEMMA StrideFacts ==
    ASSUME n \in Nat, NEW i \in Nat
    PROVE  \E s \in Nat :
              /\ s = (CHOOSE t \in StepsUpTo : IsStride(i, t))
              /\ Stops(i, s) /\ s >= 1
              /\ \/ s = 1 /\ s \div 2 = 0
                 \/ /\ s \div 2 \in Nat /\ s \div 2 < s
                    /\ i + s \div 2 < n /\ data[i + s \div 2 + 1] = key
<1>1. \A j \in 0..n : 2^j \in Nat /\ j < 2^j
  <2> SUFFICES ASSUME NEW j \in 0..n PROVE 2^j \in Nat /\ j < 2^j
    OBVIOUS
  <2>1. j \in Nat
    OBVIOUS
  <2> QED BY <2>1, PowersOfTwo
<1>2. PICK A : A = {t \in StepsUpTo : Stops(i, t)}
  OBVIOUS
<1>3. A \in SUBSET Nat
  BY <1>1, <1>2 DEF StepsUpTo
<1>4. 2^n \in A
  <2>1. PICK p \in Nat : p = 2^n /\ n < p
    BY <1>1
  <2>2. i + p >= n
    BY <2>1
  <2>3. p \in StepsUpTo
    BY <2>1 DEF StepsUpTo
  <2> QED BY <1>2, <2>1, <2>2, <2>3 DEF Stops
<1>5. PICK t0 \in Nat : t0 \in A /\ \A t \in A : t0 <= t
  <2>1. A # {}
    BY <1>4
  <2> QED BY <1>3, <2>1, LeastElement
<1>6. ASSUME NEW j \in 0..n, 2^j < t0 PROVE i + 2^j < n /\ data[i + 2^j + 1] = key
  <2>1. PICK p \in Nat : p = 2^j
    BY <1>1
  <2>2. p \in StepsUpTo
    BY <2>1 DEF StepsUpTo
  <2>3. p \notin A
    BY <1>5, <1>6, <2>1
  <2>4. ~Stops(i, p)
    BY <1>2, <2>2, <2>3
  <2>5. ~(i + p >= n) /\ data[i + p + 1] = key
    BY <2>4 DEF Stops
  <2>6. i + p < n
    BY <2>5
  <2> QED BY <2>1, <2>5, <2>6
<1>7. t0 \in StepsUpTo /\ IsStride(i, t0)
  BY <1>2, <1>5, <1>6 DEF Stops, IsStride
<1>8. PICK s : s = (CHOOSE t \in StepsUpTo : IsStride(i, t))
  OBVIOUS
<1>14. s \in StepsUpTo /\ IsStride(i, s)
  BY <1>7, <1>8
<1>9. /\ s \in StepsUpTo /\ Stops(i, s)
      /\ \A j \in 0..n : 2^j < s => i + 2^j < n /\ data[i + 2^j + 1] = key
  BY <1>14 DEF IsStride, Stops
<1>10. PICK m \in 0..n : s = 2^m
  BY <1>9 DEF StepsUpTo
<1>11. s \in Nat /\ s >= 1
  BY <1>1, <1>10
<1>12. CASE m = 0
  <2>1. s = 1
    BY <1>10, <1>12
  <2>2. s \div 2 = 0
    BY <2>1
  <2> QED BY <1>8, <1>9, <1>11, <2>1, <2>2
<1>13. CASE m # 0
  <2>1. PICK h \in 0..n : m = h + 1 /\ h \in Nat
    <3>1. m - 1 \in 0..n /\ m = (m - 1) + 1 /\ m - 1 \in Nat
      BY <1>13
    <3> QED BY <3>1
  <2>2. PICK p \in Nat : p = 2^h /\ h < p
    BY <1>1
  <2>3. 2^(h + 1) = 2^h + 2^h
    BY <2>1, PowersOfTwo
  <2>4. s = p + p
    BY <1>10, <2>1, <2>2, <2>3
  <2>5. s \div 2 = p /\ p < s
    BY <2>2, <2>1, <2>4
  <2>6. i + p < n /\ data[i + p + 1] = key
    BY <1>9, <2>2, <2>5
  <2> QED BY <1>8, <1>9, <1>11, <2>2, <2>5, <2>6
<1> QED
  BY <1>12, <1>13

LEMMA KeysSplit ==
    ASSUME IsData(data), NEW x \in Nat
    PROVE  /\ Splits(n, x, Rank(x), Rank(x + 1))
           /\ Cardinality({i \in DOMAIN data : data[i] = x}) = Rank(x + 1) - Rank(x)
           /\ x \in Range(data) <=> Rank(x) < Rank(x + 1)
<1>1. /\ n \in Nat /\ \A i \in 1..n : data[i] \in Nat
      /\ \A i, j \in 1..n : i <= j => data[i] <= data[j]
  BY IndexedFacts DEF n
<1>2. PICK r \in Nat : r = Rank(x) /\ r <= n /\ \A i \in 1..n : data[i] < x <=> i <= r
  BY RankFacts
<1>3. PICK y \in Nat : y = x + 1
  OBVIOUS
<1>4. PICK u \in Nat : u = Rank(y) /\ u <= n /\ \A i \in 1..n : data[i] < y <=> i <= u
  BY RankFacts
<1>5. ASSUME NEW i \in 1..n PROVE data[i] <= x <=> i <= u
  <2>1. data[i] \in Nat /\ (data[i] < y <=> i <= u)
    BY <1>1, <1>4
  <2>2. data[i] < y <=> data[i] <= x
    BY <1>3, <2>1
  <2> QED BY <2>1, <2>2
<1>6. r <= u
  <2>1. CASE r = 0
    BY <2>1
  <2>2. CASE r # 0
    <3>1. r \in 1..n /\ data[r] < x /\ data[r] \in Nat
      BY <1>1, <1>2, <2>2
    <3>2. data[r] <= x
      BY <3>1
    <3> QED BY <1>5, <3>1, <3>2
  <2> QED BY <2>1, <2>2
<1>7. Splits(n, x, r, u)
  BY <1>1, <1>2, <1>4, <1>5, <1>6 DEF Splits
<1>8. DOMAIN data = 1..n
  BY DEF IsData, n
<1>9. ASSUME NEW i \in 1..n PROVE data[i] = x <=> r + 1 <= i /\ i <= u
  <2>1. data[i] \in Nat /\ (data[i] < x <=> i <= r) /\ (data[i] <= x <=> i <= u)
    BY <1>1, <1>2, <1>5
  <2>2. data[i] = x <=> ~(data[i] < x) /\ data[i] <= x
    BY <2>1
  <2>3. ~(i <= r) <=> r + 1 <= i
    OBVIOUS
  <2> QED BY <2>1, <2>2, <2>3
<1>10. {i \in DOMAIN data : data[i] = x} = (r + 1)..u
  <2>1. ASSUME NEW i \in (r + 1)..u PROVE i \in 1..n /\ data[i] = x
    <3>1. i \in 1..n /\ r + 1 <= i /\ i <= u
      BY <1>1, <1>4
    <3> QED BY <1>9, <3>1
  <2>2. ASSUME NEW i \in 1..n, data[i] = x PROVE i \in (r + 1)..u
    BY <1>9, <2>2
  <2> QED BY <1>8, <2>1, <2>2
<1>11. Cardinality((r + 1)..u) = u - r
  <2>1. r + 1 \in Int /\ u \in Int
    OBVIOUS
  <2>2. Cardinality((r + 1)..u) = IF r + 1 > u THEN 0 ELSE u - (r + 1) + 1
    BY <2>1, FS_Interval
  <2> QED BY <1>6, <2>2
<1>12. x \in Range(data) <=> r < u
  <2>1. ASSUME x \in Range(data) PROVE r < u
    <3>1. PICK i \in 1..n : data[i] = x
      BY <1>8, <2>1 DEF Range
    <3> QED BY <1>9, <3>1
  <2>2. ASSUME r < u PROVE x \in Range(data)
    <3>1. r + 1 \in 1..n /\ r + 1 <= u /\ r + 1 <= r + 1
      BY <1>1, <1>4, <2>2
    <3>2. data[r + 1] = x
      BY <1>9, <3>1
    <3> QED BY <1>8, <3>1, <3>2 DEF Range
  <2> QED BY <2>1, <2>2
<1> QED
  BY <1>2, <1>3, <1>4, <1>7, <1>10, <1>11, <1>12

(* upper_bound ends where the keys above the sought one begin, wherever    *)
(* among the equal ones the range of the search ends.                      *)
LEMMA UpperBoundFound ==
    ASSUME NEW r \in Nat, NEW u \in Nat, Splits(n, key, r, u),
           NEW lo \in Nat, NEW to \in Nat, lo = answer.lo, to = answer.hi,
           lo <= r, r <= to, to <= n
    PROVE  mapped_upper_bound = u
<1>1. /\ n \in Nat /\ key \in Nat /\ r <= u /\ u <= n
      /\ \A i \in 1..n : data[i] \in Nat
      /\ \A i \in 1..n : data[i] < key <=> i <= r
      /\ \A i \in 1..n : data[i] <= key <=> i <= u
  BY DEF Splits
<1>2. PICK N \in Nat : N = n
  BY <1>1
<1>3. lo <= u
  BY <1>1
<1>4. PICK i \in Nat : i = upper_bound_in(lo, to, key) /\ r <= i /\ i <= u
  <2>1. /\ u <= to => upper_bound_in(lo, to, key) = u
        /\ to <= u => upper_bound_in(lo, to, key) = to
    BY <1>3, UpperBoundIn
  <2> QED BY <1>1, <2>1
<1>5. PICK s \in Nat :
         /\ s = (CHOOSE t \in StepsUpTo : IsStride(i, t))
         /\ Stops(i, s) /\ s >= 1
         /\ \/ s = 1 /\ s \div 2 = 0
            \/ /\ s \div 2 \in Nat /\ s \div 2 < s
               /\ i + s \div 2 < n /\ data[i + s \div 2 + 1] = key
  BY <1>1, StrideFacts
<1>6. PICK h \in Nat : h = s \div 2 /\ i + h <= u
  <2>1. CASE s = 1 /\ s \div 2 = 0
    BY <1>4, <2>1
  <2>2. CASE ~(s = 1 /\ s \div 2 = 0)
    <3>1. PICK h \in Nat : h = s \div 2 /\ i + h < N /\ data[i + h + 1] = key
      BY <1>2, <1>5, <2>2
    <3>2. i + h + 1 \in 1..n /\ data[i + h + 1] <= key
      BY <1>1, <1>2, <3>1
    <3>3. i + h + 1 <= u
      BY <1>1, <3>2
    <3>4. i + h <= u
      BY <3>3
    <3> QED BY <3>1, <3>4
  <2> QED BY <2>1, <2>2
<1>7. PICK e \in Nat : e = Min({i + s, n}) /\ u <= e /\ e <= n
  <2>5. PICK v \in Nat : v = i + s
    OBVIOUS
  <2>6. v \in Int /\ N \in Int
    OBVIOUS
  <2>7. PICK e : e = Min({v, N})
    OBVIOUS
  <2>1. v = i + s /\ e = Min({v, N})
    BY <2>5, <2>7
  <2>2. e \in {v, N} /\ e <= v /\ e <= N
    BY <2>6, <2>7, MinOfTwo
  <2>3. u <= v
    <3>1. CASE i + s >= n
      BY <1>1, <1>2, <2>1, <3>1
    <3>2. CASE i + s < n
      <4>1. v + 1 \in 1..n /\ data[v + 1] # key
        BY <1>1, <1>5, <2>1, <3>2 DEF Stops
      <4>2. ~(v + 1 <= r)
        BY <1>4, <1>5, <2>1
      <4>3. data[v + 1] \in Nat /\ ~(data[v + 1] < key)
        BY <1>1, <4>1, <4>2
      <4>4. ~(data[v + 1] <= key)
        BY <1>1, <4>1, <4>3
      <4>5. ~(v + 1 <= u)
        BY <1>1, <4>1, <4>4
      <4> QED BY <4>5
    <3> QED BY <1>1, <1>2, <2>1, <3>1, <3>2
  <2>4. u <= N
    BY <1>1, <1>2
  <2> QED BY <1>2, <2>1, <2>2, <2>3, <2>4
<1>8. upper_bound_in(i + h, e, key) = u
  <2>1. PICK f \in Nat : f = i + h
    OBVIOUS
  <2>2. f <= u
    BY <1>6, <2>1
  <2>3. u <= e => upper_bound_in(f, e, key) = u
    BY <1>7, <2>2, UpperBoundIn
  <2> QED BY <1>7, <2>1, <2>3
<1>9. mapped_upper_bound = upper_bound_in(i + s \div 2, Min({i + s, n}), key)
  <2>1. s = (CHOOSE t \in {2^j : j \in 0..n} :
                     /\ i + t >= n \/ data[i + t + 1] # key
                     /\ \A j \in 0..n : 2^j < t => i + 2^j < n /\ data[i + 2^j + 1] = key)
    BY <1>5 DEF StepsUpTo, IsStride
  <2>2. i = upper_bound_in(answer.lo, answer.hi, key)
    BY <1>4
  <2> QED BY <2>1, <2>2 DEF mapped_upper_bound
<1> QED
  BY <1>6, <1>7, <1>8, <1>9

\* Whether what holds of the range is known: not of a key above a run of equal keys.
Served == key <= data[n] \/ n = 1 \/ data[n - 1] # data[n]

HoldsRank(lo, to) ==
    /\ lo = answer.lo /\ to = answer.hi /\ to <= n
    /\ lo <= Rank(key) /\ Rank(key) <= to
    /\ key \in Range(data) => Rank(key) < to

(* The range holds the position of the first key not below the sought one, *)
(* or ends there.                                                          *)
LEMMA AnswerHoldsRank ==
    ASSUME Returned, pc = "answered", Served
    PROVE  \E lo \in Nat, to \in Nat : HoldsRank(lo, to)
<1>1. IsData(data) /\ key \in Nat /\ n \in Nat /\ n >= 1 /\ Indexed(data) <= n /\ Indexed(data) \in Nat
      /\ \A i \in 1..n : data[i] \in Nat
  BY IndexedFacts, KeyMaxNat DEF Returned, n
<1>2. PICK pos : IsAnswer(pos)
  BY DEF Returned
<1>3. /\ pos \in Nat /\ Epsilon \in Nat \ {0}
      /\ answer.lo = (IF pos <= Epsilon THEN 0 ELSE pos - Epsilon)
      /\ answer.hi \in {pos + Epsilon + 2, n} /\ answer.hi <= n
  BY <1>1, <1>2, AnswerFacts
<1>4. PICK lo \in Nat, to \in Nat : lo = answer.lo /\ to = answer.hi /\ to <= n
  <2>1. answer.lo \in Nat /\ answer.hi \in Nat
    BY <1>1, <1>3
  <2> QED BY <1>3, <2>1
<1>5. PICK r \in Nat : r = Rank(key) /\ r <= n /\ \A i \in 1..n : data[i] < key <=> i <= r
  BY <1>1, RankFacts
<1>6. CASE key \in Range(data)
  <2>1. FirstOccurrenceFound
    BY <1>2, OccurrenceInRange DEF Returned
  <2>2. lo <= r /\ r < to
    BY <1>4, <1>5, <1>6, <2>1 DEF FirstOccurrenceFound
  <2> QED BY <1>4, <1>5, <2>2 DEF HoldsRank
<1>7. CASE key \notin Range(data) /\ key < data[n]
  <2>1. answer.lo <= Rank(key) /\ Rank(key) <= answer.hi
    BY <1>2, <1>7, AbsentInRange DEF Returned
  <2> QED BY <1>4, <1>5, <1>7, <2>1 DEF HoldsRank
<1>8. CASE key \notin Range(data) /\ ~(key < data[n])
  <2>1. n \in 1..n /\ data[n] \in Nat /\ data[n] \in Range(data)
    <3>1. n \in 1..n /\ DOMAIN data = 1..n
      BY <1>1 DEF IsData, n
    <3> QED BY <1>1, <3>1 DEF Range
  <2>2. key > data[n]
    BY <1>1, <1>8, <2>1
  <2>3. answer.hi = n
    BY <1>1, <1>2, <2>2, <2>1, EndOfRange DEF Returned, Served
  <2>4. r = n
    BY <1>1, <1>5, <2>1, <2>2
  <2>5. lo <= n
    <3>1. pos <= Len(KeyPoints(data)) + Epsilon
      BY <1>2 DEF IsAnswer, Predicts
    <3>2. Len(KeyPoints(data)) = Indexed(data)
      BY <1>1, KeyPointsNumbered
    <3> QED BY <1>1, <1>3, <1>4, <3>1, <3>2
  <2> QED BY <1>4, <1>5, <1>8, <2>3, <2>4, <2>5 DEF HoldsRank
<1>9. key \in Range(data) \/ (key \notin Range(data) /\ key < data[n])
          \/ (key \notin Range(data) /\ ~(key < data[n]))
  OBVIOUS
<1> QED
  BY <1>6, <1>7, <1>8, <1>9

(* Every query answers as it would on the keys themselves.                 *)
LEMMA QueriesAnswer ==
    ASSUME Returned, pc = "answered", Served
    PROVE  QueriesAgree
<1>1. IsData(data) /\ key \in Nat
  BY KeyMaxNat DEF Returned
<1>2. PICK r \in Nat, u \in Nat : r = Rank(key) /\ u = Rank(key + 1) /\ Splits(n, key, r, u)
  <2>1. Splits(n, key, Rank(key), Rank(key + 1))
    BY <1>1, KeysSplit
  <2> QED BY <2>1 DEF Splits
<1>3. PICK equal \in Nat : /\ equal = Cardinality({i \in DOMAIN data : data[i] = key})
                           /\ equal = u - r /\ r + equal = u
                           /\ key \in Range(data) <=> r < u
  <2>1. /\ Cardinality({i \in DOMAIN data : data[i] = key}) = u - r
        /\ key \in Range(data) <=> r < u
    BY <1>1, <1>2, KeysSplit
  <2>2. PICK e \in Nat : e = u - r /\ r + e = u
    BY <1>2 DEF Splits
  <2> QED BY <2>1, <2>2
<1>4. PICK lo \in Nat, to \in Nat : lo = answer.lo /\ to = answer.hi /\ to <= n
                                    /\ lo <= r /\ r <= to /\ (r < u => r < to)
  <2>1. PICK lo \in Nat, to \in Nat : HoldsRank(lo, to)
    BY AnswerHoldsRank
  <2> QED BY <1>2, <1>3, <2>1 DEF HoldsRank
<1>5. /\ n \in Nat /\ r <= u /\ u <= n
      /\ \A i \in 1..n : /\ data[i] \in Nat
                         /\ data[i] < key <=> i <= r
                         /\ data[i] <= key <=> i <= u
  BY <1>2 DEF Splits
<1>6. lower_bound = r
  <2>1. lower_bound_in(lo, to, key) = r
    BY <1>2, <1>4, LowerBoundIn
  <2> QED BY <1>4, <2>1 DEF lower_bound
<1>7. mapped_upper_bound = u
  BY <1>2, <1>4, UpperBoundFound
<1>8. r < n => (data[r + 1] = key <=> r < u)
  <2> SUFFICES ASSUME r < n PROVE data[r + 1] = key <=> r < u
    OBVIOUS
  <2>1. r + 1 \in 1..n /\ ~(r + 1 <= r) /\ (r + 1 <= u <=> r < u)
    BY <1>5
  <2>2. data[r + 1] \in Nat /\ ~(data[r + 1] < key) /\ (data[r + 1] <= key <=> r < u)
    BY <1>5, <2>1
  <2> QED BY <1>1, <2>2
<1>9. contains <=> equal > 0
  <2>1. contains <=> r < to /\ data[r + 1] = key
    <3>1. lower_bound_in(answer.lo, answer.hi, key) = r
      BY <1>6 DEF lower_bound
    <3> QED BY <1>4, <3>1 DEF contains
  <2>2. equal > 0 <=> r < u
    BY <1>3
  <2>3. r < to => r < n
    BY <1>4, <1>5
  <2> QED BY <1>4, <1>8, <2>1, <2>2, <2>3
<1>10. count = equal
  <2>1. count = IF r = n \/ data[r + 1] # key THEN 0 ELSE u - r
    BY <1>6, <1>7 DEF count
  <2>2. CASE r < u
    <3>1. r < n /\ data[r + 1] = key
      BY <1>5, <1>8, <2>2
    <3> QED BY <1>3, <2>1, <3>1
  <2>3. CASE ~(r < u)
    <3>1. r = n \/ data[r + 1] # key
      BY <1>5, <1>8, <2>3
    <3>2. equal = 0
      BY <1>3, <1>5, <2>3
    <3> QED BY <2>1, <3>1, <3>2
  <2> QED BY <2>2, <2>3
<1> QED
  BY <1>2, <1>3, <1>6, <1>7, <1>9, <1>10 DEF QueriesAgree

(* contains, lower_bound, upper_bound and count of a mapped object answer  *)
(* as they would on the sorted keys, whether its process wrote the file or *)
(* loaded it, and however many duplicates lie beyond the range of the      *)
(* search, if no product on the way is led astray.                         *)
THEOREM AlwaysQueriesAgree == VariantSpec => [](Regular /\ Served => QueriesAgree)
<1>1. Inv => (Regular /\ Served => QueriesAgree)
  <2>1. ASSUME Inv, Regular, Served, Accurate, pc = "answered" PROVE QueriesAgree
    <3>1. CASE Returned
      BY <2>1, <3>1, QueriesAnswer
    <3>2. CASE Skipped
      BY <3>2 DEF Skipped, QueriesAgree
    <3> QED BY <2>1, <3>1, <3>2, AnsweredFacts
  <2>2. ~Accurate \/ pc # "answered" => QueriesAgree
    BY DEF QueriesAgree, Unpredicted
  <2> QED BY <2>1, <2>2
<1> QED BY <1>1, AlwaysInv, PTL
=============================================================================
