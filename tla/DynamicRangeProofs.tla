------------------------- MODULE DynamicRangeProofs -------------------------
(***************************************************************************)
(* merge, lower_bound_bl and range, on sorted arrays of any length and any *)
(* number of levels: what the loop of merge has written is described by    *)
(* the pairs it has passed in its two ranges, what range has collected by  *)
(* the levels it has passed.                                               *)
(***************************************************************************)
EXTENDS DynamicRange, NaturalLemmas

Item == Nat \cup {Deleted}
Pair == [key : Int, item : Item]
IsArray(a) == a \in Seq(Pair) /\ IsLevel(a)
PairsIn(a) == {a[j] : j \in DOMAIN a}

-----------------------------------------------------------------------------
(* Arrays.                                                                 *)

LEMMA ArrayFacts ==
    ASSUME NEW a, IsArray(a)
    PROVE  /\ Len(a) \in Nat /\ DOMAIN a = 1..Len(a)
           /\ \A j \in 1..Len(a) : a[j] \in Pair /\ a[j].key \in Int /\ a[j].item \in Item
           /\ \A j, l \in 1..Len(a) : j < l => a[j].key < a[l].key
<1>1. /\ Len(a) \in Nat /\ DOMAIN a = 1..Len(a)
      /\ \A j \in 1..Len(a) : a[j] \in Pair
  BY DEF IsArray
<1>2. \A p \in Pair : p.key \in Int /\ p.item \in Item
  BY DEF Pair
<1>3. \A j, l \in 1..Len(a) : j < l => a[j].key < a[l].key
  BY <1>1 DEF IsArray, IsLevel
<1> QED
  BY <1>1, <1>2, <1>3

(* A key stands for one pair: ItemOf gives the item it is stored with.     *)
LEMMA ItemOfPair ==
    ASSUME NEW a, IsArray(a), NEW p \in PairsIn(a)
    PROVE  p.key \in KeysIn(a) /\ ItemOf(a, p.key) = p.item
<1>1. PICK j \in DOMAIN a : p = a[j]
  BY DEF PairsIn
<1>2. \A l \in DOMAIN a : a[l].key = p.key => l = j
  BY <1>1, ArrayFacts
<1>3. (CHOOSE l \in DOMAIN a : a[l].key = p.key) = j
  BY <1>1, <1>2
<1> QED
  BY <1>1, <1>3 DEF ItemOf, KeysIn

LEMMA KeyOfPair ==
    ASSUME NEW a, NEW k
    PROVE  k \in KeysIn(a) <=> \E p \in PairsIn(a) : p.key = k
BY DEF KeysIn, PairsIn

LEMMA LevelArray ==
    ASSUME NEW l \in Nat, NEW keys, keys \subseteq Int, NEW a \in ArraysAt(l, keys)
    PROVE  /\ IsArray(a)
           /\ \A p \in PairsIn(a) : p.key \in keys /\ p.item \in {l, Deleted}
<1>1. PICK n \in 0..Cardinality(keys) : a \in [1..n -> [key : keys, item : {l, Deleted}]]
  BY DEF ArraysAt
<1>2. n \in Nat /\ \A j \in 1..n : a[j] \in Pair /\ a[j].key \in keys /\ a[j].item \in {l, Deleted}
  <2>1. [key : keys, item : {l, Deleted}] \subseteq Pair
    BY DEF Pair, Item
  <2>2. \A p \in [key : keys, item : {l, Deleted}] : p.key \in keys /\ p.item \in {l, Deleted}
    OBVIOUS
  <2>3. n \in Nat
    OBVIOUS
  <2>4. \A j \in 1..n : a[j] \in [key : keys, item : {l, Deleted}]
    BY <1>1
  <2> QED BY <2>1, <2>2, <2>3, <2>4
<1>3. a \in Seq(Pair) /\ DOMAIN a = 1..n
  BY <1>1, <1>2
<1>4. IsLevel(a)
  BY DEF ArraysAt
<1> QED
  BY <1>2, <1>3, <1>4 DEF IsArray, PairsIn

LEMMA EmptyArray == IsArray(<< >>) /\ PairsIn(<< >>) = {} /\ Len(<< >>) = 0
BY DEF IsArray, IsLevel, PairsIn

(* A pair with a key above all those of an array is appended.              *)
LEMMA AppendArray ==
    ASSUME NEW a, IsArray(a), NEW p \in Pair, \A q \in PairsIn(a) : q.key < p.key
    PROVE  /\ IsArray(Append(a, p))
           /\ Len(Append(a, p)) = Len(a) + 1
           /\ \A q : q \in PairsIn(Append(a, p)) <=> q \in PairsIn(a) \/ q = p
<1> DEFINE b == Append(a, p)
<1>1. /\ b \in Seq(Pair) /\ Len(b) = Len(a) + 1 /\ DOMAIN b = 1..(Len(a) + 1)
      /\ \A j \in 1..Len(a) : b[j] = a[j]
      /\ b[Len(a) + 1] = p
  BY DEF IsArray
<1>2. Len(a) \in Nat /\ DOMAIN a = 1..Len(a)
  BY ArrayFacts
<1> HIDE DEF b
<1>3. IsLevel(b)
  <2> SUFFICES ASSUME NEW j \in 1..(Len(a) + 1), NEW l \in 1..(Len(a) + 1), j < l
               PROVE  b[j].key < b[l].key
    BY <1>1 DEF IsLevel
  <2>1. CASE l \in 1..Len(a)
    BY <1>1, <1>2, <2>1, ArrayFacts
  <2>2. CASE l = Len(a) + 1
    BY <1>1, <1>2, <2>2 DEF PairsIn
  <2> QED BY <1>2, <2>1, <2>2
<1>4. \A q : q \in PairsIn(b) <=> q \in PairsIn(a) \/ q = p
  BY <1>1, <1>2 DEF PairsIn
<1> QED
  BY <1>1, <1>3, <1>4 DEF IsArray, b

(* A part of an array, and its pairs.                                      *)
LEMMA SubArray ==
    ASSUME NEW a, IsArray(a), NEW m \in 1..(Len(a) + 1), NEW n \in (m - 1)..Len(a)
    PROVE  /\ IsArray(SubSeq(a, m, n))
           /\ Len(SubSeq(a, m, n)) = n - m + 1
           /\ \A p : p \in PairsIn(SubSeq(a, m, n)) <=> \E j \in m..n : p = a[j]
<1> DEFINE b == SubSeq(a, m, n)
<1>1. Len(a) \in Nat /\ DOMAIN a = 1..Len(a) /\ m \in Nat /\ n \in Nat /\ n - m + 1 \in Nat
  BY ArrayFacts
<1>2. /\ b \in Seq(Pair) /\ Len(b) = n - m + 1 /\ DOMAIN b = 1..(n - m + 1)
      /\ \A j \in 1..(n - m + 1) : b[j] = a[m + j - 1]
  BY <1>1 DEF IsArray
<1> HIDE DEF b
<1>3. IsLevel(b)
  <2> SUFFICES ASSUME NEW j \in 1..(n - m + 1), NEW l \in 1..(n - m + 1), j < l
               PROVE  b[j].key < b[l].key
    BY <1>2 DEF IsLevel
  <2>1. m + j - 1 \in 1..Len(a) /\ m + l - 1 \in 1..Len(a) /\ m + j - 1 < m + l - 1
    BY <1>1
  <2> QED BY <1>2, <2>1, ArrayFacts
<1>4. \A p : p \in PairsIn(b) <=> \E j \in m..n : p = a[j]
  <2> TAKE p
  <2>1. ASSUME NEW j \in m..n, p = a[j] PROVE p \in PairsIn(b)
    <3>1. j - m + 1 \in 1..(n - m + 1) /\ m + (j - m + 1) - 1 = j
      BY <1>1
    <3> QED BY <1>2, <2>1, <3>1 DEF PairsIn
  <2>2. ASSUME NEW j \in 1..(n - m + 1), p = b[j] PROVE \E l \in m..n : p = a[l]
    <3>1. m + j - 1 \in m..n
      BY <1>1
    <3> QED BY <1>2, <2>2, <3>1
  <2> QED BY <1>2, <2>1, <2>2 DEF PairsIn
<1> QED
  BY <1>2, <1>3, <1>4 DEF IsArray, b

(* An array and one whose keys are all larger.                             *)
LEMMA ConcatArrays ==
    ASSUME NEW a, IsArray(a), NEW b, IsArray(b),
           \A p \in PairsIn(a), q \in PairsIn(b) : p.key < q.key
    PROVE  /\ IsArray(a \o b)
           /\ Len(a \o b) = Len(a) + Len(b)
           /\ \A p : p \in PairsIn(a \o b) <=> p \in PairsIn(a) \/ p \in PairsIn(b)
<1> DEFINE c == a \o b
<1>1. /\ Len(a) \in Nat /\ DOMAIN a = 1..Len(a)
      /\ Len(b) \in Nat /\ DOMAIN b = 1..Len(b)
  BY ArrayFacts
<1>2. /\ c \in Seq(Pair) /\ Len(c) = Len(a) + Len(b) /\ DOMAIN c = 1..(Len(a) + Len(b))
      /\ \A j \in 1..Len(a) : c[j] = a[j]
      /\ \A j \in 1..Len(b) : c[Len(a) + j] = b[j]
  BY <1>1 DEF IsArray
<1> HIDE DEF c
<1>3. ASSUME NEW j \in DOMAIN c
      PROVE  \/ j \in 1..Len(a) /\ c[j] = a[j]
             \/ j - Len(a) \in 1..Len(b) /\ c[j] = b[j - Len(a)] /\ j > Len(a)
  <2>1. CASE j \in 1..Len(a)
    BY <1>2, <2>1
  <2>2. CASE j \notin 1..Len(a)
    <3>1. j - Len(a) \in 1..Len(b) /\ j = Len(a) + (j - Len(a)) /\ j > Len(a)
      BY <1>1, <1>2, <2>2
    <3> QED BY <1>2, <3>1
  <2> QED BY <2>1, <2>2
<1>4. IsLevel(c)
  <2> SUFFICES ASSUME NEW j \in DOMAIN c, NEW l \in DOMAIN c, j < l
               PROVE  c[j].key < c[l].key
    BY DEF IsLevel
  <2>1. CASE l \in 1..Len(a)
    BY <1>1, <1>2, <2>1, ArrayFacts
  <2>2. CASE l \notin 1..Len(a)
    <3>1. l - Len(a) \in 1..Len(b) /\ c[l] = b[l - Len(a)]
      BY <1>3, <2>2
    <3>2. CASE j \in 1..Len(a)
      BY <1>1, <1>2, <3>1, <3>2 DEF PairsIn
    <3>3. CASE j \notin 1..Len(a)
      <4>1. j - Len(a) \in 1..Len(b) /\ c[j] = b[j - Len(a)]
        BY <1>3, <3>3
      <4>2. j - Len(a) < l - Len(a)
        BY <1>1, <1>2
      <4> QED BY <3>1, <4>1, <4>2, ArrayFacts
    <3> QED BY <3>2, <3>3
  <2> QED BY <2>1, <2>2
<1>5. \A p : p \in PairsIn(c) <=> p \in PairsIn(a) \/ p \in PairsIn(b)
  <2> TAKE p
  <2>1. p \in PairsIn(c) => p \in PairsIn(a) \/ p \in PairsIn(b)
    BY <1>1, <1>3 DEF PairsIn
  <2>2. \A j \in 1..Len(b) : Len(a) + j \in DOMAIN c
    BY <1>1, <1>2
  <2>3. \A j \in 1..Len(a) : j \in DOMAIN c
    BY <1>1, <1>2
  <2> QED BY <1>1, <1>2, <2>1, <2>2, <2>3 DEF PairsIn
<1> QED
  BY <1>2, <1>4, <1>5 DEF IsArray, c

-----------------------------------------------------------------------------
(* lower_bound_bl.                                                         *)

\* The function of the loop's iterations is one for n of them.
Narrowings(g, a, start, x, n) ==
    g = [steps \in 0..n |-> IF steps = 0 THEN start ELSE Narrow(a, g[steps - 1], x)]

(* Its recursive definition defines it.                                    *)
LEMMA NarrowingsExist ==
    ASSUME NEW a, NEW start, NEW x
    PROVE  \A n \in Nat : \E g : Narrowings(g, a, start, x, n)
<1> DEFINE S == {n \in Nat : \E g : Narrowings(g, a, start, x, n)}
<1>1. 0 \in S
  <2>1. Narrowings([steps \in 0..0 |-> start], a, start, x, 0)
    BY DEF Narrowings
  <2> QED BY <2>1
<1>2. ASSUME NEW n \in Nat, n \in S PROVE n + 1 \in S
  <2>1. PICK g : Narrowings(g, a, start, x, n)
    BY <1>2
  <2>2. PICK h : h = [steps \in 0..(n + 1) |->
                         IF steps <= n THEN g[steps] ELSE Narrow(a, g[n], x)]
    OBVIOUS
  <2>3. \A steps \in 0..n : h[steps] = g[steps]
    BY <2>2
  <2>4. ASSUME NEW steps \in 0..(n + 1)
        PROVE  h[steps] = IF steps = 0 THEN start ELSE Narrow(a, h[steps - 1], x)
    <3>1. CASE steps <= n
      <4>1. steps \in 0..n /\ (steps # 0 => steps - 1 \in 0..n)
        BY <3>1
      <4>2. g[steps] = IF steps = 0 THEN start ELSE Narrow(a, g[steps - 1], x)
        BY <2>1, <4>1 DEF Narrowings
      <4> QED BY <2>3, <4>1, <4>2
    <3>2. CASE ~(steps <= n)
      <4>1. steps = n + 1 /\ steps # 0 /\ n \in 0..n /\ steps - 1 = n
        BY <3>2
      <4> QED BY <2>2, <2>3, <3>2, <4>1
    <3> QED BY <3>1, <3>2
  <2>5. h = [steps \in 0..(n + 1) |-> h[steps]]
    BY <2>2
  <2>6. h = [steps \in 0..(n + 1) |-> IF steps = 0 THEN start ELSE Narrow(a, h[steps - 1], x)]
    BY <2>4, <2>5
  <2> QED BY <2>6 DEF Narrowings
<1> HIDE DEF S
<1>3. \A n \in Nat : n \in S
  BY <1>1, <1>2, SetInduction
<1> QED
  BY <1>3 DEF S

\* What the loop knows of the n elements from first that are left of those up to last:
\* the elements before them are below x, those after them are not, and one iteration
\* takes away at least one of them.
Within(a, from, size, x, first, last, steps) ==
    /\ from \in Nat /\ size \in Nat \ {0}
    /\ first <= from /\ from + size <= last
    /\ \A j \in (first + 1)..from : a[j].key < x
    /\ \A j \in (from + size + 1)..last : a[j].key >= x
    /\ size = 1 \/ size + steps <= last - first

Bracketed(a, range, x, first, last, steps) ==
    Within(a, range.first, range.n, x, first, last, steps)

(* Whichever part the comparison leaves, the larger half is enough.         *)
LEMMA HalvingKeepsWithin ==
    ASSUME NEW a, IsArray(a), NEW x \in Int, NEW steps \in Nat,
           NEW first \in 0..Len(a), NEW last \in 0..Len(a),
           NEW from \in Nat, NEW size \in Nat, size > 1,
           Within(a, from, size, x, first, last, steps),
           NEW half \in Nat, half >= 1, half < size, half <= size - half,
           NEW mid \in Nat, mid = from + half + 1
    PROVE  /\ a[mid].key < x => Within(a, from + half, size - half, x, first, last, steps + 1)
           /\ ~(a[mid].key < x) => Within(a, from, size - half, x, first, last, steps + 1)
<1>1. Len(a) \in Nat /\ first \in Nat /\ last \in Nat /\ last <= Len(a)
  BY ArrayFacts
<1>2. /\ \A j \in 1..Len(a) : a[j].key \in Int
      /\ \A j, l \in 1..Len(a) : j < l => a[j].key < a[l].key
  BY ArrayFacts
<1>3. /\ first <= from /\ from + size <= last /\ size + steps <= last - first
      /\ \A j \in (first + 1)..from : a[j].key < x
      /\ \A j \in (from + size + 1)..last : a[j].key >= x
  BY DEF Within
<1>4. mid \in 1..Len(a) /\ mid <= last /\ a[mid].key \in Int
  <2>1. mid \in 1..Len(a) /\ mid <= last
    BY <1>1, <1>3
  <2> QED BY <1>2, <2>1
<1>5. size - half \in Nat \ {0} /\ (size - half) + (steps + 1) <= last - first
  BY <1>1, <1>3
<1>6. ASSUME a[mid].key < x
      PROVE  Within(a, from + half, size - half, x, first, last, steps + 1)
  <2>1. from + half \in Nat /\ first <= from + half /\ (from + half) + (size - half) = from + size
    BY <1>1, <1>3
  <2>2. ASSUME NEW j \in (first + 1)..(from + half) PROVE a[j].key < x
    <3>1. j \in 1..Len(a) /\ j < mid
      BY <1>1, <1>4
    <3>2. a[j].key < a[mid].key /\ a[j].key \in Int
      BY <1>2, <1>4, <3>1
    <3>3. PICK low \in Int, high \in Int : low = a[j].key /\ high = a[mid].key
      BY <1>4, <3>2
    <3>4. low < high /\ high < x
      BY <1>6, <3>2, <3>3
    <3>5. low < x
      BY <3>4
    <3> QED BY <3>3, <3>5
  <2> QED BY <1>3, <1>5, <2>1, <2>2 DEF Within
<1>7. ASSUME ~(a[mid].key < x)
      PROVE  Within(a, from, size - half, x, first, last, steps + 1)
  <2>1. from + (size - half) <= last /\ (from + (size - half)) + 1 >= mid
    BY <1>1, <1>3
  <2>2. ASSUME NEW j \in (from + (size - half) + 1)..last PROVE a[j].key >= x
    <3>1. j \in 1..Len(a) /\ mid <= j
      BY <1>1, <1>4, <2>1
    <3>2. a[mid].key <= a[j].key /\ a[j].key \in Int
      <4>1. CASE j = mid
        BY <1>4, <4>1
      <4>2. CASE mid < j
        BY <1>2, <1>4, <3>1, <4>2
      <4> QED BY <3>1, <4>1, <4>2
    <3>3. PICK low \in Int, high \in Int : low = a[mid].key /\ high = a[j].key
      BY <1>4, <3>2
    <3>4. low <= high /\ ~(low < x)
      BY <1>7, <3>2, <3>3
    <3>5. high >= x
      BY <3>4
    <3> QED BY <3>3, <3>5
  <2> QED BY <1>3, <1>5, <2>1, <2>2 DEF Within
<1> QED
  BY <1>6, <1>7

LEMMA NarrowKeepsBracket ==
    ASSUME NEW a, IsArray(a), NEW x \in Int, NEW steps \in Nat,
           NEW first \in 0..Len(a), NEW last \in 0..Len(a),
           NEW range, Bracketed(a, range, x, first, last, steps)
    PROVE  Bracketed(a, Narrow(a, range, x), x, first, last, steps + 1)
<1>1. PICK from \in Nat, size \in Nat \ {0} : from = range.first /\ size = range.n
  BY DEF Bracketed, Within
<1>2. Within(a, from, size, x, first, last, steps)
  BY <1>1 DEF Bracketed
<1>3. CASE size = 1
  <2>1. Narrow(a, range, x) = range
    BY <1>1, <1>3 DEF Narrow
  <2>2. Within(a, from, size, x, first, last, steps + 1)
    BY <1>2, <1>3 DEF Within
  <2> QED BY <1>1, <2>1, <2>2 DEF Bracketed
<1>4. CASE size > 1
  <2>1. PICK half \in Nat : /\ half = size \div 2
                            /\ half >= 1 /\ half < size /\ half <= size - half
    BY <1>4
  <2>2. PICK mid \in Nat : mid = from + half + 1
    OBVIOUS
  <2>3. Narrow(a, range, x) =
            [first |-> IF a[mid].key < x THEN from + half ELSE from, n |-> size - half]
    BY <1>1, <1>4, <2>1, <2>2 DEF Narrow
  <2>4. /\ a[mid].key < x => Within(a, from + half, size - half, x, first, last, steps + 1)
        /\ ~(a[mid].key < x) => Within(a, from, size - half, x, first, last, steps + 1)
    BY <1>2, <1>4, <2>1, <2>2, HalvingKeepsWithin
  <2> QED BY <2>3, <2>4 DEF Bracketed
<1> QED
  BY <1>3, <1>4

(* The branchless search finds what std::lower_bound is defined to find.   *)
LEMMA LowerBoundFound ==
    ASSUME NEW a, IsArray(a), NEW x \in Int,
           NEW first \in 0..Len(a), NEW last \in 0..Len(a), first <= last
    PROVE  LET found == lower_bound_bl(a, first, last, x)
           IN  /\ found \in first..last
               /\ \A j \in (first + 1)..found : a[j].key < x
               /\ \A j \in (found + 1)..last : a[j].key >= x
<1> DEFINE N == last - first
           start == [first |-> first, n |-> last - first]
           run == CHOOSE g : g = [steps \in 0..(last - first) |->
                                     IF steps = 0 THEN [first |-> first, n |-> last - first]
                                     ELSE Narrow(a, g[steps - 1], x)]
           at == run[N].first
           found == lower_bound_bl(a, first, last, x)
<1>1. /\ Len(a) \in Nat /\ first \in Nat /\ last \in Nat /\ N \in Nat
      /\ \A j \in 1..Len(a) : a[j].key \in Int
      /\ \A j, l \in 1..Len(a) : j < l => a[j].key < a[l].key
  BY ArrayFacts
<1>2. found = IF first = last THEN first ELSE at + (IF a[at + 1].key < x THEN 1 ELSE 0)
  BY DEF lower_bound_bl
<1>3. CASE first = last
  <2>1. found = first
    BY <1>2, <1>3
  <2> HIDE DEF found
  <2>2. found \in first..last /\ (first + 1)..found = {} /\ (found + 1)..last = {}
    BY <1>1, <1>3, <2>1
  <2> QED BY <2>2 DEF found
<1>4. CASE first # last
  <2>1. Narrowings(run, a, start, x, N)
    <3>1. \E g : Narrowings(g, a, start, x, N)
      BY <1>1, NarrowingsExist
    <3> QED BY <3>1 DEF Narrowings
  <2> HIDE DEF run
  <2>2. /\ run[0] = start
        /\ \A s \in 0..N : s # 0 => run[s] = Narrow(a, run[s - 1], x)
    BY <1>1, <2>1 DEF Narrowings
  <2> DEFINE S == {s \in Nat : s <= N => Bracketed(a, run[s], x, first, last, s)}
  <2>3. 0 \in S
    BY <1>1, <1>4, <2>2 DEF Bracketed, Within
  <2>4. ASSUME NEW s \in Nat, s \in S PROVE s + 1 \in S
    <3> SUFFICES ASSUME s + 1 <= N
                 PROVE  Bracketed(a, run[s + 1], x, first, last, s + 1)
      OBVIOUS
    <3>1. s + 1 \in 0..N /\ s + 1 # 0 /\ (s + 1) - 1 = s /\ s <= N
      BY <1>1
    <3>2. run[s + 1] = Narrow(a, run[s], x)
      BY <2>2, <3>1
    <3>3. Bracketed(a, run[s], x, first, last, s)
      BY <2>4, <3>1
    <3> QED BY <3>2, <3>3, NarrowKeepsBracket
  <2>5. N \in S
    <3> HIDE DEF S
    <3> QED BY <1>1, <2>3, <2>4, SetInduction
  <2>6. Bracketed(a, run[N], x, first, last, N)
    BY <1>1, <2>5
  <2>7. /\ at \in Nat /\ first <= at /\ at + 1 <= last
        /\ \A j \in (first + 1)..at : a[j].key < x
        /\ \A j \in (at + 2)..last : a[j].key >= x
    <3>1. run[N].n = 1
      BY <1>1, <2>6 DEF Bracketed, Within
    <3> QED BY <1>1, <2>6, <3>1 DEF Bracketed, Within
  <2>8. found = IF a[at + 1].key < x THEN at + 1 ELSE at
    BY <1>2, <1>4, <2>7
  <2>9. a[at + 1].key \in Int
    BY <1>1, <2>7
  <2> HIDE DEF at, found
  <2>10. found \in first..last
    BY <1>1, <2>7, <2>8
  <2>11. ASSUME NEW j \in (first + 1)..found PROVE a[j].key < x
    <3>1. j \in (first + 1)..at \/ (j = at + 1 /\ a[at + 1].key < x)
      BY <1>1, <2>7, <2>8
    <3> QED BY <2>7, <3>1
  <2>12. ASSUME NEW j \in (found + 1)..last PROVE a[j].key >= x
    <3>1. j \in (at + 2)..last \/ (j = at + 1 /\ ~(a[at + 1].key < x))
      BY <1>1, <2>7, <2>8
    <3> QED BY <2>7, <2>9, <3>1
  <2> QED BY <2>10, <2>11, <2>12 DEF found
<1> QED
  BY <1>3, <1>4

-----------------------------------------------------------------------------
(* merge. After m pairs of the newer array a and n pairs of the older      *)
(* array b the output holds the pairs of a not dropped, and those of b     *)
(* that a has no key of.                                                   *)

Dropped(k, a, b, skip) == k \in KeysIn(b) /\ skip /\ ItemOf(a, k) = Deleted
Merged(a, m, b, n, skip) ==
    {a[j] : j \in {l \in 1..m : ~Dropped(a[l].key, a, b, skip)}}
        \cup {b[j] : j \in {l \in 1..n : b[l].key \notin KeysIn(a)}}

\* Whatever one of the ranges has passed is below all that is left of the other.
Synchronized ==
    /\ \A j \in 1..(first1 - 1), l \in first2..Len(older) : newer[j].key < older[l].key
    /\ \A j \in first1..Len(newer), l \in 1..(first2 - 1) : older[l].key < newer[j].key

MergeInv ==
    /\ IsArray(newer) /\ IsArray(older) /\ IsArray(result)
    /\ SkipDeleted \in BOOLEAN /\ merging \in BOOLEAN
    /\ first1 \in 1..(Len(newer) + 1) /\ first2 \in 1..(Len(older) + 1)
    /\ Synchronized
    /\ merging => /\ Len(result) <= (first1 - 1) + (first2 - 1)
                  /\ PairsIn(result) = Merged(newer, first1 - 1, older, first2 - 1, SkipDeleted)
    /\ ~merging => /\ Len(result) <= Len(newer) + Len(older)
                   /\ PairsIn(result) = Merged(newer, Len(newer), older, Len(older), SkipDeleted)

(* What every step of the loop starts from.                                *)
LEMMA MergeFacts ==
    ASSUME MergeInv
    PROVE  /\ Len(newer) \in Nat /\ DOMAIN newer = 1..Len(newer)
           /\ Len(older) \in Nat /\ DOMAIN older = 1..Len(older)
           /\ first1 \in Nat /\ first2 \in Nat
           /\ \A j \in 1..Len(newer) : newer[j] \in Pair /\ newer[j].key \in Int
           /\ \A j \in 1..Len(older) : older[j] \in Pair /\ older[j].key \in Int
           /\ \A j, l \in 1..Len(newer) : j < l => newer[j].key < newer[l].key
           /\ \A j, l \in 1..Len(older) : j < l => older[j].key < older[l].key
<1>1. /\ Len(newer) \in Nat /\ DOMAIN newer = 1..Len(newer)
      /\ Len(older) \in Nat /\ DOMAIN older = 1..Len(older)
  BY ArrayFacts DEF MergeInv
<1>2. first1 \in Nat /\ first2 \in Nat
  BY <1>1 DEF MergeInv
<1> QED
  BY <1>1, <1>2, ArrayFacts DEF MergeInv

(* Whatever is written so far is below all that is left of both ranges.    *)
LEMMA WrittenBelowRest ==
    ASSUME MergeInv, merging, NEW p \in PairsIn(result)
    PROVE  /\ \A j \in first1..Len(newer) : p.key < newer[j].key
           /\ \A j \in first2..Len(older) : p.key < older[j].key
<1>1. /\ Len(newer) \in Nat /\ Len(older) \in Nat /\ first1 \in Nat /\ first2 \in Nat
      /\ first1 \in 1..(Len(newer) + 1) /\ first2 \in 1..(Len(older) + 1)
  BY MergeFacts DEF MergeInv
<1>2. CASE \E j \in 1..(first1 - 1) : p = newer[j]
  <2>1. PICK j \in 1..(first1 - 1) : p = newer[j]
    BY <1>2
  <2>2. ASSUME NEW l \in first1..Len(newer) PROVE p.key < newer[l].key
    <3>1. j \in 1..Len(newer) /\ l \in 1..Len(newer) /\ j < l
      BY <1>1
    <3> QED BY <2>1, <3>1, MergeFacts
  <2> QED BY <2>1, <2>2 DEF MergeInv, Synchronized
<1>3. CASE \E j \in 1..(first2 - 1) : p = older[j]
  <2>1. PICK j \in 1..(first2 - 1) : p = older[j]
    BY <1>3
  <2>2. ASSUME NEW l \in first2..Len(older) PROVE p.key < older[l].key
    <3>1. j \in 1..Len(older) /\ l \in 1..Len(older) /\ j < l
      BY <1>1
    <3> QED BY <2>1, <3>1, MergeFacts
  <2> QED BY <2>1, <2>2 DEF MergeInv, Synchronized
<1>4. p \in Merged(newer, first1 - 1, older, first2 - 1, SkipDeleted)
  BY DEF MergeInv
<1> QED
  BY <1>2, <1>3, <1>4 DEF Merged

(* Where the loop stands: the key it takes from one range the other has    *)
(* not, unless both come to it at once.                                    *)
LEMMA LoopFacts ==
    ASSUME MergeInv, InLoop
    PROVE  /\ first1 \in 1..Len(newer) /\ first2 \in 1..Len(older)
           /\ newer[first1].key < older[first2].key => newer[first1].key \notin KeysIn(older)
           /\ older[first2].key < newer[first1].key => older[first2].key \notin KeysIn(newer)
           /\ ItemOf(newer, newer[first1].key) = newer[first1].item
<1>1. /\ Len(newer) \in Nat /\ Len(older) \in Nat /\ first1 \in Nat /\ first2 \in Nat
      /\ first1 \in 1..Len(newer) /\ first2 \in 1..Len(older)
  BY MergeFacts DEF MergeInv, InLoop
<1>2. ASSUME newer[first1].key < older[first2].key, NEW j \in 1..Len(older)
      PROVE  older[j].key # newer[first1].key
  <2>1. CASE j \in 1..(first2 - 1)
    <3>1. older[j].key < newer[first1].key
      BY <1>1, <2>1 DEF MergeInv, Synchronized
    <3> QED BY <1>1, <3>1, MergeFacts
  <2>2. CASE j = first2
    BY <1>1, <1>2, <2>2, MergeFacts
  <2>3. CASE j > first2
    <3>1. older[first2].key < older[j].key
      BY <1>1, <2>3, MergeFacts
    <3> QED BY <1>1, <1>2, <3>1, MergeFacts
  <2> QED BY <1>1, <2>1, <2>2, <2>3
<1>3. ASSUME older[first2].key < newer[first1].key, NEW j \in 1..Len(newer)
      PROVE  newer[j].key # older[first2].key
  <2>1. CASE j \in 1..(first1 - 1)
    <3>1. newer[j].key < older[first2].key
      BY <1>1, <2>1 DEF MergeInv, Synchronized
    <3> QED BY <1>1, <3>1, MergeFacts
  <2>2. CASE j = first1
    BY <1>1, <1>3, <2>2, MergeFacts
  <2>3. CASE j > first1
    <3>1. newer[first1].key < newer[j].key
      BY <1>1, <2>3, MergeFacts
    <3> QED BY <1>1, <1>3, <3>1, MergeFacts
  <2> QED BY <1>1, <2>1, <2>2, <2>3
<1>4. ItemOf(newer, newer[first1].key) = newer[first1].item
  <2>1. newer[first1] \in PairsIn(newer) /\ IsArray(newer)
    BY <1>1, MergeFacts DEF PairsIn, MergeInv
  <2> QED BY <2>1, ItemOfPair
<1>5. DOMAIN newer = 1..Len(newer) /\ DOMAIN older = 1..Len(older)
  BY MergeFacts
<1> QED
  BY <1>1, <1>2, <1>3, <1>4, <1>5 DEF KeysIn

(* The set of merged pairs when one more pair of a range is passed.        *)
LEMMA MergedNextNewer ==
    ASSUME NEW a, NEW b, NEW skip, NEW m \in Nat, NEW n \in Nat, m > 0
    PROVE  /\ Dropped(a[m].key, a, b, skip) =>
                  Merged(a, m, b, n, skip) = Merged(a, m - 1, b, n, skip)
           /\ ~Dropped(a[m].key, a, b, skip) =>
                  Merged(a, m, b, n, skip) = Merged(a, m - 1, b, n, skip) \cup {a[m]}
<1>1. 1..m = (1..(m - 1)) \cup {m}
  OBVIOUS
<1> QED
  BY <1>1 DEF Merged

LEMMA MergedNextOlder ==
    ASSUME NEW a, NEW b, NEW skip, NEW m \in Nat, NEW n \in Nat, n > 0
    PROVE  /\ b[n].key \in KeysIn(a) =>
                  Merged(a, m, b, n, skip) = Merged(a, m, b, n - 1, skip)
           /\ b[n].key \notin KeysIn(a) =>
                  Merged(a, m, b, n, skip) = Merged(a, m, b, n - 1, skip) \cup {b[n]}
<1>1. 1..n = (1..(n - 1)) \cup {n}
  OBVIOUS
<1> QED
  BY <1>1 DEF Merged

LEMMA MergeStart ==
    ASSUME IsArray(newer), IsArray(older), SkipDeleted \in BOOLEAN,
           first1 = 1, first2 = 1, result = << >>, merging \in BOOLEAN,
           ~merging => Len(newer) = 0 /\ Len(older) = 0
    PROVE  MergeInv
<1>1. Len(newer) \in Nat /\ Len(older) \in Nat
  BY ArrayFacts
<1>2. \A a, b, skip : Merged(a, 0, b, 0, skip) = {}
  BY DEF Merged
<1>3. Synchronized
  BY DEF Synchronized
<1>4. first1 \in 1..(Len(newer) + 1) /\ first2 \in 1..(Len(older) + 1)
  BY <1>1
<1>5. first1 - 1 = 0 /\ first2 - 1 = 0
  OBVIOUS
<1>6. IsArray(result) /\ PairsIn(result) = {} /\ Len(result) = 0
  BY EmptyArray
<1>7. Len(result) <= (first1 - 1) + (first2 - 1) /\ Len(result) <= Len(newer) + Len(older)
  BY <1>1, <1>5, <1>6
<1>8. /\ PairsIn(result) = Merged(newer, first1 - 1, older, first2 - 1, SkipDeleted)
      /\ ~merging => PairsIn(result) = Merged(newer, Len(newer), older, Len(older), SkipDeleted)
  BY <1>2, <1>5, <1>6
<1> QED
  BY <1>3, <1>4, <1>6, <1>7, <1>8 DEF MergeInv

LEMMA TakeOlderStep == ASSUME MergeInv, TakeOlder PROVE MergeInv'
<1>1. /\ first1 \in 1..Len(newer) /\ first2 \in 1..Len(older)
      /\ first1 \in Nat /\ first2 \in Nat /\ Len(newer) \in Nat /\ Len(older) \in Nat
      /\ older[first2].key < newer[first1].key /\ merging
      /\ older[first2].key \notin KeysIn(newer)
  BY LoopFacts, MergeFacts DEF TakeOlder, InLoop
<1>2. /\ newer' = newer /\ older' = older /\ SkipDeleted' = SkipDeleted /\ merging' = merging
      /\ first1' = first1 /\ first2' = first2 + 1 /\ first2' - 1 = first2
      /\ result' = Append(result, older[first2])
  BY <1>1 DEF TakeOlder
<1>3. /\ IsArray(result') /\ Len(result') = Len(result) + 1
      /\ PairsIn(result') = PairsIn(result) \cup {older[first2]}
  <2>1. \A q \in PairsIn(result) : q.key < older[first2].key
    BY <1>1, WrittenBelowRest
  <2>2. IsArray(result) /\ older[first2] \in Pair
    BY <1>1, MergeFacts DEF MergeInv
  <2>3. /\ IsArray(Append(result, older[first2]))
        /\ Len(Append(result, older[first2])) = Len(result) + 1
        /\ \A q : q \in PairsIn(Append(result, older[first2])) <=>
                      q \in PairsIn(result) \/ q = older[first2]
    BY <2>1, <2>2, AppendArray
  <2> QED BY <1>2, <2>3
<1>4. Synchronized'
  <2>1. \A j \in 1..(first1 - 1), l \in (first2 + 1)..Len(older) : newer[j].key < older[l].key
    BY <1>1 DEF MergeInv, Synchronized
  <2>2. ASSUME NEW j \in first1..Len(newer), NEW l \in 1..first2
        PROVE  older[l].key < newer[j].key
    <3>1. CASE l = first2
      <4>1. j \in 1..Len(newer) /\ (j = first1 \/ first1 < j)
        BY <1>1
      <4> QED BY <1>1, <3>1, <4>1, MergeFacts
    <3>2. CASE l # first2
      <4>1. l \in 1..(first2 - 1)
        BY <1>1, <3>2
      <4> QED BY <4>1 DEF MergeInv, Synchronized
    <3> QED BY <3>1, <3>2
  <2> QED BY <1>2, <2>1, <2>2 DEF Synchronized
<1>5. PairsIn(result') = Merged(newer, first1 - 1, older, first2, SkipDeleted)
  <2>1. PairsIn(result) = Merged(newer, first1 - 1, older, first2 - 1, SkipDeleted)
    BY <1>1 DEF MergeInv
  <2>2. first1 - 1 \in Nat /\ first2 \in Nat /\ first2 > 0
    BY <1>1
  <2>3. Merged(newer, first1 - 1, older, first2, SkipDeleted) =
            Merged(newer, first1 - 1, older, first2 - 1, SkipDeleted) \cup {older[first2]}
    BY <1>1, <2>2, MergedNextOlder
  <2> QED BY <1>1, <1>3, <2>1, <2>3
<1>6. Len(result') <= (first1 - 1) + first2
  <2>1. Len(result) <= (first1 - 1) + (first2 - 1) /\ Len(result) \in Nat
    BY <1>1, ArrayFacts DEF MergeInv
  <2> QED BY <1>1, <1>3, <2>1
<1>7. first1' \in 1..(Len(newer') + 1) /\ first2' \in 1..(Len(older') + 1)
  BY <1>1, <1>2
<1> QED
  BY <1>1, <1>2, <1>3, <1>4, <1>5, <1>6, <1>7 DEF MergeInv

LEMMA TakeNewerStep == ASSUME MergeInv, TakeNewer PROVE MergeInv'
<1>1. /\ first1 \in 1..Len(newer) /\ first2 \in 1..Len(older)
      /\ first1 \in Nat /\ first2 \in Nat /\ Len(newer) \in Nat /\ Len(older) \in Nat
      /\ newer[first1].key < older[first2].key /\ merging
      /\ newer[first1].key \notin KeysIn(older)
  BY LoopFacts, MergeFacts DEF TakeNewer, InLoop
<1>2. /\ newer' = newer /\ older' = older /\ SkipDeleted' = SkipDeleted /\ merging' = merging
      /\ first2' = first2 /\ first1' = first1 + 1 /\ first1' - 1 = first1
      /\ result' = Append(result, newer[first1])
  BY <1>1 DEF TakeNewer
<1>3. /\ IsArray(result') /\ Len(result') = Len(result) + 1
      /\ PairsIn(result') = PairsIn(result) \cup {newer[first1]}
  <2>1. \A q \in PairsIn(result) : q.key < newer[first1].key
    BY <1>1, WrittenBelowRest
  <2>2. IsArray(result) /\ newer[first1] \in Pair
    BY <1>1, MergeFacts DEF MergeInv
  <2>3. /\ IsArray(Append(result, newer[first1]))
        /\ Len(Append(result, newer[first1])) = Len(result) + 1
        /\ \A q : q \in PairsIn(Append(result, newer[first1])) <=>
                      q \in PairsIn(result) \/ q = newer[first1]
    BY <2>1, <2>2, AppendArray
  <2> QED BY <1>2, <2>3
<1>4. Synchronized'
  <2>1. \A j \in (first1 + 1)..Len(newer), l \in 1..(first2 - 1) : older[l].key < newer[j].key
    <3>1. (first1 + 1)..Len(newer) \subseteq first1..Len(newer)
      BY <1>1
    <3> QED BY <3>1 DEF MergeInv, Synchronized
  <2>2. ASSUME NEW l \in first2..Len(older), NEW j \in 1..first1
        PROVE  newer[j].key < older[l].key
    <3>1. CASE j = first1
      <4>1. l \in 1..Len(older) /\ (l = first2 \/ first2 < l)
        BY <1>1
      <4> QED BY <1>1, <3>1, <4>1, MergeFacts
    <3>2. CASE j # first1
      <4>1. j \in 1..(first1 - 1)
        BY <1>1, <3>2
      <4> QED BY <4>1 DEF MergeInv, Synchronized
    <3> QED BY <3>1, <3>2
  <2> QED BY <1>2, <2>1, <2>2 DEF Synchronized
<1>5. PairsIn(result') = Merged(newer, first1, older, first2 - 1, SkipDeleted)
  <2>1. PairsIn(result) = Merged(newer, first1 - 1, older, first2 - 1, SkipDeleted)
    BY <1>1 DEF MergeInv
  <2>2. first2 - 1 \in Nat /\ first1 \in Nat /\ first1 > 0
    BY <1>1
  <2>3. ~Dropped(newer[first1].key, newer, older, SkipDeleted)
    BY <1>1 DEF Dropped
  <2>4. Merged(newer, first1, older, first2 - 1, SkipDeleted) =
            Merged(newer, first1 - 1, older, first2 - 1, SkipDeleted) \cup {newer[first1]}
    BY <2>2, <2>3, MergedNextNewer
  <2> QED BY <1>3, <2>1, <2>3, <2>4
<1>6. Len(result') <= first1 + (first2 - 1)
  <2>1. Len(result) <= (first1 - 1) + (first2 - 1) /\ Len(result) \in Nat
    BY <1>1, ArrayFacts DEF MergeInv
  <2> QED BY <1>1, <1>3, <2>1
<1>7. first1' \in 1..(Len(newer') + 1) /\ first2' \in 1..(Len(older') + 1)
  BY <1>1, <1>2
<1> QED
  BY <1>1, <1>2, <1>3, <1>4, <1>5, <1>6, <1>7 DEF MergeInv

(* Both ranges come to the same key: the loop passes it in both.           *)
LEMMA SameKeyFacts ==
    ASSUME MergeInv, SameKey, newer' = newer, older' = older,
           first1' = first1 + 1, first2' = first2 + 1
    PROVE  /\ first1 \in 1..Len(newer) /\ first2 \in 1..Len(older)
           /\ first1 \in Nat /\ first2 \in Nat /\ Len(newer) \in Nat /\ Len(older) \in Nat
           /\ first1' - 1 = first1 /\ first2' - 1 = first2
           /\ first1' \in 1..(Len(newer') + 1) /\ first2' \in 1..(Len(older') + 1)
           /\ newer[first1].key \in KeysIn(older) /\ older[first2].key \in KeysIn(newer)
           /\ Synchronized'
<1>1. /\ first1 \in 1..Len(newer) /\ first2 \in 1..Len(older)
      /\ first1 \in Nat /\ first2 \in Nat /\ Len(newer) \in Nat /\ Len(older) \in Nat
      /\ newer[first1].key = older[first2].key
      /\ DOMAIN newer = 1..Len(newer) /\ DOMAIN older = 1..Len(older)
  BY LoopFacts, MergeFacts DEF SameKey, InLoop
<1>2. newer[first1].key \in KeysIn(older) /\ older[first2].key \in KeysIn(newer)
  BY <1>1 DEF KeysIn
<1>3. ASSUME NEW j \in 1..first1, NEW l \in (first2 + 1)..Len(older)
      PROVE  newer[j].key < older[l].key
  <2>1. l \in 1..Len(older) /\ first2 < l /\ l \in first2..Len(older)
    BY <1>1
  <2>2. CASE j = first1
    BY <1>1, <2>1, <2>2, MergeFacts
  <2>3. CASE j # first1
    <3>1. j \in 1..(first1 - 1)
      BY <1>1, <2>3
    <3> QED BY <2>1, <3>1 DEF MergeInv, Synchronized
  <2> QED BY <2>2, <2>3
<1>4. ASSUME NEW j \in (first1 + 1)..Len(newer), NEW l \in 1..first2
      PROVE  older[l].key < newer[j].key
  <2>1. j \in 1..Len(newer) /\ first1 < j /\ j \in first1..Len(newer)
    BY <1>1
  <2>2. CASE l = first2
    BY <1>1, <2>1, <2>2, MergeFacts
  <2>3. CASE l # first2
    <3>1. l \in 1..(first2 - 1)
      BY <1>1, <2>3
    <3> QED BY <2>1, <3>1 DEF MergeInv, Synchronized
  <2> QED BY <2>2, <2>3
<1>5. first1' - 1 = first1 /\ first2' - 1 = first2
  BY <1>1
<1>6. first1' \in 1..(Len(newer') + 1) /\ first2' \in 1..(Len(older') + 1)
  BY <1>1
<1> QED
  BY <1>1, <1>2, <1>3, <1>4, <1>5, <1>6 DEF Synchronized

LEMMA SkipBothStep == ASSUME MergeInv, SkipBoth PROVE MergeInv'
<1>1. /\ SameKey /\ SkipDeleted /\ newer[first1].item = Deleted
      /\ newer' = newer /\ older' = older /\ SkipDeleted' = SkipDeleted /\ merging' = merging
      /\ first1' = first1 + 1 /\ first2' = first2 + 1 /\ result' = result
      /\ merging /\ InLoop
  BY DEF SkipBoth, SameKey, InLoop
<1>2. /\ first1 \in 1..Len(newer) /\ first2 \in 1..Len(older)
      /\ first1 \in Nat /\ first2 \in Nat
      /\ first1' - 1 = first1 /\ first2' - 1 = first2
      /\ first1' \in 1..(Len(newer') + 1) /\ first2' \in 1..(Len(older') + 1)
      /\ newer[first1].key \in KeysIn(older) /\ older[first2].key \in KeysIn(newer)
      /\ Synchronized'
  BY <1>1, SameKeyFacts
<1>3. Dropped(newer[first1].key, newer, older, SkipDeleted)
  BY <1>1, <1>2, LoopFacts DEF Dropped
<1>4. PairsIn(result) = Merged(newer, first1, older, first2, SkipDeleted)
  <2>1. PairsIn(result) = Merged(newer, first1 - 1, older, first2 - 1, SkipDeleted)
    BY <1>1 DEF MergeInv
  <2>2. /\ first1 \in Nat /\ first2 \in Nat /\ first1 - 1 \in Nat /\ first1 > 0 /\ first2 > 0
        /\ older[first2].key \in KeysIn(newer)
    BY <1>2
  <2>3. Merged(newer, first1 - 1, older, first2, SkipDeleted) =
            Merged(newer, first1 - 1, older, first2 - 1, SkipDeleted)
    BY <2>2, MergedNextOlder
  <2>4. Merged(newer, first1, older, first2, SkipDeleted) =
            Merged(newer, first1 - 1, older, first2, SkipDeleted)
    BY <1>3, <2>2, MergedNextNewer
  <2> QED BY <2>1, <2>3, <2>4
<1>5. IsArray(result') /\ Len(result') <= first1 + first2
  <2>1. Len(result) <= (first1 - 1) + (first2 - 1) /\ Len(result) \in Nat /\ IsArray(result)
    BY <1>1, ArrayFacts DEF MergeInv
  <2> QED BY <1>1, <1>2, <2>1
<1> QED
  BY <1>1, <1>2, <1>4, <1>5 DEF MergeInv

LEMMA ReplaceOlderStep == ASSUME MergeInv, ReplaceOlder PROVE MergeInv'
<1>1. /\ SameKey /\ ~(SkipDeleted /\ newer[first1].item = Deleted)
      /\ newer' = newer /\ older' = older /\ SkipDeleted' = SkipDeleted /\ merging' = merging
      /\ first1' = first1 + 1 /\ first2' = first2 + 1
      /\ result' = Append(result, newer[first1])
      /\ merging /\ InLoop
  BY DEF ReplaceOlder, SameKey, InLoop
<1>2. /\ first1 \in 1..Len(newer) /\ first2 \in 1..Len(older)
      /\ first1 \in Nat /\ first2 \in Nat
      /\ first1' - 1 = first1 /\ first2' - 1 = first2
      /\ first1' \in 1..(Len(newer') + 1) /\ first2' \in 1..(Len(older') + 1)
      /\ newer[first1].key \in KeysIn(older) /\ older[first2].key \in KeysIn(newer)
      /\ Synchronized'
  BY <1>1, SameKeyFacts
<1>3. ~Dropped(newer[first1].key, newer, older, SkipDeleted)
  BY <1>1, LoopFacts DEF Dropped
<1>4. /\ IsArray(result') /\ Len(result') = Len(result) + 1
      /\ PairsIn(result') = PairsIn(result) \cup {newer[first1]}
  <2>1. \A q \in PairsIn(result) : q.key < newer[first1].key
    <3>1. first1 \in first1..Len(newer)
      BY <1>2, MergeFacts
    <3> QED BY <1>1, <3>1, WrittenBelowRest
  <2>2. IsArray(result) /\ newer[first1] \in Pair
    BY <1>2, MergeFacts DEF MergeInv
  <2>3. /\ IsArray(Append(result, newer[first1]))
        /\ Len(Append(result, newer[first1])) = Len(result) + 1
        /\ \A q : q \in PairsIn(Append(result, newer[first1])) <=>
                      q \in PairsIn(result) \/ q = newer[first1]
    BY <2>1, <2>2, AppendArray
  <2> QED BY <1>1, <2>3
<1>5. PairsIn(result') = Merged(newer, first1, older, first2, SkipDeleted)
  <2>1. PairsIn(result) = Merged(newer, first1 - 1, older, first2 - 1, SkipDeleted)
    BY <1>1 DEF MergeInv
  <2>2. /\ first1 \in Nat /\ first2 \in Nat /\ first1 - 1 \in Nat /\ first1 > 0 /\ first2 > 0
        /\ older[first2].key \in KeysIn(newer)
    BY <1>2
  <2>3. Merged(newer, first1 - 1, older, first2, SkipDeleted) =
            Merged(newer, first1 - 1, older, first2 - 1, SkipDeleted)
    BY <2>2, MergedNextOlder
  <2>4. Merged(newer, first1, older, first2, SkipDeleted) =
            Merged(newer, first1 - 1, older, first2, SkipDeleted) \cup {newer[first1]}
    BY <1>3, <2>2, MergedNextNewer
  <2> QED BY <1>4, <2>1, <2>3, <2>4
<1>6. Len(result') <= first1 + first2
  <2>1. Len(result) <= (first1 - 1) + (first2 - 1) /\ Len(result) \in Nat
    BY <1>1, ArrayFacts DEF MergeInv
  <2> QED BY <1>2, <1>4, <2>1
<1> QED
  BY <1>1, <1>2, <1>4, <1>5, <1>6 DEF MergeInv

(* What is left of one of the ranges is written: nothing of it is dropped  *)
(* or replaced.                                                            *)
LEMMA MergedRest ==
    ASSUME MergeInv, merging, ~InLoop
    PROVE  Merged(newer, Len(newer), older, Len(older), SkipDeleted) =
               Merged(newer, first1 - 1, older, first2 - 1, SkipDeleted)
                   \cup {newer[j] : j \in first1..Len(newer)}
                   \cup {older[j] : j \in first2..Len(older)}
<1>1. /\ Len(newer) \in Nat /\ Len(older) \in Nat /\ first1 \in Nat /\ first2 \in Nat
      /\ DOMAIN newer = 1..Len(newer) /\ DOMAIN older = 1..Len(older)
      /\ first1 \in 1..(Len(newer) + 1) /\ first2 \in 1..(Len(older) + 1)
  BY MergeFacts DEF MergeInv
<1>2. first1 = Len(newer) + 1 \/ first2 = Len(older) + 1
  BY <1>1 DEF InLoop
<1>3. /\ 1..Len(newer) = (1..(first1 - 1)) \cup (first1..Len(newer))
      /\ 1..Len(older) = (1..(first2 - 1)) \cup (first2..Len(older))
  BY <1>1
<1>4. ASSUME NEW j \in first1..Len(newer)
      PROVE  ~Dropped(newer[j].key, newer, older, SkipDeleted)
  <2>1. first2 - 1 = Len(older)
    BY <1>1, <1>2
  <2>2. j \in 1..Len(newer)
    BY <1>1
  <2>3. \A l \in 1..Len(older) : older[l].key < newer[j].key
    BY <2>1 DEF MergeInv, Synchronized
  <2>4. \A l \in 1..Len(older) : older[l].key # newer[j].key
    BY <2>2, <2>3, MergeFacts
  <2> QED BY <1>1, <2>4 DEF Dropped, KeysIn
<1>5. ASSUME NEW j \in first2..Len(older)
      PROVE  older[j].key \notin KeysIn(newer)
  <2>1. first1 - 1 = Len(newer)
    BY <1>1, <1>2
  <2>2. j \in 1..Len(older)
    BY <1>1
  <2>3. \A l \in 1..Len(newer) : newer[l].key < older[j].key
    BY <2>1 DEF MergeInv, Synchronized
  <2>4. \A l \in 1..Len(newer) : newer[l].key # older[j].key
    BY <2>2, <2>3, MergeFacts
  <2> QED BY <1>1, <2>4 DEF KeysIn
<1> DEFINE kept == {l \in 1..(first1 - 1) : ~Dropped(newer[l].key, newer, older, SkipDeleted)}
           own == {l \in 1..(first2 - 1) : older[l].key \notin KeysIn(newer)}
<1>6. {l \in 1..Len(newer) : ~Dropped(newer[l].key, newer, older, SkipDeleted)} =
          kept \cup (first1..Len(newer))
  BY <1>3, <1>4
<1>7. {l \in 1..Len(older) : older[l].key \notin KeysIn(newer)} = own \cup (first2..Len(older))
  BY <1>3, <1>5
<1>8. Merged(newer, Len(newer), older, Len(older), SkipDeleted) =
          {newer[j] : j \in kept \cup (first1..Len(newer))} \cup
          {older[j] : j \in own \cup (first2..Len(older))}
  BY <1>6, <1>7 DEF Merged
<1>9. Merged(newer, first1 - 1, older, first2 - 1, SkipDeleted) =
          {newer[j] : j \in kept} \cup {older[j] : j \in own}
  BY DEF Merged
<1> HIDE DEF kept, own
<1> QED
  BY <1>8, <1>9

LEMMA CopyRestStep == ASSUME MergeInv, CopyRest PROVE MergeInv'
<1> DEFINE restN == SubSeq(newer, first1, Len(newer))
           restO == SubSeq(older, first2, Len(older))
<1>1. /\ merging /\ ~InLoop /\ merging' = FALSE
      /\ newer' = newer /\ older' = older /\ SkipDeleted' = SkipDeleted
      /\ first1' = first1 /\ first2' = first2
      /\ result' = result \o restN \o restO
  BY DEF CopyRest
<1>2. /\ Len(newer) \in Nat /\ Len(older) \in Nat /\ first1 \in Nat /\ first2 \in Nat
      /\ first1 \in 1..(Len(newer) + 1) /\ first2 \in 1..(Len(older) + 1)
      /\ Len(newer) \in (first1 - 1)..Len(newer) /\ Len(older) \in (first2 - 1)..Len(older)
  BY MergeFacts DEF MergeInv
<1>3. /\ IsArray(restN) /\ Len(restN) = Len(newer) - first1 + 1
      /\ PairsIn(restN) = {newer[j] : j \in first1..Len(newer)}
  <2>1. IsArray(newer)
    BY DEF MergeInv
  <2>2. /\ IsArray(restN) /\ Len(restN) = Len(newer) - first1 + 1
        /\ \A p : p \in PairsIn(restN) <=> \E j \in first1..Len(newer) : p = newer[j]
    BY <1>2, <2>1, SubArray
  <2> HIDE DEF restN
  <2> QED BY <2>2
<1>4. /\ IsArray(restO) /\ Len(restO) = Len(older) - first2 + 1
      /\ PairsIn(restO) = {older[j] : j \in first2..Len(older)}
  <2>1. IsArray(older)
    BY DEF MergeInv
  <2>2. /\ IsArray(restO) /\ Len(restO) = Len(older) - first2 + 1
        /\ \A p : p \in PairsIn(restO) <=> \E j \in first2..Len(older) : p = older[j]
    BY <1>2, <2>1, SubArray
  <2> HIDE DEF restO
  <2> QED BY <2>2
<1> HIDE DEF restN, restO
<1>5. PairsIn(restN) = {} \/ PairsIn(restO) = {}
  <2>1. first1 = Len(newer) + 1 \/ first2 = Len(older) + 1
    BY <1>1, <1>2 DEF InLoop
  <2>2. first1..Len(newer) = {} \/ first2..Len(older) = {}
    BY <1>2, <2>1
  <2> QED BY <1>3, <1>4, <2>2
<1>6. /\ \A p \in PairsIn(result), q \in PairsIn(restN) : p.key < q.key
      /\ \A p \in PairsIn(result), q \in PairsIn(restO) : p.key < q.key
  BY <1>1, <1>3, <1>4, WrittenBelowRest
<1>7. /\ IsArray(result \o restN) /\ Len(result \o restN) = Len(result) + Len(restN)
      /\ \A p : p \in PairsIn(result \o restN) <=> p \in PairsIn(result) \/ p \in PairsIn(restN)
  <2>1. IsArray(result)
    BY DEF MergeInv
  <2> QED BY <1>3, <1>6, <2>1, ConcatArrays
<1>8. \A p \in PairsIn(result \o restN), q \in PairsIn(restO) : p.key < q.key
  BY <1>5, <1>6, <1>7
<1>9. /\ IsArray(result') /\ Len(result') = Len(result) + Len(restN) + Len(restO)
      /\ \A p : p \in PairsIn(result') <=>
                    p \in PairsIn(result) \/ p \in PairsIn(restN) \/ p \in PairsIn(restO)
  <2> DEFINE both == result \o restN
  <2>1. /\ IsArray(both \o restO) /\ Len(both \o restO) = Len(both) + Len(restO)
        /\ \A p : p \in PairsIn(both \o restO) <=> p \in PairsIn(both) \/ p \in PairsIn(restO)
    <3>1. IsArray(both) /\ \A p \in PairsIn(both), q \in PairsIn(restO) : p.key < q.key
      BY <1>7, <1>8
    <3> HIDE DEF both
    <3> QED BY <1>4, <3>1, ConcatArrays
  <2> QED BY <1>1, <1>7, <2>1
<1>10. PairsIn(result') = Merged(newer, Len(newer), older, Len(older), SkipDeleted)
  <2>1. PairsIn(result) = Merged(newer, first1 - 1, older, first2 - 1, SkipDeleted)
    BY <1>1 DEF MergeInv
  <2>2. Merged(newer, Len(newer), older, Len(older), SkipDeleted) =
            PairsIn(result) \cup PairsIn(restN) \cup PairsIn(restO)
    BY <1>1, <1>3, <1>4, <2>1, MergedRest
  <2> QED BY <1>9, <2>2
<1>11. Len(result') <= Len(newer) + Len(older)
  <2>1. Len(result) <= (first1 - 1) + (first2 - 1) /\ Len(result) \in Nat
    BY <1>1, ArrayFacts DEF MergeInv
  <2> QED BY <1>2, <1>3, <1>4, <1>9, <2>1
<1> QED
  BY <1>1, <1>9, <1>10, <1>11 DEF MergeInv, Synchronized

LEMMA MergeStep == ASSUME MergeInv, Merge PROVE MergeInv'
BY TakeOlderStep, TakeNewerStep, SkipBothStep, ReplaceOlderStep, CopyRestStep DEF Merge

(* When all of both ranges is passed.                                      *)
LEMMA MergedAll ==
    ASSUME MergeInv, ~merging
    PROVE  \A p : p \in PairsIn(result) <=>
               \/ p \in PairsIn(newer) /\ ~Dropped(p.key, newer, older, SkipDeleted)
               \/ p \in PairsIn(older) /\ p.key \notin KeysIn(newer)
<1>1. DOMAIN newer = 1..Len(newer) /\ DOMAIN older = 1..Len(older)
  BY MergeFacts
<1>2. PairsIn(result) = Merged(newer, Len(newer), older, Len(older), SkipDeleted)
  BY DEF MergeInv
<1> QED
  BY <1>1, <1>2 DEF Merged, PairsIn

LEMMA MergeResult == ASSUME MergeInv PROVE OutputIsLevel /\ MergesNewestFirst
<1>1. OutputIsLevel
  <2>1. CASE merging
    <3>1. /\ Len(newer) \in Nat /\ Len(older) \in Nat /\ Len(result) \in Nat
          /\ first1 \in 1..(Len(newer) + 1) /\ first2 \in 1..(Len(older) + 1)
          /\ Len(result) <= (first1 - 1) + (first2 - 1)
      BY <2>1, MergeFacts, ArrayFacts DEF MergeInv
    <3>2. Len(result) <= Len(newer) + Len(older)
      BY <3>1
    <3> QED BY <3>2 DEF OutputIsLevel, MergeInv, IsArray
  <2>2. CASE ~merging
    BY <2>2 DEF OutputIsLevel, MergeInv, IsArray
  <2> QED BY <2>1, <2>2
<1>2. ASSUME ~merging
      PROVE  LET dropped == {k \in KeysIn(newer) \cap KeysIn(older) :
                                 SkipDeleted /\ ItemOf(newer, k) = Deleted}
             IN  /\ KeysIn(result) = (KeysIn(newer) \cup KeysIn(older)) \ dropped
                 /\ \A k \in KeysIn(result) :
                        ItemOf(result, k) = IF k \in KeysIn(newer) THEN ItemOf(newer, k)
                                                                   ELSE ItemOf(older, k)
  <2>1. IsArray(newer) /\ IsArray(older) /\ IsArray(result)
    BY DEF MergeInv
  <2>2. \A p : p \in PairsIn(result) <=>
               \/ p \in PairsIn(newer) /\ ~Dropped(p.key, newer, older, SkipDeleted)
               \/ p \in PairsIn(older) /\ p.key \notin KeysIn(newer)
    BY <1>2, MergedAll
  <2>3. ASSUME NEW k PROVE k \in KeysIn(result) <=>
               \/ k \in KeysIn(newer) /\ ~Dropped(k, newer, older, SkipDeleted)
               \/ k \in KeysIn(older) /\ k \notin KeysIn(newer)
    BY <2>2, KeyOfPair
  <2>4. ASSUME NEW k \in KeysIn(result)
        PROVE  ItemOf(result, k) = IF k \in KeysIn(newer) THEN ItemOf(newer, k)
                                                          ELSE ItemOf(older, k)
    <3>1. PICK p \in PairsIn(result) : p.key = k
      BY KeyOfPair
    <3>2. ItemOf(result, k) = p.item
      BY <2>1, <3>1, ItemOfPair
    <3>3. CASE p \in PairsIn(newer)
      BY <2>1, <3>1, <3>2, <3>3, ItemOfPair
    <3>4. CASE p \in PairsIn(older) /\ p.key \notin KeysIn(newer)
      BY <2>1, <3>1, <3>2, <3>4, ItemOfPair
    <3> QED BY <2>2, <3>3, <3>4
  <2> QED BY <2>3, <2>4 DEF Dropped
<1> QED
  BY <1>1, <1>2 DEF MergesNewestFirst

-----------------------------------------------------------------------------
(* range. Once n levels are merged the output holds, of each key from lo   *)
(* to hi, the pair of the first of these levels that has it.               *)

NewestPairs(n) ==
    UNION {{p \in PairsIn(levels[l]) : \A m \in 0..(l - 1) : p.key \notin KeysIn(levels[m])} :
               l \in 0..(n - 1)}
Between(pairs_) == {p \in pairs_ : lo <= p.key /\ p.key <= hi}

RangeInv ==
    /\ MergeInv
    /\ call \in {"merge", "range", "returned", "thrown"}
    /\ lo \in Int /\ hi \in Int /\ i \in 0..NumLevels
    /\ \A l \in Level : /\ IsArray(levels[l])
                        /\ \A p \in PairsIn(levels[l]) : p.key \in Key /\ p.item \in {l, Deleted}
    /\ call = "range" /\ ~merging => PairsIn(result) = Between(NewestPairs(i))
    /\ call = "range" /\ merging =>
           /\ i > 0 /\ SkipDeleted = FALSE
           /\ PairsIn(newer) = Between(NewestPairs(i - 1))
           /\ PairsIn(older) = Between(PairsIn(levels[i - 1]))
    /\ call = "returned" =>
           /\ IsArray(pairs)
           /\ PairsIn(pairs) = {p \in Between(NewestPairs(NumLevels)) : p.item # Deleted}

\* Of the levels that have a key the first one.
LEMMA FirstHolder ==
    ASSUME NEW n \in Nat, NEW P, P \subseteq 0..n, P # {}
    PROVE  Min(P) \in P /\ \A m \in 0..(Min(P) - 1) : m \notin P
<1>1. P \in SUBSET Nat
  OBVIOUS
<1>2. Min(P) \in P /\ \A y \in P : Min(P) <= y
  BY <1>1, LeastElement
<1> HIDE DEF Min
<1>3. Min(P) \in Nat
  BY <1>1, <1>2
<1> QED
  BY <1>2, <1>3

(* A key some of the first n levels have is that of one of their newest    *)
(* pairs.                                                                  *)
LEMMA NewestPairsHold ==
    ASSUME NEW n \in Nat, NEW l \in 0..(n - 1), NEW k, k \in KeysIn(levels[l])
    PROVE  \E p \in NewestPairs(n) : p.key = k
<1> DEFINE P == {m \in 0..(n - 1) : k \in KeysIn(levels[m])}
<1>1. Min(P) \in P /\ \A m \in 0..(Min(P) - 1) : m \notin P
  <2>1. P \subseteq 0..n /\ P # {}
    OBVIOUS
  <2> HIDE DEF P
  <2> QED BY <2>1, FirstHolder
<1>2. PICK first \in 0..(n - 1) : /\ k \in KeysIn(levels[first])
                                  /\ \A m \in 0..(first - 1) : k \notin KeysIn(levels[m])
  <2>1. Min(P) \in 0..(n - 1) /\ k \in KeysIn(levels[Min(P)])
    BY <1>1
  <2> HIDE DEF Min
  <2>2. \A m \in 0..(Min(P) - 1) : m \in 0..(n - 1)
    BY <2>1
  <2> QED BY <1>1, <2>1, <2>2
<1>3. PICK p \in PairsIn(levels[first]) : p.key = k
  BY <1>2, KeyOfPair
<1> QED
  BY <1>2, <1>3 DEF NewestPairs

(* One more level adds the pairs whose keys no level before has.           *)
LEMMA NewestPairsNext ==
    ASSUME NEW n \in Nat
    PROVE  NewestPairs(n + 1) = NewestPairs(n) \cup
               {p \in PairsIn(levels[n]) : \A q \in NewestPairs(n) : q.key # p.key}
<1>1. 0..((n + 1) - 1) = (0..(n - 1)) \cup {n}
  OBVIOUS
<1>2. NewestPairs(n + 1) = NewestPairs(n) \cup
          {p \in PairsIn(levels[n]) : \A m \in 0..(n - 1) : p.key \notin KeysIn(levels[m])}
  BY <1>1 DEF NewestPairs
<1>3. ASSUME NEW p
      PROVE  (\A m \in 0..(n - 1) : p.key \notin KeysIn(levels[m])) <=>
                 \A q \in NewestPairs(n) : q.key # p.key
  <2>1. ASSUME NEW q \in NewestPairs(n), q.key = p.key
        PROVE  \E m \in 0..(n - 1) : p.key \in KeysIn(levels[m])
    <3>1. PICK m \in 0..(n - 1) : q \in PairsIn(levels[m])
      BY DEF NewestPairs
    <3>2. p.key \in KeysIn(levels[m])
      BY <2>1, <3>1, KeyOfPair
    <3> QED BY <3>2
  <2> QED BY <2>1, NewestPairsHold
<1> QED
  BY <1>2, <1>3

(* std::upper_bound.                                                       *)
LEMMA UpperBoundFound ==
    ASSUME NEW a, IsArray(a), NEW x \in Int, NEW first \in 0..Len(a)
    PROVE  /\ upper_bound(a, first, x) \in first..Len(a)
           /\ \A j \in (first + 1)..upper_bound(a, first, x) : a[j].key <= x
           /\ \A j \in (upper_bound(a, first, x) + 1)..Len(a) : a[j].key > x
<1> DEFINE T == {p \in first..Len(a) : \A q \in (p + 1)..Len(a) : a[q].key > x}
<1>1. Len(a) \in Nat /\ first \in Nat /\ first <= Len(a)
  BY ArrayFacts
<1>2. /\ \A j \in 1..Len(a) : a[j].key \in Int
      /\ \A j, l \in 1..Len(a) : j < l => a[j].key < a[l].key
  BY ArrayFacts
<1>3. Len(a) \in T
  BY <1>1
<1>4. PICK u : u = upper_bound(a, first, x)
  OBVIOUS
<1>5. u \in T /\ \A y \in T : u <= y
  <2>1. T \in SUBSET Nat /\ T # {}
    BY <1>1, <1>3
  <2>2. Min(T) \in T /\ \A y \in T : Min(T) <= y
    <3> HIDE DEF T
    <3> QED BY <2>1, LeastElement
  <2> QED BY <1>4, <2>2 DEF upper_bound
<1>6. u \in Nat /\ first <= u /\ u <= Len(a)
  BY <1>1, <1>5
<1>7. ASSUME NEW j \in (first + 1)..u PROVE a[j].key <= x
  <2>1. u - 1 \notin T /\ u - 1 \in first..Len(a)
    <3>1. u - 1 < u /\ u - 1 \in first..Len(a)
      BY <1>1, <1>6
    <3> HIDE DEF T
    <3>2. u - 1 \in T => u <= u - 1
      BY <1>5
    <3> QED BY <1>6, <3>1, <3>2
  <2>2. PICK q \in ((u - 1) + 1)..Len(a) : ~(a[q].key > x)
    BY <2>1
  <2>3. q = u
    <3>1. q = u \/ q \in (u + 1)..Len(a)
      BY <1>1, <1>6
    <3>2. \A r \in (u + 1)..Len(a) : a[r].key > x
      BY <1>5
    <3> QED BY <2>2, <3>1, <3>2
  <2>4. j \in 1..Len(a) /\ u \in 1..Len(a) /\ (j = u \/ j < u)
    BY <1>1, <1>6
  <2>5. a[j].key \in Int /\ a[u].key \in Int /\ a[u].key <= x
    BY <1>2, <2>2, <2>3, <2>4
  <2> QED BY <1>2, <2>4, <2>5
<1> QED
  BY <1>1, <1>4, <1>5, <1>6, <1>7

(* The slice of a level is what it has from lo to hi.                      *)
LEMMA SliceFound ==
    ASSUME RangeInv, AtLevel
    PROVE  IsArray(Slice) /\ PairsIn(Slice) = Between(PairsIn(levels[i]))
<1> DEFINE a == levels[i]
           it_lo == lower_bound_bl(a, 0, Len(a), lo)
           it_hi == upper_bound(a, it_lo, hi)
<1>1. IsArray(a) /\ lo \in Int /\ hi \in Int /\ lo <= hi
  <2>1. i \in Level
    BY RangeAssumption DEF RangeInv, AtLevel, Level
  <2> QED BY <2>1 DEF RangeInv, AtLevel
<1> HIDE DEF a
<1>2. Len(a) \in Nat /\ DOMAIN a = 1..Len(a)
  BY <1>1, ArrayFacts
<1>3. /\ it_lo \in 0..Len(a)
      /\ \A j \in 1..it_lo : a[j].key < lo
      /\ \A j \in (it_lo + 1)..Len(a) : a[j].key >= lo
  <2>1. 0 \in 0..Len(a) /\ Len(a) \in 0..Len(a) /\ 0 <= Len(a) /\ 0 + 1 = 1
    BY <1>2
  <2>2. /\ it_lo \in 0..Len(a)
        /\ \A j \in (0 + 1)..it_lo : a[j].key < lo
        /\ \A j \in (it_lo + 1)..Len(a) : a[j].key >= lo
    BY <1>1, <2>1, LowerBoundFound
  <2> QED BY <2>1, <2>2
<1> HIDE DEF it_lo
<1>4. /\ it_hi \in it_lo..Len(a)
      /\ \A j \in (it_lo + 1)..it_hi : a[j].key <= hi
      /\ \A j \in (it_hi + 1)..Len(a) : a[j].key > hi
  BY <1>1, <1>3, UpperBoundFound
<1> HIDE DEF it_hi
<1>5. Slice = SubSeq(a, it_lo + 1, it_hi)
  BY DEF Slice, a, it_lo, it_hi
<1>6. /\ IsArray(Slice)
      /\ \A p : p \in PairsIn(Slice) <=> \E j \in (it_lo + 1)..it_hi : p = a[j]
  <2>1. it_lo + 1 \in 1..(Len(a) + 1) /\ it_hi \in ((it_lo + 1) - 1)..Len(a)
    BY <1>2, <1>3, <1>4
  <2> QED BY <1>1, <1>5, <2>1, SubArray
<1>7. ASSUME NEW p
      PROVE  (\E j \in (it_lo + 1)..it_hi : p = a[j]) <=>
                 p \in PairsIn(a) /\ lo <= p.key /\ p.key <= hi
  <2>1. ASSUME NEW j \in (it_lo + 1)..it_hi, p = a[j]
        PROVE  p \in PairsIn(a) /\ lo <= p.key /\ p.key <= hi
    <3>1. j \in 1..Len(a) /\ j \in (it_lo + 1)..Len(a)
      BY <1>2, <1>3, <1>4
    <3>2. a[j].key \in Int /\ a[j].key >= lo /\ a[j].key <= hi
      BY <1>1, <1>3, <1>4, <3>1, ArrayFacts
    <3> QED BY <1>1, <1>2, <2>1, <3>1, <3>2 DEF PairsIn
  <2>2. ASSUME NEW j \in 1..Len(a), p = a[j], lo <= p.key, p.key <= hi
        PROVE  j \in (it_lo + 1)..it_hi
    <3>1. a[j].key \in Int
      BY <1>1, ArrayFacts
    <3>2. ~(a[j].key < lo) /\ ~(a[j].key > hi)
      BY <1>1, <2>2, <3>1
    <3>3. j \notin 1..it_lo /\ j \notin (it_hi + 1)..Len(a)
      BY <1>3, <1>4, <3>2
    <3>4. it_lo \in Nat /\ it_hi \in Nat
      BY <1>2, <1>3, <1>4
    <3> QED BY <1>2, <3>3, <3>4
  <2> QED BY <1>2, <2>1, <2>2 DEF PairsIn
<1> QED
  BY <1>6, <1>7 DEF Between, a

(* The copy at the end leaves out what is erased.                          *)
LEMMA LivePairsFound ==
    ASSUME NEW a, IsArray(a)
    PROVE  /\ IsArray(live_pairs(a))
           /\ PairsIn(live_pairs(a)) = {p \in PairsIn(a) : p.item # Deleted}
<1> DEFINE Copies(g, n) ==
               g = [j \in 0..n |-> IF j = 0 THEN << >>
                                   ELSE IF a[j].item = Deleted THEN g[j - 1]
                                   ELSE Append(g[j - 1], a[j])]
           copied == CHOOSE g : g = [j \in 0..Len(a) |-> IF j = 0 THEN << >>
                                   ELSE IF a[j].item = Deleted THEN g[j - 1]
                                   ELSE Append(g[j - 1], a[j])]
<1>1. /\ Len(a) \in Nat /\ DOMAIN a = 1..Len(a)
      /\ \A j \in 1..Len(a) : a[j] \in Pair
      /\ \A j, l \in 1..Len(a) : j < l => a[j].key < a[l].key
  BY ArrayFacts
<1>2. \A n \in Nat : \E g : Copies(g, n)
  <2> DEFINE S == {n \in Nat : \E g : Copies(g, n)}
  <2>1. 0 \in S
    <3>1. Copies([j \in 0..0 |-> << >>], 0)
      OBVIOUS
    <3> QED BY <3>1
  <2>2. ASSUME NEW n \in Nat, n \in S PROVE n + 1 \in S
    <3>1. PICK g : Copies(g, n)
      BY <2>2
    <3>2. PICK h : h = [j \in 0..(n + 1) |->
                           IF j <= n THEN g[j]
                           ELSE IF a[n + 1].item = Deleted THEN g[n] ELSE Append(g[n], a[n + 1])]
      OBVIOUS
    <3>3. \A j \in 0..n : h[j] = g[j]
      BY <3>2
    <3>4. ASSUME NEW j \in 0..(n + 1)
          PROVE  h[j] = IF j = 0 THEN << >>
                        ELSE IF a[j].item = Deleted THEN h[j - 1] ELSE Append(h[j - 1], a[j])
      <4>1. CASE j <= n
        <5>1. j \in 0..n /\ (j # 0 => j - 1 \in 0..n)
          BY <4>1
        <5>2. g[j] = IF j = 0 THEN << >>
                     ELSE IF a[j].item = Deleted THEN g[j - 1] ELSE Append(g[j - 1], a[j])
          BY <3>1, <5>1
        <5> QED BY <3>3, <5>1, <5>2
      <4>2. CASE ~(j <= n)
        <5>1. j = n + 1 /\ j # 0 /\ n \in 0..n /\ j - 1 = n
          BY <4>2
        <5> QED BY <3>2, <3>3, <4>2, <5>1
      <4> QED BY <4>1, <4>2
    <3>5. h = [j \in 0..(n + 1) |-> h[j]]
      BY <3>2
    <3>6. Copies(h, n + 1)
      BY <3>4, <3>5
    <3> QED BY <3>6
  <2> HIDE DEF S
  <2>3. \A n \in Nat : n \in S
    BY <2>1, <2>2, SetInduction
  <2> QED BY <2>3 DEF S
<1>3. Copies(copied, Len(a))
  BY <1>1, <1>2
<1>4. live_pairs(a) = copied[Len(a)]
  BY DEF live_pairs
<1> HIDE DEF copied
<1> DEFINE Good(n) == /\ IsArray(copied[n])
                      /\ PairsIn(copied[n]) = {p \in {a[j] : j \in 1..n} : p.item # Deleted}
           T == {n \in Nat : n <= Len(a) => Good(n)}
<1>5. 0 \in T
  <2>1. copied[0] = << >>
    BY <1>1, <1>3
  <2> QED BY <2>1, EmptyArray
<1>6. ASSUME NEW n \in Nat, n \in T PROVE n + 1 \in T
  <2> SUFFICES ASSUME n + 1 <= Len(a) PROVE Good(n + 1)
    OBVIOUS
  <2>1. n + 1 \in 0..Len(a) /\ n + 1 \in 1..Len(a) /\ n + 1 # 0 /\ (n + 1) - 1 = n /\ n <= Len(a)
    BY <1>1
  <2>2. copied[n + 1] = IF a[n + 1].item = Deleted THEN copied[n]
                                                   ELSE Append(copied[n], a[n + 1])
    BY <1>3, <2>1
  <2>3. /\ IsArray(copied[n])
        /\ PairsIn(copied[n]) = {p \in {a[j] : j \in 1..n} : p.item # Deleted}
    BY <1>6, <2>1
  <2>4. {a[j] : j \in 1..(n + 1)} = {a[j] : j \in 1..n} \cup {a[n + 1]}
    <3>1. 1..(n + 1) = (1..n) \cup {n + 1}
      OBVIOUS
    <3> QED BY <3>1
  <2> HIDE DEF Copies
  <2>5. CASE a[n + 1].item = Deleted
    <3>1. copied[n + 1] = copied[n]
      BY <2>2, <2>5
    <3> QED BY <2>3, <2>4, <2>5, <3>1
  <2>6. CASE a[n + 1].item # Deleted
    <3>1. copied[n + 1] = Append(copied[n], a[n + 1])
      BY <2>2, <2>6
    <3>2. ASSUME NEW q \in PairsIn(copied[n]) PROVE q.key < a[n + 1].key
      <4>1. PICK j \in 1..n : q = a[j]
        BY <2>3
      <4>2. j \in 1..Len(a) /\ j < n + 1
        BY <1>1, <2>1
      <4> QED BY <1>1, <2>1, <4>1, <4>2
    <3>3. /\ IsArray(copied[n + 1])
          /\ \A q : q \in PairsIn(copied[n + 1]) <=> q \in PairsIn(copied[n]) \/ q = a[n + 1]
      BY <1>1, <2>1, <2>3, <3>1, <3>2, AppendArray
    <3> QED BY <2>3, <2>4, <2>6, <3>3
  <2> QED BY <2>5, <2>6
<1>7. Good(Len(a))
  <2>1. Len(a) \in T
    <3> HIDE DEF T
    <3> QED BY <1>1, <1>5, <1>6, SetInduction
  <2> QED BY <1>1, <2>1
<1> QED
  BY <1>1, <1>4, <1>7 DEF PairsIn

-----------------------------------------------------------------------------
(* The invariant.                                                          *)

LEMMA InitRangeInv == Init => RangeInv
<1> SUFFICES ASSUME Init PROVE RangeInv
  OBVIOUS
<1>1. i = 0 /\ i \in 0..NumLevels
  BY RangeAssumption DEF Init
<1>2. CASE MergeCall
  <2>1. IsArray(newer) /\ IsArray(older)
    BY <1>2, KeyAssumption, LevelArray DEF MergeCall, MergeInit
  <2>2. MergeInv
    BY <1>2, <2>1, MergeStart DEF MergeCall, MergeInit
  <2>3. \A l \in Level : IsArray(levels[l]) /\ PairsIn(levels[l]) = {}
    BY <1>2, EmptyArray DEF MergeCall, NoLevels
  <2> QED BY <1>1, <1>2, <2>2, <2>3 DEF MergeCall, RangeInv
<1>3. CASE RangeCall
  <2>1. MergeInv
    BY <1>3, EmptyArray, MergeStart DEF RangeCall
  <2>2. ASSUME NEW l \in Level
        PROVE  /\ IsArray(levels[l])
               /\ \A p \in PairsIn(levels[l]) : p.key \in Key /\ p.item \in {l, Deleted}
    <3>1. levels[l] \in ArraysAt(l, RangeKey)
      BY <1>3 DEF RangeCall, Contents, RangeArrays
    <3>2. l \in Nat /\ RangeKey \subseteq Int /\ RangeKey \subseteq Key
      BY KeyAssumption, RangeAssumption DEF Level
    <3> QED BY <3>1, <3>2, LevelArray
  <2>3. lo \in Int /\ hi \in Int
    <3>1. PICK range \in Ranges : lo = range[1] /\ hi = range[2]
      BY <1>3 DEF RangeCall
    <3> QED BY <3>1, RangeAssumption
  <2>4. PairsIn(result) = Between(NewestPairs(i))
    <3>1. NewestPairs(0) = {}
      BY DEF NewestPairs
    <3> QED BY <1>1, <1>3, <3>1, EmptyArray DEF RangeCall, Between
  <2> QED BY <1>1, <1>3, <2>1, <2>2, <2>3, <2>4 DEF RangeCall, RangeInv
<1> QED
  BY <1>2, <1>3 DEF Init

LEMMA MergeInRange ==
    ASSUME RangeInv, Merge, UNCHANGED range_vars
    PROVE  RangeInv'
<1>1. MergeInv' /\ MergeInv
  BY MergeStep DEF RangeInv
<1>2. /\ newer' = newer /\ older' = older /\ SkipDeleted' = SkipDeleted /\ merging
      /\ call' = call /\ levels' = levels /\ lo' = lo /\ hi' = hi /\ i' = i /\ pairs' = pairs
  BY DEF Merge, TakeOlder, TakeNewer, SkipBoth, ReplaceOlder, CopyRest, SameKey, InLoop, range_vars
<1>3. ASSUME call = "range", ~merging'
      PROVE  PairsIn(result') = Between(NewestPairs(i))
  <2>1. /\ i - 1 \in Nat /\ (i - 1) + 1 = i /\ SkipDeleted = FALSE
        /\ PairsIn(newer) = Between(NewestPairs(i - 1))
        /\ PairsIn(older) = Between(PairsIn(levels[i - 1]))
    BY <1>2, <1>3, RangeAssumption DEF RangeInv
  <2>2. \A p : p \in PairsIn(result') <=>
            \/ p \in PairsIn(newer) /\ ~Dropped(p.key, newer, older, SkipDeleted)
            \/ p \in PairsIn(older) /\ p.key \notin KeysIn(newer)
    <3>1. DOMAIN newer = 1..Len(newer) /\ DOMAIN older = 1..Len(older)
      BY <1>1, MergeFacts
    <3>2. PairsIn(result') = Merged(newer, Len(newer), older, Len(older), SkipDeleted)
      BY <1>1, <1>2, <1>3 DEF MergeInv
    <3> QED BY <3>1, <3>2 DEF Merged, PairsIn
  <2>3. NewestPairs(i) = NewestPairs(i - 1) \cup
            {p \in PairsIn(levels[i - 1]) : \A q \in NewestPairs(i - 1) : q.key # p.key}
    BY <2>1, NewestPairsNext
  <2>4. ASSUME NEW p PROVE p \in PairsIn(result') <=> p \in Between(NewestPairs(i))
    <3>1. p \in PairsIn(result') <=>
              \/ p \in Between(NewestPairs(i - 1))
              \/ p \in Between(PairsIn(levels[i - 1])) /\ p.key \notin KeysIn(newer)
      BY <2>1, <2>2 DEF Dropped
    <3>2. ASSUME lo <= p.key, p.key <= hi
          PROVE  p.key \notin KeysIn(newer) <=> \A q \in NewestPairs(i - 1) : q.key # p.key
      BY <2>1, <3>2, KeyOfPair DEF Between
    <3> QED BY <2>3, <3>1, <3>2 DEF Between
  <2> QED BY <2>4
<1>4. ASSUME call = "range", merging'
      PROVE  /\ i > 0 /\ SkipDeleted = FALSE
             /\ PairsIn(newer) = Between(NewestPairs(i - 1))
             /\ PairsIn(older) = Between(PairsIn(levels[i - 1]))
  BY <1>2, <1>4 DEF RangeInv
<1> QED
  BY <1>1, <1>2, <1>3, <1>4 DEF RangeInv, Level, Between, NewestPairs

LEMMA RangeStep == RangeInv /\ [Next]_vars => RangeInv'
<1> SUFFICES ASSUME RangeInv, [Next]_vars PROVE RangeInv'
  OBVIOUS
<1>1. CASE Merge /\ UNCHANGED range_vars
  BY <1>1, MergeInRange
<1>2. CASE Throw
  <2>1. MergeInv'
    BY <1>2 DEF Throw, RangeInv, MergeInv, Synchronized, merge_vars
  <2> QED BY <1>2, <2>1 DEF Throw, RangeInv, Level, Between, NewestPairs, merge_vars
<1>3. CASE NothingThere
  <2>1. MergeInv'
    BY <1>3 DEF NothingThere, RangeInv, MergeInv, Synchronized, merge_vars
  <2>2. /\ call = "range" /\ ~merging /\ i \in Nat /\ i + 1 \in 0..NumLevels
        /\ PairsIn(result) = Between(NewestPairs(i))
    BY <1>3, RangeAssumption DEF NothingThere, AtLevel, RangeInv
  <2>3. Between(PairsIn(levels[i])) = {}
    BY <1>3, SliceFound, EmptyArray DEF NothingThere
  <2>4. Between(NewestPairs(i + 1)) = Between(NewestPairs(i))
    BY <2>2, <2>3, NewestPairsNext DEF Between
  <2> QED BY <1>3, <2>1, <2>2, <2>4
          DEF NothingThere, RangeInv, Level, Between, NewestPairs, merge_vars
<1>4. CASE StartMerge
  <2>1. /\ call = "range" /\ ~merging /\ i \in Nat /\ i + 1 \in 0..NumLevels
        /\ PairsIn(result) = Between(NewestPairs(i))
        /\ IsArray(result)
    BY <1>4, RangeAssumption DEF StartMerge, AtLevel, RangeInv, MergeInv
  <2>2. IsArray(Slice) /\ PairsIn(Slice) = Between(PairsIn(levels[i]))
    BY <1>4, SliceFound DEF StartMerge
  <2>3. /\ newer' = result /\ older' = Slice /\ SkipDeleted' = FALSE /\ first1' = 1 /\ first2' = 1
        /\ result' = << >> /\ merging' = TRUE /\ i' = i + 1
        /\ call' = call /\ levels' = levels /\ lo' = lo /\ hi' = hi /\ pairs' = pairs
    BY <1>4 DEF StartMerge
  <2>4. MergeInv'
    <3>1. /\ IsArray(newer)' /\ IsArray(older)' /\ (SkipDeleted \in BOOLEAN)' /\ (first1 = 1)'
          /\ (first2 = 1)' /\ (result = << >>)' /\ (merging \in BOOLEAN)' /\ merging'
      BY <2>1, <2>2, <2>3
    <3> QED BY <3>1, MergeStart, PTL
  <2>5. /\ i' > 0 /\ i' - 1 = i
        /\ PairsIn(newer') = Between(NewestPairs(i))
        /\ PairsIn(older') = Between(PairsIn(levels[i]))
    BY <2>1, <2>2, <2>3
  <2> HIDE DEF Slice
  <2> QED BY <2>1, <2>3, <2>4, <2>5 DEF RangeInv, Level, Between, NewestPairs
<1>5. CASE Return
  <2>1. MergeInv'
    BY <1>5 DEF Return, RangeInv, MergeInv, Synchronized, merge_vars
  <2>2. /\ pairs' = live_pairs(result) /\ call' = "returned"
        /\ levels' = levels /\ lo' = lo /\ hi' = hi /\ i' = i /\ merging' = merging
        /\ PairsIn(result) = Between(NewestPairs(NumLevels)) /\ IsArray(result)
    BY <1>5 DEF Return, RangeInv, MergeInv, merge_vars
  <2>3. /\ IsArray(pairs')
        /\ PairsIn(pairs') = {p \in Between(NewestPairs(NumLevels)) : p.item # Deleted}
    BY <2>2, LivePairsFound
  <2> QED BY <2>1, <2>2, <2>3 DEF RangeInv, Level, Between, NewestPairs
<1>6. CASE UNCHANGED vars
  <2>1. MergeInv'
    BY <1>6 DEF RangeInv, MergeInv, Synchronized, merge_vars, vars
  <2> QED BY <1>6, <2>1 DEF RangeInv, Level, Between, NewestPairs, vars, range_vars, merge_vars
<1> QED
  BY <1>1, <1>2, <1>3, <1>4, <1>5, <1>6 DEF Next

THEOREM AlwaysRangeInv == Spec => []RangeInv
BY InitRangeInv, RangeStep, PTL DEF Spec

-----------------------------------------------------------------------------
(* What follows from it.                                                   *)

(* The output of merge is sorted with unique keys at every step, and never *)
(* outgrows the buffer of both ranges' length it is written to.            *)
THEOREM AlwaysOutputIsLevel == Spec => []OutputIsLevel
<1>1. RangeInv => OutputIsLevel
  BY MergeResult DEF RangeInv
<1> QED
  BY <1>1, AlwaysRangeInv, PTL

(* merge keeps the newest item of every key and drops, when it is told to, *)
(* exactly the erased keys whose older item it has met.                    *)
THEOREM AlwaysMergesNewestFirst == Spec => []MergesNewestFirst
<1>1. RangeInv => MergesNewestFirst
  BY MergeResult DEF RangeInv
<1> QED
  BY <1>1, AlwaysRangeInv, PTL

(* lower_bound_bl returns the first position not below the key, in every   *)
(* part of an array of any length.                                         *)
THEOREM AlwaysFindsLowerBound == Spec => []FindsLowerBound
<1>1. RangeInv => FindsLowerBound
  <2> SUFFICES ASSUME RangeInv,
                      NEW first \in 0..Len(newer), NEW last \in 0..Len(newer), NEW x \in Sought,
                      first <= last
               PROVE  LET found == lower_bound_bl(newer, first, last, x)
                      IN  /\ found \in first..last
                          /\ \A j \in (first + 1)..found : newer[j].key < x
                          /\ \A j \in (found + 1)..last : newer[j].key >= x
    BY DEF FindsLowerBound
  <2>1. IsArray(newer) /\ x \in Int
    BY KeyAssumption DEF RangeInv, MergeInv
  <2> QED BY <2>1, LowerBoundFound
<1> QED
  BY <1>1, AlwaysRangeInv, PTL

(* The newest pairs of the levels are the newest items of their keys.      *)
LEMMA NewestPairItem ==
    ASSUME RangeInv, NEW p \in NewestPairs(NumLevels)
    PROVE  /\ p.key \in Key /\ p.item \in Level \cup {Deleted}
           /\ NewestItem(p.key) = p.item
<1> DEFINE P == HoldersOf(p.key)
<1>1. PICK l \in Level : /\ p \in PairsIn(levels[l])
                         /\ \A m \in 0..(l - 1) : p.key \notin KeysIn(levels[m])
  BY DEF NewestPairs, Level
<1>2. l \in Nat /\ l \in P /\ P \in SUBSET Nat
  <2>1. p.key \in KeysIn(levels[l])
    BY <1>1, KeyOfPair
  <2> QED BY <2>1 DEF HoldersOf, Level
<1>3. Min(P) \in P /\ Min(P) <= l
  <2> HIDE DEF P
  <2> QED BY <1>2, LeastElement
<1>4. Min(P) = l
  <2>1. PICK first \in Nat : first = Min(P)
    BY <1>2, <1>3
  <2>2. p.key \in KeysIn(levels[first]) /\ first <= l
    BY <1>3, <2>1 DEF HoldersOf
  <2> QED BY <1>1, <1>2, <2>1, <2>2
<1>5. IsArray(levels[l]) /\ p.key \in Key /\ p.item \in {l, Deleted}
  BY <1>1 DEF RangeInv
<1>6. NewestItem(p.key) = ItemOf(levels[l], p.key)
  BY <1>2, <1>4 DEF NewestItem
<1> QED
  BY <1>1, <1>5, <1>6, ItemOfPair

LEMMA NewestItemHeld ==
    ASSUME NEW k, NewestItem(k) # Deleted, RangeInv
    PROVE  \E p \in NewestPairs(NumLevels) : p.key = k
<1>1. PICK l \in Level : k \in KeysIn(levels[l])
  BY DEF NewestItem, HoldersOf
<1> QED
  BY <1>1, NewestPairsHold, RangeAssumption DEF Level

(* range returns exactly the live pairs from lo to hi, in order, each with *)
(* its newest value.                                                       *)
THEOREM AlwaysRangeIsExact == Spec => []RangeIsExact
<1>1. ASSUME RangeInv, call = "returned"
      PROVE  {<<pairs[j].key, pairs[j].item>> : j \in DOMAIN pairs} = Map!RangeOf(lo, hi)
  <2> DEFINE newest == [k \in Key |-> IF NewestItem(k) = Deleted THEN Absent ELSE NewestItem(k)]
  <2>1. PairsIn(pairs) = {p \in Between(NewestPairs(NumLevels)) : p.item # Deleted}
    BY <1>1 DEF RangeInv
  <2>2. {<<pairs[j].key, pairs[j].item>> : j \in DOMAIN pairs} =
            {<<p.key, p.item>> : p \in PairsIn(pairs)}
    BY DEF PairsIn
  <2>3. Map!RangeOf(lo, hi) =
            {<<k, newest[k]>> : k \in {j \in Key : newest[j] # Absent /\ lo <= j /\ j <= hi}}
    BY DEF Map!RangeOf, Map!Live
  <2>4. Level \subseteq Nat /\ Absent \notin Nat /\ Deleted \notin Nat
    BY RangeAssumption DEF Level
  <2>5. ASSUME NEW p \in PairsIn(pairs)
        PROVE  /\ p.key \in Key /\ newest[p.key] = p.item /\ newest[p.key] # Absent
               /\ lo <= p.key /\ p.key <= hi
    <3>1. p \in NewestPairs(NumLevels) /\ lo <= p.key /\ p.key <= hi /\ p.item # Deleted
      BY <2>1 DEF Between
    <3>2. p.key \in Key /\ p.item \in Level \cup {Deleted} /\ NewestItem(p.key) = p.item
      BY <1>1, <3>1, NewestPairItem
    <3> QED BY <2>4, <3>1, <3>2
  <2>6. ASSUME NEW k \in Key, newest[k] # Absent, lo <= k, k <= hi
        PROVE  \E p \in PairsIn(pairs) : p.key = k /\ p.item = newest[k]
    <3>1. NewestItem(k) # Deleted /\ newest[k] = NewestItem(k)
      BY <2>6
    <3>2. PICK p \in NewestPairs(NumLevels) : p.key = k
      BY <1>1, <3>1, NewestItemHeld
    <3>3. NewestItem(k) = p.item
      BY <1>1, <3>2, NewestPairItem
    <3>4. p \in PairsIn(pairs)
      BY <2>1, <2>6, <3>1, <3>2, <3>3 DEF Between
    <3> QED BY <3>1, <3>2, <3>3, <3>4
  <2> HIDE DEF newest
  <2> QED BY <2>2, <2>3, <2>5, <2>6
<1>2. RangeInv => RangeIsExact
  BY <1>1 DEF RangeInv, RangeIsExact, IsArray
<1> QED
  BY <1>2, AlwaysRangeInv, PTL
=============================================================================
