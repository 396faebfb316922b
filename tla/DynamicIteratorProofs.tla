----------------------- MODULE DynamicIteratorProofs -----------------------
(***************************************************************************)
(* lower_bound, begin and the iterators of DynamicPGMIndex, for any number *)
(* of levels with any content: what the queries find is the first live     *)
(* element, and an increment moves to the next one.                        *)
(***************************************************************************)
EXTENDS DynamicIterator, NaturalLemmas

-----------------------------------------------------------------------------
(* The loser tree, for any number of sequences: its root is the smallest   *)
(* of the current keys, of equal ones that of the first sequence, when the *)
(* tree is built and after every delete_min_insert.                        *)

\* The order of the entries: by key, of equal keys by source.
Leq(e, f) == e.key < f.key \/ (e.key = f.key /\ e.source <= f.source)
Entries == [key : Int, source : Nat]

-----------------------------------------------------------------------------
(* The shape of the tree. The leaves under position p are lo[p] .. hi[p]:  *)
(* those under its left child, then those under its right child.           *)

Spans(k, lo, hi) ==
    /\ lo \in [1..(2 * k - 1) -> Nat] /\ hi \in [1..(2 * k - 1) -> Nat]
    /\ \A p \in 1..(2 * k - 1) : k <= lo[p] /\ lo[p] <= hi[p] /\ hi[p] <= 2 * k - 1
    /\ \A p \in k..(2 * k - 1) : lo[p] = p /\ hi[p] = p
    /\ \A p \in 1..(k - 1) :
           lo[p] = lo[2 * p] /\ hi[2 * p] + 1 = lo[2 * p + 1] /\ hi[2 * p + 1] = hi[p]

(* A tree of twice the leaves has the same inner nodes over them.          *)
LEMMA SpansDouble ==
    ASSUME NEW k \in Nat, k > 0, NEW lo, NEW hi, Spans(k, lo, hi)
    PROVE  \E lo2, hi2 : Spans(2 * k, lo2, hi2)
<1> DEFINE lo2 == [p \in 1..(2 * (2 * k) - 1) |-> IF p < 2 * k THEN 2 * lo[p] ELSE p]
           hi2 == [p \in 1..(2 * (2 * k) - 1) |-> IF p < 2 * k THEN 2 * hi[p] + 1 ELSE p]
<1>1. /\ \A p \in 1..(2 * k - 1) : /\ lo[p] \in Nat /\ hi[p] \in Nat
                                   /\ k <= lo[p] /\ lo[p] <= hi[p] /\ hi[p] <= 2 * k - 1
      /\ \A p \in k..(2 * k - 1) : lo[p] = p /\ hi[p] = p
      /\ \A p \in 1..(k - 1) :
             lo[p] = lo[2 * p] /\ hi[2 * p] + 1 = lo[2 * p + 1] /\ hi[2 * p + 1] = hi[p]
  BY DEF Spans
<1>2. \A p \in 1..(2 * (2 * k) - 1) :
          /\ lo2[p] = IF p < 2 * k THEN 2 * lo[p] ELSE p
          /\ hi2[p] = IF p < 2 * k THEN 2 * hi[p] + 1 ELSE p
  OBVIOUS
<1>3. \A p \in 1..(2 * (2 * k) - 1) : p < 2 * k => p \in 1..(2 * k - 1)
  OBVIOUS
<1> HIDE DEF lo2, hi2
<1>4. ASSUME NEW p \in 1..(2 * (2 * k) - 1)
      PROVE  /\ lo2[p] \in Nat /\ hi2[p] \in Nat
             /\ 2 * k <= lo2[p] /\ lo2[p] <= hi2[p] /\ hi2[p] <= 2 * (2 * k) - 1
  <2>1. CASE p < 2 * k
    <3>1. PICK l \in Nat, h \in Nat : /\ l = lo[p] /\ h = hi[p]
                                      /\ k <= l /\ l <= h /\ h <= 2 * k - 1
      BY <1>1, <1>3, <2>1
    <3>2. lo2[p] = 2 * l /\ hi2[p] = 2 * h + 1
      BY <1>2, <2>1, <3>1
    <3> QED BY <3>1, <3>2
  <2>2. CASE ~(p < 2 * k)
    BY <1>2, <2>2
  <2> QED BY <2>1, <2>2
<1>5. \A p \in (2 * k)..(2 * (2 * k) - 1) : lo2[p] = p /\ hi2[p] = p
  BY <1>2
<1>6. ASSUME NEW p \in 1..(2 * k - 1)
      PROVE  lo2[p] = lo2[2 * p] /\ hi2[2 * p] + 1 = lo2[2 * p + 1] /\ hi2[2 * p + 1] = hi2[p]
  <2>1. /\ 2 * p \in 1..(2 * (2 * k) - 1) /\ 2 * p + 1 \in 1..(2 * (2 * k) - 1)
        /\ p \in 1..(2 * (2 * k) - 1) /\ p < 2 * k
    OBVIOUS
  <2>2. lo2[p] = 2 * lo[p] /\ hi2[p] = 2 * hi[p] + 1
    BY <1>2, <2>1
  <2>3. CASE p < k
    <3>1. p \in 1..(k - 1) /\ 2 * p < 2 * k /\ 2 * p + 1 < 2 * k
      BY <2>3
    <3>2. /\ lo2[2 * p] = 2 * lo[2 * p] /\ hi2[2 * p] = 2 * hi[2 * p] + 1
          /\ lo2[2 * p + 1] = 2 * lo[2 * p + 1] /\ hi2[2 * p + 1] = 2 * hi[2 * p + 1] + 1
      BY <1>2, <2>1, <3>1
    <3>3. hi[2 * p] \in Nat /\ hi[2 * p] + 1 = lo[2 * p + 1]
          /\ lo[p] = lo[2 * p] /\ hi[2 * p + 1] = hi[p]
      BY <1>1, <2>1, <1>3, <3>1
    <3> QED BY <2>2, <3>2, <3>3
  <2>4. CASE ~(p < k)
    <3>1. lo[p] = p /\ hi[p] = p
      BY <1>1, <2>4
    <3>2. ~(2 * p < 2 * k) /\ ~(2 * p + 1 < 2 * k)
      BY <2>4
    <3>3. lo2[2 * p] = 2 * p /\ hi2[2 * p] = 2 * p /\ lo2[2 * p + 1] = 2 * p + 1
          /\ hi2[2 * p + 1] = 2 * p + 1
      BY <1>2, <2>1, <3>2
    <3> QED BY <2>2, <3>1, <3>3
  <2> QED BY <2>3, <2>4
<1>7. lo2 \in [1..(2 * (2 * k) - 1) -> Nat] /\ hi2 \in [1..(2 * (2 * k) - 1) -> Nat]
  BY <1>4 DEF lo2, hi2
<1>8. Spans(2 * k, lo2, hi2)
  BY <1>4, <1>5, <1>6, <1>7 DEF Spans
<1> QED
  BY <1>8

(* The number of leaves: enough of them, in a tree of that shape.          *)
LEMMA PowerOfTwo ==
    ASSUME NEW n \in Nat, n > 0
    PROVE  /\ next_pow2(n) \in Nat /\ next_pow2(n) >= n
           /\ \E lo, hi : Spans(next_pow2(n), lo, hi)
<1> DEFINE Powers(g, m) == g = [e \in 0..m |-> IF e = 0 THEN 1 ELSE Doubled(g[e - 1], n)]
           power == CHOOSE g : g = [e \in 0..n |-> IF e = 0 THEN 1 ELSE Doubled(g[e - 1], n)]
<1>1. \A m \in Nat : \E g : Powers(g, m)
  <2> DEFINE S == {m \in Nat : \E g : Powers(g, m)}
  <2>1. 0 \in S
    <3>1. Powers([e \in 0..0 |-> 1], 0)
      OBVIOUS
    <3> QED BY <3>1
  <2>2. ASSUME NEW m \in Nat, m \in S PROVE m + 1 \in S
    <3>1. PICK g : Powers(g, m)
      BY <2>2
    <3>2. PICK h : h = [e \in 0..(m + 1) |-> IF e <= m THEN g[e] ELSE Doubled(g[m], n)]
      OBVIOUS
    <3>3. \A e \in 0..m : h[e] = g[e]
      BY <3>2
    <3>4. ASSUME NEW e \in 0..(m + 1)
          PROVE  h[e] = IF e = 0 THEN 1 ELSE Doubled(h[e - 1], n)
      <4>1. CASE e <= m
        <5>1. e \in 0..m /\ (e # 0 => e - 1 \in 0..m)
          BY <4>1
        <5>2. g[e] = IF e = 0 THEN 1 ELSE Doubled(g[e - 1], n)
          BY <3>1, <5>1
        <5> QED BY <3>3, <5>1, <5>2
      <4>2. CASE ~(e <= m)
        <5>1. e = m + 1 /\ e # 0 /\ m \in 0..m /\ e - 1 = m
          BY <4>2
        <5> QED BY <3>2, <3>3, <4>2, <5>1
      <4> QED BY <4>1, <4>2
    <3>5. h = [e \in 0..(m + 1) |-> h[e]]
      BY <3>2
    <3>6. Powers(h, m + 1)
      BY <3>4, <3>5
    <3> QED BY <3>6
  <2> HIDE DEF S
  <2>3. \A m \in Nat : m \in S
    BY <2>1, <2>2, SetInduction
  <2> QED BY <2>3 DEF S
<1>2. Powers(power, n)
  BY <1>1
<1>3. next_pow2(n) = power[n]
  BY DEF next_pow2
<1> HIDE DEF power
<1>4. power[0] = 1 /\ \A e \in 0..n : e # 0 => power[e] = Doubled(power[e - 1], n)
  BY <1>2
<1> DEFINE T == {e \in Nat : e <= n =>
                     /\ power[e] \in Nat /\ power[e] > 0
                     /\ power[e] >= n \/ power[e] >= e + 1
                     /\ \E lo, hi : Spans(power[e], lo, hi)}
<1>5. 0 \in T
  <2>1. Spans(1, [p \in 1..1 |-> 1], [p \in 1..1 |-> 1])
    BY DEF Spans
  <2> QED BY <1>4, <2>1
<1>6. ASSUME NEW e \in Nat, e \in T PROVE e + 1 \in T
  <2> SUFFICES ASSUME e + 1 <= n
               PROVE  /\ power[e + 1] \in Nat /\ power[e + 1] > 0
                      /\ power[e + 1] >= n \/ power[e + 1] >= (e + 1) + 1
                      /\ \E lo, hi : Spans(power[e + 1], lo, hi)
    OBVIOUS
  <2>1. /\ power[e] \in Nat /\ power[e] > 0
        /\ power[e] >= n \/ power[e] >= e + 1
        /\ \E lo, hi : Spans(power[e], lo, hi)
    BY <1>6
  <2>2. power[e + 1] = IF power[e] >= n THEN power[e] ELSE 2 * power[e]
    BY <1>4 DEF Doubled
  <2>3. \E lo, hi : Spans(2 * power[e], lo, hi)
    BY <2>1, SpansDouble
  <2>4. CASE power[e] >= n
    <3>1. power[e + 1] = power[e]
      BY <2>2, <2>4
    <3> QED BY <2>1, <2>4, <3>1
  <2>5. CASE ~(power[e] >= n)
    <3>1. power[e + 1] = 2 * power[e]
      BY <2>2, <2>5
    <3>2. /\ 2 * power[e] \in Nat /\ 2 * power[e] > 0 /\ 2 * power[e] >= (e + 1) + 1
      BY <2>1, <2>5
    <3> QED BY <2>3, <3>1, <3>2
  <2> QED BY <2>4, <2>5
<1>7. n \in T
  <2> HIDE DEF T
  <2> QED BY <1>5, <1>6, SetInduction
<1> QED
  BY <1>3, <1>7

-----------------------------------------------------------------------------
(* The leaves, on sequences whose current keys are given, KeyMax for one   *)
(* that is at its end.                                                     *)

\* The current keys of the sequences in a tree.
AreKeys(keys) ==
    /\ keys \in Seq(Int) /\ Len(keys) > 0 /\ Len(keys) <= NoSource
    /\ \A j \in 1..Len(keys) : keys[j] <= KeyMax

LEMMA LeafFacts ==
    ASSUME NEW keys, AreKeys(keys), NEW k \in Nat, k >= Len(keys)
    PROVE  /\ Len(keys) \in Nat /\ DOMAIN keys = 1..Len(keys)
           /\ Leaves(k, keys) \in [k..(2 * k - 1) -> Entries]
           /\ \A s \in 0..(Len(keys) - 1) :
                  k + s \in k..(2 * k - 1) /\ Leaves(k, keys)[k + s] = Entry(keys[s + 1], s)
           /\ \A q \in k..(2 * k - 1) :
                  \/ q - k \in 0..(Len(keys) - 1)
                  \/ Leaves(k, keys)[q] = Entry(KeyMax, NoSource)
           /\ \A q, r \in k..(2 * k - 1) :
                  q < r => Leaves(k, keys)[q].source <= Leaves(k, keys)[r].source
<1> DEFINE L == Leaves(k, keys)
           n == Len(keys)
<1>1. n \in Nat /\ DOMAIN keys = 1..n /\ n > 0 /\ n <= NoSource
      /\ \A j \in 1..n : keys[j] \in Int
  BY DEF AreKeys
<1>2. L = [pos \in k..(2 * k - 1) |->
              IF pos - k < n THEN Entry(keys[pos - k + 1], pos - k) ELSE Entry(KeyMax, NoSource)]
  BY DEF Leaves
<1> HIDE DEF L, n
<1>3. ASSUME NEW s \in 0..(n - 1) PROVE k + s \in k..(2 * k - 1) /\ L[k + s] = Entry(keys[s + 1], s)
  <2>1. k + s \in k..(2 * k - 1) /\ (k + s) - k = s /\ s < n
    BY <1>1 DEF n
  <2> QED BY <1>2, <2>1
<1>4. ASSUME NEW q \in k..(2 * k - 1)
      PROVE  /\ q - k \in 0..(n - 1) \/ L[q] = Entry(KeyMax, NoSource)
             /\ L[q] \in Entries
             /\ L[q].source = IF q - k < n THEN q - k ELSE NoSource
  <2>1. CASE q - k < n
    <3>1. L[q] = Entry(keys[q - k + 1], q - k) /\ q - k \in Nat /\ q - k + 1 \in 1..n
      BY <1>1, <1>2, <2>1
    <3>2. keys[q - k + 1] \in Int
      BY <1>1, <3>1
    <3> QED BY <1>1, <2>1, <3>1, <3>2 DEF Entry, Entries
  <2>2. CASE ~(q - k < n)
    <3>1. L[q] = Entry(KeyMax, NoSource)
      BY <1>2, <2>2
    <3> QED BY <2>2, <3>1, LoserTreeAssumption DEF Entry, Entries
  <2> QED BY <2>1, <2>2
<1>5. ASSUME NEW q \in k..(2 * k - 1), NEW r \in k..(2 * k - 1), q < r
      PROVE  L[q].source <= L[r].source
  <2>1. L[q].source = (IF q - k < n THEN q - k ELSE NoSource)
        /\ L[r].source = (IF r - k < n THEN r - k ELSE NoSource)
    BY <1>4
  <2> QED BY <1>1, <1>5, <2>1, LoserTreeAssumption
<1>6. L \in [k..(2 * k - 1) -> Entries]
  BY <1>2, <1>4
<1> QED
  BY <1>1, <1>3, <1>4, <1>5, <1>6 DEF L, n

-----------------------------------------------------------------------------
(* A tournament on the leaves: w[p] is the leaf that wins position p.       *)

Winners(k, lo, hi, w) ==
    /\ w \in [1..(2 * k - 1) -> Nat]
    /\ \A p \in 1..(2 * k - 1) : lo[p] <= w[p] /\ w[p] <= hi[p]

\* The node keeps the loser of its two children.
Played(knockout, leaves, w, p) ==
    \/ /\ w[p] = w[2 * p] /\ knockout[p] = leaves[w[2 * p + 1]]
       /\ Leq(leaves[w[2 * p]], leaves[w[2 * p + 1]])
    \/ /\ w[p] = w[2 * p + 1] /\ knockout[p] = leaves[w[2 * p]]
       /\ Leq(leaves[w[2 * p + 1]], leaves[w[2 * p]])

Tournament(knockout, k, leaves, lo, hi, w) ==
    /\ knockout \in [0..(2 * k - 1) -> Entries]
    /\ Spans(k, lo, hi) /\ Winners(k, lo, hi, w)
    /\ \A p \in 1..(k - 1) : Played(knockout, leaves, w, p)
    /\ knockout[0] = leaves[w[1]]

\* The tree is that of sequences with these current keys.
TreeOn(knockout, keys) ==
    LET k == next_pow2(Len(keys))
    IN  \E lo, hi, w : Tournament(knockout, k, Leaves(k, keys), lo, hi, w)

-----------------------------------------------------------------------------
(* init.                                                                   *)

WinnerAt(g, k, leaves, pos) ==
    IF pos >= k THEN pos
    ELSE IF leaves[g[2 * pos + 1]].key >= leaves[g[2 * pos]].key THEN g[2 * pos] ELSE g[2 * pos + 1]

(* The recursion of init_winner comes to an end.                           *)
LEMMA WinnersExist ==
    ASSUME NEW k \in Nat, k > 0, NEW leaves
    PROVE  init_winner(k, leaves) =
               [pos \in 1..(2 * k - 1) |-> WinnerAt(init_winner(k, leaves), k, leaves, pos)]
<1> DEFINE N == 2 * k - 1
           From(g, m) == /\ g = [pos \in 1..N |-> g[pos]]
                         /\ \A pos \in 1..N : pos > N - m => g[pos] = WinnerAt(g, k, leaves, pos)
           S == {m \in Nat : m <= N => \E g : From(g, m)}
<1>1. 0 \in S
  <2>1. From([pos \in 1..N |-> 0], 0)
    OBVIOUS
  <2> QED BY <2>1
<1>2. ASSUME NEW m \in Nat, m \in S PROVE m + 1 \in S
  <2> SUFFICES ASSUME m + 1 <= N PROVE \E g : From(g, m + 1)
    OBVIOUS
  <2>1. PICK g : From(g, m)
    <3>1. m <= N
      OBVIOUS
    <3> QED BY <1>2, <3>1
  <2>2. PICK at : at = N - m
    OBVIOUS
  <2>3. PICK h : h = [pos \in 1..N |-> IF pos = at THEN WinnerAt(g, k, leaves, at) ELSE g[pos]]
    OBVIOUS
  <2>4. \A pos \in 1..N : h[pos] = IF pos = at THEN WinnerAt(g, k, leaves, at) ELSE g[pos]
    BY <2>3
  <2>5. ASSUME NEW pos \in 1..N, pos > N - (m + 1) PROVE h[pos] = WinnerAt(h, k, leaves, pos)
    <3>1. pos >= at /\ at \in 1..N
      BY <2>2, <2>5
    <3>2. CASE pos >= k
      <4>1. WinnerAt(h, k, leaves, pos) = pos /\ WinnerAt(g, k, leaves, pos) = pos
        BY <3>2 DEF WinnerAt
      <4>2. CASE pos = at
        BY <2>4, <4>1, <4>2
      <4>3. CASE pos # at
        <5>1. pos > N - m
          BY <2>2, <3>1, <4>3
        <5> QED BY <2>1, <2>4, <4>1, <4>3, <5>1
      <4> QED BY <4>2, <4>3
    <3>3. CASE ~(pos >= k)
      <4>1. /\ 2 * pos \in 1..N /\ 2 * pos + 1 \in 1..N
            /\ 2 * pos # at /\ 2 * pos + 1 # at
        BY <3>1, <3>3
      <4>2. h[2 * pos] = g[2 * pos] /\ h[2 * pos + 1] = g[2 * pos + 1]
        BY <2>4, <4>1
      <4>3. WinnerAt(h, k, leaves, pos) = WinnerAt(g, k, leaves, pos)
        BY <4>2 DEF WinnerAt
      <4>4. CASE pos = at
        BY <2>4, <4>3, <4>4
      <4>5. CASE pos # at
        <5>1. pos > N - m
          BY <2>2, <3>1, <4>5
        <5> QED BY <2>1, <2>4, <4>3, <4>5, <5>1
      <4> QED BY <4>4, <4>5
    <3> QED BY <3>2, <3>3
  <2>6. From(h, m + 1)
    BY <2>3, <2>5
  <2> QED BY <2>6
<1>3. N \in Nat /\ N \in S
  <2>1. N \in Nat
    OBVIOUS
  <2> HIDE DEF S, N
  <2> QED BY <1>1, <1>2, <2>1, SetInduction
<1>4. PICK g : From(g, N)
  BY <1>3
<1>5. g = [pos \in 1..(2 * k - 1) |->
              IF pos >= k THEN pos
              ELSE IF leaves[g[2 * pos + 1]].key >= leaves[g[2 * pos]].key
              THEN g[2 * pos] ELSE g[2 * pos + 1]]
  <2>1. \A pos \in 1..N : pos > N - N
    OBVIOUS
  <2>2. \A pos \in 1..N : g[pos] = WinnerAt(g, k, leaves, pos)
    BY <1>4, <2>1
  <2> QED BY <1>4, <2>2 DEF WinnerAt
<1>6. init_winner(k, leaves) =
          CHOOSE f : f = [pos \in 1..(2 * k - 1) |->
              IF pos >= k THEN pos
              ELSE IF leaves[f[2 * pos + 1]].key >= leaves[f[2 * pos]].key
              THEN f[2 * pos] ELSE f[2 * pos + 1]]
  BY DEF init_winner
<1> QED
  BY <1>5, <1>6 DEF WinnerAt

(* The winner at a position is a leaf under it.                            *)
LEMMA InitWinners ==
    ASSUME NEW k \in Nat, k > 0, NEW leaves, NEW lo, NEW hi, Spans(k, lo, hi)
    PROVE  Winners(k, lo, hi, init_winner(k, leaves))
<1> DEFINE N == 2 * k - 1
           w == init_winner(k, leaves)
           S == {m \in Nat : \A pos \in 1..N :
                     pos > N - m => w[pos] \in Nat /\ lo[pos] <= w[pos] /\ w[pos] <= hi[pos]}
<1>1. w = [pos \in 1..N |-> WinnerAt(w, k, leaves, pos)]
  BY WinnersExist
<1> HIDE DEF w
<1>2. /\ \A p \in 1..N : lo[p] \in Nat /\ hi[p] \in Nat /\ lo[p] <= hi[p]
      /\ \A p \in k..N : lo[p] = p /\ hi[p] = p
      /\ \A p \in 1..(k - 1) :
             lo[p] = lo[2 * p] /\ hi[2 * p] + 1 = lo[2 * p + 1] /\ hi[2 * p + 1] = hi[p]
  BY DEF Spans
<1>3. \A p \in 1..(k - 1) : w[p] = w[2 * p] \/ w[p] = w[2 * p + 1]
  <2> SUFFICES ASSUME NEW p \in 1..(k - 1) PROVE w[p] = w[2 * p] \/ w[p] = w[2 * p + 1]
    OBVIOUS
  <2>1. p \in 1..N /\ ~(p >= k)
    OBVIOUS
  <2>2. w[p] = WinnerAt(w, k, leaves, p)
    BY <1>1, <2>1
  <2> QED BY <2>1, <2>2 DEF WinnerAt
<1>4. \A p \in k..N : w[p] = p
  <2> SUFFICES ASSUME NEW p \in k..N PROVE w[p] = p
    OBVIOUS
  <2>1. p \in 1..N /\ p >= k
    OBVIOUS
  <2>2. w[p] = WinnerAt(w, k, leaves, p)
    BY <1>1, <2>1
  <2> QED BY <2>1, <2>2 DEF WinnerAt
<1>5. 0 \in S
  OBVIOUS
<1>6. ASSUME NEW m \in Nat, m \in S PROVE m + 1 \in S
  <2> SUFFICES ASSUME NEW pos \in 1..N, pos > N - (m + 1)
               PROVE  w[pos] \in Nat /\ lo[pos] <= w[pos] /\ w[pos] <= hi[pos]
    OBVIOUS
  <2>1. CASE pos >= k
    <3>1. pos \in k..N
      BY <2>1
    <3> QED BY <1>2, <1>4, <3>1
  <2>2. CASE ~(pos >= k)
    <3>1. /\ pos \in 1..(k - 1)
          /\ 2 * pos \in 1..N /\ 2 * pos + 1 \in 1..N
          /\ 2 * pos > N - m /\ 2 * pos + 1 > N - m
      BY <2>2
    <3>2. /\ w[2 * pos] \in Nat /\ lo[2 * pos] <= w[2 * pos] /\ w[2 * pos] <= hi[2 * pos]
          /\ w[2 * pos + 1] \in Nat
          /\ lo[2 * pos + 1] <= w[2 * pos + 1] /\ w[2 * pos + 1] <= hi[2 * pos + 1]
      BY <1>6, <3>1
    <3>3. /\ lo[pos] = lo[2 * pos] /\ hi[2 * pos] + 1 = lo[2 * pos + 1]
          /\ hi[2 * pos + 1] = hi[pos]
          /\ lo[pos] \in Nat /\ hi[pos] \in Nat /\ hi[2 * pos] \in Nat /\ lo[2 * pos + 1] \in Nat
      BY <1>2, <3>1
    <3>4. w[pos] = w[2 * pos] \/ w[pos] = w[2 * pos + 1]
      BY <1>3, <3>1
    <3>5. lo[2 * pos + 1] <= hi[2 * pos + 1] /\ lo[2 * pos] <= hi[2 * pos]
      BY <1>2, <3>1
    <3> QED BY <3>2, <3>3, <3>4, <3>5
  <2> QED BY <2>1, <2>2
<1>7. \A pos \in 1..N : w[pos] \in Nat /\ lo[pos] <= w[pos] /\ w[pos] <= hi[pos]
  <2>1. N \in S /\ N \in Nat
    <3>1. N \in Nat
      OBVIOUS
    <3> HIDE DEF S, N
    <3> QED BY <1>5, <1>6, <3>1, SetInduction
  <2>2. \A pos \in 1..N : pos > N - N
    OBVIOUS
  <2> QED BY <2>1, <2>2
<1>8. w \in [1..N -> Nat]
  BY <1>1, <1>7
<1> QED
  BY <1>7, <1>8 DEF Winners, w

(* Where the leaves of a node's children lie.                              *)
LEMMA ChildWinners ==
    ASSUME NEW k \in Nat, k > 0, NEW lo, NEW hi, Spans(k, lo, hi),
           NEW w, Winners(k, lo, hi, w), NEW p \in 1..(k - 1)
    PROVE  /\ p \in 1..(2 * k - 1) /\ 2 * p \in 1..(2 * k - 1) /\ 2 * p + 1 \in 1..(2 * k - 1)
           /\ w[2 * p] \in k..(2 * k - 1) /\ w[2 * p + 1] \in k..(2 * k - 1)
           /\ w[2 * p] < w[2 * p + 1]
           /\ w[2 * p] <= hi[2 * p] /\ lo[2 * p + 1] <= w[2 * p + 1]
<1>1. p \in 1..(2 * k - 1) /\ 2 * p \in 1..(2 * k - 1) /\ 2 * p + 1 \in 1..(2 * k - 1)
  OBVIOUS
<1>2. /\ lo[2 * p] \in Nat /\ hi[2 * p] \in Nat /\ lo[2 * p + 1] \in Nat /\ hi[2 * p + 1] \in Nat
      /\ k <= lo[2 * p] /\ hi[2 * p] <= 2 * k - 1
      /\ k <= lo[2 * p + 1] /\ hi[2 * p + 1] <= 2 * k - 1
      /\ hi[2 * p] + 1 = lo[2 * p + 1]
  BY <1>1 DEF Spans
<1>3. /\ w[2 * p] \in Nat /\ lo[2 * p] <= w[2 * p] /\ w[2 * p] <= hi[2 * p]
      /\ w[2 * p + 1] \in Nat
      /\ lo[2 * p + 1] <= w[2 * p + 1] /\ w[2 * p + 1] <= hi[2 * p + 1]
  BY <1>1 DEF Winners
<1> QED
  BY <1>1, <1>2, <1>3

(* The constructor and init play a tournament on the first keys.           *)
THEOREM TreeStarts ==
    ASSUME NEW keys, AreKeys(keys)
    PROVE  TreeOn(Tree(keys), keys)
<1> DEFINE k == next_pow2(Len(keys))
           L == Leaves(k, keys)
           w == init_winner(k, L)
           t == Tree(keys)
<1>1. Len(keys) \in Nat /\ Len(keys) > 0
  BY DEF AreKeys
<1>2. k \in Nat /\ k >= Len(keys) /\ k > 0 /\ \E lo, hi : Spans(k, lo, hi)
  BY <1>1, PowerOfTwo
<1>3. t = [pos \in 0..(2 * k - 1) |->
              IF pos >= k THEN L[pos]
              ELSE IF pos = 0 THEN L[w[1]]
              ELSE IF w[pos] = w[2 * pos] THEN L[w[2 * pos + 1]] ELSE L[w[2 * pos]]]
  BY DEF Tree
<1>4. PICK lo, hi : Spans(k, lo, hi)
  BY <1>2
<1> HIDE DEF k
<1>5. Winners(k, lo, hi, w)
  BY <1>2, <1>4, InitWinners
<1>6. /\ L \in [k..(2 * k - 1) -> Entries]
      /\ \A q, r \in k..(2 * k - 1) : q < r => L[q].source <= L[r].source
  BY <1>2, LeafFacts
<1>7. \A p \in 1..(k - 1) :
          w[p] = IF L[w[2 * p + 1]].key >= L[w[2 * p]].key THEN w[2 * p] ELSE w[2 * p + 1]
  <2> SUFFICES ASSUME NEW p \in 1..(k - 1)
               PROVE  w[p] = IF L[w[2 * p + 1]].key >= L[w[2 * p]].key THEN w[2 * p]
                                                                     ELSE w[2 * p + 1]
    OBVIOUS
  <2>1. p \in 1..(2 * k - 1) /\ ~(p >= k)
    BY <1>2
  <2>2. w = [pos \in 1..(2 * k - 1) |-> WinnerAt(w, k, L, pos)]
    BY <1>2, WinnersExist
  <2> HIDE DEF w
  <2>3. w[p] = WinnerAt(w, k, L, p)
    BY <2>1, <2>2
  <2> QED BY <2>1, <2>3 DEF WinnerAt
<1> HIDE DEF w, L, t
<1>8. ASSUME NEW p \in 1..(k - 1)
      PROVE  Played(t, L, w, p) /\ t[p] \in Entries
  <2>1. /\ w[2 * p] \in k..(2 * k - 1) /\ w[2 * p + 1] \in k..(2 * k - 1)
        /\ w[2 * p] < w[2 * p + 1]
    BY <1>2, <1>4, <1>5, ChildWinners
  <2>2. PICK left \in Entries, right \in Entries :
            left = L[w[2 * p]] /\ right = L[w[2 * p + 1]]
    BY <1>6, <2>1
  <2>3. left.source <= right.source
    BY <1>6, <2>1, <2>2
  <2>4. left.key \in Int /\ right.key \in Int /\ left.source \in Nat /\ right.source \in Nat
    BY DEF Entries
  <2>5. t[p] = IF w[p] = w[2 * p] THEN right ELSE left
    <3>1. p \in 0..(2 * k - 1) /\ ~(p >= k) /\ p # 0
      BY <1>2
    <3> QED BY <1>3, <2>2, <3>1
  <2>6. CASE right.key >= left.key
    <3>1. w[p] = w[2 * p]
      BY <1>7, <2>2, <2>6
    <3>2. t[p] = right
      BY <2>5, <3>1
    <3>3. Leq(left, right)
      BY <2>3, <2>4, <2>6 DEF Leq
    <3> QED BY <2>2, <3>1, <3>2, <3>3 DEF Played
  <2>7. CASE ~(right.key >= left.key)
    <3>1. w[p] = w[2 * p + 1]
      BY <1>7, <2>2, <2>7
    <3>2. t[p] = left
      BY <2>1, <2>5, <3>1
    <3>3. Leq(right, left)
      BY <2>4, <2>7 DEF Leq
    <3> QED BY <2>2, <3>1, <3>2, <3>3 DEF Played
  <2> QED BY <2>6, <2>7
<1>9. t[0] = L[w[1]] /\ t[0] \in Entries
  <2>1. 0 \in 0..(2 * k - 1) /\ ~(0 >= k) /\ 1 \in 1..(2 * k - 1)
    BY <1>2
  <2>2. t[0] = L[w[1]]
    BY <1>3, <2>1
  <2>3. w[1] \in k..(2 * k - 1)
    <3>1. w[1] \in Nat /\ lo[1] <= w[1] /\ w[1] <= hi[1]
      BY <1>5, <2>1 DEF Winners
    <3>2. lo[1] \in Nat /\ hi[1] \in Nat /\ k <= lo[1] /\ hi[1] <= 2 * k - 1
      BY <1>4, <2>1 DEF Spans
    <3> QED BY <1>2, <3>1, <3>2
  <2> QED BY <1>6, <2>2, <2>3
<1>10. t \in [0..(2 * k - 1) -> Entries]
  <2>1. ASSUME NEW pos \in 0..(2 * k - 1) PROVE t[pos] \in Entries
    <3>1. CASE pos >= k
      <4>1. t[pos] = L[pos] /\ pos \in k..(2 * k - 1)
        BY <1>2, <1>3, <3>1
      <4> QED BY <1>6, <4>1
    <3>2. CASE ~(pos >= k) /\ pos # 0
      <4>1. pos \in 1..(k - 1)
        BY <1>2, <3>2
      <4> QED BY <1>8, <4>1
    <3> QED BY <1>9, <3>1, <3>2
  <2> QED BY <1>3, <2>1
<1>11. Tournament(t, k, L, lo, hi, w)
  BY <1>4, <1>5, <1>8, <1>9, <1>10 DEF Tournament
<1> QED
  BY <1>11 DEF TreeOn, t, L, k

-----------------------------------------------------------------------------
(* The winner of a tournament.                                             *)

\* A leaf is under a position.
Under(lo, hi, q, p) == lo[p] <= q /\ q <= hi[p]

\* p and sib are the children of r.
Siblings(k, lo, hi, p, sib, r) ==
    /\ r = p \div 2 /\ r < p /\ r \in 1..(2 * k - 1)
    /\ (p = 2 * r /\ sib = 2 * r + 1) \/ (p = 2 * r + 1 /\ sib = 2 * r)
    /\ \A q \in Int : Under(lo, hi, q, p) => Under(lo, hi, q, r)
    /\ \A q \in Int : Under(lo, hi, q, sib) => Under(lo, hi, q, r)
    /\ \A q \in Int : Under(lo, hi, q, p) => ~Under(lo, hi, q, sib)

LEMMA SpanFacts ==
    ASSUME NEW k \in Nat, k > 0, NEW lo, NEW hi, Spans(k, lo, hi),
           NEW p \in 2..(2 * k - 1)
    PROVE  \E r \in 1..(k - 1), sib \in 1..(2 * k - 1) : Siblings(k, lo, hi, p, sib, r)
<1>1. PICK r \in Nat : r = p \div 2 /\ (p = 2 * r \/ p = 2 * r + 1)
  OBVIOUS
<1>2. r \in 1..(k - 1) /\ r < p /\ r \in 1..(2 * k - 1)
      /\ 2 * r \in 1..(2 * k - 1) /\ 2 * r + 1 \in 1..(2 * k - 1)
  BY <1>1
<1>3. /\ lo[r] = lo[2 * r] /\ hi[2 * r] + 1 = lo[2 * r + 1] /\ hi[2 * r + 1] = hi[r]
      /\ lo[2 * r] \in Nat /\ hi[2 * r] \in Nat /\ lo[2 * r + 1] \in Nat /\ hi[2 * r + 1] \in Nat
      /\ lo[2 * r] <= hi[2 * r] /\ lo[2 * r + 1] <= hi[2 * r + 1]
  BY <1>2 DEF Spans
<1>4. /\ \A q \in Int : Under(lo, hi, q, 2 * r) => Under(lo, hi, q, r)
      /\ \A q \in Int : Under(lo, hi, q, 2 * r + 1) => Under(lo, hi, q, r)
      /\ \A q \in Int : Under(lo, hi, q, 2 * r) => ~Under(lo, hi, q, 2 * r + 1)
  BY <1>3 DEF Under
<1>5. CASE p = 2 * r
  <2>1. Siblings(k, lo, hi, p, 2 * r + 1, r)
    BY <1>1, <1>2, <1>4, <1>5 DEF Siblings
  <2> QED BY <1>2, <2>1
<1>6. CASE p = 2 * r + 1
  <2>1. \A q \in Int : Under(lo, hi, q, 2 * r + 1) => ~Under(lo, hi, q, 2 * r)
    BY <1>4
  <2>2. Siblings(k, lo, hi, p, 2 * r, r)
    BY <1>1, <1>2, <1>4, <1>6, <2>1 DEF Siblings
  <2> QED BY <1>2, <2>2
<1> QED
  BY <1>1, <1>5, <1>6

LEMMA LeqTransitive ==
    ASSUME NEW e \in Entries, NEW f \in Entries, NEW g \in Entries, Leq(e, f), Leq(f, g)
    PROVE  Leq(e, g)
<1>1. /\ e.key \in Int /\ f.key \in Int /\ g.key \in Int
      /\ e.source \in Nat /\ f.source \in Nat /\ g.source \in Nat
  BY DEF Entries
<1> QED
  BY <1>1 DEF Leq

LEMMA WinnerPositions ==
    ASSUME NEW k \in Nat, k > 0, NEW lo, NEW hi, Spans(k, lo, hi), NEW w, Winners(k, lo, hi, w)
    PROVE  /\ \A p \in 1..(2 * k - 1) : w[p] \in k..(2 * k - 1) /\ Under(lo, hi, w[p], p)
           /\ \A p \in k..(2 * k - 1) : w[p] = p
<1>1. ASSUME NEW p \in 1..(2 * k - 1) PROVE w[p] \in k..(2 * k - 1) /\ Under(lo, hi, w[p], p)
  <2>1. w[p] \in Nat /\ lo[p] <= w[p] /\ w[p] <= hi[p]
    BY DEF Winners
  <2>2. lo[p] \in Nat /\ hi[p] \in Nat /\ k <= lo[p] /\ hi[p] <= 2 * k - 1
    BY DEF Spans
  <2> QED BY <2>1, <2>2 DEF Under
<1>2. ASSUME NEW p \in k..(2 * k - 1) PROVE w[p] = p
  <2>1. p \in 1..(2 * k - 1) /\ lo[p] = p /\ hi[p] = p
    BY DEF Spans
  <2> QED BY <1>1, <2>1 DEF Under
<1> QED
  BY <1>1, <1>2

(* The root's entry is the least of all leaves.                            *)
LEMMA RootIsLeast ==
    ASSUME NEW k \in Nat, k > 0, NEW knockout, NEW leaves \in [k..(2 * k - 1) -> Entries],
           NEW lo, NEW hi, NEW w, Tournament(knockout, k, leaves, lo, hi, w)
    PROVE  w[1] \in k..(2 * k - 1) /\ \A q \in k..(2 * k - 1) : Leq(leaves[w[1]], leaves[q])
<1> DEFINE N == 2 * k - 1
           S == {m \in Nat : \A p \in 1..N : p <= m => Leq(leaves[w[1]], leaves[w[p]])}
<1>1. /\ \A p \in 1..N : w[p] \in k..N
      /\ \A p \in k..N : w[p] = p
      /\ 1 \in 1..N /\ Spans(k, lo, hi) /\ Winners(k, lo, hi, w)
  BY WinnerPositions DEF Tournament
<1>2. 0 \in S
  OBVIOUS
<1>3. ASSUME NEW m \in Nat, m \in S PROVE m + 1 \in S
  <2> SUFFICES ASSUME NEW p \in 1..N, p <= m + 1 PROVE Leq(leaves[w[1]], leaves[w[p]])
    OBVIOUS
  <2>1. CASE p = 1
    <3>1. leaves[w[1]] \in Entries
      BY <1>1
    <3>2. leaves[w[1]].key \in Int /\ leaves[w[1]].source \in Nat
      BY <3>1 DEF Entries
    <3> QED BY <2>1, <3>2 DEF Leq
  <2>2. CASE p # 1
    <3>1. p \in 2..N
      BY <2>2
    <3>2. PICK r \in 1..(k - 1) : r < p /\ r \in 1..N /\ (p = 2 * r \/ p = 2 * r + 1)
      <4>1. PICK r \in Nat : r = p \div 2 /\ (p = 2 * r \/ p = 2 * r + 1)
        OBVIOUS
      <4>2. r \in 1..(k - 1) /\ r < p /\ r \in 1..N
        BY <3>1, <4>1
      <4> QED BY <4>1, <4>2
    <3>3. Leq(leaves[w[1]], leaves[w[r]])
      BY <1>3, <3>2
    <3>4. 2 * r \in 1..N /\ 2 * r + 1 \in 1..N
      OBVIOUS
    <3>5. leaves[w[1]] \in Entries /\ leaves[w[r]] \in Entries /\ leaves[w[p]] \in Entries
      BY <1>1, <3>2
    <3>6. Leq(leaves[w[r]], leaves[w[p]])
      <4>1. Played(knockout, leaves, w, r)
        BY DEF Tournament
      <4>2. leaves[w[p]].key \in Int /\ leaves[w[p]].source \in Nat
        BY <3>5 DEF Entries
      <4>3. Leq(leaves[w[p]], leaves[w[p]])
        BY <4>2 DEF Leq
      <4>4. CASE p = 2 * r
        BY <4>1, <4>3, <4>4 DEF Played
      <4>5. CASE p = 2 * r + 1
        BY <4>1, <4>3, <4>5 DEF Played
      <4> QED BY <3>2, <4>4, <4>5
    <3> QED BY <3>3, <3>5, <3>6, LeqTransitive
  <2> QED BY <2>1, <2>2
<1>4. N \in S
  <2>1. N \in Nat
    OBVIOUS
  <2> HIDE DEF S, N
  <2> QED BY <1>2, <1>3, <2>1, SetInduction
<1>5. \A p \in 1..N : Leq(leaves[w[1]], leaves[w[p]])
  BY <1>4
<1>6. \A q \in k..N : q \in 1..N
  OBVIOUS
<1> QED
  BY <1>1, <1>5, <1>6

(* min_source is the sequence with the smallest key, of several the first. *)
LEMMA WinnerOfKeys ==
    ASSUME NEW keys, AreKeys(keys), NEW knockout, NEW lo, NEW hi, NEW w,
           Tournament(knockout, next_pow2(Len(keys)),
                      Leaves(next_pow2(Len(keys)), keys), lo, hi, w)
    PROVE  /\ min_source(knockout) \in 0..(Len(keys) - 1)
           /\ w[1] = next_pow2(Len(keys)) + min_source(knockout)
           /\ knockout[0] = Entry(keys[min_source(knockout) + 1], min_source(knockout))
           /\ \A j \in 1..Len(keys) :
                  \/ keys[min_source(knockout) + 1] < keys[j]
                  \/ keys[min_source(knockout) + 1] = keys[j] /\ min_source(knockout) < j
<1> DEFINE k == next_pow2(Len(keys))
           L == Leaves(k, keys)
           n == Len(keys)
<1>1. n \in Nat /\ n > 0 /\ n <= NoSource /\ \A j \in 1..n : keys[j] \in Int /\ keys[j] <= KeyMax
  BY DEF AreKeys
<1>2. k \in Nat /\ k >= n /\ k > 0
  BY <1>1, PowerOfTwo
<1> HIDE DEF k
<1>3. /\ L \in [k..(2 * k - 1) -> Entries]
      /\ \A s \in 0..(n - 1) : k + s \in k..(2 * k - 1) /\ L[k + s] = Entry(keys[s + 1], s)
      /\ \A q \in k..(2 * k - 1) : q - k \in 0..(n - 1) \/ L[q] = Entry(KeyMax, NoSource)
  BY <1>2, LeafFacts
<1> HIDE DEF L
<1>4. Tournament(knockout, k, L, lo, hi, w)
  BY DEF k, L
<1>5. w[1] \in k..(2 * k - 1) /\ \A q \in k..(2 * k - 1) : Leq(L[w[1]], L[q])
  BY <1>2, <1>3, <1>4, RootIsLeast
<1>6. w[1] - k \in 0..(n - 1)
  <2> SUFFICES ASSUME L[w[1]] = Entry(KeyMax, NoSource) PROVE FALSE
    BY <1>3, <1>5
  <2>1. 0 \in 0..(n - 1) /\ k + 0 = k
    BY <1>1, <1>2
  <2>2. k \in k..(2 * k - 1) /\ L[k] = Entry(keys[0 + 1], 0)
    BY <1>3, <2>1
  <2>3. Leq(Entry(KeyMax, NoSource), Entry(keys[0 + 1], 0))
    BY <1>5, <2>2
  <2>4. keys[0 + 1] \in Int /\ keys[0 + 1] <= KeyMax
    BY <1>1
  <2>5. KeyMax < keys[0 + 1] \/ NoSource <= 0
    BY <2>3 DEF Leq, Entry
  <2> QED BY <1>1, <2>4, <2>5, LoserTreeAssumption
<1>7. PICK s \in 0..(n - 1) : w[1] = k + s
  <2>1. w[1] = k + (w[1] - k)
    BY <1>2, <1>5
  <2> QED BY <1>6, <2>1
<1>8. knockout[0] = Entry(keys[s + 1], s)
  BY <1>3, <1>4, <1>7 DEF Tournament
<1>9. min_source(knockout) = s
  BY <1>8 DEF min_source, Entry
<1>10. ASSUME NEW j \in 1..n
       PROVE  keys[s + 1] < keys[j] \/ (keys[s + 1] = keys[j] /\ s < j)
  <2>1. PICK r \in 0..(n - 1) : j = r + 1
    <3>1. j - 1 \in 0..(n - 1) /\ j = (j - 1) + 1
      BY <1>1
    <3> QED BY <3>1
  <2>2. Leq(Entry(keys[s + 1], s), Entry(keys[r + 1], r))
    <3>1. k + r \in k..(2 * k - 1) /\ L[k + r] = Entry(keys[r + 1], r)
      BY <1>3
    <3>2. L[k + s] = Entry(keys[s + 1], s)
      BY <1>3
    <3> QED BY <1>5, <1>7, <3>1, <3>2
  <2>3. keys[s + 1] < keys[r + 1] \/ (keys[s + 1] = keys[r + 1] /\ s <= r)
    BY <2>2 DEF Leq, Entry
  <2> QED BY <1>1, <2>1, <2>3
<1> QED
  BY <1>7, <1>8, <1>9, <1>10 DEF k

-----------------------------------------------------------------------------
(* delete_min_insert. The loop passes the positions above the winner's     *)
(* leaf q, from its parent to the root.                                    *)

(* Between a position above q and its parent there is none above q.        *)
LEMMA PathGap ==
    ASSUME NEW k \in Nat, k > 0, NEW lo, NEW hi, Spans(k, lo, hi), NEW q \in Nat
    PROVE  \A c \in 1..(2 * k - 1) : Under(lo, hi, q, c) =>
               \A p \in 1..(c - 1) : Under(lo, hi, q, p) => p <= c \div 2
<1> DEFINE N == 2 * k - 1
           S == {m \in Nat : \A c \in 1..N : c > N - m /\ Under(lo, hi, q, c) =>
                     \A p \in 1..(c - 1) : Under(lo, hi, q, p) => p <= c \div 2}
<1>1. /\ \A p \in 1..N : lo[p] \in Nat /\ hi[p] \in Nat
      /\ \A p \in k..N : lo[p] = p /\ hi[p] = p
      /\ \A p \in 1..(k - 1) :
             lo[p] = lo[2 * p] /\ hi[2 * p] + 1 = lo[2 * p + 1] /\ hi[2 * p + 1] = hi[p]
  BY DEF Spans
<1>2. 0 \in S
  OBVIOUS
<1>3. ASSUME NEW m \in Nat, m \in S PROVE m + 1 \in S
  <2> SUFFICES ASSUME NEW c \in 1..N, c > N - (m + 1), Under(lo, hi, q, c),
                      NEW p \in 1..(c - 1), Under(lo, hi, q, p), ~(p <= c \div 2)
               PROVE  FALSE
    OBVIOUS
  <2>1. PICK r \in Nat : r = c \div 2 /\ (c = 2 * r \/ c = 2 * r + 1)
    OBVIOUS
  <2>2. p > r /\ p < c /\ p \in 1..N
    BY <2>1
  <2>3. p < k
    <3> SUFFICES ASSUME ~(p < k) PROVE FALSE
      OBVIOUS
    <3>1. p \in k..N /\ c \in k..N
      BY <2>2
    <3>2. lo[p] = p /\ hi[p] = p /\ lo[c] = c /\ hi[c] = c
      BY <1>1, <3>1
    <3>3. p <= q /\ q <= p /\ c <= q /\ q <= c
      BY <3>2 DEF Under
    <3> QED BY <2>2, <3>3
  <2>4. /\ p \in 1..(k - 1) /\ 2 * p \in 1..N /\ 2 * p + 1 \in 1..N
        /\ 2 * p > c /\ 2 * p + 1 > c
    BY <2>1, <2>2, <2>3
  <2>5. \E d \in {2 * p, 2 * p + 1} : Under(lo, hi, q, d)
    <3>1. /\ lo[p] = lo[2 * p] /\ hi[2 * p] + 1 = lo[2 * p + 1] /\ hi[2 * p + 1] = hi[p]
          /\ hi[2 * p] \in Nat /\ lo[p] <= q /\ q <= hi[p]
      BY <1>1, <2>4 DEF Under
    <3>2. q <= hi[2 * p] \/ lo[2 * p + 1] <= q
      BY <3>1
    <3> QED BY <3>1, <3>2 DEF Under
  <2>6. PICK d \in {2 * p, 2 * p + 1} : Under(lo, hi, q, d)
    BY <2>5
  <2>7. d \in 1..N /\ d > N - m /\ c \in 1..(d - 1)
    BY <2>4
  <2>8. c <= d \div 2
    BY <1>3, <2>6, <2>7
  <2>9. d \div 2 = p
    <3>1. CASE d = 2 * p
      BY <2>4, <3>1
    <3>2. CASE d = 2 * p + 1
      BY <2>4, <3>2
    <3> QED BY <3>1, <3>2
  <2> QED BY <2>2, <2>8, <2>9
<1>4. N \in S
  <2>1. N \in Nat
    OBVIOUS
  <2> HIDE DEF S, N
  <2> QED BY <1>2, <1>3, <2>1, SetInduction
<1>5. \A c \in 1..N : c > N - N
  OBVIOUS
<1> QED
  BY <1>4, <1>5

(* The winner has won at every position above its leaf.                    *)
LEMMA PathWinners ==
    ASSUME NEW k \in Nat, k > 0, NEW knockout, NEW leaves, NEW lo, NEW hi, NEW w,
           Tournament(knockout, k, leaves, lo, hi, w)
    PROVE  \A p \in 1..(2 * k - 1) : Under(lo, hi, w[1], p) => w[p] = w[1]
<1> DEFINE N == 2 * k - 1
           S == {m \in Nat : \A p \in 1..N : p <= m /\ Under(lo, hi, w[1], p) => w[p] = w[1]}
<1>1. /\ \A p \in 1..N : w[p] \in k..N /\ Under(lo, hi, w[p], p)
      /\ 1 \in 1..N /\ Spans(k, lo, hi) /\ Winners(k, lo, hi, w)
  BY WinnerPositions DEF Tournament
<1>2. 0 \in S
  OBVIOUS
<1>3. ASSUME NEW m \in Nat, m \in S PROVE m + 1 \in S
  <2> SUFFICES ASSUME NEW p \in 1..N, p <= m + 1, Under(lo, hi, w[1], p) PROVE w[p] = w[1]
    OBVIOUS
  <2>1. CASE p = 1
    BY <2>1
  <2>2. CASE p # 1
    <3>1. p \in 2..(2 * k - 1)
      BY <2>2
    <3>2. PICK r \in 1..(k - 1), sib \in 1..(2 * k - 1) :
              /\ r < p /\ r \in 1..N
              /\ (p = 2 * r /\ sib = 2 * r + 1) \/ (p = 2 * r + 1 /\ sib = 2 * r)
              /\ \A q \in Int : Under(lo, hi, q, p) => Under(lo, hi, q, r)
              /\ \A q \in Int : Under(lo, hi, q, p) => ~Under(lo, hi, q, sib)
      <4>1. \E r \in 1..(k - 1), sib \in 1..(2 * k - 1) : Siblings(k, lo, hi, p, sib, r)
        BY <1>1, <3>1, SpanFacts
      <4> QED BY <4>1 DEF Siblings
    <3>3. w[1] \in Int
      BY <1>1
    <3>4. w[r] = w[1]
      <4>1. Under(lo, hi, w[1], r) /\ r <= m
        BY <3>2, <3>3
      <4> QED BY <1>3, <3>2, <4>1
    <3>5. w[sib] # w[1]
      <4>1. ~Under(lo, hi, w[1], sib)
        BY <3>2, <3>3
      <4> QED BY <1>1, <3>2, <4>1
    <3>6. w[r] = w[2 * r] \/ w[r] = w[2 * r + 1]
      BY DEF Tournament, Played
    <3> QED BY <3>2, <3>4, <3>5, <3>6
  <2> QED BY <2>1, <2>2
<1>4. N \in S
  <2>1. N \in Nat
    OBVIOUS
  <2> HIDE DEF S, N
  <2> QED BY <1>2, <1>3, <2>1, SetInduction
<1> QED
  BY <1>4

\* The loop has come to the parent of c, which q is under. The entry it carries has won
\* c, the positions it passed are played, those ahead as before: v[p] is the winner of p
\* now, w[p] before the call. Only the entry at leaf q has changed.
Climbing(k, lo, hi, w, knockout, leaves, q, pos, entry, losers) ==
    \E c, v :
        /\ c \in 1..(2 * k - 1)
        /\ pos = c \div 2 /\ Under(lo, hi, q, c)
        /\ Winners(k, lo, hi, v)
        /\ entry = leaves[v[c]]
        /\ losers \in [0..(2 * k - 1) -> Entries]
        /\ \A p \in 1..(2 * k - 1) : ~Under(lo, hi, q, p) => v[p] = w[p]
        /\ \A p \in 1..(k - 1) :
               IF Under(lo, hi, q, p) /\ p < c THEN losers[p] = knockout[p]
                                               ELSE Played(losers, leaves, v, p)

LEMMA ClimbStep ==
    ASSUME NEW k \in Nat, k > 0, NEW knockout, NEW lo, NEW hi, NEW w,
           NEW before \in [k..(2 * k - 1) -> Entries],
           NEW leaves \in [k..(2 * k - 1) -> Entries],
           Tournament(knockout, k, before, lo, hi, w),
           \A p \in k..(2 * k - 1) : p # w[1] => leaves[p] = before[p],
           NEW pos, NEW entry, NEW losers,
           Climbing(k, lo, hi, w, knockout, leaves, w[1], pos, entry, losers),
           pos # 0
    PROVE  Climbing(k, lo, hi, w, knockout, leaves, w[1], pos \div 2, Winner(knockout[pos], entry),
                    [losers EXCEPT ![pos] = Loser(@, entry)])
<1> DEFINE N == 2 * k - 1
           q == w[1]
           losers2 == [losers EXCEPT ![pos] = Loser(@, entry)]
<1>1. /\ \A p \in 1..N : w[p] \in k..N /\ Under(lo, hi, w[p], p)
      /\ 1 \in 1..N /\ Spans(k, lo, hi) /\ Winners(k, lo, hi, w)
      /\ \A p \in 1..(k - 1) : Played(knockout, before, w, p)
  BY WinnerPositions DEF Tournament
<1>2. PICK c, v :
        /\ c \in 1..N
        /\ pos = c \div 2 /\ Under(lo, hi, q, c)
        /\ Winners(k, lo, hi, v)
        /\ entry = leaves[v[c]]
        /\ losers \in [0..N -> Entries]
        /\ \A p \in 1..N : ~Under(lo, hi, q, p) => v[p] = w[p]
        /\ \A p \in 1..(k - 1) :
               IF Under(lo, hi, q, p) /\ p < c THEN losers[p] = knockout[p]
                                               ELSE Played(losers, leaves, v, p)
  BY DEF Climbing
<1>3. q \in Nat /\ q \in Int /\ q \in k..N
  BY <1>1
<1>4. \A p \in 1..N : v[p] \in k..N /\ Under(lo, hi, v[p], p)
  BY <1>1, <1>2, WinnerPositions
<1>5. c \in 2..(2 * k - 1)
  <2>1. c # 1
    BY <1>2
  <2> QED BY <1>2, <2>1
<1>6. PICK r \in 1..(k - 1), sib \in 1..(2 * k - 1) :
        /\ r = c \div 2 /\ r < c /\ r \in 1..(2 * k - 1)
        /\ (c = 2 * r /\ sib = 2 * r + 1) \/ (c = 2 * r + 1 /\ sib = 2 * r)
        /\ \A x \in Int : Under(lo, hi, x, c) => Under(lo, hi, x, r)
        /\ \A x \in Int : Under(lo, hi, x, sib) => Under(lo, hi, x, r)
        /\ \A x \in Int : Under(lo, hi, x, c) => ~Under(lo, hi, x, sib)
  <2>1. Spans(k, lo, hi)
    BY <1>1
  <2>2. \E r \in 1..(k - 1), sib \in 1..(2 * k - 1) : Siblings(k, lo, hi, c, sib, r)
    BY <1>5, <2>1, SpanFacts
  <2> QED BY <2>2 DEF Siblings
<1>7. pos = r /\ r \in 1..N /\ r \in 0..N /\ Under(lo, hi, q, r) /\ ~Under(lo, hi, q, sib)
  BY <1>2, <1>3, <1>6
(* The node at pos keeps the winner of the other child.                    *)
<1>8. v[sib] = w[sib] /\ knockout[r] = leaves[v[sib]] /\ losers[r] = knockout[r]
  <2>1. v[sib] = w[sib]
    BY <1>2, <1>7
  <2>2. w[sib] # q
    BY <1>1, <1>7
  <2>3. w[r] = q /\ w[c] = q
    BY <1>2, <1>7, PathWinners
  <2>4. Played(knockout, before, w, r)
    BY <1>1
  <2>5. knockout[r] = before[w[sib]]
    BY <1>6, <2>2, <2>3, <2>4 DEF Played
  <2>6. leaves[w[sib]] = before[w[sib]]
    BY <1>1, <2>2
  <2>7. losers[r] = knockout[r]
    BY <1>2, <1>6, <1>7
  <2> QED BY <2>1, <2>5, <2>6, <2>7
<1>9. PICK loser \in Entries, e \in Entries : loser = leaves[v[sib]] /\ e = leaves[v[c]]
  BY <1>2, <1>4
<1>10. loser.key \in Int /\ e.key \in Int /\ loser.source \in Nat /\ e.source \in Nat
  BY DEF Entries
<1> DEFINE v2 == [v EXCEPT ![r] = IF Beats(loser, e) THEN v[sib] ELSE v[c]]
<1>11. v \in [1..N -> Nat]
  BY <1>2 DEF Winners
<1>12. v2[r] = (IF Beats(loser, e) THEN v[sib] ELSE v[c]) /\ \A p \in 1..N : p # r => v2[p] = v[p]
  BY <1>7, <1>11
<1>13. losers2[r] = Loser(loser, e) /\ \A p \in 0..N : p # r => losers2[p] = losers[p]
  BY <1>2, <1>7, <1>8, <1>9
<1>14. losers2 \in [0..N -> Entries]
  <2>1. Loser(loser, e) \in Entries
    BY DEF Loser
  <2> QED BY <1>2, <1>7, <1>8, <1>9, <2>1
<1>15. Winners(k, lo, hi, v2)
  <2>1. ASSUME NEW p \in 1..N PROVE v2[p] \in Nat /\ lo[p] <= v2[p] /\ v2[p] <= hi[p]
    <3>1. CASE p = r
      <4>1. v2[p] = v[sib] \/ v2[p] = v[c]
        BY <1>12, <3>1
      <4>2. /\ v[sib] \in Int /\ v[sib] \in Nat /\ Under(lo, hi, v[sib], r)
            /\ v[c] \in Int /\ v[c] \in Nat /\ Under(lo, hi, v[c], r)
        BY <1>2, <1>4, <1>6
      <4> QED BY <3>1, <4>1, <4>2 DEF Under
    <3>2. CASE p # r
      BY <1>2, <1>12, <3>2 DEF Winners
    <3> QED BY <3>1, <3>2
  <2>2. v2 = [p \in 1..N |-> v2[p]]
    BY <1>11
  <2>3. v2 \in [1..N -> Nat]
    BY <2>1, <2>2
  <2> QED BY <2>1, <2>3 DEF Winners
<1> HIDE DEF v2, losers2
<1>16. Winner(knockout[pos], entry) = leaves[v2[r]]
  <2>1. knockout[pos] = loser /\ entry = e
    BY <1>2, <1>7, <1>8, <1>9
  <2> QED BY <1>9, <1>12, <2>1 DEF Winner
<1>17. \A p \in 1..N : ~Under(lo, hi, q, p) => v2[p] = w[p]
  BY <1>2, <1>7, <1>12
<1>18. Played(losers2, leaves, v2, r)
  <2>1. c # r /\ sib # r /\ c \in 1..N
    BY <1>2, <1>6
  <2>2. v2[c] = v[c] /\ v2[sib] = v[sib]
    BY <1>12, <2>1
  <2>3. CASE Beats(loser, e)
    <3>1. v2[r] = v[sib] /\ losers2[r] = e
      BY <1>12, <1>13, <2>3 DEF Loser
    <3>2. Leq(loser, e)
      BY <1>10, <2>3 DEF Beats, Leq
    <3> QED BY <1>6, <1>9, <2>2, <3>1, <3>2 DEF Played
  <2>4. CASE ~Beats(loser, e)
    <3>1. v2[r] = v[c] /\ losers2[r] = loser
      BY <1>12, <1>13, <2>4 DEF Loser
    <3>2. Leq(e, loser)
      BY <1>10, <2>4 DEF Beats, Leq
    <3> QED BY <1>6, <1>9, <2>2, <3>1, <3>2 DEF Played
  <2> QED BY <2>3, <2>4
<1>19. ASSUME NEW p \in 1..(k - 1)
       PROVE  IF Under(lo, hi, q, p) /\ p < r THEN losers2[p] = knockout[p]
                                              ELSE Played(losers2, leaves, v2, p)
  <2>1. CASE p = r
    BY <1>18, <2>1
  <2>2. CASE Under(lo, hi, q, p) /\ p < r
    <3>1. p < c /\ p # r /\ p \in 0..N
      BY <1>6, <2>2
    <3> QED BY <1>2, <1>13, <2>2, <3>1
  <2>3. CASE p # r /\ ~(Under(lo, hi, q, p) /\ p < r)
    <3>1. ~(Under(lo, hi, q, p) /\ p < c)
      <4> SUFFICES ASSUME Under(lo, hi, q, p), p < c PROVE FALSE
        OBVIOUS
      <4>1. p \in 1..(c - 1)
        BY <1>5
      <4>2. p <= c \div 2
        <5>1. \A x \in 1..(2 * k - 1) : Under(lo, hi, q, x) =>
                  \A y \in 1..(x - 1) : Under(lo, hi, q, y) => y <= x \div 2
          BY <1>1, <1>3, PathGap
        <5> QED BY <1>2, <4>1, <5>1
      <4> QED BY <1>6, <2>3, <4>2
    <3>2. Played(losers, leaves, v, p)
      BY <1>2, <3>1
    <3>3. p \in 1..N /\ p \in 0..N /\ 2 * p \in 1..N /\ 2 * p + 1 \in 1..N
      OBVIOUS
    (* r is no child of p: q would be under p, and p above r.               *)
    <3>4. 2 * p # r /\ 2 * p + 1 # r
      <4> SUFFICES ASSUME 2 * p = r \/ 2 * p + 1 = r PROVE FALSE
        OBVIOUS
      <4>1. p < r
        OBVIOUS
      <4>2. /\ lo[p] = lo[2 * p] /\ hi[2 * p] + 1 = lo[2 * p + 1] /\ hi[2 * p + 1] = hi[p]
            /\ lo[2 * p] \in Nat /\ hi[2 * p] \in Nat /\ lo[2 * p + 1] \in Nat /\ hi[p] \in Nat
            /\ lo[2 * p] <= hi[2 * p] /\ lo[2 * p + 1] <= hi[2 * p + 1]
        BY <1>1, <3>3 DEF Spans
      <4>3. Under(lo, hi, q, p)
        <5>1. Under(lo, hi, q, 2 * p) \/ Under(lo, hi, q, 2 * p + 1)
          BY <1>7
        <5> QED BY <1>3, <4>2, <5>1 DEF Under
      <4> QED BY <2>3, <4>1, <4>3
    <3>5. /\ v2[p] = v[p] /\ v2[2 * p] = v[2 * p] /\ v2[2 * p + 1] = v[2 * p + 1]
          /\ losers2[p] = losers[p]
      BY <1>12, <1>13, <2>3, <3>3, <3>4
    <3>6. Played(losers2, leaves, v2, p)
      BY <3>2, <3>5 DEF Played
    <3> QED BY <2>3, <3>6
  <2> QED BY <2>1, <2>2, <2>3
<1>20. pos \div 2 = r \div 2
  BY <1>7
<1> QED
  BY <1>7, <1>14, <1>15, <1>16, <1>17, <1>19, <1>20 DEF Climbing, losers2

-----------------------------------------------------------------------------
\* The variables of the loop of delete_min_insert after n iterations, for n in 0..k.
Loop(knockout, k, key, pos, entry, losers) ==
    /\ pos[0] = (k + min_source(knockout)) \div 2
    /\ entry[0] = Entry(key, min_source(knockout))
    /\ losers[0] = knockout
    /\ \A n \in 1..k :
          /\ pos[n] = pos[n - 1] \div 2
          /\ pos[n - 1] = 0 => entry[n] = entry[n - 1] /\ losers[n] = losers[n - 1]
          /\ pos[n - 1] # 0 =>
                 /\ entry[n] = Winner(knockout[pos[n - 1]], entry[n - 1])
                 /\ losers[n] = [losers[n - 1] EXCEPT ![pos[n - 1]] = Loser(@, entry[n - 1])]

(* The loop's functions exist, so the equations of delete_min_insert hold. *)
LEMMA PosExists ==
    ASSUME NEW k \in Nat, k > 0, NEW s \in 0..(k - 1)
    PROVE  \E f : /\ f \in [0..k -> 0..(k - 1)]
                  /\ f = [n \in 0..k |-> IF n = 0 THEN (k + s) \div 2 ELSE f[n - 1] \div 2]
<1> DEFINE X == 0..(k - 1)
           G == [n \in 0..(k - 1) |-> [p \in X |-> p \div 2]]
<1>1. (k + s) \div 2 \in X
  <2>1. PICK r \in Nat : r = (k + s) \div 2 /\ (k + s = 2 * r \/ k + s = 2 * r + 1)
    OBVIOUS
  <2> QED BY <2>1
<1>2. \A p \in X : p \div 2 \in X
  OBVIOUS
<1>3. G \in [0..(k - 1) -> [X -> X]]
  BY <1>2
<1> HIDE DEF G, X
<1>4. PICK f : Iterates(f, X, (k + s) \div 2, G, k)
  BY <1>1, <1>3, RecursionExists
<1>5. f \in [0..k -> X] /\ f[0] = (k + s) \div 2 /\ \A n \in 1..k : f[n] = G[n - 1][f[n - 1]]
  BY <1>4 DEF Iterates
<1>6. ASSUME NEW n \in 0..k PROVE f[n] = IF n = 0 THEN (k + s) \div 2 ELSE f[n - 1] \div 2
  <2>1. CASE n = 0
    BY <1>5, <2>1
  <2>2. CASE n # 0
    <3>1. n \in 1..k /\ n - 1 \in 0..(k - 1) /\ n - 1 \in 0..k
      BY <2>2
    <3>2. f[n - 1] \in X
      BY <1>5, <3>1
    <3> QED BY <1>5, <2>2, <3>1, <3>2 DEF G
  <2> QED BY <2>1, <2>2
<1>7. f = [n \in 0..k |-> f[n]]
  BY <1>5
<1>8. f = [n \in 0..k |-> IF n = 0 THEN (k + s) \div 2 ELSE f[n - 1] \div 2]
  BY <1>6, <1>7
<1> QED
  BY <1>5, <1>8 DEF X

\* The equations of the two other functions.
IsEntry(f, k, knockout, start, pos) ==
    f = [n \in 0..k |-> IF n = 0 THEN start
                         ELSE IF pos[n - 1] = 0 THEN f[n - 1]
                         ELSE Winner(knockout[pos[n - 1]], f[n - 1])]

Kept(t, p, e) == [t EXCEPT ![p] = Loser(@, e)]
IsLosers(f, k, knockout, pos, entry) ==
    f = [n \in 0..k |-> IF n = 0 THEN knockout
                         ELSE IF pos[n - 1] = 0 THEN f[n - 1]
                         ELSE [f[n - 1] EXCEPT ![pos[n - 1]] = Loser(@, entry[n - 1])]]

LEMMA EntryExists ==
    ASSUME NEW k \in Nat, k > 0, NEW knockout, NEW start \in Entries, NEW pos,
           \A n \in 0..k : knockout[pos[n]] \in Entries
    PROVE  \E f : f \in [0..k -> Entries] /\ IsEntry(f, k, knockout, start, pos)
<1> DEFINE After(n, e) == IF pos[n] = 0 THEN e ELSE Winner(knockout[pos[n]], e)
           G == [n \in 0..(k - 1) |-> [e \in Entries |-> After(n, e)]]
<1>1. ASSUME NEW n \in 0..(k - 1), NEW e \in Entries PROVE After(n, e) \in Entries
  <2>1. knockout[pos[n]] \in Entries
    OBVIOUS
  <2> QED BY <2>1 DEF Winner
<1> HIDE DEF After
<1>2. G \in [0..(k - 1) -> [Entries -> Entries]]
  BY <1>1
<1> HIDE DEF G
<1>3. PICK f : Iterates(f, Entries, start, G, k)
  BY <1>2, RecursionExists
<1>4. f \in [0..k -> Entries] /\ f[0] = start /\ \A n \in 1..k : f[n] = G[n - 1][f[n - 1]]
  BY <1>3 DEF Iterates
<1>5. ASSUME NEW n \in 0..k PROVE f[n] = IF n = 0 THEN start ELSE After(n - 1, f[n - 1])
  <2>1. CASE n = 0
    BY <1>4, <2>1
  <2>2. CASE n # 0
    <3>1. n \in 1..k /\ n - 1 \in 0..(k - 1) /\ n - 1 \in 0..k
      BY <2>2
    <3>2. f[n - 1] \in Entries
      BY <1>4, <3>1
    <3>3. G[n - 1][f[n - 1]] = After(n - 1, f[n - 1])
      BY <3>1, <3>2 DEF G
    <3> QED BY <1>4, <2>2, <3>1, <3>3
  <2> QED BY <2>1, <2>2
<1>6. f = [n \in 0..k |-> f[n]]
  BY <1>4
<1>7. f = [n \in 0..k |-> IF n = 0 THEN start ELSE After(n - 1, f[n - 1])]
  BY <1>5, <1>6
<1> QED
  BY <1>4, <1>7 DEF After, IsEntry

LEMMA LosersExist ==
    ASSUME NEW k \in Nat, k > 0, NEW Trees, NEW knockout \in Trees, NEW pos, NEW entry,
           \A n \in 0..k : \A t \in Trees : Kept(t, pos[n], entry[n]) \in Trees
    PROVE  \E f : f \in [0..k -> Trees] /\ IsLosers(f, k, knockout, pos, entry)
<1> DEFINE After(n, t) == IF pos[n] = 0 THEN t ELSE Kept(t, pos[n], entry[n])
           G == [n \in 0..(k - 1) |-> [t \in Trees |-> After(n, t)]]
<1>1. ASSUME NEW n \in 0..(k - 1), NEW t \in Trees PROVE After(n, t) \in Trees
  <2>1. n \in 0..k
    OBVIOUS
  <2> QED BY <2>1
<1> HIDE DEF After
<1>2. G \in [0..(k - 1) -> [Trees -> Trees]]
  BY <1>1
<1> HIDE DEF G
<1>3. PICK f : Iterates(f, Trees, knockout, G, k)
  BY <1>2, RecursionExists
<1>4. f \in [0..k -> Trees] /\ f[0] = knockout /\ \A n \in 1..k : f[n] = G[n - 1][f[n - 1]]
  BY <1>3 DEF Iterates
<1>5. ASSUME NEW n \in 0..k PROVE f[n] = IF n = 0 THEN knockout ELSE After(n - 1, f[n - 1])
  <2>1. CASE n = 0
    BY <1>4, <2>1
  <2>2. CASE n # 0
    <3>1. n \in 1..k /\ n - 1 \in 0..(k - 1) /\ n - 1 \in 0..k
      BY <2>2
    <3>2. f[n - 1] \in Trees
      BY <1>4, <3>1
    <3>3. G[n - 1][f[n - 1]] = After(n - 1, f[n - 1])
      BY <3>1, <3>2 DEF G
    <3> QED BY <1>4, <2>2, <3>1, <3>3
  <2> QED BY <2>1, <2>2
<1>6. f = [n \in 0..k |-> f[n]]
  BY <1>4
<1>7. f = [n \in 0..k |-> IF n = 0 THEN knockout ELSE After(n - 1, f[n - 1])]
  BY <1>5, <1>6
<1> QED
  BY <1>4, <1>7 DEF After, IsLosers, Kept

(* A function given from one number to the next stays in the set its values *)
(* are made from.                                                           *)
LEMMA StaysIn ==
    ASSUME NEW X, NEW N \in Nat, NEW f, f[0] \in X,
           \A n \in 1..N : f[n - 1] \in X => f[n] \in X
    PROVE  \A n \in 0..N : f[n] \in X
<1> DEFINE S == {n \in Nat : n <= N => f[n] \in X}
<1>1. 0 \in S
  OBVIOUS
<1>2. ASSUME NEW n \in Nat, n \in S PROVE n + 1 \in S
  <2> SUFFICES ASSUME n + 1 <= N PROVE f[n + 1] \in X
    OBVIOUS
  <2>1. n + 1 \in 1..N /\ (n + 1) - 1 = n /\ f[n] \in X
    BY <1>2
  <2> QED BY <2>1
<1>3. \A n \in Nat : n \in S
  <2> HIDE DEF S
  <2> QED BY <1>1, <1>2, SetInduction
<1> QED
  BY <1>3

LEMMA LoopExists ==
    ASSUME NEW k \in Nat, k > 0, NEW knockout \in [0..(2 * k - 1) -> Entries], NEW key \in Int,
           min_source(knockout) \in 0..(k - 1)
    PROVE  \E pos \in [0..k -> 0..(k - 1)], entry \in [0..k -> Entries],
              losers \in [0..k -> [0..(2 * k - 1) -> Entries]] :
               /\ Loop(knockout, k, key, pos, entry, losers)
               /\ delete_min_insert(knockout, k, key) = [losers[k] EXCEPT ![0] = entry[k]]
<1> DEFINE s == min_source(knockout)
           X == 0..(k - 1)
           Trees == [0..(2 * k - 1) -> Entries]
           pos == CHOOSE g : g = [n \in 0..k |->
                     IF n = 0 THEN (k + s) \div 2 ELSE g[n - 1] \div 2]
           entry == CHOOSE g : g = [n \in 0..k |->
                     IF n = 0 THEN Entry(key, s)
                     ELSE IF pos[n - 1] = 0 THEN g[n - 1]
                     ELSE Winner(knockout[pos[n - 1]], g[n - 1])]
           losers == CHOOSE g : g = [n \in 0..k |->
                     IF n = 0 THEN knockout
                     ELSE IF pos[n - 1] = 0 THEN g[n - 1]
                     ELSE [g[n - 1] EXCEPT ![pos[n - 1]] = Loser(@, entry[n - 1])]]
<1>1. delete_min_insert(knockout, k, key) = [losers[k] EXCEPT ![0] = entry[k]]
  BY DEF delete_min_insert
<1>2. s \in X /\ s \in Nat /\ Entry(key, s) \in Entries
  BY DEF Entry, Entries
<1> HIDE DEF s
<1>3. pos = [n \in 0..k |-> IF n = 0 THEN (k + s) \div 2 ELSE pos[n - 1] \div 2]
  <2>1. \E f : f = [n \in 0..k |-> IF n = 0 THEN (k + s) \div 2 ELSE f[n - 1] \div 2]
    BY <1>2, PosExists
  <2> QED BY <2>1
<1> HIDE DEF pos, X
<1>4. pos[0] = (k + s) \div 2 /\ \A n \in 1..k : pos[n] = pos[n - 1] \div 2
  BY <1>3
<1>5. \A n \in 0..k : pos[n] \in X
  <2>1. pos[0] \in X
    <3>1. PICK f : f \in [0..k -> 0..(k - 1)]
                   /\ f = [n \in 0..k |-> IF n = 0 THEN (k + s) \div 2 ELSE f[n - 1] \div 2]
      BY <1>2, PosExists DEF X
    <3>2. f[0] = (k + s) \div 2 /\ f[0] \in X
      BY <3>1 DEF X
    <3> QED BY <1>4, <3>2
  <2>2. \A p \in X : p \div 2 \in X
    BY DEF X
  <2>3. \A n \in 1..k : pos[n - 1] \in X => pos[n] \in X
    BY <1>4, <2>2
  <2> QED BY <2>1, <2>3, StaysIn
<1>6. \A n \in 0..k : pos[n] \in 0..(2 * k - 1) /\ knockout[pos[n]] \in Entries
  <2>1. \A p \in X : p \in 0..(2 * k - 1)
    BY DEF X
  <2> QED BY <1>5, <2>1
<1>7. IsEntry(entry, k, knockout, Entry(key, s), pos)
  <2>1. \E f : IsEntry(f, k, knockout, Entry(key, s), pos)
    BY <1>2, <1>6, EntryExists
  <2> QED BY <2>1 DEF IsEntry
<1> HIDE DEF entry
<1>8. /\ entry[0] = Entry(key, s)
      /\ \A n \in 1..k :
            /\ pos[n - 1] = 0 => entry[n] = entry[n - 1]
            /\ pos[n - 1] # 0 => entry[n] = Winner(knockout[pos[n - 1]], entry[n - 1])
  BY <1>7 DEF IsEntry
<1>9. \A n \in 0..k : entry[n] \in Entries
  <2>1. \A n \in 1..k : entry[n - 1] \in Entries => entry[n] \in Entries
    <3> SUFFICES ASSUME NEW n \in 1..k, entry[n - 1] \in Entries PROVE entry[n] \in Entries
      OBVIOUS
    <3>1. n - 1 \in 0..k
      OBVIOUS
    <3>2. knockout[pos[n - 1]] \in Entries
      BY <1>6, <3>1
    <3> QED BY <1>8, <3>2 DEF Winner
  <2>2. entry[0] \in Entries
    BY <1>2, <1>8
  <2> QED BY <2>1, <2>2, StaysIn
<1>10. \A n \in 0..k : \A t \in Trees : Kept(t, pos[n], entry[n]) \in Trees
  <2> SUFFICES ASSUME NEW n \in 0..k, NEW t \in Trees
               PROVE  Kept(t, pos[n], entry[n]) \in Trees
    OBVIOUS
  <2>1. t[pos[n]] \in Entries /\ entry[n] \in Entries
    BY <1>6, <1>9
  <2>2. Loser(t[pos[n]], entry[n]) \in Entries
    BY <2>1 DEF Loser
  <2> QED BY <2>2 DEF Kept
<1>11. IsLosers(losers, k, knockout, pos, entry)
  <2>1. \E f : IsLosers(f, k, knockout, pos, entry)
    <3>1. knockout \in Trees
      OBVIOUS
    <3> HIDE DEF Trees
    <3> QED BY <1>10, <3>1, LosersExist
  <2> QED BY <2>1 DEF IsLosers
<1> HIDE DEF losers
<1>12. /\ losers[0] = knockout
       /\ \A n \in 1..k :
            /\ pos[n - 1] = 0 => losers[n] = losers[n - 1]
            /\ pos[n - 1] # 0 => losers[n] = Kept(losers[n - 1], pos[n - 1], entry[n - 1])
  <2>1. losers = [n \in 0..k |-> IF n = 0 THEN knockout
                                  ELSE IF pos[n - 1] = 0 THEN losers[n - 1]
                                  ELSE Kept(losers[n - 1], pos[n - 1], entry[n - 1])]
    BY <1>11 DEF IsLosers, Kept
  <2> QED BY <2>1
<1>13. \A n \in 0..k : losers[n] \in Trees
  <2>1. losers[0] \in Trees
    BY <1>12
  <2> HIDE DEF Trees
  <2>2. \A n \in 1..k : losers[n - 1] \in Trees => losers[n] \in Trees
    <3> SUFFICES ASSUME NEW n \in 1..k, losers[n - 1] \in Trees PROVE losers[n] \in Trees
      OBVIOUS
    <3>1. n - 1 \in 0..k
      OBVIOUS
    <3> QED BY <1>10, <1>12, <3>1
  <2> QED BY <2>1, <2>2, StaysIn
<1>14. Loop(knockout, k, key, pos, entry, losers)
  BY <1>4, <1>8, <1>12 DEF Loop, Kept, s
<1>15. pos \in [0..k -> 0..(k - 1)] /\ entry \in [0..k -> Entries]
  <2>1. pos = [n \in 0..k |-> pos[n]] /\ entry = [n \in 0..k |-> entry[n]]
    BY <1>3, <1>7 DEF IsEntry
  <2> QED BY <1>5, <1>9, <2>1 DEF X
<1>16. losers \in [0..k -> Trees]
  <2>1. losers = [n \in 0..k |-> losers[n]]
    BY <1>11 DEF IsLosers
  <2> HIDE DEF Trees
  <2> QED BY <1>13, <2>1
<1> QED
  BY <1>1, <1>14, <1>15, <1>16

(* At the leaf of the winner the climb begins.                             *)
LEMMA ClimbStarts ==
    ASSUME NEW k \in Nat, k > 0, NEW knockout, NEW lo, NEW hi, NEW w,
           NEW before \in [k..(2 * k - 1) -> Entries],
           NEW leaves \in [k..(2 * k - 1) -> Entries],
           Tournament(knockout, k, before, lo, hi, w),
           \A p \in k..(2 * k - 1) : p # w[1] => leaves[p] = before[p]
    PROVE  Climbing(k, lo, hi, w, knockout, leaves, w[1], w[1] \div 2, leaves[w[1]], knockout)
<1> DEFINE N == 2 * k - 1
           q == w[1]
<1>1. /\ \A p \in 1..N : w[p] \in k..N /\ Under(lo, hi, w[p], p)
      /\ \A p \in k..N : w[p] = p
      /\ 1 \in 1..N /\ Spans(k, lo, hi) /\ Winners(k, lo, hi, w)
      /\ \A p \in 1..(k - 1) : Played(knockout, before, w, p)
      /\ knockout \in [0..N -> Entries]
  BY WinnerPositions DEF Tournament
<1>2. q \in k..N /\ q \in 1..N /\ w[q] = q
  BY <1>1
<1>3. Under(lo, hi, q, q)
  BY <1>1, <1>2
<1>4. ASSUME NEW p \in 1..(k - 1)
      PROVE  IF Under(lo, hi, q, p) /\ p < q THEN knockout[p] = knockout[p] ELSE Played(knockout, leaves, w, p)
  <2> SUFFICES ASSUME ~(Under(lo, hi, q, p) /\ p < q) PROVE Played(knockout, leaves, w, p)
    OBVIOUS
  <2>1. ~Under(lo, hi, q, p)
    BY <1>2
  <2>2. 2 * p \in 2..N /\ 2 * p + 1 \in 2..N /\ 2 * p \in 1..N /\ 2 * p + 1 \in 1..N
    OBVIOUS
  <2>3. w[2 * p] \in k..N /\ w[2 * p + 1] \in k..N
        /\ Under(lo, hi, w[2 * p], 2 * p) /\ Under(lo, hi, w[2 * p + 1], 2 * p + 1)
    BY <1>1, <2>2
  <2>4. /\ lo[p] = lo[2 * p] /\ hi[2 * p] + 1 = lo[2 * p + 1] /\ hi[2 * p + 1] = hi[p]
        /\ lo[2 * p] \in Nat /\ hi[2 * p] \in Nat /\ lo[2 * p + 1] \in Nat /\ hi[p] \in Nat
        /\ lo[2 * p] <= hi[2 * p] /\ lo[2 * p + 1] <= hi[2 * p + 1]
    BY <1>1, <2>2 DEF Spans
  <2>5. Under(lo, hi, w[2 * p], p) /\ Under(lo, hi, w[2 * p + 1], p)
    BY <2>3, <2>4 DEF Under
  <2>6. w[2 * p] # q /\ w[2 * p + 1] # q
    BY <2>1, <2>5
  <2>7. leaves[w[2 * p]] = before[w[2 * p]] /\ leaves[w[2 * p + 1]] = before[w[2 * p + 1]]
    BY <2>3, <2>6
  <2>8. Played(knockout, before, w, p)
    BY <1>1
  <2> QED BY <2>7, <2>8 DEF Played
<1> QED
  BY <1>1, <1>2, <1>3, <1>4 DEF Climbing

(* delete_min_insert plays the tournament in which the winner's key is replaced. *)
THEOREM TreeSteps ==
    ASSUME NEW keys, AreKeys(keys), NEW knockout, TreeOn(knockout, keys), NEW key \in Int, key <= KeyMax
    PROVE  LET keys2 == [keys EXCEPT ![min_source(knockout) + 1] = key]
           IN  /\ AreKeys(keys2) /\ Len(keys2) = Len(keys)
               /\ TreeOn(delete_min_insert(knockout, next_pow2(Len(keys)), key), keys2)
<1> DEFINE k == next_pow2(Len(keys))
           n == Len(keys)
           s == min_source(knockout)
           keys2 == [keys EXCEPT ![s + 1] = key]
           B == Leaves(k, keys)
           A == Leaves(k, keys2)
           t2 == delete_min_insert(knockout, k, key)
<1>1. /\ n \in Nat /\ n > 0 /\ n <= NoSource
      /\ keys \in [1..n -> Int] /\ \A j \in 1..n : keys[j] <= KeyMax
  BY DEF AreKeys
<1>2. k \in Nat /\ k >= n /\ k > 0
  BY <1>1, PowerOfTwo
<1>3. PICK lo, hi, w : Tournament(knockout, k, B, lo, hi, w)
  BY DEF TreeOn
<1>4. s \in 0..(n - 1) /\ w[1] = k + s
  BY <1>3, WinnerOfKeys
<1> HIDE DEF s
<1>5. AreKeys(keys2) /\ Len(keys2) = n
  <2>1. s + 1 \in 1..n
    BY <1>1, <1>4
  <2>2. keys2 \in [1..n -> Int] /\ \A j \in 1..n : keys2[j] <= KeyMax
    BY <1>1, <2>1, LoserTreeAssumption
  <2> HIDE DEF keys2, n
  <2>3. keys2 \in Seq(Int) /\ Len(keys2) = n
    BY <1>1, <2>2
  <2> QED BY <1>1, <2>2, <2>3 DEF AreKeys
<1>6. B \in [k..(2 * k - 1) -> Entries] /\ A \in [k..(2 * k - 1) -> Entries]
  <2>1. B \in [k..(2 * k - 1) -> Entries]
    BY <1>2, LeafFacts
  <2> HIDE DEF k, keys2, n
  <2>2. A \in [k..(2 * k - 1) -> Entries]
    BY <1>2, <1>5, LeafFacts
  <2> QED BY <2>1, <2>2
<1>7. A[w[1]] = Entry(key, s)
  <2> HIDE DEF k, keys2
  <2>1. \A x \in 0..(Len(keys2) - 1) : Leaves(k, keys2)[k + x] = Entry(keys2[x + 1], x)
    <3> HIDE DEF n
    <3> QED BY <1>2, <1>5, LeafFacts
  <2>2. A[k + s] = Entry(keys2[s + 1], s)
    BY <1>4, <1>5, <2>1
  <2>3. keys2[s + 1] = key
    <3>1. s + 1 \in 1..n
      BY <1>1, <1>4
    <3> QED BY <1>1, <3>1 DEF keys2
  <2> QED BY <1>4, <2>2, <2>3
<1>8. ASSUME NEW p \in k..(2 * k - 1), p # w[1] PROVE A[p] = B[p]
  <2> HIDE DEF k, keys2, n
  <2>1. A[p] = IF p - k < n THEN Entry(keys2[p - k + 1], p - k) ELSE Entry(KeyMax, NoSource)
    BY <1>5 DEF Leaves
  <2>2. B[p] = IF p - k < n THEN Entry(keys[p - k + 1], p - k) ELSE Entry(KeyMax, NoSource)
    BY DEF Leaves, n
  <2>3. p - k < n => keys2[p - k + 1] = keys[p - k + 1]
    <3> SUFFICES ASSUME p - k < n PROVE keys2[p - k + 1] = keys[p - k + 1]
      OBVIOUS
    <3>1. p - k + 1 \in 1..n /\ p - k + 1 # s + 1
      BY <1>1, <1>2, <1>4, <1>8
    <3> QED BY <1>1, <3>1 DEF keys2
  <2> QED BY <2>1, <2>2, <2>3
<1>9. knockout \in [0..(2 * k - 1) -> Entries]
  BY <1>3 DEF Tournament
<1>10. PICK pos \in [0..k -> 0..(k - 1)], entry \in [0..k -> Entries],
            losers \in [0..k -> [0..(2 * k - 1) -> Entries]] :
               Loop(knockout, k, key, pos, entry, losers) /\ t2 = [losers[k] EXCEPT ![0] = entry[k]]
  <2>1. s \in 0..(k - 1)
    BY <1>1, <1>2, <1>4
  <2> HIDE DEF k
  <2> QED BY <1>2, <1>9, <2>1, LoopExists DEF s
<1> HIDE DEF k, A, B, t2, keys2, n
<1> DEFINE Climbs(m) == Climbing(k, lo, hi, w, knockout, A, w[1], pos[m], entry[m], losers[m])
           S == {m \in Nat : m <= k => Climbs(m)}
<1>11. 0 \in S
  <2>1. Climbing(k, lo, hi, w, knockout, A, w[1], w[1] \div 2, A[w[1]], knockout)
    BY <1>2, <1>3, <1>6, <1>8, ClimbStarts
  <2>2. pos[0] = w[1] \div 2 /\ entry[0] = A[w[1]] /\ losers[0] = knockout
    BY <1>4, <1>7, <1>10 DEF Loop, s
  <2> QED BY <2>1, <2>2
<1>12. ASSUME NEW m \in Nat, m \in S PROVE m + 1 \in S
  <2> SUFFICES ASSUME m + 1 <= k PROVE Climbs(m + 1)
    OBVIOUS
  <2>1. Climbs(m) /\ m + 1 \in 1..k /\ (m + 1) - 1 = m /\ m \in 0..k
    BY <1>2, <1>12
  <2>2. /\ pos[m + 1] = pos[m] \div 2
        /\ pos[m] = 0 => entry[m + 1] = entry[m] /\ losers[m + 1] = losers[m]
        /\ pos[m] # 0 =>
               /\ entry[m + 1] = Winner(knockout[pos[m]], entry[m])
               /\ losers[m + 1] = [losers[m] EXCEPT ![pos[m]] = Loser(@, entry[m])]
    BY <1>10, <2>1 DEF Loop
  <2>3. CASE pos[m] = 0
    <3>1. pos[m + 1] = pos[m]
      BY <2>2, <2>3
    <3> QED BY <2>1, <2>2, <2>3, <3>1
  <2>4. CASE pos[m] # 0
    <3>1. Climbing(k, lo, hi, w, knockout, A, w[1], pos[m] \div 2, Winner(knockout[pos[m]], entry[m]),
                   [losers[m] EXCEPT ![pos[m]] = Loser(@, entry[m])])
      BY <1>2, <1>3, <1>6, <1>8, <2>1, <2>4, ClimbStep
    <3> QED BY <2>2, <2>4, <3>1
  <2> QED BY <2>3, <2>4
<1>13. Climbs(k)
  <2>1. \A m \in Nat : m \in S
    <3> HIDE DEF S
    <3> QED BY <1>11, <1>12, SetInduction
  <2> HIDE DEF Climbs
  <2> QED BY <1>2, <2>1
(* The loop has come to the root after at most k - 1 iterations.           *)
<1>14. pos[k] = 0
  <2> DEFINE R == {m \in Nat : m <= k => pos[m] = 0 \/ pos[m] + m <= k - 1}
  <2>1. 0 \in R
    BY <1>2, <1>10
  <2>2. ASSUME NEW m \in Nat, m \in R PROVE m + 1 \in R
    <3> SUFFICES ASSUME m + 1 <= k PROVE pos[m + 1] = 0 \/ pos[m + 1] + (m + 1) <= k - 1
      OBVIOUS
    <3>1. m \in 0..k /\ m + 1 \in 1..k /\ (m + 1) - 1 = m
      BY <1>2
    <3>2. pos[m + 1] = pos[m] \div 2
      BY <1>10, <3>1 DEF Loop
    <3>3. PICK x \in Nat : x = pos[m]
      BY <3>1
    <3>4. x = 0 \/ x + m <= k - 1
      BY <1>2, <2>2, <3>3
    <3>5. x \div 2 = 0 \/ (x \div 2) + (m + 1) <= k - 1
      BY <1>2, <3>4
    <3> QED BY <3>2, <3>3, <3>5
  <2>3. \A m \in Nat : m \in R
    <3> HIDE DEF R
    <3> QED BY <2>1, <2>2, SetInduction
  <2>4. pos[k] = 0 \/ pos[k] + k <= k - 1
    BY <1>2, <2>3
  <2>5. pos[k] \in Nat
    BY <1>2, <1>10
  <2> QED BY <1>2, <2>4, <2>5
<1>15. PICK c, v :
           /\ c \in 1..(2 * k - 1)
           /\ pos[k] = c \div 2
           /\ Winners(k, lo, hi, v)
           /\ entry[k] = A[v[c]]
           /\ losers[k] \in [0..(2 * k - 1) -> Entries]
           /\ \A p \in 1..(k - 1) :
                  IF Under(lo, hi, w[1], p) /\ p < c THEN losers[k][p] = knockout[p]
                                                     ELSE Played(losers[k], A, v, p)
  BY <1>13 DEF Climbing
<1>16. c = 1
  BY <1>14, <1>15
<1>17. t2[0] = A[v[1]] /\ \A p \in 1..(2 * k - 1) : t2[p] = losers[k][p]
  BY <1>2, <1>10, <1>15, <1>16
<1>18. t2 \in [0..(2 * k - 1) -> Entries]
  <2>1. entry[k] \in Entries
    BY <1>2
  <2> QED BY <1>10, <1>15, <2>1
<1>19. ASSUME NEW p \in 1..(k - 1) PROVE Played(t2, A, v, p)
  <2>1. Played(losers[k], A, v, p)
    BY <1>15, <1>16
  <2>2. p \in 1..(2 * k - 1)
    BY <1>2
  <2>3. t2[p] = losers[k][p]
    BY <1>17, <2>2
  <2> QED BY <2>1, <2>3 DEF Played
<1>20. Tournament(t2, k, A, lo, hi, v)
  BY <1>3, <1>15, <1>17, <1>18, <1>19 DEF Tournament
<1>21. TreeOn(t2, keys2)
  BY <1>5, <1>20 DEF TreeOn, A, k, n
<1> QED
  BY <1>5, <1>21 DEF keys2, t2, k, s, n

(* min_source of a tree on these keys: the sequence with the smallest key, *)
(* of several with that key the first.                                     *)
THEOREM TreeWinner ==
    ASSUME NEW keys, AreKeys(keys), NEW knockout, TreeOn(knockout, keys)
    PROVE  /\ min_source(knockout) \in 0..(Len(keys) - 1)
           /\ \A j \in 1..Len(keys) :
                  \/ keys[min_source(knockout) + 1] < keys[j]
                  \/ keys[min_source(knockout) + 1] = keys[j] /\ min_source(knockout) < j
BY WinnerOfKeys DEF TreeOn

-----------------------------------------------------------------------------
(* The queries and the iterators.                                          *)

Pair == Level \X Key

-----------------------------------------------------------------------------
(* The inductive invariant.                                                *)

\* An item and the newest one of its key.
IsNewest(l, k) == data[l][k] # "absent" /\ \A m \in 0..(l - 1) : data[m][k] = "absent"

\* The queries. Every item of a key that the loop could come to, at the levels it has
\* passed, is overwritten by an erased one; the element kept is a live one.
TypeInv ==
    /\ data \in [Level -> LevelData]
    /\ query \in {LowerBoundCall(k) : k \in Key} \cup {BeginCall, NoCall}
    /\ i \in 0..NumLevels
    /\ lb \in {None} \cup Pair
    /\ erased \in SUBSET Key
    /\ result \in {None, EndOf} \cup Pair
    /\ current \in {None, EndCursor} \cup Pair
    /\ initialized \in BOOLEAN
    /\ iterators \in Seq(Level \X (Key \cup {End}))
    /\ tmp \in {EndCursor} \cup Pair
    /\ advancing \in BOOLEAN

LiveAt(l, k) == data[l][k] = "live" /\ IsNewest(l, k)
ErasedBelow(n, k) == \E l \in 0..(n - 1) : data[l][k] = "deleted" /\ IsNewest(l, k)

QueryInv ==
    Seeks =>
        /\ \A k \in Key : (\E m \in 0..(i - 1) : data[m][k] # "absent") /\ InReach(k) =>
               k \in erased
        /\ \A k \in erased : ErasedBelow(i, k)
        /\ lb # None => lb[1] < i /\ lb[2] >= query.key /\ LiveAt(lb[1], lb[2])

\* The first live element from the key on.
IsFirst(c, key) ==
    IF c = EndOf THEN \A k \in Key : k >= key => ~IsLive(k)
    ELSE /\ c[2] >= key /\ LiveAt(c[1], c[2])
         /\ \A k \in Key : key <= k /\ k < c[2] => ~IsLive(k)

ResultInv ==
    /\ Seeks /\ result # None => IsFirst(result, query.key)
    /\ Seeks => current = None
    /\ ~Seeks => current # None

\* The sequences of an iterator, and the tree on them.
KeysAt(its) == [j \in DOMAIN its |-> IF its[j][2] = End THEN KeyMax ELSE its[j][2]]
Unconsumed(its) == {j \in DOMAIN its : its[j][2] # End}

Ascending(its) ==
    /\ Len(its) <= NumLevels
    /\ \A a, b \in DOMAIN its : a < b => its[a][1] < its[b][1]
    /\ \A j \in DOMAIN its : its[j][2] # End => its[j][2] \in KeysOf(its[j][1])

TreeInv ==
    /\ Ascending(iterators)
    /\ unconsumed_count = Cardinality(Unconsumed(iterators))
    /\ iterators # << >> => TreeOn(tree, KeysAt(iterators))

\* Each level is at its first key greater than k, or at k where Behind allows it.
After(its, k, Behind) ==
    /\ \A j \in DOMAIN its :
           \/ its[j][2] = upper_bound(its[j][1], k)
           \/ Behind /\ its[j][2] = k
    /\ \A l \in Level : (\A j \in DOMAIN its : its[j][1] # l) => upper_bound(l, k) = End

\* advance has taken the newest item of a key, and no live one was passed over.
Taken(c, from) ==
    /\ c[2] > from /\ IsNewest(c[1], c[2])
    /\ \A k \in Key : from < k /\ k < c[2] => ~IsLive(k)

WalkInv ==
    /\ ~initialized => iterators = << >>
    /\ ~advancing => tmp = EndCursor
    /\ advancing => initialized
    /\ initialized => current \in Pair
    /\ initialized /\ tmp = EndCursor => After(iterators, current[2], FALSE)
    /\ tmp # EndCursor => Taken(tmp, current[2]) /\ After(iterators, tmp[2], TRUE)

IInv == TypeInv /\ QueryInv /\ ResultInv /\ TreeInv /\ WalkInv

-----------------------------------------------------------------------------
(* The operators of the model.                                             *)

LEMMA PairFacts ==
    /\ None # EndOf /\ EndCursor # None
    /\ \A c \in Pair : /\ c # None /\ c # EndOf /\ c # EndCursor
                       /\ c = <<c[1], c[2]>> /\ c[1] \in Level /\ c[2] \in Key
                       /\ c[1] \in Int /\ c[2] \in Int /\ c[2] # End
<1>1. None # EndOf /\ EndCursor # None
  BY DEF None, EndOf, EndCursor
<1>2. ASSUME NEW c \in Pair
      PROVE  /\ c # None /\ c # EndOf /\ c # EndCursor
             /\ c = <<c[1], c[2]>> /\ c[1] \in Level /\ c[2] \in Key
             /\ c[1] \in Int /\ c[2] \in Int /\ c[2] # End
  <2>1. PICK l \in Level, k \in Key : c = <<l, k>>
    BY DEF Pair
  <2>2. l \in Int /\ k \in Int /\ k # End
    BY QueriesAssumption, IteratorAssumption DEF Level
  <2>3. c # None /\ c # EndOf
    BY <2>1 DEF None, EndOf
  <2>4. c # EndCursor
    BY <2>1, <2>2 DEF EndCursor
  <2> QED BY <2>1, <2>2, <2>3, <2>4
<1> QED
  BY <1>1, <1>2

LEMMA QueryFacts ==
    /\ \A k \in Key : /\ LowerBoundCall(k) # NoCall /\ LowerBoundCall(k).key = k
                      /\ LowerBoundCall(k).call = "lower_bound"
    /\ BeginCall # NoCall /\ BeginCall.key = LowestMin /\ BeginCall.call = "begin"
    /\ NoCall.call = "none"
<1>1. \A k \in Key : /\ LowerBoundCall(k).key = k /\ LowerBoundCall(k).call = "lower_bound"
  BY DEF LowerBoundCall
<1>2. BeginCall.key = LowestMin /\ BeginCall.call = "begin" /\ NoCall.call = "none"
  BY DEF BeginCall, NoCall
<1> QED
  BY <1>1, <1>2

LEMMA KeysFinite ==
    ASSUME NEW S \in SUBSET Key
    PROVE  /\ S \in SUBSET Int
           /\ S # {} => Min(S) \in S /\ \A y \in S : Min(S) <= y
<1>1. IsFiniteSet(S) /\ S \in SUBSET Int
  BY QueriesAssumption, FS_Subset
<1> QED
  BY <1>1, FiniteLeastElement

LEMMA UpperBound ==
    ASSUME NEW l \in Level, NEW k \in Int
    PROVE  /\ upper_bound(l, k) = End => \A x \in KeysOf(l) : x <= k
           /\ upper_bound(l, k) # End =>
                  /\ upper_bound(l, k) \in KeysOf(l) /\ upper_bound(l, k) > k
                  /\ upper_bound(l, k) \in Key /\ upper_bound(l, k) \in Int
                  /\ \A x \in KeysOf(l) : x > k => upper_bound(l, k) <= x
<1> DEFINE greater == {x \in KeysOf(l) : x > k}
<1>1. greater \in SUBSET Key /\ KeysOf(l) \in SUBSET Key /\ KeysOf(l) \in SUBSET Int
  BY QueriesAssumption DEF KeysOf
<1>2. upper_bound(l, k) = IF greater = {} THEN End ELSE Min(greater)
  BY DEF upper_bound
<1>3. greater # {} => Min(greater) \in greater /\ \A y \in greater : Min(greater) <= y
  BY <1>1, KeysFinite
<1>4. CASE greater = {}
  <2>1. upper_bound(l, k) = End
    BY <1>2, <1>4
  <2>2. \A x \in KeysOf(l) : x <= k
    BY <1>1, <1>4
  <2> QED BY <2>1, <2>2
<1>5. CASE greater # {}
  <2>1. upper_bound(l, k) \in greater
    BY <1>2, <1>3, <1>5
  <2>2. upper_bound(l, k) # End
    BY <1>1, <2>1, IteratorAssumption
  <2>3. \A x \in KeysOf(l) : x > k => upper_bound(l, k) <= x
    BY <1>2, <1>3, <1>5
  <2> QED BY <1>1, <2>1, <2>2, <2>3
<1> QED
  BY <1>4, <1>5

(* When no key of a level is passed, its next position stays.              *)
LEMMA UpperBoundMoves ==
    ASSUME NEW l \in Level, NEW k \in Int, NEW m \in Int, k <= m,
           upper_bound(l, k) # End => m < upper_bound(l, k)
    PROVE  upper_bound(l, m) = upper_bound(l, k)
<1>1. KeysOf(l) \in SUBSET Int
  BY QueriesAssumption DEF KeysOf
<1>2. \A x \in KeysOf(l) : x > k <=> x > m
  <2>1. CASE upper_bound(l, k) = End
    <3>1. \A x \in KeysOf(l) : x <= k
      BY <2>1, UpperBound
    <3> QED BY <1>1, <3>1
  <2>2. CASE upper_bound(l, k) # End
    <3>1. /\ upper_bound(l, k) \in Int /\ m < upper_bound(l, k)
          /\ \A x \in KeysOf(l) : x > k => upper_bound(l, k) <= x
      BY <2>2, UpperBound
    <3> QED BY <1>1, <3>1
  <2> QED BY <2>1, <2>2
<1>3. {x \in KeysOf(l) : x > k} = {x \in KeysOf(l) : x > m}
  BY <1>2
<1> QED
  BY <1>3 DEF upper_bound

LEMMA DataKept ==
    ASSUME data' = data
    PROVE  /\ \A l, k : upper_bound(l, k)' = upper_bound(l, k)
           /\ \A l : KeysOf(l)' = KeysOf(l)
           /\ \A l, k : IsNewest(l, k)' <=> IsNewest(l, k)
           /\ \A l, k : LiveAt(l, k)' <=> LiveAt(l, k)
           /\ \A n, k : ErasedBelow(n, k)' <=> ErasedBelow(n, k)
           /\ \A k : IsLive(k)' <=> IsLive(k)
BY DEF upper_bound, KeysOf, IsNewest, LiveAt, ErasedBelow, IsLive

(* The newest item of a key tells whether it is live.                      *)
LEMMA Newest ==
    ASSUME TypeInv, NEW l \in Level, NEW k \in Key, IsNewest(l, k)
    PROVE  /\ NewestLevel(k) = l
           /\ IsLive(k) <=> data[l][k] = "live"
           /\ data[l][k] # "live" <=> data[l][k] = "deleted"
<1>1. /\ Level \in SUBSET Nat /\ \A m \in Level : \A n \in 0..(m - 1) : n \in Level
      /\ \A m, n \in Level : m < n => m \in 0..(n - 1)
  BY QueriesAssumption DEF Level
<1>2. data[l][k] \in {"live", "deleted", "absent"} /\ data[l][k] # "absent"
  BY DEF TypeInv, LevelData, IsNewest
<1>3. \A m \in 0..(l - 1) : data[m][k] = "absent"
  BY DEF IsNewest
<1>4. NewestLevel(k) = l
  <2> DEFINE S == {m \in Level : data[m][k] # "absent"}
  <2>1. S \in SUBSET Nat /\ S # {} /\ l \in S
    BY <1>1, <1>2
  <2>2. Min(S) \in S /\ \A y \in S : Min(S) <= y
    <3> HIDE DEF S
    <3> QED BY <2>1, LeastElement
  <2>3. Min(S) \in Level /\ Min(S) <= l
    BY <2>1, <2>2
  <2>4. ~(Min(S) < l)
    BY <1>1, <1>3, <2>2, <2>3
  <2>5. Min(S) = l
    BY <1>1, <2>3, <2>4
  <2> QED BY <2>5 DEF NewestLevel
<1>5. ASSUME IsLive(k) PROVE data[l][k] = "live"
  <2>1. PICK n \in Level : data[n][k] = "live" /\ \A m \in 0..(n - 1) : data[m][k] = "absent"
    BY <1>5 DEF IsLive
  <2>2. ~(l < n) /\ ~(n < l)
    BY <1>1, <1>2, <1>3, <2>1
  <2>3. l = n
    BY <1>1, <2>2
  <2> QED BY <2>1, <2>3
<1>6. ASSUME data[l][k] = "live" PROVE IsLive(k)
  BY <1>3, <1>6 DEF IsLive
<1> QED
  BY <1>2, <1>4, <1>5, <1>6

(* The map the container stands for.                                       *)
LEMMA LiveKeys ==
    ASSUME TypeInv
    PROVE  /\ Map!Live = {k \in Key : IsLive(k)}
           /\ \A k \in Key : IsLive(k) => \E l \in Level : LiveAt(l, k)
<1>1. ASSUME NEW k \in Key, IsLive(k) PROVE \E l \in Level : LiveAt(l, k)
  <2>1. PICK l \in Level : data[l][k] = "live" /\ \A m \in 0..(l - 1) : data[m][k] = "absent"
    BY <1>1 DEF IsLive
  <2> QED BY <2>1 DEF LiveAt, IsNewest
<1>2. ASSUME NEW k \in Key, IsLive(k) PROVE NewestLevel(k) # NumLevels
  <2>1. PICK l \in Level : LiveAt(l, k)
    BY <1>1, <1>2
  <2>2. NewestLevel(k) = l
    BY <2>1, Newest DEF LiveAt
  <2> QED BY <2>2, QueriesAssumption DEF Level
<1>3. Map!Live = {k \in Key : (IF IsLive(k) THEN NewestLevel(k) ELSE NumLevels) # NumLevels}
  BY DEF Map!Live
<1> QED
  BY <1>1, <1>2, <1>3

-----------------------------------------------------------------------------
(* The queries.                                                            *)

LEMMA QueryKey ==
    ASSUME TypeInv, Seeks
    PROVE  query.key \in Int
<1>1. CASE query = BeginCall
  BY <1>1, QueryFacts, QueriesAssumption
<1>2. CASE \E k \in Key : query = LowerBoundCall(k)
  BY <1>2, QueryFacts, QueriesAssumption
<1> QED
  BY <1>1, <1>2 DEF TypeInv, Seeks

(* An element that stops the inner loop is a live one; a key the loop could *)
(* still come to, but passed, is an erased one.                             *)
LEMMA ScanKeeps ==
    ASSUME TypeInv, QueryInv, ScanLevel
    PROVE  /\ \A k \in Key : (\E m \in 0..(i' - 1) : data[m][k] # "absent") /\ InReach(k)' =>
                  k \in erased'
           /\ \A k \in erased' : k \in Key /\ ErasedBelow(i', k)
           /\ lb' # None => /\ lb' \in Pair /\ lb'[1] < i' /\ lb'[2] >= query.key
                            /\ LiveAt(lb'[1], lb'[2])
           /\ result' # None => /\ result' \in Pair /\ result'[2] = query.key
                                /\ LiveAt(result'[1], result'[2])
           /\ i' \in 0..NumLevels /\ i' = i + 1
<1> DEFINE reach == {k \in KeysOf(i) : InReach(k)}
           stops == {k \in reach : Stops(k)}
           more == {k \in reach : data[i][k] = "deleted" /\ \A s \in stops : k < s}
<1>1. /\ erased' = erased \cup more
      /\ lb' = IF stops = {} THEN lb ELSE <<i, Min(stops)>>
      /\ result' = IF query.key \in stops THEN <<i, query.key>> ELSE None
      /\ i' = i + 1
      /\ data' = data /\ query' = query /\ Seeks /\ i < NumLevels
  BY DEF ScanLevel
<1>2. /\ i \in Level /\ i \in Nat /\ i' \in 0..NumLevels
      /\ \A m : m \in 0..(i' - 1) <=> m \in 0..(i - 1) \/ m = i
  BY <1>1, QueriesAssumption DEF TypeInv, Level
<1>3. query.key \in Int /\ reach \in SUBSET Key /\ stops \in SUBSET Key
  BY <1>1, QueryKey DEF KeysOf
<1>4. /\ \A k \in Key : (\E m \in 0..(i - 1) : data[m][k] # "absent") /\ InReach(k) => k \in erased
      /\ \A k \in erased : ErasedBelow(i, k)
      /\ lb # None => lb[1] < i /\ lb[2] >= query.key /\ LiveAt(lb[1], lb[2])
  BY <1>1 DEF QueryInv
<1>5. \A k \in Key : data[i][k] \in {"live", "deleted", "absent"}
  BY <1>2 DEF TypeInv, LevelData
<1>6. stops # {} => Min(stops) \in stops /\ \A y \in stops : Min(stops) <= y
  BY <1>3, KeysFinite
<1>7. \A k \in reach : k \in Key /\ k >= query.key /\ data[i][k] # "absent" /\ InReach(k)
  BY <1>3 DEF KeysOf, InReach
<1>8. \A k \in stops : k \in reach /\ data[i][k] # "deleted" /\ k \notin erased
  BY DEF Stops
<1> HIDE DEF reach, stops, more
(* What stops the loop is the newest item of its key.                      *)
<1>9. ASSUME NEW k \in stops PROVE LiveAt(i, k) /\ k \in Key /\ k >= query.key
  <2>1. k \in reach /\ k \in Key /\ data[i][k] # "deleted" /\ k \notin erased
    BY <1>3, <1>8
  <2>2. data[i][k] = "live" /\ k >= query.key /\ InReach(k)
    BY <1>5, <1>7, <2>1
  <2>3. \A m \in 0..(i - 1) : data[m][k] = "absent"
    BY <1>4, <2>1, <2>2
  <2> QED BY <2>1, <2>2, <2>3 DEF LiveAt, IsNewest
<1>10. ASSUME NEW k \in Key, NEW m \in 0..(i' - 1), data[m][k] # "absent", InReach(k)'
       PROVE  k \in erased'
  <2>1. k \in Int /\ k >= query.key /\ (lb' = None \/ k < lb'[2])
    BY <1>1, <1>10, QueriesAssumption DEF InReach
  <2>2. InReach(k) /\ \A s \in stops : k < s
    <3>1. CASE stops = {}
      <4>1. lb' = lb
        BY <1>1, <3>1
      <4> QED BY <2>1, <3>1, <4>1 DEF InReach
    <3>2. CASE stops # {}
      <4>1. lb' = <<i, Min(stops)>> /\ Min(stops) \in stops
        BY <1>1, <1>6, <3>2
      <4>2. lb' # None /\ lb'[2] = Min(stops)
        BY <4>1 DEF None
      <4>3. k < Min(stops) /\ Min(stops) \in Int
        BY <1>3, <2>1, <4>1, <4>2, QueriesAssumption
      <4>4. \A s \in stops : k < s
        BY <1>3, <1>6, <2>1, <3>2, <4>3, QueriesAssumption
      <4>5. lb = None \/ k < lb[2]
        <5> SUFFICES ASSUME lb # None PROVE k < lb[2]
          OBVIOUS
        <5>1. lb \in Pair
          BY DEF TypeInv
        <5>2. lb[2] \in Int
          BY <5>1, PairFacts
        <5>3. Min(stops) < lb[2]
          BY <1>7, <1>8, <4>1 DEF InReach
        <5> QED BY <2>1, <4>3, <5>2, <5>3
      <4> QED BY <2>1, <4>4, <4>5 DEF InReach
    <3> QED BY <3>1, <3>2
  <2>3. CASE m \in 0..(i - 1)
    BY <1>1, <1>4, <1>10, <2>2, <2>3
  <2>4. CASE m = i
    <3>1. k \in reach
      BY <1>10, <2>2, <2>4 DEF reach, KeysOf
    <3>2. k \notin stops
      BY <2>1, <2>2
    <3>3. data[i][k] = "deleted" \/ k \in erased
      BY <3>1, <3>2 DEF stops, Stops
    <3> QED BY <1>1, <2>2, <3>1, <3>3 DEF more
  <2> QED BY <1>2, <2>3, <2>4
<1>11. ASSUME NEW k \in erased' PROVE k \in Key /\ ErasedBelow(i', k)
  <2>1. CASE k \in erased
    <3>1. PICK l \in 0..(i - 1) : data[l][k] = "deleted" /\ IsNewest(l, k)
      BY <1>4, <2>1 DEF ErasedBelow
    <3>2. l \in 0..(i' - 1)
      BY <1>2
    <3> QED BY <2>1, <3>1, <3>2 DEF ErasedBelow, TypeInv
  <2>2. CASE k \in more /\ k \notin erased
    <3>1. k \in reach /\ data[i][k] = "deleted" /\ k \in Key /\ InReach(k)
      BY <1>7, <2>2 DEF more
    <3>2. \A m \in 0..(i - 1) : data[m][k] = "absent"
      BY <1>4, <2>2, <3>1
    <3>3. IsNewest(i, k) /\ i \in 0..(i' - 1)
      BY <1>2, <3>1, <3>2 DEF IsNewest
    <3> QED BY <3>1, <3>3 DEF ErasedBelow
  <2> QED BY <1>1, <2>1, <2>2
<1>12. ASSUME lb' # None
       PROVE  lb' \in Pair /\ lb'[1] < i' /\ lb'[2] >= query.key /\ LiveAt(lb'[1], lb'[2])
  <2>1. CASE stops = {}
    <3>1. lb' = lb /\ lb \in Pair
      BY <1>1, <1>12, <2>1 DEF TypeInv
    <3>2. lb[1] < i /\ lb[2] >= query.key /\ LiveAt(lb[1], lb[2]) /\ lb[1] \in Int
      BY <1>4, <1>12, <3>1, PairFacts
    <3>3. lb[1] < i'
      BY <1>1, <1>2, <3>2
    <3> QED BY <3>1, <3>2, <3>3
  <2>2. CASE stops # {}
    <3>1. PICK k \in stops : lb' = <<i, k>>
      BY <1>1, <1>6, <2>2
    <3>2. LiveAt(i, k) /\ k \in Key /\ k >= query.key
      BY <1>9
    <3>3. lb'[1] = i /\ lb'[2] = k /\ lb' \in Pair
      BY <1>2, <3>1, <3>2 DEF Pair
    <3>4. i < i'
      BY <1>1, <1>2
    <3> QED BY <3>2, <3>3, <3>4
  <2> QED BY <2>1, <2>2
<1>13. ASSUME result' # None
       PROVE  result' \in Pair /\ result'[2] = query.key /\ LiveAt(result'[1], result'[2])
  <2>1. query.key \in stops /\ result' = <<i, query.key>>
    BY <1>1, <1>13
  <2>2. LiveAt(i, query.key) /\ query.key \in Key
    BY <1>9, <2>1
  <2>3. result'[1] = i /\ result'[2] = query.key /\ result' \in Pair
    BY <1>2, <2>1, <2>2 DEF Pair
  <2> QED BY <2>2, <2>3
<1> QED
  BY <1>1, <1>2, <1>10, <1>11, <1>12, <1>13

(* An erased key is not live.                                              *)
LEMMA ErasedNotLive ==
    ASSUME TypeInv, NEW k \in Key, NEW n \in 0..NumLevels, ErasedBelow(n, k)
    PROVE  ~IsLive(k)
<1>1. PICK l \in 0..(n - 1) : data[l][k] = "deleted" /\ IsNewest(l, k)
  BY DEF ErasedBelow
<1>2. l \in Level
  BY QueriesAssumption DEF Level
<1> QED
  BY <1>1, <1>2, Newest

(* When the loop has passed all levels it knows the first live element.    *)
LEMMA LoopEnds ==
    ASSUME TypeInv, QueryInv, Seeks, i = NumLevels
    PROVE  IsFirst(IF lb = None THEN EndOf ELSE lb, query.key)
<1>1. /\ \A k \in Key : (\E m \in 0..(i - 1) : data[m][k] # "absent") /\ InReach(k) => k \in erased
      /\ \A k \in erased : ErasedBelow(i, k)
      /\ lb # None => lb[1] < i /\ lb[2] >= query.key /\ LiveAt(lb[1], lb[2])
  BY DEF QueryInv
<1>2. \A k \in Key : InReach(k) => ~IsLive(k)
  <2> SUFFICES ASSUME NEW k \in Key, InReach(k), IsLive(k) PROVE FALSE
    OBVIOUS
  <2>1. PICK l \in Level : LiveAt(l, k)
    BY LiveKeys
  <2>2. data[l][k] # "absent" /\ l \in 0..(i - 1)
    BY <2>1 DEF LiveAt, IsNewest, Level
  <2>3. ErasedBelow(i, k)
    BY <1>1, <2>2
  <2>4. i \in 0..NumLevels
    BY DEF TypeInv
  <2> QED BY <2>3, <2>4, ErasedNotLive
<1>3. CASE lb = None
  <2>1. \A k \in Key : k >= query.key => ~IsLive(k)
    BY <1>2, <1>3 DEF InReach
  <2> QED BY <1>3, <2>1 DEF IsFirst
<1>4. CASE lb # None
  <2>1. lb \in Pair /\ lb # EndOf
    BY <1>4, PairFacts DEF TypeInv
  <2>2. \A k \in Key : query.key <= k /\ k < lb[2] => ~IsLive(k)
    <3>1. query.key \in Int
      BY QueryKey
    <3> QED BY <1>2, <3>1, QueriesAssumption DEF InReach
  <2> QED BY <1>1, <1>4, <2>1, <2>2 DEF IsFirst
<1> QED
  BY <1>3, <1>4

-----------------------------------------------------------------------------
(* What a step that leaves data and the iterator alone leaves alone.       *)
LEMMA IteratorKept ==
    ASSUME TreeInv, WalkInv, data' = data, UNCHANGED iterator_vars
    PROVE  TreeInv' /\ WalkInv'
<1>1. /\ current' = current /\ initialized' = initialized /\ iterators' = iterators
      /\ unconsumed_count' = unconsumed_count /\ tree' = tree /\ tmp' = tmp
      /\ advancing' = advancing
  BY DEF iterator_vars
<1>2. TreeInv'
  <2>1. Ascending(iterators)'
    BY <1>1, DataKept DEF TreeInv, Ascending
  <2>2. (unconsumed_count = Cardinality(Unconsumed(iterators)))'
    BY <1>1 DEF TreeInv, Unconsumed
  <2>3. (iterators # << >> => TreeOn(tree, KeysAt(iterators)))'
    BY <1>1 DEF TreeInv, KeysAt
  <2> QED BY <2>1, <2>2, <2>3 DEF TreeInv
<1>3. (initialized /\ tmp = EndCursor => After(iterators, current[2], FALSE))'
  BY <1>1, DataKept DEF WalkInv, After, EndCursor
<1>4. (tmp # EndCursor => Taken(tmp, current[2]) /\ After(iterators, tmp[2], TRUE))'
  BY <1>1, DataKept DEF WalkInv, After, Taken, EndCursor
<1>5. (/\ ~initialized => iterators = << >>
       /\ ~advancing => tmp = EndCursor
       /\ advancing => initialized
       /\ initialized => current \in Pair)'
  BY <1>1 DEF WalkInv, EndCursor, Pair
<1> QED
  BY <1>2, <1>3, <1>4, <1>5 DEF WalkInv

(* A query finds the first live element.                                   *)
LEMMA ScanLevelStep ==
    ASSUME IInv, ScanLevel, UNCHANGED iterator_vars
    PROVE  TypeInv' /\ QueryInv' /\ ResultInv'
<1>1. TypeInv /\ QueryInv /\ ResultInv
  BY DEF IInv
<1>2. data' = data /\ query' = query /\ Seeks /\ UNCHANGED iterator_vars
  BY DEF ScanLevel
<1>3. /\ \A k \in Key : (\E m \in 0..(i' - 1) : data[m][k] # "absent") /\ InReach(k)' =>
             k \in erased'
      /\ \A k \in erased' : k \in Key /\ ErasedBelow(i', k)
      /\ lb' # None => /\ lb' \in Pair /\ lb'[1] < i' /\ lb'[2] >= query.key
                       /\ LiveAt(lb'[1], lb'[2])
      /\ result' # None => /\ result' \in Pair /\ result'[2] = query.key
                           /\ LiveAt(result'[1], result'[2])
      /\ i' \in 0..NumLevels
  BY <1>1, ScanKeeps
<1>4. TypeInv'
  <2>1. lb' \in {None} \cup Pair /\ result' \in {None, EndOf} \cup Pair /\ erased' \in SUBSET Key
    BY <1>3
  <2>2. /\ current' = current /\ initialized' = initialized /\ iterators' = iterators
        /\ tmp' = tmp /\ advancing' = advancing
    BY DEF iterator_vars
  <2> QED BY <1>1, <1>2, <1>3, <2>1, <2>2 DEF TypeInv
<1>5. QueryInv'
  <2>1. \A k \in erased' : ErasedBelow(i, k)'
    BY <1>2, <1>3, DataKept
  <2>2. lb' # None => LiveAt(lb[1], lb[2])'
    BY <1>2, <1>3, DataKept
  <2>3. \A k \in Key : (\E m \in 0..(i' - 1) : data'[m][k] # "absent") /\ InReach(k)' =>
             k \in erased'
    BY <1>2, <1>3
  <2> QED BY <1>2, <1>3, <2>1, <2>2, <2>3 DEF QueryInv, None
<1>6. ResultInv'
  <2>1. Seeks' /\ current' = current /\ current = None
    BY <1>1, <1>2 DEF Seeks, ResultInv, iterator_vars, NoCall
  <2>2. ASSUME result' # None PROVE IsFirst(result, query.key)'
    <3>1. /\ result' \in Pair /\ result'[2] = query.key /\ query.key \in Int
          /\ LiveAt(result'[1], result'[2])
      BY <1>1, <1>2, <1>3, <2>2, QueryKey
    <3>2. result' # EndOf
      BY <3>1, PairFacts
    <3>3. \A k \in Key : ~(query.key <= k /\ k < result'[2])
      BY <3>1, QueriesAssumption
    <3>4. LiveAt(result[1], result[2])'
      BY <1>2, <3>1, DataKept
    <3>5. result'[2] >= query'.key
      BY <1>2, <3>1
    <3>6. \A k \in Key : ~(query'.key <= k /\ k < result'[2])
      BY <1>2, <3>3
    <3> QED BY <3>2, <3>4, <3>5, <3>6 DEF IsFirst, EndOf
  <2> QED BY <2>1, <2>2 DEF ResultInv, None
<1> QED
  BY <1>4, <1>5, <1>6

LEMMA FinishSeekStep ==
    ASSUME IInv, FinishSeek, UNCHANGED iterator_vars
    PROVE  TypeInv' /\ QueryInv' /\ ResultInv'
<1>1. TypeInv /\ QueryInv /\ ResultInv
  BY DEF IInv
<1>2. /\ data' = data /\ query' = query /\ i' = i /\ lb' = lb /\ erased' = erased
      /\ Seeks /\ i = NumLevels /\ result' = IF lb = None THEN EndOf ELSE lb
  BY DEF FinishSeek
<1>3. /\ current' = current /\ initialized' = initialized /\ iterators' = iterators
      /\ tmp' = tmp /\ advancing' = advancing
  BY DEF iterator_vars
<1>4. TypeInv'
  <2>1. result' \in {None, EndOf} \cup Pair
    BY <1>1, <1>2 DEF TypeInv
  <2> QED BY <1>1, <1>2, <1>3, <2>1 DEF TypeInv
<1>5. QueryInv'
  <2>1. Seeks' /\ Seeks
    BY <1>2 DEF Seeks, NoCall
  <2> QED BY <1>1, <1>2, <2>1, DataKept DEF QueryInv, InReach, None
<1>6. ResultInv'
  <2>1. Seeks' /\ current' = None
    BY <1>1, <1>2, <1>3 DEF Seeks, ResultInv, NoCall
  <2>2. IsFirst(IF lb = None THEN EndOf ELSE lb, query.key)
    BY <1>1, <1>2, LoopEnds
  <2>3. IsFirst(result', query.key)
    BY <1>2, <2>2
  <2>4. IsFirst(result, query.key)'
    BY <1>2, <2>3, DataKept DEF IsFirst, EndOf
  <2> QED BY <2>1, <2>4 DEF ResultInv, None
<1> QED
  BY <1>4, <1>5, <1>6

(* lower_bound and begin make an iterator on what they found.              *)
LEMMA MakeIteratorStep ==
    ASSUME IInv, MakeIterator
    PROVE  IInv'
<1>1. TypeInv /\ QueryInv /\ ResultInv /\ TreeInv /\ WalkInv
  BY DEF IInv
<1>2. /\ Seeks /\ result # None /\ current' = IF result = EndOf THEN EndCursor ELSE result
      /\ query' = NoCall /\ i' = 0 /\ lb' = None /\ erased' = {} /\ result' = None
      /\ initialized' = FALSE /\ iterators' = << >> /\ unconsumed_count' = 0 /\ tree' = << >>
      /\ data' = data /\ tmp' = tmp /\ advancing' = advancing
  BY DEF MakeIterator, Fresh
<1>3. ~Seeks' /\ current = None
  BY <1>1, <1>2 DEF Seeks, ResultInv, NoCall
<1>4. ~initialized /\ ~advancing /\ tmp = EndCursor
  <2>1. current \notin Pair
    BY <1>3, PairFacts
  <2> QED BY <1>1, <2>1 DEF WalkInv
<1>5. current' \in {EndCursor} \cup Pair /\ current' # None
  <2>1. CASE result = EndOf
    BY <1>2, <2>1, PairFacts
  <2>2. CASE result # EndOf
    <3>1. result \in Pair
      BY <1>1, <1>2, <2>2 DEF TypeInv
    <3> QED BY <1>2, <2>2, <3>1, PairFacts
  <2> QED BY <2>1, <2>2
<1>6. TypeInv'
  <2>1. i' \in 0..NumLevels
    BY <1>2, QueriesAssumption
  <2>2. iterators' \in Seq(Level \X (Key \cup {End}))
    BY <1>2
  <2>3. current' \in {None, EndCursor} \cup Pair
    BY <1>5
  <2> QED BY <1>1, <1>2, <2>1, <2>2, <2>3 DEF TypeInv
<1>7. QueryInv'
  BY <1>3 DEF QueryInv
<1>8. ResultInv'
  BY <1>3, <1>5 DEF ResultInv, None
<1>9. TreeInv'
  <2>1. DOMAIN iterators' = {} /\ Len(iterators') = 0
    BY <1>2
  <2>2. Ascending(iterators)'
    BY <2>1, QueriesAssumption DEF Ascending
  <2>3. Unconsumed(iterators)' = {}
    BY <2>1 DEF Unconsumed
  <2>4. (unconsumed_count = Cardinality(Unconsumed(iterators)))'
    BY <1>2, <2>3, FS_EmptySet
  <2> QED BY <1>2, <2>2, <2>4 DEF TreeInv
<1>10. WalkInv'
  <2>1. tmp' = EndCursor /\ ~advancing' /\ ~initialized' /\ iterators' = << >>
    BY <1>2, <1>4
  <2> QED BY <2>1 DEF WalkInv, EndCursor
<1> QED
  BY <1>6, <1>7, <1>8, <1>9, <1>10 DEF IInv

-----------------------------------------------------------------------------
(* The tree of an iterator.                                                *)

LEMMA KeysOfIterators ==
    ASSUME NEW its \in Seq(Level \X (Key \cup {End})), its # << >>, Len(its) <= NumLevels
    PROVE  /\ AreKeys(KeysAt(its)) /\ Len(KeysAt(its)) = Len(its)
           /\ \A j \in DOMAIN its :
                 /\ its[j][2] # End => KeysAt(its)[j] = its[j][2] /\ its[j][2] < KeyMax
                 /\ its[j][2] = End => KeysAt(its)[j] = KeyMax
<1>1. Len(its) \in Nat /\ Len(its) > 0 /\ DOMAIN its = 1..Len(its) /\ Len(its) <= NoSource
  BY IteratorAssumption, QueriesAssumption, LoserTreeAssumption
<1>2. \A j \in 1..Len(its) : its[j][2] \in Key \cup {End}
  BY <1>1
<1>3. ASSUME NEW j \in 1..Len(its)
      PROVE  /\ KeysAt(its)[j] \in Int /\ KeysAt(its)[j] <= KeyMax
             /\ its[j][2] # End => KeysAt(its)[j] = its[j][2] /\ its[j][2] < KeyMax
             /\ its[j][2] = End => KeysAt(its)[j] = KeyMax
  <2>1. KeysAt(its)[j] = IF its[j][2] = End THEN KeyMax ELSE its[j][2]
    BY <1>1 DEF KeysAt
  <2>2. CASE its[j][2] = End
    BY <2>1, <2>2, LoserTreeAssumption
  <2>3. CASE its[j][2] # End
    <3>1. PICK x \in Key : x = its[j][2]
      BY <1>2, <2>3
    <3>2. x \in Int /\ x < KeyMax
      BY QueriesAssumption, IteratorAssumption
    <3> QED BY <2>1, <2>3, <3>1, <3>2, LoserTreeAssumption
  <2> QED BY <2>2, <2>3
<1>4. KeysAt(its) \in [1..Len(its) -> Int]
  BY <1>1, <1>3 DEF KeysAt
<1>5. KeysAt(its) \in Seq(Int) /\ Len(KeysAt(its)) = Len(its)
  BY <1>1, <1>4
<1> QED
  BY <1>1, <1>3, <1>5 DEF AreKeys

LEMMA CountUnconsumed ==
    ASSUME NEW its \in Seq(Level \X (Key \cup {End}))
    PROVE  /\ IsFiniteSet(Unconsumed(its)) /\ Cardinality(Unconsumed(its)) \in Nat
           /\ Cardinality(Unconsumed(its)) > 0 <=> \E j \in DOMAIN its : its[j][2] # End
<1>1. Unconsumed(its) \in SUBSET (1..Len(its)) /\ Len(its) \in Nat
  BY DEF Unconsumed
<1>2. IsFiniteSet(Unconsumed(its))
  <2>1. IsFiniteSet(1..Len(its))
    BY <1>1, FS_Interval
  <2> QED BY <1>1, <2>1, FS_Subset
<1>3. Cardinality(Unconsumed(its)) \in Nat
  BY <1>2, FS_CardinalityType
<1>4. Cardinality(Unconsumed(its)) = 0 <=> Unconsumed(its) = {}
  BY <1>2, FS_EmptySet
<1>5. Unconsumed(its) = {} <=> ~\E j \in DOMAIN its : its[j][2] # End
  BY DEF Unconsumed
<1> QED
  BY <1>2, <1>3, <1>4, <1>5

\* What the tree's winner is, while a sequence has an element.
IsSmallest(m) ==
    /\ m \in DOMAIN iterators /\ m = min_source(tree) + 1 /\ min_source(tree) \in Nat
    /\ it_min = iterators[m] /\ it_min \in Pair /\ it_min[2] \in KeysOf(it_min[1])
    /\ \A j \in DOMAIN iterators : iterators[j][2] # End => it_min[2] <= iterators[j][2]
    /\ \A j \in 1..(m - 1) : iterators[j][2] # it_min[2]

LEMMA Smallest ==
    ASSUME TypeInv, TreeInv, unconsumed_count > 0
    PROVE  iterators # << >> /\ \E m \in Nat : IsSmallest(m)
<1> DEFINE its == iterators
           keys == KeysAt(its)
           m == min_source(tree) + 1
<1>1. its \in Seq(Level \X (Key \cup {End})) /\ Len(its) <= NumLevels
  BY DEF TypeInv, TreeInv, Ascending
<1>2. PICK j0 \in DOMAIN its : its[j0][2] # End
  BY <1>1, CountUnconsumed DEF TreeInv
<1>3. its # << >> /\ Len(its) \in Nat /\ DOMAIN its = 1..Len(its)
  BY <1>1, <1>2
<1>4. /\ AreKeys(keys) /\ Len(keys) = Len(its)
      /\ \A j \in DOMAIN its : /\ its[j][2] # End => keys[j] = its[j][2] /\ its[j][2] < KeyMax
                               /\ its[j][2] = End => keys[j] = KeyMax
  BY <1>1, <1>3, KeysOfIterators
<1>5. TreeOn(tree, keys)
  BY <1>3 DEF TreeInv
<1> HIDE DEF keys
<1>6. /\ min_source(tree) \in 0..(Len(keys) - 1)
      /\ \A j \in 1..Len(keys) : \/ keys[min_source(tree) + 1] < keys[j]
                                 \/ keys[min_source(tree) + 1] = keys[j] /\ min_source(tree) < j
  BY <1>4, <1>5, TreeWinner
<1>7. m \in DOMAIN its /\ m \in Nat /\ min_source(tree) \in Nat
  BY <1>3, <1>4, <1>6
<1>8. \A j \in DOMAIN its : keys[j] \in Int
  BY <1>3, <1>4 DEF AreKeys
<1>9. its[m][2] # End
  <2> SUFFICES ASSUME its[m][2] = End PROVE FALSE
    OBVIOUS
  <2>1. keys[m] = KeyMax /\ keys[j0] < KeyMax
    BY <1>2, <1>4, <1>7
  <2>2. keys[m] <= keys[j0]
    BY <1>2, <1>3, <1>4, <1>6, <1>7, <1>8
  <2> QED BY <1>2, <1>8, <2>1, <2>2, LoserTreeAssumption
<1>10. it_min = its[m] /\ it_min \in Pair
  <2>1. its[m] \in Level \X (Key \cup {End})
    BY <1>1, <1>7
  <2> QED BY <1>9, <2>1 DEF it_min, Pair
<1>11. it_min[2] \in KeysOf(it_min[1])
  BY <1>7, <1>9, <1>10 DEF TreeInv, Ascending
<1>12. \A j \in DOMAIN its : its[j][2] # End => it_min[2] <= its[j][2]
  <2> SUFFICES ASSUME NEW j \in DOMAIN its, its[j][2] # End PROVE it_min[2] <= its[j][2]
    OBVIOUS
  <2>1. keys[m] = it_min[2] /\ keys[j] = its[j][2]
    BY <1>4, <1>7, <1>9, <1>10
  <2> QED BY <1>3, <1>4, <1>6, <1>7, <1>8, <2>1
<1>13. \A j \in 1..(m - 1) : its[j][2] # it_min[2]
  <2> SUFFICES ASSUME NEW j \in 1..(m - 1), its[j][2] = it_min[2] PROVE FALSE
    OBVIOUS
  <2>1. j \in DOMAIN its
    BY <1>3, <1>7
  <2>2. keys[m] = it_min[2] /\ keys[j] = it_min[2]
    BY <1>4, <1>7, <1>9, <1>10, <2>1
  <2>3. keys[m] \in Int
    BY <1>7, <1>8
  <2>4. min_source(tree) \in Int /\ ~(min_source(tree) < j)
    BY <1>6
  <2> QED BY <1>3, <1>4, <1>6, <2>1, <2>2, <2>3, <2>4
<1>14. IsSmallest(m)
  BY <1>7, <1>10, <1>11, <1>12, <1>13 DEF IsSmallest
<1> QED
  BY <1>3, <1>7, <1>14

(* step moves the smallest sequence on, and replays its games.             *)
LEMMA StepKeeps ==
    ASSUME TypeInv, TreeInv, unconsumed_count > 0, step, data' = data
    PROVE  /\ TreeInv' /\ iterators' \in Seq(Level \X (Key \cup {End}))
           /\ iterators' = [iterators EXCEPT ![min_source(tree) + 1] =
                               <<it_min[1], upper_bound(it_min[1], it_min[2])>>]
<1> DEFINE its == iterators
           next == upper_bound(it_min[1], it_min[2])
           key == IF next = End THEN KeyMax ELSE next
           its2 == [its EXCEPT ![min_source(tree) + 1] = <<it_min[1], next>>]
<1>1. /\ iterators' = its2
      /\ tree' = delete_min_insert(tree, next_pow2(Len(its)), key)
      /\ unconsumed_count' = IF next = End THEN unconsumed_count - 1 ELSE unconsumed_count
  BY DEF step
<1>2. its \in Seq(Level \X (Key \cup {End})) /\ Ascending(its) /\ Len(its) <= NumLevels
  BY DEF TypeInv, TreeInv, Ascending
<1>3. its # << >> /\ TreeOn(tree, KeysAt(its))
  BY Smallest DEF TreeInv
<1>4. PICK m \in Nat : IsSmallest(m)
  BY Smallest
<1>5. /\ m \in DOMAIN its /\ m = min_source(tree) + 1 /\ it_min = its[m]
      /\ it_min[1] \in Level /\ it_min[2] \in Int /\ it_min[2] # End
  BY <1>4, PairFacts DEF IsSmallest
<1>6. next = End \/ (next # End /\ next \in KeysOf(it_min[1]) /\ next \in Key)
  BY <1>5, UpperBound
<1> HIDE DEF next
<1>7. /\ DOMAIN its2 = DOMAIN its /\ Len(its2) = Len(its)
      /\ its2[m] = <<it_min[1], next>> /\ \A j \in DOMAIN its : j # m => its2[j] = its[j]
      /\ its2 \in Seq(Level \X (Key \cup {End}))
  <2>1. <<it_min[1], next>> \in Level \X (Key \cup {End})
    BY <1>5, <1>6
  <2> QED BY <1>2, <1>5, <2>1
<1> HIDE DEF its2
<1>8. Ascending(its2)
  <2>1. \A j \in DOMAIN its2 : its2[j][1] = its[j][1]
    BY <1>5, <1>7
  <2>2. \A j \in DOMAIN its2 : its2[j][2] # End => its2[j][2] \in KeysOf(its2[j][1])
    BY <1>2, <1>5, <1>6, <1>7 DEF Ascending
  <2> QED BY <1>2, <1>7, <2>1, <2>2 DEF Ascending
<1>9. Ascending(iterators)'
  BY <1>1, <1>8, DataKept DEF Ascending
<1>10. (unconsumed_count = Cardinality(Unconsumed(iterators)))'
  <2>1. unconsumed_count = Cardinality(Unconsumed(its)) /\ IsFiniteSet(Unconsumed(its))
        /\ unconsumed_count \in Nat
    BY <1>2, CountUnconsumed DEF TreeInv
  <2>2. m \in Unconsumed(its)
    BY <1>5 DEF Unconsumed
  <2>3. CASE next = End
    <3>1. Unconsumed(its2) = Unconsumed(its) \ {m}
      BY <1>7, <2>3 DEF Unconsumed
    <3>2. Cardinality(Unconsumed(its2)) = unconsumed_count - 1
      BY <2>1, <2>2, <3>1, FS_RemoveElement
    <3> QED BY <1>1, <2>3, <3>2 DEF Unconsumed
  <2>4. CASE next # End
    <3>1. Unconsumed(its2) = Unconsumed(its)
      BY <1>5, <1>7, <2>4 DEF Unconsumed
    <3>2. Cardinality(Unconsumed(its2)) = unconsumed_count
      BY <2>1, <3>1
    <3> QED BY <1>1, <2>4, <3>2 DEF Unconsumed
  <2> QED BY <2>3, <2>4
<1>11. TreeOn(tree', KeysAt(its2))
  <2>1. AreKeys(KeysAt(its)) /\ Len(KeysAt(its)) = Len(its)
    BY <1>2, <1>3, KeysOfIterators
  <2>2. key \in Int /\ key <= KeyMax
    <3>1. CASE next = End
      BY <3>1, LoserTreeAssumption
    <3>2. CASE next # End
      <4>1. next \in Int /\ next < KeyMax
        BY <1>6, <3>2, QueriesAssumption, IteratorAssumption
      <4> QED BY <3>2, <4>1, LoserTreeAssumption
    <3> QED BY <3>1, <3>2
  <2>3. KeysAt(its2) = [KeysAt(its) EXCEPT ![min_source(tree) + 1] = key]
    <3>1. DOMAIN KeysAt(its) = DOMAIN its /\ DOMAIN KeysAt(its2) = DOMAIN its
      BY <1>7 DEF KeysAt
    <3>2. KeysAt(its2)[m] = key
      BY <1>5, <1>7 DEF KeysAt
    <3>3. \A j \in DOMAIN its : j # m => KeysAt(its2)[j] = KeysAt(its)[j]
      BY <1>7 DEF KeysAt
    <3>4. KeysAt(its2) = [j \in DOMAIN its |-> KeysAt(its2)[j]]
      BY <1>7 DEF KeysAt
    <3>5. KeysAt(its) = [j \in DOMAIN its |-> KeysAt(its)[j]]
      BY DEF KeysAt
    <3> HIDE DEF key
    <3> QED BY <1>5, <3>1, <3>2, <3>3, <3>4, <3>5
  <2> HIDE DEF key
  <2>4. TreeOn(delete_min_insert(tree, next_pow2(Len(KeysAt(its))), key),
               [KeysAt(its) EXCEPT ![min_source(tree) + 1] = key])
    BY <1>3, <2>1, <2>2, TreeSteps
  <2> QED BY <1>1, <2>1, <2>3, <2>4
<1>12. TreeOn(tree, KeysAt(iterators))'
  BY <1>1, <1>11 DEF KeysAt
<1>13. TreeInv'
  BY <1>9, <1>10, <1>12 DEF TreeInv
<1> QED
  BY <1>1, <1>7, <1>13 DEF its2, next

-----------------------------------------------------------------------------
(* lazy_initialize.                                                        *)

\* One level of the loop, and the equations of the loop.
Emplace(s, l, k) ==
    IF upper_bound(l, k) = End THEN s ELSE Append(s, <<l, upper_bound(l, k)>>)
IsEmplaced(f, k) ==
    f = [n \in 0..NumLevels |-> IF n = 0 THEN << >> ELSE Emplace(f[n - 1], n - 1, k)]

LEMMA EmplacedExists ==
    ASSUME NEW k \in Int
    PROVE  \E f : IsEmplaced(f, k)
<1> DEFINE X == Seq(Pair)
           G == [n \in 0..(NumLevels - 1) |-> [s \in X |-> Emplace(s, n, k)]]
<1>1. ASSUME NEW n \in 0..(NumLevels - 1), NEW s \in X PROVE Emplace(s, n, k) \in X
  <2>1. n \in Level
    BY QueriesAssumption DEF Level
  <2>2. CASE upper_bound(n, k) = End
    BY <2>2 DEF Emplace
  <2>3. CASE upper_bound(n, k) # End
    <3>1. <<n, upper_bound(n, k)>> \in Pair
      BY <2>1, <2>3, UpperBound DEF Pair
    <3> QED BY <2>3, <3>1 DEF Emplace
  <2> QED BY <2>2, <2>3
<1>2. << >> \in X /\ NumLevels \in Nat
  BY QueriesAssumption
<1> HIDE DEF X
<1>3. G \in [0..(NumLevels - 1) -> [X -> X]]
  BY <1>1
<1> HIDE DEF G
<1>4. PICK f : Iterates(f, X, << >>, G, NumLevels)
  BY <1>2, <1>3, RecursionExists
<1>5. /\ f \in [0..NumLevels -> X] /\ f[0] = << >>
      /\ \A n \in 1..NumLevels : f[n] = G[n - 1][f[n - 1]]
  BY <1>4 DEF Iterates
<1>6. ASSUME NEW n \in 0..NumLevels
      PROVE  f[n] = IF n = 0 THEN << >> ELSE Emplace(f[n - 1], n - 1, k)
  <2>1. CASE n = 0
    BY <1>5, <2>1
  <2>2. CASE n # 0
    <3>1. n \in 1..NumLevels /\ n - 1 \in 0..(NumLevels - 1) /\ n - 1 \in 0..NumLevels
      BY <1>2, <2>2
    <3>2. f[n - 1] \in X
      BY <1>5, <3>1
    <3>3. G[n - 1][f[n - 1]] = Emplace(f[n - 1], n - 1, k)
      BY <3>1, <3>2 DEF G
    <3> QED BY <1>5, <2>2, <3>1, <3>3
  <2> QED BY <2>1, <2>2
<1>7. f = [n \in 0..NumLevels |-> f[n]]
  BY <1>5
<1>8. IsEmplaced(f, k)
  BY <1>6, <1>7 DEF IsEmplaced
<1> QED
  BY <1>8

\* What the loop has emplaced when it comes to level n.
UpTo(s, n, k) ==
    /\ s \in Seq(Pair) /\ Len(s) <= n
    /\ \A j \in DOMAIN s : s[j][1] < n /\ s[j][2] = upper_bound(s[j][1], k)
    /\ \A a, b \in DOMAIN s : a < b => s[a][1] < s[b][1]
    /\ \A l \in 0..(n - 1) : (\A j \in DOMAIN s : s[j][1] # l) => upper_bound(l, k) = End

LEMMA EmplaceKeeps ==
    ASSUME NEW k \in Int, NEW n \in Level, NEW s, UpTo(s, n, k)
    PROVE  UpTo(Emplace(s, n, k), n + 1, k)
<1>1. /\ s \in Seq(Pair) /\ Len(s) <= n /\ Len(s) \in Nat /\ DOMAIN s = 1..Len(s)
      /\ \A j \in DOMAIN s : s[j][1] < n /\ s[j][2] = upper_bound(s[j][1], k)
      /\ \A a, b \in DOMAIN s : a < b => s[a][1] < s[b][1]
      /\ \A l \in 0..(n - 1) : (\A j \in DOMAIN s : s[j][1] # l) => upper_bound(l, k) = End
  BY DEF UpTo
<1>2. n \in Nat /\ \A l \in 0..((n + 1) - 1) : l \in 0..(n - 1) \/ l = n
  BY QueriesAssumption DEF Level
<1>3. \A j \in DOMAIN s : s[j][1] \in Int
  <2> SUFFICES ASSUME NEW j \in DOMAIN s PROVE s[j][1] \in Int
    OBVIOUS
  <2>1. s[j] \in Pair
    BY <1>1
  <2> QED BY <2>1, PairFacts
<1>4. CASE upper_bound(n, k) = End
  <2>1. Emplace(s, n, k) = s
    BY <1>4 DEF Emplace
  <2>2. \A j \in DOMAIN s : s[j][1] < n + 1
    BY <1>1, <1>2, <1>3
  <2>3. Len(s) <= n + 1
    BY <1>1, <1>2
  <2>4. \A l \in 0..((n + 1) - 1) : (\A j \in DOMAIN s : s[j][1] # l) => upper_bound(l, k) = End
    BY <1>1, <1>2, <1>4
  <2>5. UpTo(s, n + 1, k)
    BY <1>1, <2>2, <2>3, <2>4 DEF UpTo
  <2> QED BY <2>1, <2>5
<1>5. CASE upper_bound(n, k) # End
  <2> DEFINE new == <<n, upper_bound(n, k)>>
             t == Append(s, new)
  <2>1. Emplace(s, n, k) = t
    BY <1>5 DEF Emplace
  <2>2. new \in Pair /\ new[1] = n /\ new[2] = upper_bound(n, k)
    BY <1>5, UpperBound DEF Pair
  <2> HIDE DEF new
  <2>3. /\ t \in Seq(Pair) /\ Len(t) = Len(s) + 1 /\ DOMAIN t = 1..(Len(s) + 1)
        /\ t[Len(s) + 1] = new /\ \A j \in DOMAIN s : j \in DOMAIN t /\ t[j] = s[j]
    BY <1>1, <2>2
  <2> HIDE DEF t
  <2>4. \A j \in DOMAIN t : j \in DOMAIN s \/ j = Len(s) + 1
    BY <1>1, <2>3
  <2>5. \A j \in DOMAIN t : t[j][1] < n + 1 /\ t[j][2] = upper_bound(t[j][1], k)
    <3> SUFFICES ASSUME NEW j \in DOMAIN t
                 PROVE  t[j][1] < n + 1 /\ t[j][2] = upper_bound(t[j][1], k)
      OBVIOUS
    <3>1. CASE j \in DOMAIN s
      BY <1>1, <1>2, <1>3, <2>3, <3>1
    <3>2. CASE j = Len(s) + 1
      BY <1>2, <2>2, <2>3, <3>2
    <3> QED BY <2>4, <3>1, <3>2
  <2>6. \A a, b \in DOMAIN t : a < b => t[a][1] < t[b][1]
    <3> SUFFICES ASSUME NEW a \in DOMAIN t, NEW b \in DOMAIN t, a < b PROVE t[a][1] < t[b][1]
      OBVIOUS
    <3>1. a \in DOMAIN s
      BY <1>1, <2>3, <2>4
    <3>2. CASE b \in DOMAIN s
      BY <1>1, <2>3, <3>1, <3>2
    <3>3. CASE b = Len(s) + 1
      BY <1>1, <2>2, <2>3, <3>1, <3>3
    <3> QED BY <2>4, <3>2, <3>3
  <2>7. \A l \in 0..((n + 1) - 1) : (\A j \in DOMAIN t : t[j][1] # l) => upper_bound(l, k) = End
    <3> SUFFICES ASSUME NEW l \in 0..((n + 1) - 1), \A j \in DOMAIN t : t[j][1] # l
                 PROVE  upper_bound(l, k) = End
      OBVIOUS
    <3>1. l # n
      BY <1>1, <2>2, <2>3
    <3>2. \A j \in DOMAIN s : s[j][1] # l
      BY <2>3
    <3> QED BY <1>1, <1>2, <3>1, <3>2
  <2>8. Len(t) <= n + 1
    BY <1>1, <1>2, <2>3
  <2>9. UpTo(t, n + 1, k)
    BY <2>3, <2>5, <2>6, <2>7, <2>8 DEF UpTo
  <2> QED BY <2>1, <2>9
<1> QED
  BY <1>4, <1>5

(* A cursor for each level that goes on, at its first greater key.         *)
LEMMA PositionedFacts ==
    ASSUME NEW k \in Int, k = current[2]
    PROVE  /\ Positioned \in Seq(Pair) /\ Ascending(Positioned)
           /\ \A j \in DOMAIN Positioned : Positioned[j][2] # End
           /\ After(Positioned, k, FALSE)
<1> DEFINE f == CHOOSE g : g = [n \in 0..NumLevels |->
                    IF n = 0 THEN << >>
                    ELSE IF upper_bound(n - 1, k) = End THEN g[n - 1]
                    ELSE Append(g[n - 1], <<n - 1, upper_bound(n - 1, k)>>)]
<1>1. Positioned = f[NumLevels]
  BY DEF Positioned, Position
<1>2. IsEmplaced(f, k)
  <2>1. \E g : IsEmplaced(g, k)
    BY EmplacedExists
  <2> QED BY <2>1 DEF IsEmplaced, Emplace
<1> HIDE DEF f
<1>3. f[0] = << >> /\ \A n \in 1..NumLevels : f[n] = Emplace(f[n - 1], n - 1, k)
  BY <1>2, QueriesAssumption DEF IsEmplaced
<1> DEFINE S == {n \in Nat : n <= NumLevels => UpTo(f[n], n, k)}
<1>4. 0 \in S
  <2>1. UpTo(<< >>, 0, k)
    BY DEF UpTo
  <2> QED BY <1>3, <2>1
<1>5. ASSUME NEW n \in Nat, n \in S PROVE n + 1 \in S
  <2> SUFFICES ASSUME n + 1 <= NumLevels PROVE UpTo(f[n + 1], n + 1, k)
    OBVIOUS
  <2>1. UpTo(f[n], n, k) /\ n + 1 \in 1..NumLevels /\ (n + 1) - 1 = n /\ n \in Level
    BY <1>5, QueriesAssumption DEF Level
  <2>2. f[n + 1] = Emplace(f[n], n, k)
    BY <1>3, <2>1
  <2> QED BY <2>1, <2>2, EmplaceKeeps
<1>6. \A n \in Nat : n \in S
  <2> HIDE DEF S
  <2> QED BY <1>4, <1>5, SetInduction
<1>7. UpTo(Positioned, NumLevels, k)
  BY <1>1, <1>6, QueriesAssumption
<1>8. /\ Positioned \in Seq(Pair) /\ Len(Positioned) <= NumLevels
      /\ \A j \in DOMAIN Positioned : Positioned[j][2] = upper_bound(Positioned[j][1], k)
      /\ \A a, b \in DOMAIN Positioned : a < b => Positioned[a][1] < Positioned[b][1]
      /\ \A l \in Level : (\A j \in DOMAIN Positioned : Positioned[j][1] # l) =>
             upper_bound(l, k) = End
  BY <1>7 DEF UpTo, Level
<1>9. ASSUME NEW j \in DOMAIN Positioned
      PROVE  Positioned[j][2] # End /\ Positioned[j][2] \in KeysOf(Positioned[j][1])
  <2>1. Positioned[j] \in Pair
    BY <1>8
  <2>2. Positioned[j][2] # End /\ Positioned[j][1] \in Level
    BY <2>1, PairFacts
  <2> QED BY <1>8, <2>2, UpperBound
<1>10. Ascending(Positioned) /\ After(Positioned, k, FALSE)
  BY <1>8, <1>9 DEF Ascending, After
<1> QED
  BY <1>8, <1>9, <1>10

(* The levels that are not in iterators hold no key to come, those in it   *)
(* are at their next.                                                      *)
ComesTo(j, l, k, x) ==
    /\ iterators[j][1] = l /\ iterators[j][2] = upper_bound(l, k)
    /\ iterators[j][2] # End /\ iterators[j][2] <= x

LEMMA NextOfLevel ==
    ASSUME TypeInv, NEW k \in Int, After(iterators, k, FALSE), NEW l \in Level, NEW x \in KeysOf(l),
           x > k
    PROVE  \E j \in DOMAIN iterators : ComesTo(j, l, k, x)
<1>1. KeysOf(l) \in SUBSET Int
  BY QueriesAssumption DEF KeysOf
<1>2. upper_bound(l, k) # End /\ upper_bound(l, k) <= x
  BY <1>1, UpperBound
<1>3. PICK j \in DOMAIN iterators : iterators[j][1] = l
  BY <1>2 DEF After
<1>4. iterators[j][2] = upper_bound(l, k)
  BY <1>3 DEF After
<1> QED
  BY <1>2, <1>3, <1>4 DEF ComesTo

(* The smallest sequence holds the newest item of the next key.            *)
LEMMA TakesNext ==
    ASSUME TypeInv, TreeInv, NEW k \in Int, After(iterators, k, FALSE), unconsumed_count > 0
    PROVE  /\ it_min \in Pair /\ it_min[2] > k /\ IsNewest(it_min[1], it_min[2])
           /\ \A x \in Key : k < x /\ x < it_min[2] => ~IsLive(x)
           /\ After([iterators EXCEPT ![min_source(tree) + 1] =
                         <<it_min[1], upper_bound(it_min[1], it_min[2])>>], it_min[2], TRUE)
<1> DEFINE its == iterators
           l0 == it_min[1]
           k0 == it_min[2]
           its2 == [its EXCEPT ![min_source(tree) + 1] = <<l0, upper_bound(l0, k0)>>]
<1>1. PICK m \in Nat : IsSmallest(m)
  BY Smallest
<1>2. /\ m \in DOMAIN its /\ m = min_source(tree) + 1
      /\ it_min = its[m] /\ it_min \in Pair /\ k0 \in KeysOf(l0)
      /\ \A j \in DOMAIN its : its[j][2] # End => k0 <= its[j][2]
      /\ \A j \in 1..(m - 1) : its[j][2] # k0
  BY <1>1 DEF IsSmallest
<1>3. l0 \in Level /\ k0 \in Key /\ k0 \in Int /\ k0 # End
  BY <1>2, PairFacts
<1>4. /\ its \in Seq(Level \X (Key \cup {End})) /\ DOMAIN its = 1..Len(its)
      /\ \A a, b \in DOMAIN its : a < b => its[a][1] < its[b][1]
  BY DEF TypeInv, TreeInv, Ascending
<1>5. \A j \in DOMAIN its : its[j][1] \in Level /\ its[j][1] \in Int
  <2> SUFFICES ASSUME NEW j \in DOMAIN its PROVE its[j][1] \in Level /\ its[j][1] \in Int
    OBVIOUS
  <2>1. its[j] \in Level \X (Key \cup {End})
    BY <1>4
  <2> QED BY <2>1, QueriesAssumption DEF Level
<1>6. k0 = upper_bound(l0, k) /\ k0 > k
  <2>1. k0 = upper_bound(l0, k)
    BY <1>2 DEF After
  <2> QED BY <1>3, <2>1, UpperBound
<1> HIDE DEF its, l0, k0
(* No level has a key between k and k0.                                    *)
<1>7. ASSUME NEW l \in Level, NEW x \in KeysOf(l), x > k PROVE k0 <= x
  <2>1. PICK j \in DOMAIN its : its[j][2] # End /\ its[j][2] <= x /\ its[j][2] = upper_bound(l, k)
    <3>1. \E j \in DOMAIN iterators : ComesTo(j, l, k, x)
      BY <1>7, NextOfLevel
    <3> QED BY <3>1 DEF its, ComesTo
  <2>2. its[j][2] \in Int /\ x \in Int
    BY <2>1, UpperBound, QueriesAssumption DEF KeysOf
  <2> QED BY <1>2, <1>3, <2>1, <2>2
<1>8. \A x \in Key : k < x /\ x < k0 => ~IsLive(x)
  <2> SUFFICES ASSUME NEW x \in Key, k < x, x < k0, IsLive(x) PROVE FALSE
    OBVIOUS
  <2>1. PICK l \in Level : x \in KeysOf(l)
    BY LiveKeys DEF LiveAt, IsNewest, KeysOf
  <2>2. x \in Int
    BY QueriesAssumption
  <2> QED BY <1>3, <1>7, <2>1, <2>2
(* A newer level with k0 would have a sequence at k0 before this one.      *)
<1>9. IsNewest(l0, k0)
  <2> SUFFICES ASSUME NEW l \in 0..(l0 - 1), data[l][k0] # "absent" PROVE FALSE
    BY <1>2 DEF IsNewest, KeysOf
  <2>1. l \in Level /\ k0 \in KeysOf(l) /\ l < l0 /\ l \in Int /\ l0 \in Int
    BY <1>3, QueriesAssumption DEF KeysOf, Level
  <2>2. PICK j \in DOMAIN its : its[j][1] = l /\ its[j][2] # End /\ its[j][2] <= k0
                                /\ its[j][2] = upper_bound(l, k)
    <3>1. \E j \in DOMAIN iterators : ComesTo(j, l, k, k0)
      BY <1>6, <2>1, NextOfLevel
    <3> QED BY <3>1 DEF its, ComesTo
  <2>3. its[j][2] \in Int
    BY <2>1, <2>2, UpperBound
  <2>4. its[j][2] = k0
    BY <1>2, <1>3, <2>2, <2>3
  <2>5. ~(m < j) /\ m # j
    <3>1. its[m][1] = l0
      BY <1>2 DEF l0
    <3> QED BY <1>2, <1>4, <2>1, <2>2, <3>1
  <2>6. j \in 1..(m - 1)
    BY <1>2, <1>4, <2>5
  <2> QED BY <1>2, <2>4, <2>6
<1>10. After(its2, k0, TRUE)
  <2>1. /\ DOMAIN its2 = DOMAIN its
        /\ its2[m] = <<l0, upper_bound(l0, k0)>> /\ \A j \in DOMAIN its : j # m => its2[j] = its[j]
    BY <1>2, <1>4
  <2>2. its[m][1] = l0
    BY <1>2 DEF l0
  <2> HIDE DEF its2
  <2>3. ASSUME NEW j \in DOMAIN its2
        PROVE  its2[j][2] = upper_bound(its2[j][1], k0) \/ its2[j][2] = k0
    <3>1. CASE j = m
      BY <2>1, <3>1
    <3>2. CASE j # m
      <4>1. its2[j] = its[j] /\ its[j][1] \in Level
        BY <1>5, <2>1, <3>2
      <4>2. its[j][2] = upper_bound(its[j][1], k)
        BY <2>1 DEF After, its
      <4>3. CASE its[j][2] = k0
        BY <4>1, <4>3
      <4>4. CASE its[j][2] # k0
        <5>1. upper_bound(its[j][1], k) # End => k0 < upper_bound(its[j][1], k)
          <6> SUFFICES ASSUME upper_bound(its[j][1], k) # End
                       PROVE  k0 < upper_bound(its[j][1], k)
            OBVIOUS
          <6>1. upper_bound(its[j][1], k) \in Int
            BY <4>1, UpperBound
          <6> QED BY <1>2, <1>3, <2>1, <4>2, <4>4, <6>1
        <5>2. upper_bound(its[j][1], k0) = upper_bound(its[j][1], k)
          BY <1>3, <1>6, <4>1, <5>1, UpperBoundMoves
        <5> QED BY <4>1, <4>2, <5>2
      <4> QED BY <4>3, <4>4
    <3> QED BY <3>1, <3>2
  <2>4. ASSUME NEW l \in Level, \A j \in DOMAIN its2 : its2[j][1] # l
        PROVE  upper_bound(l, k0) = End
    <3>1. \A j \in DOMAIN its : its[j][1] # l
      BY <2>1, <2>2, <2>4
    <3>2. upper_bound(l, k) = End
      BY <3>1 DEF After, its
    <3>3. upper_bound(l, k0) = upper_bound(l, k)
      BY <1>3, <1>6, <3>2, UpperBoundMoves
    <3> QED BY <3>2, <3>3
  <2> QED BY <2>3, <2>4 DEF After
<1> QED
  BY <1>2, <1>6, <1>8, <1>9, <1>10 DEF its, l0, k0

(* An older item of the key just taken is passed over.                     *)
LEMMA SkipsOlder ==
    ASSUME TypeInv, TreeInv, NEW k \in Key, After(iterators, k, TRUE), unconsumed_count > 0,
           it_min[2] = k
    PROVE  After([iterators EXCEPT ![min_source(tree) + 1] =
                      <<it_min[1], upper_bound(it_min[1], it_min[2])>>], k, TRUE)
<1> DEFINE its == iterators
           its2 == [its EXCEPT ![min_source(tree) + 1] = <<it_min[1], upper_bound(it_min[1], k)>>]
<1>1. PICK m \in Nat : IsSmallest(m)
  BY Smallest
<1>2. m \in DOMAIN its /\ m = min_source(tree) + 1 /\ it_min = its[m]
  BY <1>1 DEF IsSmallest
<1>3. /\ DOMAIN its2 = DOMAIN its
      /\ its2[m] = <<it_min[1], upper_bound(it_min[1], k)>>
      /\ \A j \in DOMAIN its : j # m => its2[j] = its[j]
  <2>1. its \in Seq(Level \X (Key \cup {End}))
    BY DEF TypeInv
  <2> QED BY <1>2, <2>1
<1> HIDE DEF its2
<1>4. \A j \in DOMAIN its2 : its2[j][2] = upper_bound(its2[j][1], k) \/ its2[j][2] = k
  BY <1>3 DEF After
<1>5. \A l \in Level : (\A j \in DOMAIN its2 : its2[j][1] # l) => upper_bound(l, k) = End
  BY <1>2, <1>3 DEF After
<1>6. After(its2, k, TRUE)
  BY <1>4, <1>5 DEF After
<1> QED
  BY <1>6 DEF its2

LEMMA NoneBehind ==
    ASSUME TypeInv, TreeInv, NEW k \in Key, After(iterators, k, TRUE),
           ~(unconsumed_count > 0 /\ it_min[2] = k)
    PROVE  After(iterators, k, FALSE)
<1> SUFFICES ASSUME NEW j \in DOMAIN iterators, iterators[j][2] = k
             PROVE  iterators[j][2] = upper_bound(iterators[j][1], k)
  BY DEF After
<1>1. iterators \in Seq(Level \X (Key \cup {End}))
  BY DEF TypeInv
<1>2. k \in Int /\ k # End
  BY QueriesAssumption, IteratorAssumption
<1>3. unconsumed_count > 0
  BY <1>1, <1>2, CountUnconsumed DEF TreeInv
<1>4. PICK m \in Nat : IsSmallest(m)
  BY <1>3, Smallest
<1>5. /\ m \in DOMAIN iterators /\ it_min = iterators[m] /\ it_min \in Pair
      /\ it_min[2] <= iterators[j][2]
  BY <1>2, <1>4 DEF IsSmallest
<1>6. it_min[2] \in Int /\ it_min[1] \in Level /\ it_min[2] # End
  BY <1>5, PairFacts
<1>7. it_min[2] = upper_bound(it_min[1], k)
  BY <1>3, <1>5 DEF After
<1>8. it_min[2] > k
  BY <1>2, <1>6, <1>7, UpperBound
<1> QED
  BY <1>2, <1>5, <1>6, <1>8

(* With all sequences at their end there is no live key to come.           *)
LEMMA AllConsumed ==
    ASSUME TypeInv, TreeInv, NEW k \in Int, After(iterators, k, FALSE), ~(unconsumed_count > 0)
    PROVE  \A x \in Key : x > k => ~IsLive(x)
<1> SUFFICES ASSUME NEW x \in Key, x > k, IsLive(x) PROVE FALSE
  OBVIOUS
<1>1. PICK l \in Level : x \in KeysOf(l)
  BY LiveKeys DEF LiveAt, IsNewest, KeysOf
<1>2. PICK j \in DOMAIN iterators : iterators[j][2] # End
  BY <1>1, NextOfLevel DEF ComesTo
<1>3. iterators \in Seq(Level \X (Key \cup {End}))
  BY DEF TypeInv
<1> QED
  BY <1>2, <1>3, CountUnconsumed DEF TreeInv

-----------------------------------------------------------------------------
(* The steps of an increment.                                              *)

\* What a step of the walk makes of the variables.
LEMMA WalkTypes ==
    ASSUME IInv, current # None, data' = data, UNCHANGED query_vars,
           current' \in {EndCursor} \cup Pair, initialized' \in BOOLEAN,
           iterators' \in Seq(Level \X (Key \cup {End})), tmp' \in {EndCursor} \cup Pair,
           advancing' \in BOOLEAN
    PROVE  TypeInv' /\ QueryInv' /\ ResultInv'
<1>1. TypeInv /\ ResultInv
  BY DEF IInv
<1>2. query' = query /\ i' = i /\ lb' = lb /\ erased' = erased /\ result' = result
  BY DEF query_vars, locals
<1>3. TypeInv'
  BY <1>1, <1>2 DEF TypeInv
<1>4. ~Seeks' /\ current' # None
  BY <1>1, <1>2, PairFacts DEF ResultInv, Seeks, NoCall
<1> QED
  BY <1>3, <1>4 DEF QueryInv, ResultInv, None

LEMMA IncrementStep ==
    ASSUME IInv, Increment
    PROVE  IInv'
<1>1. TypeInv /\ TreeInv /\ WalkInv
  BY DEF IInv
<1>2. /\ current # None /\ current \in Pair /\ ~advancing /\ advancing' = TRUE /\ tmp' = EndCursor
      /\ data' = data /\ UNCHANGED query_vars /\ current' = current /\ lazy_initialize
  BY <1>1 DEF Increment, TypeInv
<1>3. current[2] \in Int /\ tmp = EndCursor
  BY <1>1, <1>2, PairFacts DEF WalkInv
<1>4. initialized' = TRUE /\ TreeInv' /\ iterators' \in Seq(Level \X (Key \cup {End}))
      /\ After(iterators', current[2], FALSE)
  <2>1. CASE initialized
    <3>1. /\ initialized' = initialized /\ iterators' = iterators
          /\ unconsumed_count' = unconsumed_count /\ tree' = tree
      BY <1>2, <2>1 DEF lazy_initialize
    <3>2. Ascending(iterators)'
      BY <1>1, <1>2, <3>1, DataKept DEF TreeInv, Ascending
    <3>3. TreeInv'
      BY <1>1, <3>1, <3>2 DEF TreeInv, Unconsumed, KeysAt
    <3> QED BY <1>1, <1>3, <2>1, <3>1, <3>3 DEF WalkInv, TypeInv
  <2>2. CASE ~initialized
    <3> DEFINE its == iterators'
    <3>1. PICK first_keys : first_keys = [j \in DOMAIN its |-> its[j][2]]
      OBVIOUS
    <3>2. /\ initialized' = TRUE /\ its = Positioned /\ unconsumed_count' = Len(its)
          /\ tree' = IF first_keys = << >> THEN << >> ELSE Tree(first_keys)
      BY <1>2, <2>2, <3>1 DEF lazy_initialize
    <3>3. /\ its \in Seq(Pair) /\ Ascending(its) /\ \A j \in DOMAIN its : its[j][2] # End
          /\ After(its, current[2], FALSE)
      BY <1>3, <3>2, PositionedFacts
    <3>4. its \in Seq(Level \X (Key \cup {End}))
      BY <3>3 DEF Pair
    <3> HIDE DEF its
    <3>5. DOMAIN its = 1..Len(its) /\ Len(its) \in Nat /\ Len(its) <= NumLevels
      BY <3>3 DEF Ascending
    <3>6. Cardinality(Unconsumed(its)) = Len(its)
      <4>1. Unconsumed(its) = 1..Len(its)
        BY <3>3, <3>5 DEF Unconsumed
      <4>2. Cardinality(1..Len(its)) = IF 1 > Len(its) THEN 0 ELSE Len(its) - 1 + 1
        BY <3>5, FS_Interval
      <4> QED BY <3>5, <4>1, <4>2
    <3>7. its # << >> => TreeOn(tree', KeysAt(its))
      <4> SUFFICES ASSUME its # << >> PROVE TreeOn(tree', KeysAt(its))
        OBVIOUS
      <4>1. first_keys = KeysAt(its)
        BY <3>1, <3>3 DEF KeysAt, its
      <4>2. AreKeys(KeysAt(its)) /\ Len(KeysAt(its)) = Len(its)
        BY <3>4, <3>5, KeysOfIterators
      <4>3. first_keys # << >>
        <5>1. Len(its) # 0
          BY <3>4
        <5> QED BY <4>1, <4>2, <5>1
      <4>4. tree' = Tree(KeysAt(its))
        BY <3>2, <4>1, <4>3
      <4> QED BY <4>2, <4>4, TreeStarts
    <3>8. Ascending(iterators)'
      BY <1>2, <3>3, DataKept DEF Ascending, its
    <3>9. TreeInv'
      BY <3>2, <3>6, <3>7, <3>8 DEF TreeInv, Unconsumed, KeysAt, its
    <3> QED BY <3>2, <3>3, <3>4, <3>9 DEF its
  <2> QED BY <2>1, <2>2
<1>5. TypeInv' /\ QueryInv' /\ ResultInv'
  BY <1>2, <1>4, WalkTypes
<1>6. WalkInv'
  <2>1. After(iterators, current[2], FALSE)'
    BY <1>2, <1>4, DataKept DEF After
  <2> QED BY <1>2, <1>4, <2>1 DEF WalkInv, EndCursor, Pair
<1> QED
  BY <1>4, <1>5, <1>6 DEF IInv

(* When the iterator becomes end() it is as its constructor leaves it.     *)
LEMMA BecomeEndStep ==
    ASSUME IInv, advancing, BecomeEnd, data' = data, UNCHANGED query_vars,
           advancing' = FALSE, tmp' = EndCursor
    PROVE  IInv'
<1>1. TypeInv /\ TreeInv /\ WalkInv
  BY DEF IInv
<1>2. /\ current' = EndCursor /\ initialized' = FALSE /\ iterators' = << >>
      /\ unconsumed_count' = 0 /\ tree' = << >>
  BY DEF BecomeEnd, Fresh
<1>3. current # None
  BY <1>1, PairFacts DEF WalkInv
<1>4. TypeInv' /\ QueryInv' /\ ResultInv'
  <2>1. iterators' \in Seq(Level \X (Key \cup {End}))
    BY <1>2
  <2> QED BY <1>2, <1>3, <2>1, WalkTypes
<1>5. TreeInv'
  <2>1. DOMAIN iterators' = {} /\ Len(iterators') = 0
    BY <1>2
  <2>2. Ascending(iterators)'
    BY <2>1, QueriesAssumption DEF Ascending
  <2>3. Unconsumed(iterators)' = {}
    BY <2>1 DEF Unconsumed
  <2>4. (unconsumed_count = Cardinality(Unconsumed(iterators)))'
    BY <1>2, <2>3, FS_EmptySet
  <2> QED BY <1>2, <2>2, <2>4 DEF TreeInv
<1>6. WalkInv'
  BY <1>2 DEF WalkInv, EndCursor
<1> QED
  BY <1>4, <1>5, <1>6 DEF IInv

LEMMA NothingLeftStep ==
    ASSUME IInv, NothingLeft
    PROVE  IInv'
<1>1. /\ advancing /\ BecomeEnd /\ data' = data /\ UNCHANGED query_vars
      /\ advancing' = FALSE /\ tmp' = EndCursor
  BY DEF NothingLeft
<1> QED
  BY <1>1, BecomeEndStep

(* step() with which a new element is taken.                               *)
LEMMA TakeStep ==
    ASSUME IInv, advancing, unconsumed_count > 0, NEW k \in Int, After(iterators, k, FALSE),
           current[2] <= k, \A x \in Key : current[2] < x /\ x <= k => ~IsLive(x),
           tmp' = it_min, step, UNCHANGED <<data, query_vars, current, initialized, advancing>>
    PROVE  IInv'
<1>1. TypeInv /\ TreeInv /\ WalkInv
  BY DEF IInv
<1>2. /\ data' = data /\ UNCHANGED query_vars /\ current' = current
      /\ initialized' = initialized /\ advancing' = advancing
  OBVIOUS
<1>3. current \in Pair /\ current # None /\ initialized /\ current[2] \in Int
  BY <1>1, PairFacts DEF WalkInv
<1>4. /\ it_min \in Pair /\ it_min[2] > k /\ IsNewest(it_min[1], it_min[2])
      /\ \A x \in Key : k < x /\ x < it_min[2] => ~IsLive(x)
      /\ After([iterators EXCEPT ![min_source(tree) + 1] =
                    <<it_min[1], upper_bound(it_min[1], it_min[2])>>], it_min[2], TRUE)
  BY <1>1, TakesNext
<1>5. /\ TreeInv' /\ iterators' \in Seq(Level \X (Key \cup {End}))
      /\ iterators' = [iterators EXCEPT ![min_source(tree) + 1] =
                           <<it_min[1], upper_bound(it_min[1], it_min[2])>>]
  BY <1>1, <1>2, StepKeeps
<1>6. After(iterators', it_min[2], TRUE)
  BY <1>4, <1>5
<1> DEFINE c == it_min
<1>7. tmp' = c /\ c \in Pair /\ c # EndCursor /\ c[2] \in Int
  BY <1>4, PairFacts
<1> HIDE DEF c
<1>8. TypeInv' /\ QueryInv' /\ ResultInv'
  <2>1. current' \in {EndCursor} \cup Pair /\ tmp' \in {EndCursor} \cup Pair
    BY <1>2, <1>3, <1>7
  <2>2. initialized' \in BOOLEAN /\ advancing' \in BOOLEAN
    BY <1>1, <1>2 DEF TypeInv
  <2> QED BY <1>2, <1>3, <1>5, <2>1, <2>2, WalkTypes
<1>9. Taken(c, current[2]) /\ After(iterators', c[2], TRUE)
  <2>1. c[2] > current[2] /\ IsNewest(c[1], c[2]) /\ c[2] > k
    BY <1>3, <1>4, <1>7 DEF c
  <2>2. \A x \in Key : current[2] < x /\ x < c[2] => ~IsLive(x)
    <3> SUFFICES ASSUME NEW x \in Key, current[2] < x, x < c[2] PROVE ~IsLive(x)
      OBVIOUS
    <3>1. x \in Int
      BY QueriesAssumption
    <3>2. CASE x <= k
      BY <3>2
    <3>3. CASE k < x
      BY <1>4, <3>3 DEF c
    <3> QED BY <3>1, <3>2, <3>3
  <2> QED BY <1>6, <2>1, <2>2 DEF Taken, c
<1>10. Taken(tmp, current[2])' /\ After(iterators, tmp[2], TRUE)'
  BY <1>2, <1>7, <1>9, DataKept DEF Taken, After
<1>11. WalkInv'
  <2>1. tmp' # EndCursor /\ initialized' /\ advancing' /\ current' \in Pair
    BY <1>1, <1>2, <1>3, <1>7
  <2> QED BY <1>10, <2>1 DEF WalkInv, EndCursor, Pair
<1> QED
  BY <1>5, <1>8, <1>11 DEF IInv

LEMMA FirstStepStep ==
    ASSUME IInv, FirstStep
    PROVE  IInv'
<1>1. /\ advancing /\ tmp = EndCursor /\ unconsumed_count > 0 /\ tmp' = it_min /\ step
      /\ UNCHANGED <<data, query_vars, current, initialized, advancing>>
  BY DEF FirstStep
<1>2. current[2] \in Int /\ After(iterators, current[2], FALSE)
  BY <1>1, PairFacts DEF IInv, WalkInv
<1>3. current[2] <= current[2] /\ \A x \in Key : ~(current[2] < x /\ x <= current[2])
  BY <1>2, QueriesAssumption
<1> QED
  BY <1>1, <1>2, <1>3, TakeStep

(* What holds when tmp is the newest item of a key and no older is left.   *)
LEMMA Passed ==
    ASSUME IInv, advancing, tmp # EndCursor, ~Older
    PROVE  /\ tmp \in Pair /\ tmp[2] \in Key /\ tmp[2] \in Int
           /\ current \in Pair /\ current[2] \in Int
           /\ After(iterators, tmp[2], FALSE) /\ Taken(tmp, current[2])
           /\ IsLive(tmp[2]) <=> ~deleted(tmp)
<1>1. TypeInv /\ TreeInv /\ WalkInv
  BY DEF IInv
<1>2. /\ tmp \in Pair /\ tmp[1] \in Level /\ tmp[2] \in Key /\ tmp[2] \in Int
      /\ current \in Pair /\ current[2] \in Int
      /\ Taken(tmp, current[2]) /\ After(iterators, tmp[2], TRUE)
  BY <1>1, PairFacts DEF TypeInv, WalkInv
<1>3. After(iterators, tmp[2], FALSE)
  BY <1>1, <1>2, NoneBehind DEF Older
<1>4. IsLive(tmp[2]) <=> ~deleted(tmp)
  BY <1>1, <1>2, Newest DEF Taken, deleted
<1> QED
  BY <1>2, <1>3, <1>4

LEMMA SkipDeletedStep ==
    ASSUME IInv, SkipDeleted
    PROVE  IInv'
<1>1. /\ advancing /\ tmp # EndCursor /\ ~Older /\ unconsumed_count > 0 /\ deleted(tmp)
      /\ tmp' = it_min /\ step /\ UNCHANGED <<data, query_vars, current, initialized, advancing>>
  BY DEF SkipDeleted
<1>2. /\ tmp[2] \in Key /\ tmp[2] \in Int /\ current[2] \in Int
      /\ After(iterators, tmp[2], FALSE) /\ Taken(tmp, current[2])
      /\ ~IsLive(tmp[2])
  BY <1>1, Passed
<1>3. current[2] <= tmp[2] /\ \A x \in Key : current[2] < x /\ x <= tmp[2] => ~IsLive(x)
  <2>1. tmp[2] > current[2] /\ \A x \in Key : current[2] < x /\ x < tmp[2] => ~IsLive(x)
    BY <1>2 DEF Taken
  <2>2. \A x \in Key : x <= tmp[2] => x = tmp[2] \/ x < tmp[2]
    BY <1>2, QueriesAssumption
  <2> QED BY <1>2, <2>1, <2>2
<1> DEFINE k == tmp[2]
<1>4. k \in Int /\ After(iterators, k, FALSE) /\ current[2] <= k
      /\ \A x \in Key : current[2] < x /\ x <= k => ~IsLive(x)
  BY <1>2, <1>3
<1> HIDE DEF k
<1> QED
  BY <1>1, <1>4, TakeStep

LEMMA SkipOlderStep ==
    ASSUME IInv, SkipOlder
    PROVE  IInv'
<1>1. TypeInv /\ TreeInv /\ WalkInv
  BY DEF IInv
<1>2. /\ advancing /\ tmp # EndCursor /\ unconsumed_count > 0 /\ it_min[2] = tmp[2] /\ step
      /\ data' = data /\ UNCHANGED query_vars /\ current' = current
      /\ initialized' = initialized /\ tmp' = tmp /\ advancing' = advancing
  BY DEF SkipOlder, Older
<1>3. /\ tmp \in Pair /\ tmp[2] \in Key /\ current \in Pair /\ current # None /\ initialized
      /\ Taken(tmp, current[2]) /\ After(iterators, tmp[2], TRUE)
  BY <1>1, <1>2, PairFacts DEF TypeInv, WalkInv
<1>4. /\ TreeInv' /\ iterators' \in Seq(Level \X (Key \cup {End}))
      /\ iterators' = [iterators EXCEPT ![min_source(tree) + 1] =
                           <<it_min[1], upper_bound(it_min[1], it_min[2])>>]
  BY <1>1, <1>2, StepKeeps
<1>5. After(iterators', tmp[2], TRUE)
  <2> DEFINE k == tmp[2]
  <2>1. k \in Key /\ After(iterators, k, TRUE) /\ it_min[2] = k
    BY <1>2, <1>3
  <2> HIDE DEF k
  <2>2. After([iterators EXCEPT ![min_source(tree) + 1] =
                   <<it_min[1], upper_bound(it_min[1], it_min[2])>>], k, TRUE)
    BY <1>1, <1>2, <2>1, SkipsOlder
  <2> QED BY <1>4, <2>2 DEF k
<1>6. TypeInv' /\ QueryInv' /\ ResultInv'
  <2>1. current' \in {EndCursor} \cup Pair /\ tmp' \in {EndCursor} \cup Pair
    BY <1>2, <1>3
  <2>2. initialized' \in BOOLEAN /\ advancing' \in BOOLEAN
    BY <1>1, <1>2 DEF TypeInv
  <2> QED BY <1>2, <1>3, <1>4, <2>1, <2>2, WalkTypes
<1>7. Taken(tmp, current[2])' /\ After(iterators, tmp[2], TRUE)'
  BY <1>2, <1>3, <1>5, DataKept DEF Taken, After
<1>8. WalkInv'
  <2>1. tmp' # EndCursor /\ initialized' /\ advancing' /\ current' \in Pair
    BY <1>1, <1>2, <1>3
  <2> QED BY <1>7, <2>1 DEF WalkInv, EndCursor, Pair
<1> QED
  BY <1>4, <1>6, <1>8 DEF IInv

LEMMA SettleStep ==
    ASSUME IInv, Settle
    PROVE  IInv'
<1>1. TypeInv /\ TreeInv /\ WalkInv
  BY DEF IInv
<1>2. /\ advancing /\ tmp # EndCursor /\ ~Older /\ advancing' = FALSE /\ tmp' = EndCursor
      /\ data' = data /\ UNCHANGED query_vars
  BY DEF Settle
<1>3. CASE BecomeEnd
  BY <1>2, <1>3, BecomeEndStep
<1>4. CASE /\ current' = tmp /\ initialized' = initialized /\ iterators' = iterators
           /\ unconsumed_count' = unconsumed_count /\ tree' = tree
  <2>1. tmp \in Pair /\ current \in Pair /\ After(iterators, tmp[2], FALSE) /\ current # None
    BY <1>2, Passed, PairFacts
  <2>2. initialized
    BY <1>1, <1>2 DEF WalkInv
  <2>3. TypeInv' /\ QueryInv' /\ ResultInv'
    <3>1. /\ current' \in {EndCursor} \cup Pair /\ tmp' \in {EndCursor} \cup Pair
          /\ initialized' \in BOOLEAN /\ advancing' \in BOOLEAN
          /\ iterators' \in Seq(Level \X (Key \cup {End}))
      BY <1>1, <1>2, <1>4, <2>1 DEF TypeInv
    <3> QED BY <1>2, <2>1, <3>1, WalkTypes
  <2>4. TreeInv'
    <3>1. Ascending(iterators)'
      BY <1>1, <1>2, <1>4, DataKept DEF TreeInv, Ascending
    <3> QED BY <1>1, <1>4, <3>1 DEF TreeInv, Unconsumed, KeysAt
  <2>5. After(iterators, current[2], FALSE)'
    BY <1>2, <1>4, <2>1, DataKept DEF After
  <2>6. WalkInv'
    BY <1>2, <1>4, <2>1, <2>2, <2>5 DEF WalkInv, EndCursor, Pair
  <2> QED BY <2>3, <2>4, <2>6 DEF IInv
<1> QED
  BY <1>3, <1>4 DEF Settle

-----------------------------------------------------------------------------
(* The invariant holds of the specification.                               *)

LEMMA InitStep == Init => IInv
<1> SUFFICES ASSUME Init PROVE IInv
  OBVIOUS
<1>1. /\ data \in [Level -> LevelData] /\ i = 0 /\ lb = None /\ erased = {} /\ result = None
      /\ query \in {LowerBoundCall(k) : k \in Key} \cup {BeginCall}
      /\ current = None /\ initialized = FALSE /\ iterators = << >> /\ unconsumed_count = 0
      /\ tmp = EndCursor /\ advancing = FALSE
  BY DEF Init, QueryInit
<1>2. Seeks
  BY <1>1, QueryFacts DEF Seeks
<1>3. TypeInv
  <2>1. 0 \in 0..NumLevels /\ << >> \in Seq(Level \X (Key \cup {End}))
    BY QueriesAssumption
  <2> QED BY <1>1, <2>1 DEF TypeInv
<1>4. QueryInv
  BY <1>1, <1>2 DEF QueryInv
<1>5. ResultInv
  BY <1>1, <1>2 DEF ResultInv
<1>6. TreeInv
  <2>1. Ascending(iterators)
    BY <1>1, QueriesAssumption DEF Ascending
  <2>2. Unconsumed(iterators) = {}
    BY <1>1 DEF Unconsumed
  <2> QED BY <1>1, <2>1, <2>2, FS_EmptySet DEF TreeInv
<1>7. WalkInv
  BY <1>1 DEF WalkInv
<1> QED
  BY <1>3, <1>4, <1>5, <1>6, <1>7 DEF IInv

LEMMA StutteringStep ==
    ASSUME IInv, UNCHANGED vars
    PROVE  IInv'
<1>1. data' = data /\ UNCHANGED query_vars /\ UNCHANGED iterator_vars
  BY DEF vars
<1>2. TreeInv' /\ WalkInv'
  BY <1>1, IteratorKept DEF IInv
<1>3. TypeInv'
  BY <1>1 DEF IInv, TypeInv, query_vars, locals, iterator_vars
<1>4. QueryInv'
  BY <1>1, DataKept DEF IInv, QueryInv, Seeks, InReach, query_vars, locals
<1>5. ResultInv'
  BY <1>1, DataKept DEF IInv, ResultInv, IsFirst, Seeks, query_vars, locals, iterator_vars
<1> QED
  BY <1>2, <1>3, <1>4, <1>5 DEF IInv

LEMMA NextStep ==
    ASSUME IInv, [Next]_vars
    PROVE  IInv'
<1>1. CASE Query /\ UNCHANGED iterator_vars
  <2>1. data' = data
    BY <1>1 DEF Query, ScanLevel, FinishSeek
  <2>2. TreeInv' /\ WalkInv'
    BY <1>1, <2>1, IteratorKept DEF IInv
  <2>3. TypeInv' /\ QueryInv' /\ ResultInv'
    BY <1>1, ScanLevelStep, FinishSeekStep DEF Query
  <2> QED BY <2>2, <2>3 DEF IInv
<1>2. CASE MakeIterator
  BY <1>2, MakeIteratorStep
<1>3. CASE Walk
  BY <1>3, IncrementStep, NothingLeftStep, FirstStepStep, SkipOlderStep, SkipDeletedStep,
     SettleStep DEF Walk
<1>4. CASE UNCHANGED vars
  BY <1>4, StutteringStep
<1> QED
  BY <1>1, <1>2, <1>3, <1>4 DEF Next

(* The queries, the tree and the walk stay in the states the invariant     *)
(* describes, for any content of the levels (lower_bound and begin,        *)
(* pgm_index_dynamic.hpp:323-378; Iterator, 593-672).                      *)
THEOREM AlwaysIInv == Spec => []IInv
<1>1. IInv /\ [Next]_vars => IInv'
  BY NextStep
<1> QED
  BY <1>1, InitStep, PTL DEF Spec

-----------------------------------------------------------------------------
(* The properties of the queries.                                          *)

LEMMA LiveIsNewest ==
    ASSUME TypeInv, NEW c \in Pair, LiveAt(c[1], c[2])
    PROVE  c[2] \in Map!Live /\ NewestLevel(c[2]) = c[1]
<1>1. c[1] \in Level /\ c[2] \in Key
  BY PairFacts
<1> QED
  BY <1>1, LiveKeys, Newest DEF LiveAt

(* What lower_bound returns is the newest item of the first live key that  *)
(* is not less than the one asked for, or the end if there is none.        *)
THEOREM AlwaysLowerBoundIsFirst == Spec => []LowerBoundIsFirst
<1>1. ASSUME IInv, query.call = "lower_bound", result # None
      PROVE  IF result = EndOf THEN Map!NoLowerBound(query.key)
             ELSE Map!IsLowerBound(query.key, result[2]) /\ result[1] = NewestLevel(result[2])
  <2>1. TypeInv /\ Seeks /\ query.key \in Int
    BY <1>1, QueryFacts, QueryKey DEF IInv, Seeks
  <2>2. IsFirst(result, query.key)
    BY <1>1, <2>1 DEF IInv, ResultInv
  <2>3. Map!Live = {k \in Key : IsLive(k)} /\ \A k \in Key : k \in Int
    BY <2>1, LiveKeys, QueriesAssumption
  <2>4. CASE result = EndOf
    <3>1. \A l \in Map!Live : l < query.key
      BY <2>1, <2>2, <2>3, <2>4 DEF IsFirst
    <3> QED BY <2>4, <3>1 DEF Map!NoLowerBound
  <2>5. CASE result # EndOf
    <3>1. result \in Pair /\ result[2] \in Int
      BY <1>1, <2>1, <2>5, PairFacts DEF TypeInv
    <3>2. result[2] >= query.key /\ LiveAt(result[1], result[2])
      BY <2>2, <2>5 DEF IsFirst
    <3>3. result[2] \in Map!Live /\ NewestLevel(result[2]) = result[1]
      BY <2>1, <3>1, <3>2, LiveIsNewest
    <3>4. \A l \in Map!Live : l >= query.key => result[2] <= l
      BY <2>1, <2>2, <2>3, <2>5, <3>1 DEF IsFirst
    <3> QED BY <2>5, <3>2, <3>3, <3>4 DEF Map!IsLowerBound
  <2> QED BY <2>4, <2>5
<1>2. IInv => LowerBoundIsFirst
  BY <1>1 DEF LowerBoundIsFirst
<1> QED
  BY <1>2, AlwaysIInv, PTL

-----------------------------------------------------------------------------
(* The properties of the iterator.                                         *)

(* advance knows how many sequences have an element left, so it never      *)
(* reads past the end of a level.                                          *)
THEOREM AlwaysUnconsumedCounted == Spec => []UnconsumedCounted
<1>1. IInv => UnconsumedCounted
  BY DEF IInv, TreeInv, UnconsumedCounted, Unconsumed
<1> QED
  BY <1>1, AlwaysIInv, PTL

(* As long as a sequence has an element left, the tree's root is one of    *)
(* those with the smallest key (comment on min_source, 514).               *)
THEOREM AlwaysMinSourceIsSmallest == Spec => []MinSourceIsSmallest
<1>1. ASSUME IInv, unconsumed_count > 0
      PROVE  /\ it_min[2] # End
             /\ \A j \in DOMAIN iterators :
                    iterators[j][2] # End => it_min[2] <= iterators[j][2]
  <2>1. PICK m \in Nat : IsSmallest(m)
    BY <1>1, Smallest DEF IInv
  <2> QED BY <2>1, PairFacts DEF IsSmallest
<1>2. IInv => MinSourceIsSmallest
  BY <1>1 DEF MinSourceIsSmallest
<1> QED
  BY <1>2, AlwaysIInv, PTL

(* Of the levels that are at the smallest key, the newest comes first.     *)
THEOREM AlwaysNewestComesFirst == Spec => []NewestComesFirst
<1>1. ASSUME IInv, unconsumed_count > 0, NEW j \in 1..min_source(tree)
      PROVE  iterators[j][2] # it_min[2]
  <2>1. PICK m \in Nat : IsSmallest(m)
    BY <1>1, Smallest DEF IInv
  <2>2. min_source(tree) \in Nat /\ (m - 1) = min_source(tree)
    BY <2>1 DEF IsSmallest
  <2>3. j \in 1..(m - 1)
    BY <2>2
  <2> QED BY <2>1, <2>3 DEF IsSmallest
<1>2. IInv => NewestComesFirst
  BY <1>1 DEF NewestComesFirst
<1> QED
  BY <1>2, AlwaysIInv, PTL

LEMMA EndIsSuccessor ==
    ASSUME TypeInv, NEW c, \A x \in Key : x > c[2] => ~IsLive(x)
    PROVE  Successor(c) = EndCursor
<1>1. {k \in Map!Live : k > c[2]} = {}
  BY LiveKeys
<1> QED
  BY <1>1 DEF Successor

LEMMA TakenIsSuccessor ==
    ASSUME TypeInv, NEW c, NEW t \in Pair, c[2] \in Int, Taken(t, c[2]), IsLive(t[2])
    PROVE  Successor(c) = t
<1> DEFINE later == {k \in Map!Live : k > c[2]}
<1>1. t = <<t[1], t[2]>> /\ t[1] \in Level /\ t[2] \in Key /\ t[2] \in Int
  BY PairFacts
<1>2. t[2] > c[2] /\ IsNewest(t[1], t[2]) /\ \A k \in Key : c[2] < k /\ k < t[2] => ~IsLive(k)
  BY DEF Taken
<1>3. Map!Live = {k \in Key : IsLive(k)} /\ \A k \in Key : k \in Int
  BY LiveKeys, QueriesAssumption
<1>4. t[2] \in later /\ later \in SUBSET Key /\ \A k \in later : t[2] <= k
  BY <1>1, <1>2, <1>3
<1>5. Min(later) \in later /\ Min(later) <= t[2]
  BY <1>4, KeysFinite
<1>6. Min(later) = t[2]
  BY <1>1, <1>3, <1>4, <1>5
<1>7. NewestLevel(t[2]) = t[1]
  BY <1>1, <1>2, Newest
<1>8. later # {}
  BY <1>4
<1> HIDE DEF later
<1>9. Successor(c) = IF later = {} THEN EndCursor ELSE <<NewestLevel(Min(later)), Min(later)>>
  BY DEF Successor, later
<1> QED
  BY <1>1, <1>6, <1>7, <1>8, <1>9

(* Each increment moves an iterator to the next live element, or to the    *)
(* end past the last one: none is left out, none comes twice, and no       *)
(* erased or overwritten item shows (Iterator::advance, 631-662).          *)
THEOREM AlwaysAdvancesToSuccessor == Spec => AdvancesToSuccessor
<1>1. ASSUME IInv, [Next]_vars, advancing, ~advancing'
      PROVE  current' = Successor(current)
  <2>1. TypeInv /\ TreeInv /\ WalkInv
    BY <1>1 DEF IInv
  <2>2. CASE NothingLeft
    <3>1. ~(unconsumed_count > 0) /\ tmp = EndCursor /\ current' = EndCursor
      BY <2>2 DEF NothingLeft, BecomeEnd
    <3>2. current \in Pair /\ current[2] \in Int /\ After(iterators, current[2], FALSE)
      BY <1>1, <2>1, <3>1, PairFacts DEF WalkInv
    <3>3. \A x \in Key : x > current[2] => ~IsLive(x)
      BY <2>1, <3>1, <3>2, AllConsumed
    <3> QED BY <2>1, <3>1, <3>3, EndIsSuccessor
  <2>3. CASE Settle
    <3>1. tmp # EndCursor /\ ~Older /\ ~(unconsumed_count > 0 /\ deleted(tmp))
      BY <2>3 DEF Settle
    <3>2. /\ tmp \in Pair /\ tmp[2] \in Key /\ tmp[2] \in Int
          /\ current \in Pair /\ current[2] \in Int
          /\ After(iterators, tmp[2], FALSE) /\ Taken(tmp, current[2])
          /\ IsLive(tmp[2]) <=> ~deleted(tmp)
      BY <1>1, <3>1, Passed
    <3>3. CASE deleted(tmp)
      <4>1. current' = EndCursor
        BY <2>3, <3>3 DEF Settle, BecomeEnd
      <4>2. \A x \in Key : x > tmp[2] => ~IsLive(x)
        BY <2>1, <3>1, <3>2, <3>3, AllConsumed
      <4>3. \A x \in Key : x > current[2] => ~IsLive(x)
        <5>1. \A x \in Key : x \in Int /\ (x < tmp[2] \/ x = tmp[2] \/ x > tmp[2])
          BY <3>2, QueriesAssumption
        <5>2. \A x \in Key : current[2] < x /\ x < tmp[2] => ~IsLive(x)
          BY <3>2 DEF Taken
        <5> QED BY <3>2, <3>3, <4>2, <5>1, <5>2
      <4> QED BY <2>1, <4>1, <4>3, EndIsSuccessor
    <3>4. CASE ~deleted(tmp)
      <4>1. current' = tmp
        BY <2>3, <3>4 DEF Settle
      <4> QED BY <2>1, <3>2, <3>4, <4>1, TakenIsSuccessor
    <3> QED BY <3>3, <3>4
  <2>4. NothingLeft \/ Settle
    <3>1. CASE UNCHANGED vars
      BY <1>1, <3>1 DEF vars, iterator_vars
    <3>2. CASE (Query /\ UNCHANGED iterator_vars) \/ MakeIterator
      BY <1>1, <3>2 DEF iterator_vars, MakeIterator
    <3>3. CASE Increment \/ FirstStep \/ SkipOlder \/ SkipDeleted
      BY <1>1, <3>3 DEF Increment, FirstStep, SkipOlder, SkipDeleted
    <3> QED BY <1>1, <3>1, <3>2, <3>3 DEF Next, Walk
  <2> QED BY <2>2, <2>3, <2>4
<1>2. IInv /\ [Next]_vars => [advancing /\ ~advancing' => current' = Successor(current)]_vars
  BY <1>1
<1> QED
  BY <1>2, AlwaysIInv, PTL DEF Spec, AdvancesToSuccessor
=============================================================================
