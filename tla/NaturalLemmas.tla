---------------------------- MODULE NaturalLemmas ----------------------------
(***************************************************************************)
(* Facts the proofs of the components rest on: a set of natural numbers has *)
(* a least element; induction, stated for a set of numbers; and a function  *)
(* given by its first value and its steps exists.                          *)
(***************************************************************************)
EXTENDS Integers, Sequences, FiniteSets, FiniteSetsExt, FiniteSetTheorems, WellFoundedInduction, TLAPS

(* Every non-empty set of natural numbers has a least element.             *)
LEMMA LeastElement ==
    ASSUME NEW T \in SUBSET Nat, T # {}
    PROVE  /\ Min(T) \in T
           /\ \A y \in T : Min(T) <= y
<1> DEFINE Prefixes == {0..t : t \in T}
<1>1. IsWellFoundedOn(StrictSubsetOrdering(Nat), FiniteSubsetsOf(Nat))
  BY FS_StrictSubsetOrderingWellFounded
<1>2. Prefixes \subseteq FiniteSubsetsOf(Nat)
  <2> SUFFICES ASSUME NEW t \in T PROVE 0..t \in FiniteSubsetsOf(Nat)
    OBVIOUS
  <2>1. IsFiniteSet(0..t)
    BY FS_Interval
  <2>2. 0..t \in SUBSET Nat
    OBVIOUS
  <2> QED BY <2>1, <2>2, Zenon DEF FiniteSubsetsOf
<1>3. PICK P \in Prefixes : \A Q \in Prefixes : <<Q, P>> \notin StrictSubsetOrdering(Nat)
  <2>1. Prefixes # {}
    OBVIOUS
  <2> HIDE DEF Prefixes
  <2> QED BY <1>1, <1>2, <2>1, WFMin, Zenon
<1>4. PICK m \in T : P = 0..m
  OBVIOUS
<1>5. \A y \in T : m <= y
  <2> SUFFICES ASSUME NEW y \in T, y < m PROVE FALSE
    OBVIOUS
  <2>1. 0..y \subseteq 0..m /\ 0..y # 0..m
    <3>1. m \in 0..m /\ m \notin 0..y
      OBVIOUS
    <3> QED BY <3>1
  <2>2. 0..y \in SUBSET Nat /\ 0..m \in SUBSET Nat
    OBVIOUS
  <2>3. <<0..y, 0..m>> \in StrictSubsetOrdering(Nat)
    BY <2>1, <2>2, Zenon DEF StrictSubsetOrdering
  <2>4. 0..y \in Prefixes
    OBVIOUS
  <2> QED BY <2>3, <2>4, <1>3, <1>4
<1> QED
  BY <1>5 DEF Min

(* Induction: a set that holds 0 and, with a number, the next one holds all. *)
LEMMA SetInduction ==
    ASSUME NEW S, 0 \in S, \A n \in Nat : n \in S => n + 1 \in S
    PROVE  \A n \in Nat : n \in S
<1> DEFINE Missing == {n \in Nat : n \notin S}
<1> SUFFICES ASSUME Missing # {} PROVE FALSE
  OBVIOUS
<1>1. PICK m \in Missing : \A y \in Missing : m <= y
  <2>1. Missing \in SUBSET Nat
    OBVIOUS
  <2> HIDE DEF Missing
  <2> QED BY <2>1, LeastElement
<1>2. m - 1 \in Nat /\ m - 1 \notin Missing
  BY <1>1
<1> QED
  BY <1>1, <1>2

(* Every finite, non-empty set of integers has a least element.            *)
LEMMA FiniteLeastElement ==
    ASSUME NEW T \in SUBSET Int, IsFiniteSet(T), T # {}
    PROVE  /\ Min(T) \in T
           /\ \A y \in T : Min(T) <= y
<1>1. PICK seq \in Seq(T) : \A y \in T : \E j \in 1..Len(seq) : seq[j] = y
  BY DEF IsFiniteSet
<1> DEFINE N == Len(seq)
           S == {n \in Nat : n + 1 <= N =>
                     \E m \in T : \A j \in 1..(n + 1) : m <= seq[j]}
<1>2. N \in Nat /\ \A j \in 1..N : seq[j] \in T /\ seq[j] \in Int
  <2>1. N \in Nat /\ \A j \in 1..N : seq[j] \in T
    OBVIOUS
  <2> QED BY <2>1
<1> HIDE DEF N
<1>3. 0 \in S
  <2> SUFFICES ASSUME 1 <= N PROVE \E m \in T : \A j \in 1..1 : m <= seq[j]
    OBVIOUS
  <2>1. 1 \in 1..N
    BY <1>2
  <2>2. seq[1] \in T /\ seq[1] \in Int
    BY <1>2, <2>1
  <2>3. \A j \in 1..1 : seq[1] <= seq[j]
    BY <2>2
  <2> QED BY <2>2, <2>3
<1>4. ASSUME NEW n \in Nat, n \in S PROVE n + 1 \in S
  <2> SUFFICES ASSUME (n + 1) + 1 <= N
               PROVE  \E m \in T : \A j \in 1..((n + 1) + 1) : m <= seq[j]
    OBVIOUS
  <2>1. PICK m \in T : \A j \in 1..(n + 1) : m <= seq[j]
    BY <1>2, <1>4
  <2>2. n + 2 \in 1..N
    BY <1>2
  <2>3. PICK last \in T : last = seq[n + 2]
    BY <1>2, <2>2
  <2>4. \A j \in 1..((n + 1) + 1) : j \in 1..(n + 1) \/ j = n + 2
    OBVIOUS
  <2>5. \A j \in 1..(n + 1) : seq[j] \in Int
    BY <1>2, <2>2
  <2>6. m \in Int /\ last \in Int
    OBVIOUS
  <2>7. CASE m <= last
    BY <2>1, <2>3, <2>4, <2>7
  <2>8. CASE ~(m <= last)
    <3>1. \A j \in 1..(n + 1) : last <= seq[j]
      BY <2>1, <2>5, <2>6, <2>8
    <3> QED BY <2>3, <2>4, <2>6, <3>1
  <2> QED BY <2>7, <2>8
<1>5. \E m \in T : \A y \in T : m <= y
  <2>1. \A n \in Nat : n \in S
    <3> HIDE DEF S
    <3> QED BY <1>3, <1>4, SetInduction
  <2>2. N > 0
    <3>1. PICK y \in T : TRUE
      OBVIOUS
    <3>2. PICK j \in 1..N : seq[j] = y
      BY <1>1, <3>1 DEF N
    <3> QED BY <1>2, <3>2
  <2>3. N - 1 \in Nat /\ (N - 1) + 1 = N
    BY <1>2, <2>2
  <2>4. PICK m \in T : \A j \in 1..N : m <= seq[j]
    <3>1. N - 1 \in S
      BY <2>1, <2>3
    <3>2. \E m \in T : \A j \in 1..((N - 1) + 1) : m <= seq[j]
      BY <1>2, <2>3, <3>1
    <3> QED BY <2>3, <3>2
  <2>5. \A y \in T : m <= y
    BY <1>1, <2>4 DEF N
  <2> QED BY <2>5
<1> QED
  BY <1>5 DEF Min

\* f holds the first N + 1 values of an iteration: G[n] makes value n + 1 from value n.
Iterates(f, X, start, G, N) ==
    /\ f \in [0..N -> X]
    /\ f[0] = start
    /\ \A n \in 1..N : f[n] = G[n - 1][f[n - 1]]

(* A function defined from one number to the next exists.                  *)
LEMMA RecursionExists ==
    ASSUME NEW X, NEW start \in X, NEW N \in Nat, NEW G \in [0..(N - 1) -> [X -> X]]
    PROVE  \E f : Iterates(f, X, start, G, N)
<1> DEFINE Defined(f, m) == /\ f \in [0..m -> X]
                            /\ f[0] = start
                            /\ \A n \in 1..m : f[n] = G[n - 1][f[n - 1]]
           S == {m \in Nat : m <= N => \E f : Defined(f, m)}
<1>1. 0 \in S
  <2>1. Defined([n \in 0..0 |-> start], 0)
    OBVIOUS
  <2> QED BY <2>1
<1>2. ASSUME NEW m \in Nat, m \in S PROVE m + 1 \in S
  <2> SUFFICES ASSUME m + 1 <= N PROVE \E f : Defined(f, m + 1)
    OBVIOUS
  <2>1. PICK f : Defined(f, m)
    <3>1. m <= N
      OBVIOUS
    <3> QED BY <1>2, <3>1
  <2>2. PICK x \in X : x = G[m][f[m]]
    <3>1. m \in 0..(N - 1) /\ f[m] \in X
      BY <2>1
    <3> QED BY <3>1
  <2>3. PICK g : g = [n \in 0..(m + 1) |-> IF n <= m THEN f[n] ELSE x]
    OBVIOUS
  <2>4. (\A n \in 0..m : g[n] = f[n]) /\ g[m + 1] = x
    BY <2>3
  <2>5. ASSUME NEW n \in 1..(m + 1) PROVE g[n] = G[n - 1][g[n - 1]]
    <3>1. CASE n <= m
      <4>1. n \in 1..m /\ n \in 0..m /\ n - 1 \in 0..m
        BY <3>1
      <4> QED BY <2>1, <2>4, <4>1
    <3>2. CASE ~(n <= m)
      <4>1. n = m + 1 /\ n - 1 = m /\ m \in 0..m
        BY <3>2
      <4> QED BY <2>2, <2>4, <4>1
    <3> QED BY <3>1, <3>2
  <2>6. g \in [0..(m + 1) -> X]
    BY <2>1, <2>3
  <2>7. g[0] = start
    BY <2>1, <2>4
  <2>8. Defined(g, m + 1)
    BY <2>5, <2>6, <2>7
  <2> QED BY <2>8
<1>3. \E f : Defined(f, N)
  <2>1. N \in S
    <3> HIDE DEF S
    <3> QED BY <1>1, <1>2, SetInduction
  <2> QED BY <2>1
<1> QED
  BY <1>3 DEF Iterates

(* Every non-empty set of integers with an upper bound has a greatest element. *)
LEMMA GreatestElement ==
    ASSUME NEW T \in SUBSET Int, T # {}, NEW b \in Int, \A y \in T : y <= b
    PROVE  /\ Max(T) \in T
           /\ \A y \in T : y <= Max(T)
<1> DEFINE Gaps == {n \in Nat : b - n \in T}
<1>1. Gaps # {}
  <2>1. PICK y \in T : TRUE
    OBVIOUS
  <2>2. b - y \in Nat /\ b - (b - y) = y
    BY <2>1
  <2> QED BY <2>1, <2>2
<1>2. PICK n \in Gaps : \A k \in Gaps : n <= k
  <2>1. Gaps \in SUBSET Nat
    OBVIOUS
  <2> HIDE DEF Gaps
  <2> QED BY <1>1, <2>1, LeastElement
<1>3. ASSUME NEW y \in T PROVE y <= b - n
  <2>1. b - y \in Nat /\ b - (b - y) = y
    BY <1>3
  <2>2. n <= b - y
    BY <1>2, <2>1
  <2> QED BY <1>2, <2>1, <2>2
<1>4. \E x \in T : \A y \in T : y <= x
  BY <1>2, <1>3
<1> QED
  BY <1>4 DEF Max

(* Induction on an interval.                                               *)
LEMMA IntervalInduction ==
    ASSUME NEW S, NEW a \in Int, NEW b \in Int, a \in S,
           \A n \in a..(b - 1) : n \in S => n + 1 \in S
    PROVE  \A n \in a..b : n \in S
<1> DEFINE R == {n \in Nat : a + n <= b => a + n \in S}
<1>1. 0 \in R
  BY a + 0 = a
<1>2. ASSUME NEW n \in Nat, n \in R PROVE n + 1 \in R
  <2> SUFFICES ASSUME a + (n + 1) <= b PROVE a + (n + 1) \in S
    OBVIOUS
  <2>1. a + n \in a..(b - 1) /\ (a + n) + 1 = a + (n + 1)
    OBVIOUS
  <2>2. a + n \in S
    BY <1>2, <2>1
  <2> QED BY <2>1, <2>2
<1>3. \A n \in Nat : n \in R
  <2> HIDE DEF R
  <2> QED BY <1>1, <1>2, SetInduction
<1>4. ASSUME NEW n \in a..b PROVE n \in S
  <2>1. n - a \in Nat /\ a + (n - a) = n
    OBVIOUS
  <2>2. n - a \in R
    BY <1>3, <2>1
  <2> QED BY <2>1, <2>2
<1> QED
  BY <1>4

\* f holds N values of an iteration that starts with number 1, each in its set Inv[n].
IteratesWithin(f, N, Inv, start, G) ==
    /\ f = [n \in 1..N |-> IF n = 1 THEN start ELSE G[n - 1][f[n - 1]]]
    /\ \A n \in 1..N : f[n] \in Inv[n]

(* A function defined from one number to the next exists, and keeps what    *)
(* every step keeps: Inv[n] holds the values that number n may have.        *)
LEMMA InvariantRecursion ==
    ASSUME NEW N \in Nat, NEW Inv, NEW start \in Inv[1], NEW G,
           \A n \in 1..(N - 1) : \A x \in Inv[n] : G[n][x] \in Inv[n + 1]
    PROVE  \E f : IteratesWithin(f, N, Inv, start, G)
<1>1. CASE N = 0
  <2>1. 1..N = {}
    BY <1>1
  <2>2. PICK f : f = [n \in 1..N |-> start]
    OBVIOUS
  <2>3. f = [n \in 1..N |-> IF n = 1 THEN start ELSE G[n - 1][f[n - 1]]]
    BY <2>1, <2>2
  <2> QED BY <2>1, <2>3 DEF IteratesWithin
<1>2. CASE N > 0
  <2> DEFINE X == UNION {Inv[n] : n \in 1..N}
             Step(n, x) == IF x \in Inv[n + 1] THEN G[n + 1][x] ELSE start
             H == [n \in 0..((N - 1) - 1) |-> [x \in X |-> Step(n, x)]]
  <2>1. start \in X /\ \A n \in 1..N : Inv[n] \subseteq X
    BY <1>2
  <2>2. ASSUME NEW n \in 0..((N - 1) - 1), NEW x \in X PROVE Step(n, x) \in X
    <3>1. n + 1 \in 1..(N - 1) /\ (n + 1) + 1 \in 1..N
      OBVIOUS
    <3>2. CASE x \in Inv[n + 1]
      <4>1. G[n + 1][x] \in Inv[(n + 1) + 1]
        BY <3>1, <3>2
      <4> QED BY <2>1, <3>1, <3>2, <4>1
    <3>3. CASE x \notin Inv[n + 1]
      BY <2>1, <3>3
    <3> QED BY <3>2, <3>3
  <2> HIDE DEF X, Step
  <2>3. H \in [0..((N - 1) - 1) -> [X -> X]]
    BY <2>2
  <2> HIDE DEF H
  <2>4. PICK g : Iterates(g, X, start, H, N - 1)
    <3>1. N - 1 \in Nat
      BY <1>2
    <3> QED BY <2>1, <2>3, <3>1, RecursionExists
  <2>5. g[0] = start /\ \A n \in 1..(N - 1) : g[n] = H[n - 1][g[n - 1]]
    BY <2>4 DEF Iterates
  <2> DEFINE S == {n \in 0..(N - 1) : g[n] \in Inv[n + 1]}
  <2>6. 0 \in S
    BY <1>2, <2>5
  <2>7. ASSUME NEW n \in 0..((N - 1) - 1), g[n] \in Inv[n + 1]
        PROVE  g[n + 1] = G[n + 1][g[n]] /\ g[n + 1] \in Inv[(n + 1) + 1]
    <3>1. n + 1 \in 1..(N - 1) /\ n + 1 \in 1..N /\ (n + 1) - 1 = n
      OBVIOUS
    <3>2. g[n] \in X
      BY <2>1, <2>7, <3>1
    <3>3. g[n + 1] = H[n][g[n]]
      BY <2>5, <3>1
    <3>4. H[n][g[n]] = Step(n, g[n])
      BY <3>2 DEF H
    <3>5. Step(n, g[n]) = G[n + 1][g[n]]
      BY <2>7 DEF Step
    <3> QED BY <2>7, <3>1, <3>3, <3>4, <3>5
  <2>8. \A n \in 0..(N - 1) : n \in S
    <3>1. \A n \in 0..((N - 1) - 1) : n \in S => n + 1 \in S
      BY <2>7
    <3> HIDE DEF S
    <3>2. PICK b \in Int, a \in Int : b = N - 1 /\ a = 0
      OBVIOUS
    <3>3. a \in S /\ \A n \in a..(b - 1) : n \in S => n + 1 \in S
      BY <2>6, <3>1, <3>2
    <3>4. \A n \in a..b : n \in S
      BY <3>3, IntervalInduction
    <3> QED BY <3>2, <3>4
  <2>9. PICK f : f = [n \in 1..N |-> g[n - 1]]
    OBVIOUS
  <2>10. ASSUME NEW n \in 1..N
         PROVE  f[n] = (IF n = 1 THEN start ELSE G[n - 1][f[n - 1]]) /\ f[n] \in Inv[n]
    <3>1. f[n] = g[n - 1] /\ n - 1 \in 0..(N - 1) /\ (n - 1) + 1 = n
      BY <2>9
    <3>2. g[n - 1] \in Inv[n]
      BY <2>8, <3>1
    <3>3. CASE n = 1
      BY <2>5, <3>1, <3>2, <3>3
    <3>4. CASE n # 1
      <4>1. n - 2 \in 0..((N - 1) - 1) /\ n - 2 \in 0..(N - 1) /\ (n - 2) + 1 = n - 1 /\ n - 1 \in 1..N /\ (n - 1) - 1 = n - 2
        BY <3>4
      <4>2. g[n - 2] \in Inv[(n - 2) + 1]
        BY <2>8, <4>1
      <4>3. g[(n - 2) + 1] = G[(n - 2) + 1][g[n - 2]]
        BY <2>7, <4>1, <4>2
      <4>4. f[n - 1] = g[n - 2]
        BY <2>9, <4>1
      <4> QED BY <3>1, <3>2, <3>4, <4>1, <4>3, <4>4
    <3> QED BY <3>3, <3>4
  <2>11. f = [n \in 1..N |-> IF n = 1 THEN start ELSE G[n - 1][f[n - 1]]]
    <3>1. f = [n \in 1..N |-> f[n]]
      BY <2>9
    <3> QED BY <2>10, <3>1
  <2> QED BY <2>10, <2>11 DEF IteratesWithin
<1> QED
  BY <1>1, <1>2
=============================================================================
