-------------------------- MODULE DynamicPGMProofs --------------------------
EXTENDS DynamicPGM, NaturalLemmas

-----------------------------------------------------------------------------
(* Sizes of levels.                                                        *)

LEMMA LevelSizes ==
    ASSUME NEW data \in LevelData
    PROVE  /\ IsFiniteSet(KeysOf(data))
           /\ Cardinality(KeysOf(data)) \in Nat
<1>1. KeysOf(data) \in SUBSET Key
  BY DEF KeysOf
<1> QED
  BY <1>1, KeyAssumption, FS_Subset, FS_CardinalityType

LEMMA EmptyLevelFacts ==
    /\ EmptyLevel \in LevelData
    /\ KeysOf(EmptyLevel) = {}
    /\ Cardinality(KeysOf(EmptyLevel)) = 0
<1>1. EmptyLevel \in LevelData
  BY DEF EmptyLevel, LevelData
<1>2. KeysOf(EmptyLevel) = {}
  BY DEF EmptyLevel, KeysOf
<1> QED
  BY <1>1, <1>2, FS_EmptySet

LEMMA SizeZero ==
    ASSUME NEW data \in LevelData
    PROVE  Cardinality(KeysOf(data)) = 0 <=> KeysOf(data) = {}
BY LevelSizes, FS_EmptySet

(* Storing an item under a key the level lacks makes it larger by one.     *)
LEMMA StoreItem ==
    ASSUME NEW data \in LevelData, NEW k \in Key, NEW x \in Item
    PROVE  LET stored == [data EXCEPT ![k] = x]
           IN  /\ stored \in LevelData
               /\ KeysOf(stored) = KeysOf(data) \cup {k}
               /\ data[k] # Absent =>
                      Cardinality(KeysOf(stored)) = Cardinality(KeysOf(data))
               /\ data[k] = Absent =>
                      Cardinality(KeysOf(stored)) = Cardinality(KeysOf(data)) + 1
<1> DEFINE stored == [data EXCEPT ![k] = x]
<1>1. stored \in LevelData
  BY DEF LevelData
<1>2. KeysOf(stored) = KeysOf(data) \cup {k}
  BY ItemAssumption DEF KeysOf, LevelData
<1>3. k \in KeysOf(data) <=> data[k] # Absent
  BY DEF KeysOf
<1>4. IsFiniteSet(KeysOf(data))
  BY LevelSizes
<1> HIDE DEF stored
<1> QED
  BY <1>1, <1>2, <1>3, <1>4, FS_AddElement DEF stored

(* The levels between the buffer and i + 1 hold what those above i hold and *)
(* level i besides.                                                        *)
LEMMA ItemsAboveFinite ==
    ASSUME NEW i \in Nat
    PROVE  IsFiniteSet(ItemsAbove(i)) /\ Cardinality(ItemsAbove(i)) \in Nat
<1>1. IsFiniteSet((MinLevel + 1)..(i - 1))
  BY LevelAssumption, FS_Interval
<1>2. IsFiniteSet(((MinLevel + 1)..(i - 1)) \X Key)
  BY <1>1, KeyAssumption, FS_Product
<1>3. ItemsAbove(i) \in SUBSET (((MinLevel + 1)..(i - 1)) \X Key)
  BY DEF ItemsAbove
<1> QED
  BY <1>2, <1>3, FS_Subset, FS_CardinalityType

LEMMA ItemsAboveFirst == ItemsAbove(MinLevel + 1) = {}
BY LevelAssumption DEF ItemsAbove

LEMMA ItemsAboveNext ==
    ASSUME NEW i \in Nat, i > MinLevel, level(i) \in LevelData
    PROVE  Cardinality(ItemsAbove(i + 1)) = Cardinality(ItemsAbove(i)) + Size(i)
<1> DEFINE Own == {i} \X KeysOf(level(i))
<1>1. ItemsAbove(i + 1) = ItemsAbove(i) \cup Own
  BY LevelAssumption DEF ItemsAbove, KeysOf
<1>2. ItemsAbove(i) \cap Own = {}
  BY LevelAssumption DEF ItemsAbove
<1>3. Size(i) \in Nat /\ IsFiniteSet(KeysOf(level(i)))
  BY LevelSizes DEF Size
<1>4. IsFiniteSet(Own) /\ Cardinality(Own) = Size(i)
  <2>1. IsFiniteSet({i}) /\ Cardinality({i}) = 1
    BY FS_Singleton
  <2>2. IsFiniteSet(Own) /\ Cardinality(Own) = 1 * Cardinality(KeysOf(level(i)))
    BY <1>3, <2>1, FS_Product
  <2> QED BY <1>3, <2>2 DEF Size
<1>5. IsFiniteSet(ItemsAbove(i)) /\ Cardinality(ItemsAbove(i)) \in Nat
  BY ItemsAboveFinite
<1>6. Cardinality(ItemsAbove(i) \cap Own) = 0
  BY <1>2, FS_EmptySet
<1> HIDE DEF Own
<1>7. Cardinality(ItemsAbove(i) \cup Own)
        = Cardinality(ItemsAbove(i)) + Cardinality(Own) - Cardinality(ItemsAbove(i) \cap Own)
  BY <1>4, <1>5, FS_Union
<1>8. Cardinality(ItemsAbove(i + 1)) = Cardinality(ItemsAbove(i) \cup Own)
  BY <1>1 DEF Own
<1> QED
  BY <1>3, <1>4, <1>5, <1>6, <1>7, <1>8

-----------------------------------------------------------------------------
(* What a flush needs and produces.                                        *)

LEMMA LevelType ==
    ASSUME TypeOK, NEW i \in MinLevel..(MinLevel + Len(levels) - 1)
    PROVE  level(i) \in LevelData
<1>1. i - MinLevel + 1 \in 1..Len(levels)
  BY LevelAssumption DEF TypeOK
<1> QED
  BY <1>1 DEF TypeOK, level

(* No flush is larger than the level it reaches: the items it has picked up *)
(* when it gets to level i fit an empty level i. Every level passed on the  *)
(* way holds at most its size, and level i is twice as large.               *)
LEMMA FlushFits ==
    ASSUME TypeOK, VectorsCoverUsedLevels, LevelsFit,
           NEW i \in (MinLevel + 1)..used_levels
    PROVE  slots_required(i) \in Nat /\ slots_required(i) <= max_size(i)
<1> DEFINE Bad == {j \in (MinLevel + 1)..used_levels : slots_required(j) > max_size(j)}
<1>1. \A j \in (MinLevel + 1)..used_levels : j \in Nat /\ slots_required(j) \in Nat
  <2> TAKE j \in (MinLevel + 1)..used_levels
  <2>1. j \in Nat
    BY LevelAssumption
  <2> QED BY <2>1, ItemsAboveFinite, SizeAssumption DEF slots_required
<1>2. ASSUME Bad # {} PROVE FALSE
  <2> DEFINE m == Min(Bad)
  <2>1. Bad \in SUBSET Nat
    BY <1>1
  <2>2. m \in Bad /\ \A j \in Bad : m <= j
    <3> HIDE DEF Bad
    <3> QED BY <1>2, <2>1, LeastElement
  <2> HIDE DEF m
  <2>3. CASE m = MinLevel + 1
    <3>1. Cardinality(ItemsAbove(m)) = 0
      BY <2>3, ItemsAboveFirst, FS_EmptySet
    <3>2. slots_required(m) = buffer_max_size + 1
      BY <3>1, SizeAssumption DEF slots_required
    <3>3. slots_required(m) <= max_size(m)
      BY <2>3, <3>2, SizeAssumption
    <3>4. slots_required(m) \in Nat /\ max_size(m) \in Nat
      BY <2>3, <3>2, SizeAssumption, LevelAssumption
    <3> QED BY <2>2, <3>3, <3>4
  <2>4. CASE m # MinLevel + 1
    <3> DEFINE p == m - 1
    <3>1. /\ p \in (MinLevel + 1)..(used_levels - 1) /\ p \in Nat /\ p > MinLevel
          /\ p \in MinLevel..MaxLevel /\ m = p + 1
      BY <2>2, <2>4, LevelAssumption DEF TypeOK
    <3>0. /\ max_size(p) \in Nat /\ max_size(m) \in Nat
          /\ 2 * max_size(p) <= max_size(m)
      <4> HIDE DEF p
      <4>1. p \in MinLevel..(MaxLevel + 1) /\ p + 1 \in MinLevel..(MaxLevel + 1)
        BY <3>1, LevelAssumption
      <4> QED BY <3>1, <4>1, SizeAssumption
    <3> HIDE DEF p
    <3>2. p \notin Bad
      BY <2>2, <3>1
    <3>3. slots_required(p) \in Nat /\ slots_required(p) <= max_size(p)
      <4>1. p \in (MinLevel + 1)..used_levels
        BY <3>1, LevelAssumption DEF TypeOK
      <4> QED BY <1>1, <3>0, <3>2, <4>1
    <3>4. level(p) \in LevelData
      BY <3>1, LevelType, LevelAssumption DEF VectorsCoverUsedLevels, TypeOK
    <3>5. Cardinality(ItemsAbove(p + 1)) = Cardinality(ItemsAbove(p)) + Size(p)
      BY <3>1, <3>4, ItemsAboveNext
    <3>6. Size(p) \in Nat /\ Size(p) <= max_size(p)
      BY <3>1, <3>4, LevelSizes DEF LevelsFit, Size
    <3>7. slots_required(m) = slots_required(p) + Size(p)
      <4>1. Cardinality(ItemsAbove(p)) \in Nat
        BY <3>1, ItemsAboveFinite
      <4>2. Cardinality(ItemsAbove(m)) = Cardinality(ItemsAbove(p)) + Size(p)
        BY <3>1, <3>5
      <4> QED BY <3>6, <4>1, <4>2, SizeAssumption DEF slots_required
    <3> QED BY <2>2, <3>0, <3>3, <3>6, <3>7
  <2> QED BY <2>3, <2>4
<1>3. max_size(i) \in Nat
  BY SizeAssumption, LevelAssumption DEF TypeOK
<1> QED
  BY <1>1, <1>2, <1>3

LEMMA NewestType ==
    ASSUME NEW ls \in Seq(LevelData), NEW lo \in Nat, NEW hi \in Nat,
           lo >= MinLevel, hi < MinLevel + Len(ls), NEW k \in Key
    PROVE  /\ Newest(ls, lo, hi, k) \in Item \cup {Absent}
           /\ Newest(ls, lo, hi, k) # Absent =>
                  \E i \in lo..hi : ls[i - MinLevel + 1][k] # Absent
<1> DEFINE holders == {i \in lo..hi : ls[i - MinLevel + 1][k] # Absent}
<1>1. \A i \in lo..hi : ls[i - MinLevel + 1] \in LevelData
  BY LevelAssumption
<1>2. holders # {} => Min(holders) \in holders
  <2>1. holders \in SUBSET Nat
    OBVIOUS
  <2> HIDE DEF holders
  <2> QED BY <2>1, LeastElement
<1>3. Newest(ls, lo, hi, k) = IF holders = {} THEN Absent
                              ELSE ls[Min(holders) - MinLevel + 1][k]
  BY DEF Newest
<1>4. CASE holders = {}
  BY <1>3, <1>4
<1>5. CASE holders # {}
  <2>1. PICK i \in lo..hi : i = Min(holders) /\ ls[i - MinLevel + 1][k] # Absent
    BY <1>2, <1>5
  <2>2. Newest(ls, lo, hi, k) = ls[i - MinLevel + 1][k]
    BY <1>3, <1>5, <2>1
  <2>3. ls[i - MinLevel + 1][k] \in Item \cup {Absent}
    BY <1>1 DEF LevelData
  <2> QED BY <2>1, <2>2, <2>3
<1> QED
  BY <1>4, <1>5

(* A merge keeps at most one item per key: as many as the new item, the    *)
(* buffer and the levels merged hold together.                             *)
LEMMA MergedLevel ==
    ASSUME TypeOK, VectorsCoverUsedLevels,
           NEW m \in MinLevel..used_levels, NEW last_level,
           NEW k \in Key, NEW x \in Item
    PROVE  LET data == MergedInto(m, last_level, k, x)
           IN  /\ data \in LevelData
               /\ Cardinality(KeysOf(data))
                      <= 1 + Size(MinLevel) + Cardinality(ItemsAbove(m + 1))
<1> DEFINE data == MergedInto(m, last_level, k, x)
           Deep == {l \in Key : \E j \in (MinLevel + 1)..m : level(j)[l] # Absent}
           Buffer == KeysOf(level(MinLevel))
<1>1. /\ MinLevel \in Nat /\ m \in Nat /\ m - 1 \in Nat /\ m >= MinLevel
      /\ m < MinLevel + Len(levels) /\ Len(levels) \in Nat
  BY LevelAssumption DEF TypeOK, VectorsCoverUsedLevels
<1>2. levels \in Seq(LevelData)
  BY DEF TypeOK
<1>3. \A l \in Key : /\ NewestWith(k, x, m, l) \in Item \cup {Absent}
                     /\ NewestWith(k, x, m, l) # Absent =>
                           l = k \/ \E j \in MinLevel..m : level(j)[l] # Absent
  <2> TAKE l \in Key
  <2>1. Newest(levels, MinLevel, m, l) \in Item \cup {Absent}
    BY <1>1, <1>2, NewestType
  <2>2. Newest(levels, MinLevel, m, l) # Absent =>
           \E j \in MinLevel..m : levels[j - MinLevel + 1][l] # Absent
    <3>1. MinLevel >= MinLevel
      BY <1>1
    <3> QED BY <1>1, <1>2, <3>1, NewestType, Zenon
  <2> QED BY <2>1, <2>2 DEF NewestWith, level
<1>4. data \in LevelData
  BY <1>3 DEF MergedInto, LevelData
<1>5. KeysOf(data) \subseteq {k} \cup (Buffer \cup Deep)
  <2> SUFFICES ASSUME NEW l \in KeysOf(data) PROVE l \in {k} \cup (Buffer \cup Deep)
    OBVIOUS
  <2>1. l \in Key /\ NewestWith(k, x, m, l) # Absent
    BY DEF KeysOf, MergedInto
  <2>2. CASE l = k
    BY <2>2
  <2>3. CASE l # k
    <3>1. PICK j \in MinLevel..m : level(j)[l] # Absent
      BY <1>3, <2>1, <2>3
    <3>2. CASE j = MinLevel
      BY <2>1, <3>1, <3>2 DEF KeysOf
    <3>3. CASE j # MinLevel
      <4>1. j \in (MinLevel + 1)..m
        BY <1>1, <3>3
      <4> QED BY <2>1, <3>1, <4>1
    <3> QED BY <3>2, <3>3
  <2> QED BY <2>2, <2>3
<1>6. /\ IsFiniteSet(Deep) /\ Cardinality(Deep) \in Nat
      /\ Cardinality(Deep) <= Cardinality(ItemsAbove(m + 1))
  <2> DEFINE holder(l) == CHOOSE j \in (MinLevel + 1)..m : level(j)[l] # Absent
             f == [l \in Deep |-> <<holder(l), l>>]
  <2>1. \A l \in Deep : holder(l) \in (MinLevel + 1)..m /\ level(holder(l))[l] # Absent
    OBVIOUS
  <2>2. f \in [Deep -> ItemsAbove(m + 1)]
    <3> SUFFICES ASSUME NEW l \in Deep PROVE <<holder(l), l>> \in ItemsAbove(m + 1)
      OBVIOUS
    <3>1. (MinLevel + 1)..m = (MinLevel + 1)..((m + 1) - 1)
      BY <1>1
    <3>2. holder(l) \in (MinLevel + 1)..((m + 1) - 1) /\ level(holder(l))[l] # Absent
      BY <2>1, <3>1
    <3> HIDE DEF holder
    <3> QED BY <3>2 DEF ItemsAbove
  <2>3. \A a, b \in Deep : f[a] = f[b] => a = b
    <3> HIDE DEF holder
    <3> QED OBVIOUS
  <2>4. f \in Injection(Deep, ItemsAbove(m + 1))
    BY <2>2, <2>3 DEF Injection, IsInjective
  <2>5. IsFiniteSet(ItemsAbove(m + 1))
    BY <1>1, ItemsAboveFinite
  <2> HIDE DEF f, Deep
  <2> QED BY <2>4, <2>5, FS_Injection, FS_CardinalityType
<1>7. IsFiniteSet(Buffer) /\ Cardinality(Buffer) \in Nat
  <2>1. level(MinLevel) \in LevelData
    BY <1>1, LevelType
  <2> QED BY <2>1, LevelSizes
<1>8. /\ IsFiniteSet({k} \cup (Buffer \cup Deep))
      /\ Cardinality({k} \cup (Buffer \cup Deep)) \in Nat
      /\ Cardinality({k} \cup (Buffer \cup Deep))
            <= 1 + Cardinality(Buffer) + Cardinality(Deep)
  <2> HIDE DEF Buffer, Deep
  <2>1. /\ IsFiniteSet(Buffer \cup Deep)
        /\ Cardinality(Buffer \cup Deep) \in Nat
        /\ Cardinality(Buffer \cup Deep) <= Cardinality(Buffer) + Cardinality(Deep)
    <3>1. IsFiniteSet(Buffer \cap Deep) /\ Cardinality(Buffer \cap Deep) \in Nat
      BY <1>7, FS_Intersection, FS_CardinalityType
    <3>2. IsFiniteSet(Buffer \cup Deep)
          /\ Cardinality(Buffer \cup Deep)
                = Cardinality(Buffer) + Cardinality(Deep) - Cardinality(Buffer \cap Deep)
      BY <1>6, <1>7, FS_Union
    <3>3. Cardinality(Buffer \cup Deep) \in Nat
      BY <3>2, FS_CardinalityType
    <3> QED BY <1>6, <1>7, <3>1, <3>2, <3>3
  <2>2. /\ IsFiniteSet((Buffer \cup Deep) \cup {k})
        /\ Cardinality((Buffer \cup Deep) \cup {k}) \in Nat
        /\ Cardinality((Buffer \cup Deep) \cup {k}) <= Cardinality(Buffer \cup Deep) + 1
    <3>1. /\ IsFiniteSet((Buffer \cup Deep) \cup {k})
          /\ Cardinality((Buffer \cup Deep) \cup {k})
                = IF k \in Buffer \cup Deep THEN Cardinality(Buffer \cup Deep)
                                           ELSE Cardinality(Buffer \cup Deep) + 1
      BY <2>1, FS_AddElement
    <3>2. Cardinality((Buffer \cup Deep) \cup {k}) \in Nat
      BY <3>1, FS_CardinalityType
    <3> QED BY <2>1, <3>1, <3>2
  <2>3. {k} \cup (Buffer \cup Deep) = (Buffer \cup Deep) \cup {k}
    OBVIOUS
  <2>4. Cardinality((Buffer \cup Deep) \cup {k}) <= 1 + Cardinality(Buffer) + Cardinality(Deep)
    BY <1>6, <1>7, <2>1, <2>2
  <2> QED BY <2>2, <2>3, <2>4
<1>9. /\ Cardinality(KeysOf(data)) \in Nat
      /\ Cardinality(KeysOf(data)) <= Cardinality({k} \cup (Buffer \cup Deep))
  <2>1. Cardinality(KeysOf(data)) \in Nat
    BY <1>4, LevelSizes
  <2> HIDE DEF data, Buffer, Deep
  <2> QED BY <1>5, <1>8, <2>1, FS_Subset
<1>10. Cardinality(ItemsAbove(m + 1)) \in Nat
  BY <1>1, ItemsAboveFinite
<1>11. Size(MinLevel) = Cardinality(Buffer)
  BY DEF Size
<1> HIDE DEF data, Buffer, Deep
<1>12. Cardinality(KeysOf(data)) <= 1 + Size(MinLevel) + Cardinality(ItemsAbove(m + 1))
  BY <1>6, <1>7, <1>8, <1>9, <1>10, <1>11
<1> QED
  BY <1>4, <1>12 DEF data

(* The level a flush fills holds no more than its size.                    *)
LEMMA FlushResult ==
    ASSUME TypeOK, VectorsCoverUsedLevels, LevelsFit,
           NEW target, IsFlushTarget(target),
           NEW m, m = target - 1 \/ (m = target /\ target < used_levels),
           NEW last_level, NEW k \in Key, NEW x \in Item
    PROVE  /\ MergedInto(m, last_level, k, x) \in LevelData
           /\ Cardinality(KeysOf(MergedInto(m, last_level, k, x))) <= max_size(target)
<1> DEFINE data == MergedInto(m, last_level, k, x)
<1>1. /\ target \in (MinLevel + 1)..used_levels /\ target \in Nat /\ target > MinLevel
      /\ m \in MinLevel..used_levels /\ max_size(target) \in Nat
  <2>1. /\ target \in (MinLevel + 1)..used_levels /\ target \in Nat /\ target > MinLevel
        /\ m \in MinLevel..used_levels /\ target \in MinLevel..(MaxLevel + 1)
    BY LevelAssumption DEF IsFlushTarget, TypeOK
  <2> QED BY <2>1, SizeAssumption
<1>2. /\ data \in LevelData
      /\ Cardinality(KeysOf(data))
             <= 1 + Size(MinLevel) + Cardinality(ItemsAbove(m + 1))
  BY <1>1, MergedLevel
<1>3. slots_required(target) \in Nat /\ slots_required(target) <= max_size(target)
  BY <1>1, FlushFits
<1>4. Size(MinLevel) \in Nat /\ Size(MinLevel) <= buffer_max_size
  <2>1. level(MinLevel) \in LevelData
    BY <1>1, LevelType, LevelAssumption DEF TypeOK, VectorsCoverUsedLevels
  <2> QED BY <2>1, LevelSizes DEF Size, LevelsFit
<1>5. Cardinality(ItemsAbove(target)) \in Nat
  BY <1>1, ItemsAboveFinite
<1>6. Cardinality(KeysOf(data)) \in Nat
  BY <1>2, LevelSizes
<1> HIDE DEF data
<1>7. CASE m = target - 1
  <2>1. Cardinality(ItemsAbove(m + 1)) = Cardinality(ItemsAbove(target))
    <3>1. m + 1 = target
      BY <1>1, <1>7
    <3> QED BY <3>1
  <2> QED BY <1>1, <1>2, <1>3, <1>4, <1>5, <1>6, <2>1, SizeAssumption
        DEF slots_required, data
<1>8. CASE m = target /\ target < used_levels
  <2>1. level(target) \in LevelData
    BY <1>1, LevelType, LevelAssumption DEF TypeOK, VectorsCoverUsedLevels
  <2>2. Size(target) \in Nat
    BY <2>1, LevelSizes DEF Size
  <2>3. Cardinality(ItemsAbove(m + 1)) = Cardinality(ItemsAbove(target)) + Size(target)
    BY <1>1, <1>8, <2>1, ItemsAboveNext
  <2>4. slots_required(target) + Size(target) <= max_size(target)
    BY <1>1, <1>3, <1>8, <2>2 DEF IsFlushTarget, slots_left_in_level
  <2> QED BY <1>1, <1>2, <1>4, <1>5, <1>6, <2>2, <2>3, <2>4, SizeAssumption
        DEF slots_required, data
<1> QED
  BY <1>7, <1>8

-----------------------------------------------------------------------------
(* The inductive invariant: the conjuncts need one another. LevelsFit      *)
(* bounds what a flush brings, IndexesFresh relies on pgms having exactly   *)
(* one index per level in use, and that on levels having room.             *)
IInv ==
    /\ TypeOK /\ VectorsCoverUsedLevels /\ LevelsFit /\ IndexesFresh
    /\ Len(levels) >= 2    \* so that the first insertion finds a slot

LEMMA MaxOfTwo ==
    ASSUME NEW a \in Int, NEW b \in Int
    PROVE  Max({a, b}) = IF a >= b THEN a ELSE b
<1>1. \A m \in {a, b} : (\A y \in {a, b} : m >= y) => m = IF a >= b THEN a ELSE b
  OBVIOUS
<1>2. \E m \in {a, b} : \A y \in {a, b} : m >= y
  OBVIOUS
<1> QED
  BY <1>1, <1>2 DEF Max

LEMMA IndexCount ==
    ASSUME NEW u \in MinLevel..MaxLevel
    PROVE  Max({u - MinIndexLevel, 0})
              = IF u >= MinIndexLevel THEN u - MinIndexLevel ELSE 0
BY LevelAssumption, MaxOfTwo

LEMMA InitInv == Init => IInv
<1>1. ASSUME ConstructEmpty PROVE IInv
  <2> USE <1>1 DEF ConstructEmpty
  <2>1. Len(levels) = LevelSlots - MinLevel /\ levels \in Seq(LevelData)
    BY LevelAssumption, EmptyLevelFacts
  <2>2. TypeOK
    BY <2>1, LevelAssumption DEF TypeOK
  <2>3. VectorsCoverUsedLevels
    <3>1. Max({used_levels - MinIndexLevel, 0}) = 0
      BY LevelAssumption, MaxOfTwo
    <3> QED BY <2>1, <3>1, LevelAssumption DEF VectorsCoverUsedLevels
  <2>4. \A i \in MinLevel..(MinLevel + Len(levels) - 1) : level(i) = EmptyLevel
    BY <2>1, LevelAssumption DEF level
  <2>5. LevelsFit
    <3>1. \A i \in MinLevel..(MinLevel + Len(levels) - 1) : Size(i) = 0
      BY <2>4, EmptyLevelFacts DEF Size
    <3> QED BY <2>1, <3>1, LevelAssumption, SizeAssumption DEF LevelsFit
  <2>6. IndexesFresh
    BY LevelAssumption DEF IndexesFresh
  <2> QED BY <2>1, <2>2, <2>3, <2>5, <2>6, LevelAssumption DEF IInv
<1>2. ASSUME NEW n \in 0..MaxBulk, NEW data \in [Key -> Value \cup {Absent}],
             SortedRange(n, data), ConstructFrom(n, data)
      PROVE  IInv
  <2> DEFINE c == ceil_log_base(n)
             target == Max({c, MinLevel})
             len == Max({target + 1, LevelSlots}) - MinLevel + 1
             T == target - MinLevel + 1
             P == target - MinIndexLevel + 1
  <2>0. /\ used_levels = IF n = 0 THEN MinLevel ELSE target + 1
        /\ levels = [j \in 1..len |-> IF j = T THEN data ELSE EmptyLevel]
        /\ pgms = IF n > 0 /\ has_pgm(target)
                  THEN [j \in 1..(target + 1 - MinIndexLevel) |->
                           IF j = P THEN KeysOf(data) ELSE {}]
                  ELSE << >>
    BY <1>2 DEF ConstructFrom
  <2>1. data \in LevelData
    BY DEF LevelData, Item
  <2>2. Cardinality(KeysOf(data)) <= n /\ (KeysOf(data) = {} <=> n = 0)
    BY <1>2 DEF SortedRange
  <2>3. n = 0 => c = 0
    <3>1. ceil_log2(0) = 0
      BY DEF ceil_log2
    <3> QED BY <3>1, LevelAssumption DEF ceil_log_base
  <2>4. c \in 0..(MaxLevel - 1) /\ n \in Nat
    BY <2>3, BulkAssumption, LevelAssumption
  <2> HIDE DEF c
  <2>5. target = IF c >= MinLevel THEN c ELSE MinLevel
    BY <2>4, LevelAssumption, MaxOfTwo
  <2>6. target \in MinLevel..(MaxLevel - 1)
    BY <2>4, <2>5, LevelAssumption
  <2> HIDE DEF target
  <2>7. len \in Nat /\ len > target + 1 - MinLevel /\ len >= 2
    <3>1. Max({target + 1, LevelSlots})
             = IF target + 1 >= LevelSlots THEN target + 1 ELSE LevelSlots
      BY <2>6, LevelAssumption, MaxOfTwo
    <3> QED BY <2>6, <3>1, LevelAssumption
  <2> HIDE DEF len
  <2>8. levels \in Seq(LevelData) /\ Len(levels) = len
    BY <2>0, <2>1, <2>7, EmptyLevelFacts
  <2>9. KeysOf(data) \in SUBSET Key
    BY DEF KeysOf
  <2>10. TypeOK
    <3>1. used_levels \in MinLevel..MaxLevel
      BY <2>0, <2>6, LevelAssumption
    <3>2. pgms \in Seq(SUBSET Key)
      BY <2>0, <2>6, <2>9, LevelAssumption DEF has_pgm
    <3> QED BY <2>8, <3>1, <3>2 DEF TypeOK
  <2>11. VectorsCoverUsedLevels
    <3>1. Len(levels) > used_levels - MinLevel
      BY <2>0, <2>6, <2>7, <2>8, LevelAssumption
    <3>2. Max({used_levels - MinIndexLevel, 0})
            = IF used_levels - MinIndexLevel >= 0 THEN used_levels - MinIndexLevel ELSE 0
      BY <2>10, LevelAssumption, MaxOfTwo DEF TypeOK
    <3>3. Len(pgms) = IF used_levels - MinIndexLevel >= 0
                      THEN used_levels - MinIndexLevel ELSE 0
      BY <2>0, <2>4, <2>6, LevelAssumption DEF has_pgm
    <3> QED BY <3>1, <3>2, <3>3 DEF VectorsCoverUsedLevels
  <2>12. \A i \in MinLevel..(MinLevel + len - 1) :
            level(i) = IF i = target THEN data ELSE EmptyLevel
    BY <2>0, <2>6, <2>7, LevelAssumption DEF level
  <2>13. LevelsFit
    <3>1. \A i \in MinLevel..(MinLevel + len - 1) :
             i # target \/ n = 0 => Size(i) = 0
      BY <2>2, <2>12, EmptyLevelFacts, FS_EmptySet DEF Size
    <3>2. Size(target) = Cardinality(KeysOf(data)) /\ Size(target) \in Nat
      <4>1. target \in MinLevel..(MinLevel + len - 1)
        BY <2>6, <2>7, LevelAssumption
      <4>2. level(target) = data
        BY <2>12, <4>1
      <4> QED BY <2>1, <4>2, LevelSizes DEF Size
    <3>3. n > 0 => Size(target) <= IF target = MinLevel THEN buffer_max_size
                                                        ELSE max_size(target)
      <4> SUFFICES ASSUME n > 0 PROVE Size(target) <= IF target = MinLevel
                                        THEN buffer_max_size ELSE max_size(target)
        OBVIOUS
      <4>1. n <= max_size(c)
        BY <2>4, BulkAssumption DEF c
      <4>2. Size(target) <= n
        BY <2>2, <3>2
      <4>3. max_size(c) \in Nat
        BY <2>4, SizeAssumption, LevelAssumption
      <4>4. CASE c < MinLevel
        <5>1. target = MinLevel
          BY <2>4, <2>5, <4>4, LevelAssumption
        <5>2. max_size(c) <= buffer_max_size
          BY <2>4, <4>4, SizeAssumption, LevelAssumption
        <5> QED BY <2>4, <3>2, <4>1, <4>2, <4>3, <5>1, <5>2, SizeAssumption
      <4>5. CASE c >= MinLevel
        <5>1. target = c
          BY <2>5, <4>5
        <5>2. target = MinLevel => max_size(c) <= buffer_max_size
          BY <5>1, SizeAssumption, LevelAssumption
        <5>3. Size(target) <= max_size(target)
          BY <2>4, <3>2, <4>1, <4>2, <4>3, <5>1
        <5> QED BY <3>2, <4>3, <5>1, <5>2, <5>3, SizeAssumption
      <4> QED BY <2>4, <4>4, <4>5, LevelAssumption
    <3>4. /\ MinLevel \in MinLevel..(MinLevel + len - 1)
          /\ target \in MinLevel..(MinLevel + len - 1)
      BY <2>6, <2>7, LevelAssumption
    <3>5. Size(MinLevel) <= buffer_max_size
      BY <2>4, <3>1, <3>3, <3>4, SizeAssumption
    <3>6. \A i \in (MinLevel + 1)..(used_levels - 1) : Size(i) <= max_size(i)
      <4> SUFFICES ASSUME NEW i \in (MinLevel + 1)..(used_levels - 1)
                   PROVE Size(i) <= max_size(i)
        OBVIOUS
      <4>1. /\ i \in MinLevel..(MinLevel + len - 1) /\ n > 0 /\ i # MinLevel
            /\ i \in MinLevel..(MaxLevel + 1)
        BY <2>0, <2>4, <2>6, <2>7, LevelAssumption
      <4>2. max_size(i) \in Nat
        BY <4>1, SizeAssumption, LevelAssumption
      <4>3. CASE i = target
        BY <3>3, <4>1, <4>3
      <4>4. CASE i # target
        BY <3>1, <4>1, <4>2, <4>4
      <4> QED BY <4>3, <4>4
    <3>7. \A i \in used_levels..(MinLevel + len - 1) : Size(i) = 0
      BY <2>0, <2>4, <2>6, <3>1, LevelAssumption
    <3> QED BY <2>8, <3>5, <3>6, <3>7 DEF LevelsFit
  <2>14. IndexesFresh
    <3> SUFFICES ASSUME NEW i \in MinIndexLevel..(used_levels - 1)
                 PROVE pgm(i) = KeysOf(level(i))
      BY DEF IndexesFresh
    <3>1. /\ n > 0 /\ used_levels = target + 1 /\ has_pgm(target)
          /\ i \in MinLevel..(MinLevel + len - 1)
          /\ i - MinIndexLevel + 1 \in 1..(target + 1 - MinIndexLevel)
      BY <2>0, <2>4, <2>6, <2>7, LevelAssumption DEF has_pgm
    <3>2. pgm(i) = IF i = target THEN KeysOf(data) ELSE {}
      BY <2>0, <2>6, <3>1, LevelAssumption DEF pgm
    <3>3. level(i) = IF i = target THEN data ELSE EmptyLevel
      BY <2>12, <3>1
    <3> QED BY <3>2, <3>3, EmptyLevelFacts
  <2> QED BY <2>7, <2>8, <2>10, <2>11, <2>13, <2>14 DEF IInv
<1> QED
  BY <1>1, <1>2 DEF Init

(* An item stored in the buffer: the other levels and every index stay.    *)
LEMMA BufferStep ==
    ASSUME IInv, NEW k \in Key, NEW x \in Item,
           levels' = [levels EXCEPT ![1] = [@ EXCEPT ![k] = x]]
    PROVE  /\ levels' \in Seq(LevelData)
           /\ Len(levels') = Len(levels)
           /\ level(MinLevel)' = [level(MinLevel) EXCEPT ![k] = x]
           /\ \A i \in (MinLevel + 1)..(MinLevel + Len(levels) - 1) : level(i)' = level(i)
<1>1. /\ levels \in Seq(LevelData) /\ Len(levels) \in Nat /\ Len(levels) > 0
      /\ level(MinLevel) = levels[1] /\ level(MinLevel)' = levels'[1]
  <2>1. MinLevel - MinLevel + 1 = 1
    BY LevelAssumption
  <2>2. level(MinLevel) = levels[1] /\ level(MinLevel)' = levels'[1]
    BY <2>1 DEF level
  <2> QED BY <2>2 DEF IInv, TypeOK
<1>2. [levels[1] EXCEPT ![k] = x] \in LevelData
  <2>1. levels[1] \in LevelData
    BY <1>1
  <2> QED BY <2>1, StoreItem
<1>3. levels' \in Seq(LevelData) /\ Len(levels') = Len(levels)
  BY <1>1, <1>2
<1>4. \A j \in 2..Len(levels) : levels'[j] = levels[j]
  BY <1>1
<1>5. \A i \in (MinLevel + 1)..(MinLevel + Len(levels) - 1) : level(i)' = level(i)
  BY <1>1, <1>4, LevelAssumption DEF level
<1> QED
  BY <1>1, <1>3, <1>5

LEMMA BufferStepInv ==
    ASSUME IInv, NEW k \in Key, NEW x \in Item,
           Overwrite(k, x) \/ InsertInBuffer(k, x)
    PROVE  IInv'
<1> USE DEF IInv
<1>1. /\ levels' = [levels EXCEPT ![1] = [@ EXCEPT ![k] = x]]
      /\ UNCHANGED pgms
      /\ used_levels' \in {used_levels, MinLevel + 1}
      /\ used_levels' = used_levels \/ used_levels = MinLevel
  BY DEF Overwrite, InsertInBuffer
<1>2. /\ levels' \in Seq(LevelData) /\ Len(levels') = Len(levels)
      /\ level(MinLevel)' = [level(MinLevel) EXCEPT ![k] = x]
      /\ \A i \in (MinLevel + 1)..(MinLevel + Len(levels) - 1) : level(i)' = level(i)
  BY <1>1, BufferStep
<1>3. /\ used_levels \in MinLevel..MaxLevel /\ used_levels' \in MinLevel..MaxLevel
      /\ Len(levels) \in Nat /\ MinLevel \in Nat
  BY <1>1, LevelAssumption DEF TypeOK
<1>4. level(MinLevel) \in LevelData
  BY <1>3, LevelType DEF VectorsCoverUsedLevels
<1>5. /\ Size(MinLevel) \in Nat /\ Size(MinLevel)' \in Nat
      /\ level(MinLevel)[k] # Absent => Size(MinLevel)' = Size(MinLevel)
      /\ level(MinLevel)[k] = Absent => Size(MinLevel)' = Size(MinLevel) + 1
  <2>1. level(MinLevel)' \in LevelData
    <3>1. [level(MinLevel) EXCEPT ![k] = x] \in LevelData
      BY <1>4, StoreItem
    <3> QED BY <1>2, <3>1
  <2>2. Size(MinLevel) \in Nat /\ Size(MinLevel)' \in Nat
    BY <1>4, <2>1, LevelSizes DEF Size
  <2>3. Size(MinLevel)' = Cardinality(KeysOf([level(MinLevel) EXCEPT ![k] = x]))
    BY <1>2 DEF Size
  <2> QED BY <1>4, <2>2, <2>3, StoreItem DEF Size
<1>6. \A i \in (MinLevel + 1)..(MinLevel + Len(levels) - 1) : Size(i)' = Size(i)
  BY <1>2 DEF Size
<1>7. used_levels' = MinLevel + 1 \/ (used_levels' = used_levels /\ used_levels > MinLevel)
  <2>1. CASE Overwrite(k, x)
    <3>1. level(MinLevel)[k] # Absent
      BY <2>1 DEF Overwrite
    <3>2. Size(MinLevel) # 0
      <4>1. k \in KeysOf(level(MinLevel))
        BY <3>1 DEF KeysOf
      <4> QED BY <1>4, <4>1, SizeZero DEF Size
    <3>3. used_levels # MinLevel
      BY <1>3, <3>2 DEF LevelsFit
    <3> QED BY <1>3, <2>1, <3>3 DEF Overwrite
  <2>2. CASE InsertInBuffer(k, x)
    BY <1>3, <2>2 DEF InsertInBuffer
  <2> QED BY <2>1, <2>2
<1>8. TypeOK'
  BY <1>1, <1>2, <1>3 DEF TypeOK
<1>9. VectorsCoverUsedLevels'
  <2>1. Len(levels') > used_levels' - MinLevel
    BY <1>2, <1>3, <1>7 DEF VectorsCoverUsedLevels
  <2>2. Max({used_levels' - MinIndexLevel, 0}) = Max({used_levels - MinIndexLevel, 0})
    <3>1. Max({used_levels' - MinIndexLevel, 0})
             = IF used_levels' >= MinIndexLevel THEN used_levels' - MinIndexLevel ELSE 0
      BY <1>3, IndexCount
    <3>2. Max({used_levels - MinIndexLevel, 0})
             = IF used_levels >= MinIndexLevel THEN used_levels - MinIndexLevel ELSE 0
      BY <1>3, IndexCount
    <3> QED BY <1>1, <1>3, <3>1, <3>2, LevelAssumption
  <2> QED BY <1>1, <2>1, <2>2 DEF VectorsCoverUsedLevels
<1>10. LevelsFit'
  <2>1. Size(MinLevel)' <= buffer_max_size
    <3>1. CASE Overwrite(k, x)
      BY <1>5, <3>1, SizeAssumption DEF LevelsFit, Overwrite
    <3>2. CASE InsertInBuffer(k, x)
      BY <1>5, <3>2, SizeAssumption DEF LevelsFit, InsertInBuffer
    <3> QED BY <3>1, <3>2
  <2>2. \A i \in (MinLevel + 1)..(used_levels' - 1) : Size(i)' <= max_size(i)
    <3> SUFFICES ASSUME NEW i \in (MinLevel + 1)..(used_levels' - 1)
                 PROVE Size(i)' <= max_size(i)
      OBVIOUS
    <3>1. i \in (MinLevel + 1)..(used_levels - 1)
      BY <1>1, <1>3, <1>7
    <3>2. Size(i)' = Size(i)
      BY <1>3, <1>6, <3>1 DEF VectorsCoverUsedLevels
    <3> QED BY <3>1, <3>2 DEF LevelsFit
  <2>3. \A i \in used_levels'..(MinLevel + Len(levels') - 1) : Size(i)' = 0
    BY <1>1, <1>2, <1>3, <1>6, <1>7 DEF LevelsFit
  <2> QED BY <2>1, <2>2, <2>3 DEF LevelsFit
<1>11. IndexesFresh'
  <2> SUFFICES ASSUME NEW i \in MinIndexLevel..(used_levels' - 1)
               PROVE pgm(i)' = KeysOf(level(i)')
    BY DEF IndexesFresh
  <2>1. i \in MinIndexLevel..(used_levels - 1)
    BY <1>1, <1>3, LevelAssumption
  <2>2. i \in (MinLevel + 1)..(MinLevel + Len(levels) - 1)
    BY <1>3, <2>1, LevelAssumption DEF VectorsCoverUsedLevels
  <2>3. pgm(i)' = pgm(i)
    BY <1>1 DEF pgm
  <2> QED BY <1>2, <2>1, <2>2, <2>3 DEF IndexesFresh
<1> QED
  BY <1>2, <1>8, <1>9, <1>10, <1>11

(* A flush: what every level and every index is after it. Part of the      *)
(* statement is that pairwise_merge never merges more than the capacity    *)
(* computation counted on: a target not in use yet is empty.               *)
FlushLimit(target) == IF KeysOf(level(target)) = {} THEN target - 1 ELSE target

\* all and indexes extend levels and pgms.
RoomMade(all, indexes) ==
    /\ all \in Seq(LevelData) /\ Len(all) >= Len(levels)
    /\ \A j \in 1..Len(all) :
          all[j] = IF j <= Len(levels) THEN levels[j] ELSE EmptyLevel
    /\ indexes \in Seq(SUBSET Key) /\ Len(indexes) >= Len(pgms)
    /\ \A j \in 1..Len(pgms) : indexes[j] = pgms[j]

Flushed(target, data, all, indexes) ==
    /\ data \in LevelData /\ Cardinality(KeysOf(data)) <= max_size(target)
    /\ levels' \in Seq(LevelData) /\ Len(levels') = Len(all)
    /\ pgms' \in Seq(SUBSET Key) /\ Len(pgms') = Len(indexes)
    /\ \A i \in MinLevel..(MinLevel + Len(all) - 1) :
          level(i)' = IF i < target THEN EmptyLevel
                      ELSE IF i = target THEN data
                      ELSE IF i < MinLevel + Len(levels) THEN level(i)
                      ELSE EmptyLevel
    /\ \A i \in MinIndexLevel..(MinIndexLevel + Len(indexes) - 1) :
          pgm(i)' = IF i < target THEN {}
                    ELSE IF i = target THEN KeysOf(data)
                    ELSE indexes[i - MinIndexLevel + 1]

LEMMA FlushStep ==
    ASSUME IInv, NEW k \in Key, NEW x \in Item,
           NEW target, IsFlushTarget(target), NEW last_level,
           NEW all, NEW indexes, RoomMade(all, indexes),
           pairwise_merge(k, x, target, last_level, all, indexes)
    PROVE  /\ \/ FlushLimit(target) = target - 1
              \/ FlushLimit(target) = target /\ target < used_levels
           /\ Flushed(target, MergedInto(FlushLimit(target), last_level, k, x), all, indexes)
<1> DEFINE m == FlushLimit(target)
           data == MergedInto(m, last_level, k, x)
           T == target - MinLevel + 1
           P == target - MinIndexLevel + 1
<1> USE DEF IInv, RoomMade
<1>1. /\ target \in (MinLevel + 1)..used_levels /\ target \in Nat
      /\ used_levels \in Nat /\ Len(levels) \in Nat /\ MinLevel \in Nat
      /\ T \in 1..Len(levels) /\ T \in 1..Len(all) /\ Len(all) \in Nat
      /\ MinIndexLevel \in Nat
  <2>1. used_levels \in Nat /\ Len(levels) \in Nat /\ MinLevel \in Nat /\ MinIndexLevel \in Nat
    BY LevelAssumption DEF TypeOK
  <2>2. Len(levels) > used_levels - MinLevel /\ Len(all) >= Len(levels) /\ Len(all) \in Nat
    BY DEF VectorsCoverUsedLevels
  <2>3. target \in (MinLevel + 1)..used_levels /\ target \in Nat
    BY <2>1 DEF IsFlushTarget
  <2>4. T \in 1..Len(levels) /\ T \in 1..Len(all)
    BY <2>1, <2>2, <2>3
  <2> QED BY <2>1, <2>2, <2>3, <2>4
<1>2. all[T] = level(target)
  BY <1>1 DEF level
<1>3. m = target - 1 \/ (m = target /\ target < used_levels)
  <2>1. CASE target = used_levels
    <3>1. Size(target) = 0
      BY <1>1, <2>1 DEF LevelsFit, VectorsCoverUsedLevels
    <3>2. level(target) \in LevelData
      BY <1>1, LevelType DEF VectorsCoverUsedLevels
    <3> QED BY <3>1, <3>2, SizeZero DEF Size, FlushLimit
  <2>2. CASE target < used_levels
    BY <2>2 DEF FlushLimit
  <2> QED BY <1>1, <2>1, <2>2
<1>4. data \in LevelData /\ Cardinality(KeysOf(data)) <= max_size(target)
  <2> HIDE DEF m
  <2> QED BY <1>3, FlushResult
<1>0. /\ DOMAIN all = 1..Len(all) /\ DOMAIN indexes = 1..Len(indexes)
      /\ Len(indexes) \in Nat
  OBVIOUS
<1>5. /\ levels' = [j \in 1..Len(all) |->
                      IF j < T THEN EmptyLevel ELSE IF j = T THEN data ELSE all[j]]
      /\ pgms' = [j \in 1..Len(indexes) |->
                    IF j < P THEN {} ELSE IF j = P THEN KeysOf(data) ELSE indexes[j]]
  BY <1>0, <1>2 DEF pairwise_merge, FlushLimit
<1> HIDE DEF m, data, T, P
<1>6. levels' \in Seq(LevelData) /\ Len(levels') = Len(all)
  <2>1. \A j \in 1..Len(all) :
           (IF j < T THEN EmptyLevel ELSE IF j = T THEN data ELSE all[j]) \in LevelData
    BY <1>4, EmptyLevelFacts
  <2> QED BY <1>1, <1>5, <2>1
<1>7. KeysOf(data) \in SUBSET Key
  BY DEF KeysOf
<1>8. pgms' \in Seq(SUBSET Key) /\ Len(pgms') = Len(indexes)
  <2>1. \A j \in 1..Len(indexes) :
           (IF j < P THEN {} ELSE IF j = P THEN KeysOf(data) ELSE indexes[j]) \in SUBSET Key
    BY <1>7
  <2> QED BY <1>0, <1>5, <2>1
<1>9. ASSUME NEW i \in MinLevel..(MinLevel + Len(all) - 1)
      PROVE  level(i)' = IF i < target THEN EmptyLevel
                         ELSE IF i = target THEN data
                         ELSE IF i < MinLevel + Len(levels) THEN level(i)
                         ELSE EmptyLevel
  <2> DEFINE j == i - MinLevel + 1
  <2>1. /\ j \in 1..Len(all)
        /\ (j < T <=> i < target) /\ (j = T <=> i = target)
        /\ ((j <= Len(levels)) <=> (i < MinLevel + Len(levels)))
    BY <1>1 DEF T
  <2>2. level(i)' = levels'[j] /\ level(i) = levels[j]
    BY DEF level
  <2> HIDE DEF j
  <2> QED BY <1>5, <2>1, <2>2
<1>10. ASSUME NEW i \in MinIndexLevel..(MinIndexLevel + Len(indexes) - 1)
       PROVE  pgm(i)' = IF i < target THEN {}
                        ELSE IF i = target THEN KeysOf(data)
                        ELSE indexes[i - MinIndexLevel + 1]
  <2> DEFINE j == i - MinIndexLevel + 1
  <2>1. /\ j \in 1..Len(indexes)
        /\ (j < P <=> i < target) /\ (j = P <=> i = target)
    BY <1>0, <1>1 DEF P
  <2>2. pgm(i)' = pgms'[j]
    BY DEF pgm
  <2> HIDE DEF j
  <2>3. pgm(i)' = IF i < target THEN {} ELSE IF i = target THEN KeysOf(data) ELSE indexes[j]
    BY <1>5, <2>1, <2>2
  <2> QED BY <2>3 DEF j
<1> QED
  BY <1>3, <1>4, <1>6, <1>8, <1>9, <1>10 DEF m, data, Flushed

\* What insert makes of used_levels and of the room in the two vectors.
RoomFor(next, target, all, indexes) ==
    /\ used_levels' = next
    /\ next \in MinLevel..MaxLevel
    /\ target < next
    /\ \/ next = used_levels
       \/ next = used_levels + 1 /\ target = used_levels
    /\ Len(all) > next - MinLevel
    /\ Len(indexes) = Max({next - MinIndexLevel, 0})

LEMMA FlushInv ==
    ASSUME IInv, NEW target, IsFlushTarget(target),
           NEW next, NEW data, NEW all, NEW indexes,
           RoomMade(all, indexes), Flushed(target, data, all, indexes),
           RoomFor(next, target, all, indexes)
    PROVE  IInv'
<1>1. /\ data \in LevelData /\ Cardinality(KeysOf(data)) <= max_size(target)
      /\ levels' \in Seq(LevelData) /\ Len(levels') = Len(all)
      /\ pgms' \in Seq(SUBSET Key) /\ Len(pgms') = Len(indexes)
  BY DEF Flushed
<1>2. \A i \in MinLevel..(MinLevel + Len(all) - 1) :
         level(i)' = IF i < target THEN EmptyLevel
                     ELSE IF i = target THEN data
                     ELSE IF i < MinLevel + Len(levels) THEN level(i)
                     ELSE EmptyLevel
  BY DEF Flushed
<1>3. \A i \in MinIndexLevel..(MinIndexLevel + Len(indexes) - 1) :
         pgm(i)' = IF i < target THEN {}
                   ELSE IF i = target THEN KeysOf(data)
                   ELSE indexes[i - MinIndexLevel + 1]
  BY DEF Flushed
<1>4. /\ target \in (MinLevel + 1)..used_levels /\ target \in Nat /\ target > MinLevel
      /\ used_levels \in MinLevel..MaxLevel /\ used_levels \in Nat /\ next \in Nat
      /\ next <= MaxLevel /\ Len(all) > next - MinLevel
      /\ target < next
      /\ next = used_levels \/ (next = used_levels + 1 /\ target = used_levels)
      /\ Len(levels) > used_levels - MinLevel /\ Len(all) >= Len(levels)
      /\ Len(levels) \in Nat /\ MinLevel \in Nat /\ MaxLevel \in Nat
      /\ Len(levels) >= 2 /\ Len(all) \in Nat
      /\ MinIndexLevel \in Nat /\ MinIndexLevel > MinLevel
  <2>1. MinLevel \in Nat /\ MaxLevel \in Nat /\ MinIndexLevel \in Nat /\ MinIndexLevel > MinLevel
    BY LevelAssumption
  <2>2. /\ used_levels \in MinLevel..MaxLevel /\ levels \in Seq(LevelData)
        /\ Len(levels) > used_levels - MinLevel /\ Len(levels) >= 2
    BY DEF IInv, TypeOK, VectorsCoverUsedLevels
  <2>3. target \in (MinLevel + 1)..used_levels
    BY DEF IsFlushTarget
  <2>4. all \in Seq(LevelData) /\ Len(all) >= Len(levels)
    BY DEF RoomMade
  <2>5. /\ next \in MinLevel..MaxLevel /\ Len(all) > next - MinLevel
        /\ target < next
        /\ next = used_levels \/ (next = used_levels + 1 /\ target = used_levels)
    BY DEF RoomFor
  <2>6. Len(levels) \in Nat /\ Len(all) \in Nat
    BY <2>2, <2>4
  <2> QED BY <2>1, <2>2, <2>3, <2>4, <2>5, <2>6
<1>10. indexes \in Seq(SUBSET Key) /\ \A j \in 1..Len(pgms) : indexes[j] = pgms[j]
  BY DEF RoomMade
<1>5. TypeOK'
  BY <1>1 DEF TypeOK, RoomFor
<1>6. VectorsCoverUsedLevels'
  BY <1>1 DEF VectorsCoverUsedLevels, RoomFor
<1>7. LevelsFit'
  <2>1. ASSUME NEW i \in MinLevel..(MinLevel + Len(all) - 1), i < target
        PROVE  Size(i)' = 0
    BY <1>2, <2>1, EmptyLevelFacts DEF Size
  <2>2. Size(MinLevel)' <= buffer_max_size
    <3>1. MinLevel \in MinLevel..(MinLevel + Len(all) - 1) /\ MinLevel < target
      BY <1>4
    <3>2. Size(MinLevel)' = 0
      BY <2>1, <3>1, Zenon
    <3> QED BY <3>2, SizeAssumption
  <2>3. ASSUME NEW i \in (MinLevel + 1)..(next - 1)
        PROVE  Size(i)' <= max_size(i)
    <3>1. i \in MinLevel..(MinLevel + Len(all) - 1) /\ max_size(i) \in Nat
      <4>1. i \in 0..(MaxLevel + 1)
        BY <1>4
      <4>2. max_size(i) \in Nat
        BY <4>1, SizeAssumption
      <4>3. i \in MinLevel..(MinLevel + Len(all) - 1)
        BY <1>4
      <4> QED BY <4>2, <4>3
    <3>2. CASE i < target
      BY <2>1, <3>1, <3>2
    <3>3. CASE i = target
      <4>1. level(i)' = data
        BY <1>2, <3>1, <3>3
      <4> QED BY <1>1, <3>3, <4>1 DEF Size
    <3>4. CASE i > target
      <4>1. i \in (MinLevel + 1)..(used_levels - 1) /\ i < MinLevel + Len(levels)
        BY <1>4, <3>4 DEF IInv, VectorsCoverUsedLevels
      <4>2. level(i)' = level(i)
        BY <1>2, <1>4, <3>1, <3>4, <4>1
      <4> QED BY <4>1, <4>2 DEF Size, IInv, LevelsFit
    <3> QED BY <1>4, <3>2, <3>3, <3>4
  <2>4. ASSUME NEW i \in next..(MinLevel + Len(levels') - 1)
        PROVE  Size(i)' = 0
    <3>1. i \in MinLevel..(MinLevel + Len(all) - 1) /\ i > target
      BY <1>1, <1>4
    <3>2. CASE i < MinLevel + Len(levels)
      <4>1. i \in used_levels..(MinLevel + Len(levels) - 1)
        BY <1>4, <3>1, <3>2
      <4>2. level(i)' = level(i)
        BY <1>2, <1>4, <3>1, <3>2
      <4> QED BY <4>1, <4>2 DEF Size, IInv, LevelsFit
    <3>3. CASE i >= MinLevel + Len(levels)
      <4>1. level(i)' = EmptyLevel
        BY <1>2, <1>4, <3>1, <3>3
      <4> QED BY <4>1, EmptyLevelFacts DEF Size
    <3> QED BY <1>4, <3>2, <3>3
  <2>5. used_levels' = next
    BY DEF RoomFor
  <2> QED BY <2>2, <2>3, <2>4, <2>5 DEF LevelsFit
<1>8. IndexesFresh'
  <2> SUFFICES ASSUME NEW i \in MinIndexLevel..(next - 1)
               PROVE  pgm(i)' = KeysOf(level(i)')
    BY DEF IndexesFresh, RoomFor
  <2>1. /\ i \in MinLevel..(MinLevel + Len(all) - 1)
        /\ i \in MinIndexLevel..(MinIndexLevel + Len(indexes) - 1)
    <3>1. Len(indexes) = next - MinIndexLevel
      <4>1. Len(indexes) = IF next >= MinIndexLevel
                           THEN next - MinIndexLevel ELSE 0
        BY <1>4, IndexCount DEF RoomFor
      <4> QED BY <1>4, <4>1
    <3> QED BY <1>4, <3>1
  <2>2. CASE i < target
    BY <1>2, <1>3, <2>1, <2>2, EmptyLevelFacts
  <2>3. CASE i = target
    BY <1>2, <1>3, <1>4, <2>1, <2>3
  <2>4. CASE i > target
    <3>1. /\ i \in MinIndexLevel..(used_levels - 1) /\ i < MinLevel + Len(levels)
          /\ i - MinIndexLevel + 1 \in 1..Len(pgms)
      <4>1. i \in MinIndexLevel..(used_levels - 1) /\ i < MinLevel + Len(levels)
        BY <1>4, <2>4 DEF IInv, VectorsCoverUsedLevels
      <4>2. Len(pgms) = IF used_levels >= MinIndexLevel
                        THEN used_levels - MinIndexLevel ELSE 0
        BY <1>4, IndexCount DEF IInv, VectorsCoverUsedLevels
      <4> QED BY <1>4, <4>1, <4>2
    <3>2. level(i)' = level(i)
      BY <1>2, <1>4, <2>1, <2>4, <3>1
    <3>3. pgm(i)' = pgm(i)
      BY <1>3, <1>4, <1>10, <2>1, <2>4, <3>1 DEF pgm
    <3> QED BY <3>1, <3>2, <3>3 DEF IInv, IndexesFresh
  <2> QED BY <1>4, <2>2, <2>3, <2>4
<1>9. Len(levels') >= 2
  BY <1>1, <1>4
<1> QED
  BY <1>5, <1>6, <1>7, <1>8, <1>9 DEF IInv

LEMMA FlushToUsedLevelInv ==
    ASSUME IInv, NEW k \in Key, NEW x \in Item,
           NEW i \in (MinLevel + 1)..MaxLevel, FlushToUsedLevel(k, x, i)
    PROVE  IInv'
<1>1. /\ i < used_levels /\ IsFlushTarget(i) /\ used_levels' = used_levels
      /\ pairwise_merge(k, x, i, used_levels - 1, levels, pgms)
  BY DEF FlushToUsedLevel
<1>2. RoomMade(levels, pgms)
  BY DEF RoomMade, IInv, TypeOK
<1>3. Flushed(i, MergedInto(FlushLimit(i), used_levels - 1, k, x), levels, pgms)
  BY <1>1, <1>2, FlushStep
<1>4. RoomFor(used_levels, i, levels, pgms)
  BY <1>1 DEF RoomFor, IInv, TypeOK, VectorsCoverUsedLevels
<1> QED
  BY <1>1, <1>2, <1>3, <1>4, FlushInv

LEMMA AppendFacts ==
    ASSUME NEW S, NEW s \in Seq(S), NEW e \in S
    PROVE  /\ Append(s, e) \in Seq(S)
           /\ Len(Append(s, e)) = Len(s) + 1
           /\ \A j \in 1..Len(s) : Append(s, e)[j] = s[j]
OBVIOUS

(* A new level is made room for in both vectors, if they have none.        *)
MoreIndexes ==
    IF used_levels - MinIndexLevel >= Len(pgms) THEN Append(pgms, {}) ELSE pgms

LEMMA RoomForNewLevel ==
    ASSUME IInv, used_levels < MaxLevel, used_levels' = used_levels + 1
    PROVE  /\ RoomMade(Append(levels, EmptyLevel), MoreIndexes)
           /\ RoomFor(used_levels + 1, used_levels, Append(levels, EmptyLevel), MoreIndexes)
<1>1. /\ levels \in Seq(LevelData) /\ Len(levels) \in Nat
      /\ pgms \in Seq(SUBSET Key) /\ Len(pgms) \in Nat
      /\ used_levels \in MinLevel..MaxLevel
      /\ Len(levels) > used_levels - MinLevel
      /\ Len(pgms) = Max({used_levels - MinIndexLevel, 0})
  BY DEF IInv, TypeOK, VectorsCoverUsedLevels
<1>2. /\ MinLevel \in Nat /\ MaxLevel \in Nat
      /\ MinIndexLevel \in Nat /\ MinIndexLevel > MinLevel
  BY LevelAssumption
<1>3. Len(pgms) = IF used_levels >= MinIndexLevel THEN used_levels - MinIndexLevel ELSE 0
  BY <1>1, <1>2, IndexCount
<1>4. /\ Append(levels, EmptyLevel) \in Seq(LevelData)
      /\ Len(Append(levels, EmptyLevel)) = Len(levels) + 1
      /\ \A j \in 1..(Len(levels) + 1) :
            Append(levels, EmptyLevel)[j] = IF j <= Len(levels) THEN levels[j] ELSE EmptyLevel
  BY <1>1, EmptyLevelFacts
<1>5. /\ MoreIndexes \in Seq(SUBSET Key) /\ Len(MoreIndexes) >= Len(pgms)
      /\ \A j \in 1..Len(pgms) : MoreIndexes[j] = pgms[j]
      /\ Len(MoreIndexes) = IF used_levels >= MinIndexLevel THEN Len(pgms) + 1 ELSE Len(pgms)
  <2>1. /\ Append(pgms, {}) \in Seq(SUBSET Key)
        /\ Len(Append(pgms, {})) = Len(pgms) + 1
        /\ \A j \in 1..Len(pgms) : Append(pgms, {})[j] = pgms[j]
    <3>1. {} \in SUBSET Key
      OBVIOUS
    <3> QED BY <1>1, <3>1, AppendFacts, Zenon
  <2>2. CASE used_levels >= MinIndexLevel
    <3>1. MoreIndexes = Append(pgms, {})
      BY <1>1, <1>2, <1>3, <2>2 DEF MoreIndexes
    <3>2. Len(pgms) + 1 >= Len(pgms)
      BY <1>1
    <3> QED BY <2>1, <2>2, <3>1, <3>2, Zenon
  <2>3. CASE used_levels < MinIndexLevel
    <3>1. MoreIndexes = pgms
      BY <1>1, <1>2, <1>3, <2>3 DEF MoreIndexes
    <3>2. ~(used_levels >= MinIndexLevel) /\ Len(pgms) >= Len(pgms)
      BY <1>1, <1>2, <2>3
    <3> QED BY <1>1, <3>1, <3>2, Zenon
  <2>4. used_levels >= MinIndexLevel \/ used_levels < MinIndexLevel
    BY <1>1, <1>2
  <2> QED BY <2>2, <2>3, <2>4, Zenon
<1>6. RoomMade(Append(levels, EmptyLevel), MoreIndexes)
  <2>1. Len(Append(levels, EmptyLevel)) >= Len(levels)
    BY <1>1, <1>4
  <2> QED BY <1>4, <1>5, <2>1 DEF RoomMade
<1>7. RoomFor(used_levels + 1, used_levels, Append(levels, EmptyLevel), MoreIndexes)
  <2>0. PICK next : next = used_levels + 1
    OBVIOUS
  <2>1. next \in MinLevel..MaxLevel /\ used_levels < next
    BY <1>1, <1>2, <2>0
  <2>2. Max({next - MinIndexLevel, 0})
           = IF next >= MinIndexLevel THEN next - MinIndexLevel ELSE 0
    BY <2>1, IndexCount
  <2>3. Len(MoreIndexes) = Max({next - MinIndexLevel, 0})
    BY <1>1, <1>2, <1>3, <1>5, <2>0, <2>2
  <2>4. Len(Append(levels, EmptyLevel)) > next - MinLevel
    BY <1>1, <1>2, <1>4, <2>0
  <2>5. used_levels' = next
    BY <2>0
  <2>6. RoomFor(next, used_levels, Append(levels, EmptyLevel), MoreIndexes)
    BY <2>0, <2>1, <2>3, <2>4, <2>5, Zenon DEF RoomFor
  <2> QED BY <2>0, <2>6, Zenon
<1> QED
  BY <1>6, <1>7

LEMMA FlushToNewLevelInv ==
    ASSUME IInv, NEW k \in Key, NEW x \in Item, FlushToNewLevel(k, x)
    PROVE  IInv'
<1>1. /\ IsFlushTarget(used_levels) /\ used_levels < MaxLevel
      /\ used_levels' = used_levels + 1
      /\ pairwise_merge(k, x, used_levels, used_levels, Append(levels, EmptyLevel), MoreIndexes)
  BY DEF FlushToNewLevel, MoreIndexes
<1>2. /\ RoomMade(Append(levels, EmptyLevel), MoreIndexes)
      /\ RoomFor(used_levels + 1, used_levels, Append(levels, EmptyLevel), MoreIndexes)
  BY <1>1, RoomForNewLevel
<1>3. Flushed(used_levels, MergedInto(FlushLimit(used_levels), used_levels, k, x),
              Append(levels, EmptyLevel), MoreIndexes)
  BY <1>1, <1>2, FlushStep
<1> QED
  BY <1>1, <1>2, <1>3, FlushInv

LEMMA StepInv == IInv /\ [Next]_vars => IInv'
<1> SUFFICES ASSUME IInv, [Next]_vars PROVE IInv'
  OBVIOUS
<1>1. ASSUME NEW k \in Key, NEW x \in Item, insert(k, x)
      PROVE  IInv'
  <2>1. CASE Overwrite(k, x) \/ InsertInBuffer(k, x)
    BY <2>1, BufferStepInv
  <2>2. ASSUME NEW i \in (MinLevel + 1)..MaxLevel, FlushToUsedLevel(k, x, i)
        PROVE  IInv'
    BY <2>2, FlushToUsedLevelInv
  <2>3. CASE FlushToNewLevel(k, x)
    BY <2>3, FlushToNewLevelInv
  <2> QED BY <1>1, <2>1, <2>2, <2>3 DEF insert
<1>2. CASE Next
  BY <1>1, <1>2 DEF Next, InsertOrAssign, Erase, Item
<1>3. CASE UNCHANGED vars
  BY <1>3 DEF vars, IInv, TypeOK, VectorsCoverUsedLevels, LevelsFit, IndexesFresh,
              Size, level, pgm
<1> QED
  BY <1>2, <1>3

THEOREM AlwaysIInv == Spec => []IInv
  BY InitInv, StepInv, PTL DEF Spec

(* The number of levels in use, the arrays and the indexes are always of   *)
(* the right type, whatever the container went through.                    *)
THEOREM TypeCorrect == Spec => []TypeOK
<1>1. IInv => TypeOK
  BY DEF IInv
<1> QED BY <1>1, AlwaysIInv, PTL

(* Every access by level number (level(i), pgm(i)) stays inside the two    *)
(* vectors, which insert grows under two different conditions.             *)
THEOREM AlwaysVectorsCoverUsedLevels == Spec => []VectorsCoverUsedLevels
<1>1. IInv => VectorsCoverUsedLevels
  BY DEF IInv
<1> QED BY <1>1, AlwaysIInv, PTL

(* No level outgrows its size: the capacity computation of insert counts   *)
(* all that a flush brings to its target, and never wraps around.          *)
THEOREM AlwaysLevelsFit == Spec => []LevelsFit
<1>1. IInv => LevelsFit
  BY DEF IInv
<1> QED BY <1>1, AlwaysIInv, PTL

(* The index of a level in use is never stale: it was built on exactly the *)
(* keys the level holds, so that find may trust the window it returns.     *)
THEOREM AlwaysIndexesFresh == Spec => []IndexesFresh
<1>1. IInv => IndexesFresh
  BY DEF IInv
<1> QED BY <1>1, AlwaysIInv, PTL

-----------------------------------------------------------------------------
(* DynamicPGM implements OrderedMap: what find returns for each key is a   *)
(* map that only insert_or_assign and erase change, whatever a flush moves *)
(* between levels. The argument relates find to the newest item of a key   *)
(* (FindIsNewest) and follows that item through a step.                    *)

Slots == MinLevel..(MinLevel + Len(levels) - 1)

\* What find makes of the item that decides.
LiveOf(y) == IF y = Tombstone THEN Absent ELSE y

\* Level i holds the newest item of key l.
FirstAt(i, l) ==
    /\ level(i)[l] # Absent
    /\ \A j \in MinLevel..(i - 1) : level(j)[l] = Absent

NoItem(l) == \A i \in Slots : level(i)[l] = Absent

FindMeansNewest ==
    \A l \in Key :
        /\ NoItem(l) => find(l) = Absent
        /\ \A i \in Slots : FirstAt(i, l) => find(l) = LiveOf(level(i)[l])
        /\ NoItem(l) \/ \E i \in Slots : FirstAt(i, l)
        /\ find(l) \in Value \cup {Absent}

(* What is known of the levels of a state, as integers and types.          *)
LEMMA SlotFacts ==
    ASSUME IInv
    PROVE  /\ MinLevel \in Nat /\ used_levels \in Nat /\ Len(levels) \in Nat
           /\ used_levels >= MinLevel /\ Len(levels) > used_levels - MinLevel
           /\ \A i \in Slots : i \in Nat /\ level(i) \in LevelData
           /\ \A i \in Slots : i >= used_levels =>
                 \A l \in Key : level(i)[l] = Absent
<1>1. /\ MinLevel \in Nat /\ used_levels \in MinLevel..MaxLevel /\ MaxLevel \in Nat
      /\ Len(levels) \in Nat /\ Len(levels) > used_levels - MinLevel
  BY LevelAssumption DEF IInv, TypeOK, VectorsCoverUsedLevels
<1>2. \A i \in Slots : i \in Nat /\ level(i) \in LevelData
  <2> TAKE i \in Slots
  <2>1. i \in MinLevel..(MinLevel + Len(levels) - 1) /\ i \in Nat
    BY <1>1 DEF Slots
  <2> QED BY <2>1, LevelType DEF IInv
<1>3. ASSUME NEW i \in Slots, i >= used_levels, NEW l \in Key
      PROVE  level(i)[l] = Absent
  <2>1. i \in used_levels..(MinLevel + Len(levels) - 1)
    BY <1>1, <1>3 DEF Slots
  <2>2. Size(i) = 0
    BY <2>1 DEF IInv, LevelsFit
  <2>3. KeysOf(level(i)) = {}
    BY <1>2, <2>2, SizeZero DEF Size
  <2> QED BY <2>3 DEF KeysOf
<1> QED
  BY <1>1, <1>2, <1>3

(* An index hides no key of its level: find locates a key in a level in    *)
(* use exactly if the level holds an item of it.                           *)
LEMMA IndexHidesNothing ==
    ASSUME IInv, NEW i \in MinLevel..(used_levels - 1), NEW l \in Key
    PROVE  Located(i, l) <=> level(i)[l] # Absent
<1>1. has_pgm(i) => pgm(i) = KeysOf(level(i))
  <2>1. has_pgm(i) => i \in MinIndexLevel..(used_levels - 1)
    BY LevelAssumption DEF has_pgm, IInv, TypeOK
  <2> QED BY <2>1 DEF IInv, IndexesFresh
<1> QED
  BY <1>1 DEF Located, KeysOf

LEMMA FindIsNewest == IInv => FindMeansNewest
<1> SUFFICES ASSUME IInv, NEW l \in Key
             PROVE  /\ NoItem(l) => find(l) = Absent
                    /\ \A i \in Slots : FirstAt(i, l) => find(l) = LiveOf(level(i)[l])
                    /\ NoItem(l) \/ \E i \in Slots : FirstAt(i, l)
                    /\ find(l) \in Value \cup {Absent}
  BY DEF FindMeansNewest
<1> DEFINE hits == {i \in MinLevel..(used_levels - 1) : Located(i, l)}
           held == {i \in Slots : level(i)[l] # Absent}
<1>1. /\ MinLevel \in Nat /\ used_levels \in Nat /\ Len(levels) \in Nat
      /\ used_levels >= MinLevel /\ Len(levels) > used_levels - MinLevel
      /\ \A i \in Slots : i \in Nat /\ level(i) \in LevelData
      /\ \A i \in Slots : i >= used_levels => level(i)[l] = Absent
  BY SlotFacts
<1>2. hits = held
  <2>1. \A i \in MinLevel..(used_levels - 1) : i \in Slots
    BY <1>1 DEF Slots
  <2>2. \A i \in Slots : i \in MinLevel..(used_levels - 1) \/ i >= used_levels
    BY <1>1 DEF Slots
  <2>3. \A i \in MinLevel..(used_levels - 1) : Located(i, l) <=> level(i)[l] # Absent
    BY IndexHidesNothing
  <2> QED BY <1>1, <2>1, <2>2, <2>3
<1>3. find(l) = IF held = {} THEN Absent ELSE LiveOf(level(Min(held))[l])
  BY <1>2 DEF find, LiveOf
<1>4. held \in SUBSET Nat /\ held \in SUBSET Slots
  BY <1>1
<1>5. NoItem(l) <=> held = {}
  BY DEF NoItem
<1> HIDE DEF hits
<1>6. held # {} => FirstAt(Min(held), l) /\ Min(held) \in Slots
  <2> SUFFICES ASSUME held # {} PROVE FirstAt(Min(held), l) /\ Min(held) \in Slots
    OBVIOUS
  <2>1. Min(held) \in held /\ \A j \in held : Min(held) <= j
    <3> HIDE DEF held
    <3> QED BY <1>4, LeastElement
  <2>2. PICK m : m = Min(held)
    OBVIOUS
  <2>3. m \in Slots /\ level(m)[l] # Absent
    BY <2>1, <2>2
  <2>4. ASSUME NEW j \in MinLevel..(m - 1) PROVE level(j)[l] = Absent
    <3>1. j \in Slots /\ ~(m <= j)
      BY <1>1, <2>3 DEF Slots
    <3> QED BY <2>1, <2>2, <3>1
  <2> QED BY <2>2, <2>3, <2>4 DEF FirstAt
<1>7. ASSUME NEW i \in Slots, FirstAt(i, l) PROVE find(l) = LiveOf(level(i)[l])
  <2>1. i \in held
    BY <1>7 DEF FirstAt
  <2>2. PICK m \in Slots : m = Min(held) /\ FirstAt(m, l)
    BY <1>6, <2>1
  <2>3. i \in Nat /\ m \in Nat /\ i >= MinLevel /\ m >= MinLevel
    BY <1>1 DEF Slots
  <2>4. ~(i < m)
    <3>1. i < m => i \in MinLevel..(m - 1)
      BY <1>1, <2>3
    <3> QED BY <1>7, <2>2, <3>1 DEF FirstAt
  <2>5. ~(m < i)
    <3>1. m < i => m \in MinLevel..(i - 1)
      BY <1>1, <2>3
    <3> QED BY <1>7, <2>2, <3>1 DEF FirstAt
  <2>6. m = i
    BY <2>3, <2>4, <2>5
  <2> QED BY <1>3, <2>1, <2>2, <2>6
<1>8. find(l) \in Value \cup {Absent}
  <2>1. CASE held = {}
    BY <1>3, <2>1
  <2>2. CASE held # {}
    <3>1. PICK m \in Slots : m = Min(held)
      BY <1>6, <2>2
    <3>2. level(m)[l] \in Item \cup {Absent}
      BY <1>1 DEF LevelData
    <3> QED BY <1>3, <2>2, <3>1, <3>2 DEF LiveOf, Item
  <2> QED BY <2>1, <2>2
<1> HIDE DEF held
<1>9. NoItem(l) => find(l) = Absent
  BY <1>3, <1>5
<1>10. NoItem(l) \/ \E i \in Slots : FirstAt(i, l)
  BY <1>5, <1>6
<1> QED
  BY <1>7, <1>8, <1>9, <1>10

LEMMA FindIsNewestNext == IInv' => FindMeansNewest'
BY FindIsNewest, PTL

(* The same in the state after a step, for a vector of n levels.           *)
LEMMA FindAfter ==
    ASSUME IInv', NEW n \in Nat, Len(levels') = n, NEW l \in Key
    PROVE  /\ (\A i \in MinLevel..(MinLevel + n - 1) : level(i)'[l] = Absent)
                  => find(l)' = Absent
           /\ \A i \in MinLevel..(MinLevel + n - 1) :
                 /\ level(i)'[l] # Absent
                 /\ \A j \in MinLevel..(i - 1) : level(j)'[l] = Absent
                 => find(l)' = LiveOf(level(i)'[l])
<1>1. FindMeansNewest'
  BY FindIsNewestNext
<1>2. Slots' = MinLevel..(MinLevel + n - 1)
  BY DEF Slots
<1>3. NoItem(l)' <=> \A i \in MinLevel..(MinLevel + n - 1) : level(i)'[l] = Absent
  BY <1>2 DEF NoItem
<1>4. /\ NoItem(l)' => find(l)' = Absent
      /\ \A i \in Slots' : FirstAt(i, l)' => find(l)' = LiveOf(level(i)'[l])
  BY <1>1 DEF FindMeansNewest, LiveOf
<1>5. \A i : FirstAt(i, l)' <=> /\ level(i)'[l] # Absent
                                /\ \A j \in MinLevel..(i - 1) : level(j)'[l] = Absent
  BY DEF FirstAt
<1> QED
  BY <1>2, <1>3, <1>4, <1>5

(* A key no level of which changes keeps its value.                        *)
LEMMA SameItemsSameFind ==
    ASSUME IInv, IInv', NEW n \in Nat, Len(levels') = n, n >= Len(levels),
           NEW l \in Key,
           \A i \in Slots : level(i)'[l] = level(i)[l],
           \A i \in (MinLevel + Len(levels))..(MinLevel + n - 1) : level(i)'[l] = Absent
    PROVE  find(l)' = find(l)
<1>1. /\ MinLevel \in Nat /\ Len(levels) \in Nat
      /\ \A i \in Slots : i \in MinLevel..(MinLevel + n - 1)
      /\ \A i \in MinLevel..(MinLevel + n - 1) :
            i \in Slots \/ i \in (MinLevel + Len(levels))..(MinLevel + n - 1)
  BY SlotFacts DEF Slots
<1>2. /\ NoItem(l) => find(l) = Absent
      /\ \A i \in Slots : FirstAt(i, l) => find(l) = LiveOf(level(i)[l])
      /\ NoItem(l) \/ \E i \in Slots : FirstAt(i, l)
  BY FindIsNewest DEF FindMeansNewest
<1>3. CASE NoItem(l)
  <2>1. \A i \in MinLevel..(MinLevel + n - 1) : level(i)'[l] = Absent
    BY <1>1, <1>3 DEF NoItem
  <2> QED BY <1>2, <1>3, <2>1, FindAfter
<1>4. CASE \E i \in Slots : FirstAt(i, l)
  <2>1. PICK i \in Slots : FirstAt(i, l)
    BY <1>4
  <2>2. level(i)'[l] = level(i)[l] /\ level(i)[l] # Absent
    BY <2>1 DEF FirstAt
  <2>3. ASSUME NEW j \in MinLevel..(i - 1) PROVE level(j)'[l] = Absent
    <3>1. j \in Slots
      BY <1>1, <2>1 DEF Slots
    <3> QED BY <2>1, <2>3, <3>1 DEF FirstAt
  <2>4. i \in MinLevel..(MinLevel + n - 1)
    BY <1>1, <2>1
  <2>5. find(l)' = LiveOf(level(i)'[l])
    BY <2>2, <2>3, <2>4, FindAfter
  <2> QED BY <1>2, <2>1, <2>2, <2>5
<1> QED
  BY <1>2, <1>3, <1>4

\* What insert of item x of key k does to the answers of find.
FindUpdated(k, x) ==
    \A l \in Key : find(l)' = IF l = k THEN LiveOf(x) ELSE find(l)

LEMMA BufferFind ==
    ASSUME IInv, IInv', NEW k \in Key, NEW x \in Item,
           Overwrite(k, x) \/ InsertInBuffer(k, x)
    PROVE  FindUpdated(k, x)
<1> SUFFICES ASSUME NEW l \in Key
             PROVE  find(l)' = IF l = k THEN LiveOf(x) ELSE find(l)
  BY DEF FindUpdated
<1>1. /\ Len(levels') = Len(levels)
      /\ level(MinLevel)' = [level(MinLevel) EXCEPT ![k] = x]
      /\ \A i \in (MinLevel + 1)..(MinLevel + Len(levels) - 1) : level(i)' = level(i)
  <2>1. levels' = [levels EXCEPT ![1] = [@ EXCEPT ![k] = x]]
    BY DEF Overwrite, InsertInBuffer
  <2> QED BY <2>1, BufferStep
<1>2. /\ MinLevel \in Nat /\ Len(levels) \in Nat /\ MinLevel \in Slots
      /\ level(MinLevel) \in LevelData
      /\ MinLevel \in MinLevel..(MinLevel + Len(levels) - 1)
  BY SlotFacts DEF Slots
<1>3. level(MinLevel)'[l] = IF l = k THEN x ELSE level(MinLevel)[l]
  BY <1>1, <1>2 DEF LevelData
<1>4. CASE l = k
  <2>1. level(MinLevel)'[l] = x /\ x # Absent
    BY <1>3, <1>4, ItemAssumption
  <2>2. \A j \in MinLevel..(MinLevel - 1) : level(j)'[l] = Absent
    BY <1>2
  <2>3. find(l)' = LiveOf(x)
    BY <1>1, <1>2, <2>1, <2>2, FindAfter
  <2> QED BY <1>4, <2>3
<1>5. CASE l # k
  <2>1. ASSUME NEW i \in Slots PROVE level(i)'[l] = level(i)[l]
    <3>1. i = MinLevel \/ i \in (MinLevel + 1)..(MinLevel + Len(levels) - 1)
      BY <1>2 DEF Slots
    <3> QED BY <1>1, <1>3, <1>5, <3>1
  <2>2. \A i \in (MinLevel + Len(levels))..(MinLevel + Len(levels) - 1) :
           level(i)'[l] = Absent
    BY <1>2
  <2>3. find(l)' = find(l)
    <3>1. Len(levels) >= Len(levels)
      BY <1>2
    <3> QED BY <1>1, <1>2, <2>1, <2>2, <3>1, SameItemsSameFind
  <2> QED BY <1>5, <2>3
<1> QED
  BY <1>4, <1>5

(* The item a merge down to level hi picks for a key.                      *)
LEMMA NewestIsFirst ==
    ASSUME IInv, NEW hi \in Slots, NEW l \in Key
    PROVE  /\ (\A i \in MinLevel..hi : level(i)[l] = Absent)
                  => Newest(levels, MinLevel, hi, l) = Absent
           /\ \A i \in MinLevel..hi :
                 FirstAt(i, l) => Newest(levels, MinLevel, hi, l) = level(i)[l]
<1> DEFINE holders == {i \in MinLevel..hi : level(i)[l] # Absent}
<1>1. Newest(levels, MinLevel, hi, l)
         = IF holders = {} THEN Absent ELSE level(Min(holders))[l]
  BY DEF Newest, level
<1>2. MinLevel \in Nat /\ hi \in Nat
  BY SlotFacts
<1>3. holders \in SUBSET Nat
  BY <1>2
<1>4. ASSUME NEW i \in MinLevel..hi, FirstAt(i, l)
      PROVE  Newest(levels, MinLevel, hi, l) = level(i)[l]
  <2>1. i \in holders
    BY <1>4 DEF FirstAt
  <2>2. Min(holders) \in holders /\ \A j \in holders : Min(holders) <= j
    <3> HIDE DEF holders
    <3> QED BY <1>3, <2>1, LeastElement
  <2>3. PICK m \in holders : m = Min(holders)
    BY <2>2
  <2>4. m <= i /\ m \in Nat /\ i \in Nat /\ m >= MinLevel
    BY <1>2, <2>1, <2>2, <2>3
  <2>5. ~(m < i)
    <3>1. m < i => m \in MinLevel..(i - 1)
      BY <1>2, <2>4
    <3> QED BY <1>4, <2>3, <3>1 DEF FirstAt
  <2>6. m = i
    BY <2>4, <2>5
  <2> QED BY <1>1, <2>1, <2>3, <2>6
<1>5. (\A i \in MinLevel..hi : level(i)[l] = Absent) => holders = {}
  OBVIOUS
<1> QED
  BY <1>1, <1>4, <1>5

(* The capacity computation leaves one case in which a merge may drop a    *)
(* tombstone: it merges the last level in use, below which there is none.  *)
DropsOnlyAtTheEnd(m, target, last_level) ==
    m = last_level => m = target /\ target = used_levels - 1

LEMMA FlushFind ==
    ASSUME IInv, IInv', NEW k \in Key, NEW x \in Item,
           NEW target, IsFlushTarget(target), NEW last_level,
           NEW m, m = FlushLimit(target),
           m = target - 1 \/ (m = target /\ target < used_levels),
           DropsOnlyAtTheEnd(m, target, last_level),
           NEW all, NEW indexes, RoomMade(all, indexes),
           Flushed(target, MergedInto(m, last_level, k, x), all, indexes)
    PROVE  FindUpdated(k, x)
<1> DEFINE data == MergedInto(m, last_level, k, x)
<1> SUFFICES ASSUME NEW l \in Key
             PROVE  find(l)' = IF l = k THEN LiveOf(x) ELSE find(l)
  BY DEF FindUpdated
<1>1. PICK n : n = Len(all)
  OBVIOUS
<1>2. /\ MinLevel \in Nat /\ Len(levels) \in Nat /\ used_levels \in Nat
      /\ Len(levels) > used_levels - MinLevel
      /\ n \in Nat /\ n >= Len(levels) /\ Len(levels') = n
  <2>1. all \in Seq(LevelData) /\ Len(all) >= Len(levels) /\ Len(levels') = Len(all)
    BY DEF RoomMade, Flushed
  <2>2. Len(all) \in Nat
    BY <2>1
  <2> QED BY <1>1, <2>1, <2>2, SlotFacts
<1>3. target \in (MinLevel + 1)..used_levels /\ target \in Nat /\ target > MinLevel
  BY <1>2 DEF IsFlushTarget
<1>4. /\ m \in Slots /\ target \in Slots /\ m \in Nat /\ m >= MinLevel
      /\ target \in MinLevel..(MinLevel + n - 1)
  BY <1>2, <1>3 DEF Slots
<1>5. \A i \in MinLevel..(MinLevel + n - 1) :
         level(i)' = IF i < target THEN EmptyLevel
                     ELSE IF i = target THEN data
                     ELSE IF i < MinLevel + Len(levels) THEN level(i)
                     ELSE EmptyLevel
  BY <1>1 DEF Flushed
<1> HIDE DEF data
<1>6. EmptyLevel[l] = Absent
  BY DEF EmptyLevel
<1>7. m = target - 1 => level(target)[l] = Absent
  <2> SUFFICES ASSUME m = target - 1 PROVE level(target)[l] = Absent
    OBVIOUS
  <2>1. KeysOf(level(target)) = {}
    BY <1>3, <1>4 DEF FlushLimit
  <2> QED BY <2>1 DEF KeysOf
<1>8. \A j \in MinLevel..(target - 1) : level(j)'[l] = Absent
  <2> TAKE j \in MinLevel..(target - 1)
  <2>1. j \in MinLevel..(MinLevel + n - 1) /\ j < target
    BY <1>2, <1>3, <1>4
  <2> QED BY <1>5, <1>6, <2>1
<1>9. level(target)'[l] = data[l]
  BY <1>3, <1>4, <1>5
<1>10. data[l] # Absent => find(l)' = LiveOf(data[l])
  BY <1>2, <1>4, <1>8, <1>9, FindAfter
<1>11. data[l] = IF /\ m = last_level
                    /\ NewestWith(k, x, m - 1, l) = Tombstone
                    /\ level(m)[l] # Absent
                 THEN Absent
                 ELSE NewestWith(k, x, m, l)
  BY DEF data, MergedInto
<1>12. CASE /\ m = last_level
            /\ NewestWith(k, x, m - 1, l) = Tombstone
            /\ level(m)[l] # Absent
  <2>1. m = target /\ target = used_levels - 1
    BY <1>12 DEF DropsOnlyAtTheEnd
  <2>2. data[l] = Absent
    BY <1>11, <1>12
  <2>3. ASSUME NEW i \in MinLevel..(MinLevel + n - 1) PROVE level(i)'[l] = Absent
    <3>1. i \in Nat /\ i >= MinLevel
      BY <1>2
    <3>2. CASE i < target
      BY <1>5, <1>6, <2>3, <3>2
    <3>3. CASE i = target
      BY <1>9, <2>2, <3>3
    <3>4. CASE i > target
      <4>1. CASE i < MinLevel + Len(levels)
        <5>1. i \in Slots /\ i >= used_levels
          BY <1>2, <1>3, <2>1, <3>1, <3>4, <4>1 DEF Slots
        <5>2. level(i)[l] = Absent
          BY <5>1, SlotFacts
        <5>3. level(i)' = level(i)
          BY <1>3, <1>5, <3>1, <3>4, <4>1
        <5> QED BY <5>2, <5>3
      <4>2. CASE ~(i < MinLevel + Len(levels))
        BY <1>3, <1>5, <1>6, <3>1, <3>4, <4>2
      <4> QED BY <4>1, <4>2
    <3> QED BY <1>3, <3>1, <3>2, <3>3, <3>4
  <2>4. find(l)' = Absent
    BY <1>2, <2>3, FindAfter
  <2>5. CASE l = k
    <3>1. x = Tombstone
      BY <1>12, <2>5 DEF NewestWith
    <3> QED BY <2>4, <2>5, <3>1 DEF LiveOf
  <2>6. CASE l # k
    <3>1. Newest(levels, MinLevel, m - 1, l) = Tombstone
      BY <1>12, <2>6 DEF NewestWith
    <3>2. m - 1 \in Slots
      BY <1>2, <1>3, <1>4, <2>1 DEF Slots
    <3>3. PICK i \in MinLevel..(m - 1) : level(i)[l] # Absent
      <4>1. Newest(levels, MinLevel, m - 1, l) # Absent
        BY <3>1, ItemAssumption DEF Item
      <4> QED BY <3>2, <4>1, NewestIsFirst
    <3>4. PICK f \in Slots : FirstAt(f, l)
      <4>1. i \in Slots
        BY <1>2, <1>4, <3>2, <3>3 DEF Slots
      <4>2. ~NoItem(l)
        BY <3>3, <4>1 DEF NoItem
      <4> QED BY <4>2, FindIsNewest DEF FindMeansNewest
    <3>5. f \in MinLevel..(m - 1)
      <4>1. f \in Nat /\ f >= MinLevel /\ i \in Nat /\ i >= MinLevel /\ i <= m - 1
        BY <1>2, <1>4, <3>3, <3>4 DEF Slots
      <4>2. i < f => i \in MinLevel..(f - 1)
        BY <1>2, <4>1
      <4>3. ~(i < f)
        BY <3>3, <3>4, <4>2 DEF FirstAt
      <4> QED BY <1>2, <1>4, <4>1, <4>3
    <3>6. level(f)[l] = Tombstone
      BY <3>1, <3>2, <3>4, <3>5, NewestIsFirst
    <3>7. find(l) = Absent
      BY <3>4, <3>6, FindIsNewest DEF FindMeansNewest, LiveOf
    <3> QED BY <2>4, <2>6, <3>7
  <2> QED BY <2>5, <2>6
<1>13. CASE ~(/\ m = last_level
              /\ NewestWith(k, x, m - 1, l) = Tombstone
              /\ level(m)[l] # Absent)
  <2>1. data[l] = NewestWith(k, x, m, l)
    BY <1>11, <1>13
  <2>2. CASE l = k
    <3>1. data[l] = x /\ x # Absent
      BY <2>1, <2>2, ItemAssumption DEF NewestWith
    <3> QED BY <1>10, <2>2, <3>1
  <2>3. CASE l # k
    <3>1. data[l] = Newest(levels, MinLevel, m, l)
      BY <2>1, <2>3 DEF NewestWith
    <3>2. CASE \A i \in MinLevel..m : level(i)[l] = Absent
      <4>1. data[l] = Absent
        BY <1>4, <3>1, <3>2, NewestIsFirst
      <4>2. ASSUME NEW i \in Slots PROVE level(i)'[l] = level(i)[l]
        <5>1. /\ i \in Nat /\ i >= MinLevel /\ i < MinLevel + Len(levels)
              /\ i \in MinLevel..(MinLevel + n - 1)
          BY <1>2 DEF Slots
        <5>2. CASE i < target
          <6>1. i \in MinLevel..m
            BY <1>2, <1>3, <1>4, <5>1, <5>2
          <6>2. level(i)[l] = Absent
            BY <3>2, <6>1
          <6> QED BY <1>5, <1>6, <5>1, <5>2, <6>2
        <5>3. CASE i = target
          <6>1. level(target)[l] = Absent
            <7>1. m = target => target \in MinLevel..m
              BY <1>2, <1>3
            <7> QED BY <1>7, <3>2, <7>1
          <6> QED BY <1>9, <4>1, <5>3, <6>1
        <5>4. CASE i > target
          BY <1>3, <1>5, <5>1, <5>4
        <5> QED BY <1>3, <5>1, <5>2, <5>3, <5>4
      <4>3. ASSUME NEW i \in (MinLevel + Len(levels))..(MinLevel + n - 1)
            PROVE  level(i)'[l] = Absent
        <5>1. /\ i \in MinLevel..(MinLevel + n - 1) /\ i > target
              /\ ~(i < MinLevel + Len(levels))
          BY <1>2, <1>3
        <5> QED BY <1>3, <1>5, <1>6, <5>1
      <4>4. find(l)' = find(l)
        BY <1>2, <4>2, <4>3, SameItemsSameFind
      <4> QED BY <2>3, <4>4
    <3>3. CASE \E i \in MinLevel..m : level(i)[l] # Absent
      <4>1. PICK i \in MinLevel..m : level(i)[l] # Absent
        BY <3>3
      <4>2. i \in Slots /\ i \in Nat /\ i >= MinLevel /\ i <= m
        BY <1>2, <1>4 DEF Slots
      <4>3. PICK f \in Slots : FirstAt(f, l)
        <5>1. ~NoItem(l)
          BY <4>1, <4>2 DEF NoItem
        <5> QED BY <5>1, FindIsNewest DEF FindMeansNewest
      <4>4. f \in MinLevel..m
        <5>1. f \in Nat /\ f >= MinLevel
          BY <1>2, <4>3 DEF Slots
        <5>2. i < f => i \in MinLevel..(f - 1)
          BY <1>2, <4>2, <5>1
        <5>3. ~(i < f)
          BY <4>1, <4>3, <5>2 DEF FirstAt
        <5> QED BY <1>2, <1>4, <4>2, <5>1, <5>3
      <4>5. data[l] = level(f)[l] /\ level(f)[l] # Absent
        <5>1. Newest(levels, MinLevel, m, l) = level(f)[l]
          BY <1>4, <4>3, <4>4, NewestIsFirst
        <5> QED BY <3>1, <4>3, <5>1 DEF FirstAt
      <4>6. find(l) = LiveOf(level(f)[l])
        BY <4>3, FindIsNewest DEF FindMeansNewest
      <4> QED BY <1>10, <2>3, <4>5, <4>6
    <3> QED BY <3>2, <3>3
  <2> QED BY <2>2, <2>3
<1> QED
  BY <1>12, <1>13

LEMMA InsertFind ==
    ASSUME IInv, IInv', NEW k \in Key, NEW x \in Item, insert(k, x)
    PROVE  FindUpdated(k, x)
<1>1. CASE Overwrite(k, x) \/ InsertInBuffer(k, x)
  BY <1>1, BufferFind
<1>2. ASSUME NEW i \in (MinLevel + 1)..MaxLevel, FlushToUsedLevel(k, x, i)
      PROVE  FindUpdated(k, x)
  <2>1. /\ i < used_levels /\ IsFlushTarget(i) /\ RoomMade(levels, pgms)
        /\ pairwise_merge(k, x, i, used_levels - 1, levels, pgms)
    BY <1>2 DEF FlushToUsedLevel, RoomMade, IInv, TypeOK
  <2>2. PICK m : m = FlushLimit(i)
    OBVIOUS
  <2>3. /\ m = i - 1 \/ (m = i /\ i < used_levels)
        /\ Flushed(i, MergedInto(m, used_levels - 1, k, x), levels, pgms)
    BY <2>1, <2>2, FlushStep
  <2>4. DropsOnlyAtTheEnd(m, i, used_levels - 1)
    <3>1. used_levels \in Nat /\ i \in Nat
      BY <2>1, SlotFacts, LevelAssumption
    <3> QED BY <2>1, <2>3, <3>1 DEF DropsOnlyAtTheEnd
  <2> QED BY <2>1, <2>2, <2>3, <2>4, FlushFind
<1>3. CASE FlushToNewLevel(k, x)
  <2>1. /\ IsFlushTarget(used_levels) /\ used_levels < MaxLevel
        /\ used_levels' = used_levels + 1
        /\ pairwise_merge(k, x, used_levels, used_levels, Append(levels, EmptyLevel), MoreIndexes)
    BY <1>3 DEF FlushToNewLevel, MoreIndexes
  <2>2. PICK m : m = FlushLimit(used_levels)
    OBVIOUS
  <2>3. RoomMade(Append(levels, EmptyLevel), MoreIndexes)
    BY <2>1, RoomForNewLevel
  <2>4. /\ m = used_levels - 1 \/ (m = used_levels /\ used_levels < used_levels)
        /\ Flushed(used_levels, MergedInto(m, used_levels, k, x),
                   Append(levels, EmptyLevel), MoreIndexes)
    BY <2>1, <2>2, <2>3, FlushStep
  <2>5. DropsOnlyAtTheEnd(m, used_levels, used_levels)
    <3>1. used_levels \in Nat
      BY SlotFacts
    <3> QED BY <2>4, <3>1 DEF DropsOnlyAtTheEnd
  <2> QED BY <2>1, <2>2, <2>3, <2>4, <2>5, FlushFind
<1> QED
  BY <1>1, <1>2, <1>3 DEF insert

-----------------------------------------------------------------------------
(* The refinement.                                                         *)

Answers == [k \in Key |-> find(k)]

LEMMA AnswersUpdated ==
    ASSUME NEW k \in Key, NEW x \in Item, FindUpdated(k, x)
    PROVE  Answers' = [Answers EXCEPT ![k] = LiveOf(x)]
<1>1. Answers' = [l \in Key |-> find(l)']
  BY DEF Answers
<1>2. \A l \in Key : find(l)' = IF l = k THEN LiveOf(x) ELSE find(l)
  BY DEF FindUpdated
<1>3. Answers' = [l \in Key |-> IF l = k THEN LiveOf(x) ELSE find(l)]
  BY <1>1, <1>2
<1>4. [Answers EXCEPT ![k] = LiveOf(x)]
         = [l \in Key |-> IF l = k THEN LiveOf(x) ELSE find(l)]
  BY DEF Answers
<1> QED
  BY <1>3, <1>4

LEMMA RefinementInit == Init => Map!Init
<1>1. ASSUME IInv PROVE [k \in Key |-> find(k)] \in [Key -> Value \cup {Absent}]
  <2>1. \A l \in Key : find(l) \in Value \cup {Absent}
    BY <1>1, FindIsNewest DEF FindMeansNewest
  <2> QED BY <2>1
<1> QED
  BY <1>1, InitInv DEF Map!Init

LEMMA RefinementStep ==
    IInv /\ IInv' /\ [Next]_vars => [Map!Next]_([k \in Key |-> find(k)])
<1> SUFFICES ASSUME IInv, IInv', [Next]_vars
             PROVE  [Map!Next]_([k \in Key |-> find(k)])
  OBVIOUS
<1>1. ASSUME NEW k \in Key, NEW v \in Value, InsertOrAssign(k, v)
      PROVE  Map!Next
  <2>1. v \in Item /\ LiveOf(v) = v
    BY ItemAssumption DEF Item, LiveOf
  <2>2. Answers' = [Answers EXCEPT ![k] = v]
    BY <1>1, <2>1, InsertFind, AnswersUpdated DEF InsertOrAssign
  <2>3. Map!InsertOrAssign(k, v)
    BY <2>2 DEF Map!InsertOrAssign, Answers
  <2> QED BY <2>3 DEF Map!Next
<1>2. ASSUME NEW k \in Key, Erase(k)
      PROVE  Map!Next
  <2>1. Tombstone \in Item /\ LiveOf(Tombstone) = Absent
    BY DEF Item, LiveOf
  <2>2. Answers' = [Answers EXCEPT ![k] = Absent]
    BY <1>2, <2>1, InsertFind, AnswersUpdated DEF Erase
  <2>3. Map!Erase(k)
    BY <2>2 DEF Map!Erase, Answers
  <2> QED BY <2>3 DEF Map!Next
<1>3. CASE UNCHANGED vars
  <2>1. UNCHANGED [k \in Key |-> find(k)]
    BY <1>3 DEF vars, find, Located, level, pgm
  <2> QED BY <2>1
<1> QED
  BY <1>1, <1>2, <1>3 DEF Next

(* Whatever is inserted, erased and merged, find answers as an ordered map *)
(* that only insert_or_assign and erase change: no flush loses a pair,     *)
(* brings an overwritten value back or revives an erased key.              *)
THEOREM ImplementsOrderedMap == Spec => IsAnOrderedMap
<1>1. Spec => []IInv
  BY AlwaysIInv
<1> QED
  BY <1>1, RefinementInit, RefinementStep, PTL DEF Spec, IsAnOrderedMap, Map!Spec
=============================================================================
