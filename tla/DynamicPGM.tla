----------------------------- MODULE DynamicPGM -----------------------------
(***************************************************************************)
(* The updates of DynamicPGMIndex (src/include/pgm/pgm_index_dynamic.hpp): *)
(* a log-structured hierarchy of sorted levels. Level min_level is the     *)
(* buffer every update lands in; a full buffer is flushed, merging the     *)
(* levels above a target into it and rebuilding the target's PGMIndex.     *)
(*                                                                         *)
(* A level is a map from keys to items, Absent where the level's array has *)
(* no item of that key: the arrays are sorted with unique keys, and module *)
(* LevelArrays shows that merge and lower_bound_bl on such arrays compute  *)
(* the operations on maps used here. A PGMIndex is the set of keys it was  *)
(* built on: all an update does to an index is to drop or rebuild it.      *)
(***************************************************************************)
EXTENDS Integers, Sequences, FiniteSets, FiniteSetsExt

CONSTANTS
    Key,            \* the values of the key type (updates only compare them for equality)
    Value,          \* the values a caller may insert
    Tombstone,      \* the reserved item of an erased key
    Absent,         \* "this level has no item of that key"
    LogBase,        \* ceil_log2(base); base is a power of two
    MinLevel,       \* min_level, the level that serves as buffer
    MinIndexLevel,  \* min_index_level
    LevelSlots,     \* the 32 of the constructors' levels.resize
    MaxLevel,       \* bound: the level numbers in use never exceed it
    MaxBulk         \* bound: the length of a range given to the constructor

VARIABLES
    used_levels,    \* number of the first level that is not in use
    levels,         \* levels[i - MinLevel + 1] is the data array at level i
    pgms            \* pgms[i - MinIndexLevel + 1] is the index at level i

vars == <<used_levels, levels, pgms>>

Item == Value \cup {Tombstone}
LevelData == [Key -> Item \cup {Absent}]
EmptyLevel == [k \in Key |-> Absent]
KeysOf(data) == {k \in Key : data[k] # Absent}

-----------------------------------------------------------------------------
(* Sizes. A level i above the buffer holds at most base^i items; the       *)
(* buffer stands for the levels 0..MinLevel together.                      *)

max_size(i) == 2 ^ (i * LogBase)

buffer_max_size == MapThenSumSet(max_size, 0..MinLevel)

ceil_log2(n) == CHOOSE e \in 0..n : n <= 2 ^ e /\ \A d \in 0..(e - 1) : 2 ^ d < n
ceil_log_base(n) == (ceil_log2(n) + LogBase - 1) \div LogBase

ASSUME KeyAssumption == IsFiniteSet(Key)

ASSUME ItemAssumption == Absent \notin Item /\ Tombstone \notin Value

ASSUME LevelAssumption ==
    /\ LogBase \in Nat \ {0}
    /\ MinLevel \in Nat \ {0}
    /\ MinIndexLevel \in Nat /\ MinIndexLevel > MinLevel
    /\ LevelSlots \in Nat /\ LevelSlots > MinLevel + 1
    /\ MaxLevel \in Nat /\ MaxLevel > MinLevel
    /\ MaxBulk \in Nat

\* The arithmetic of powers of the base: the buffer has room for each of the
\* levels it stands for, a full buffer plus one item fits the level below it, and
\* every level is at least twice as large as the one above it.
ASSUME SizeAssumption ==
    /\ buffer_max_size \in Nat \ {0}
    /\ buffer_max_size + 1 <= max_size(MinLevel + 1)
    /\ \A i \in 0..(MaxLevel + 1) : max_size(i) \in Nat \ {0}
    /\ \A i \in 0..MinLevel : max_size(i) <= buffer_max_size
    /\ \A i \in MinLevel..MaxLevel : 2 * max_size(i) <= max_size(i + 1)

\* The level the constructor picks for n items has room for them.
ASSUME BulkAssumption ==
    \A n \in 1..MaxBulk :
        ceil_log_base(n) \in 0..(MaxLevel - 1) /\ n <= max_size(ceil_log_base(n))

-----------------------------------------------------------------------------
(* Access to levels and indexes by level number.                           *)

level(i) == levels[i - MinLevel + 1]
pgm(i) == pgms[i - MinIndexLevel + 1]
has_pgm(i) == i >= MinIndexLevel
Size(i) == Cardinality(KeysOf(level(i)))

-----------------------------------------------------------------------------
(* Construction.                                                           *)

ConstructEmpty ==
    /\ used_levels = MinLevel
    /\ levels = [j \in 1..(LevelSlots - MinLevel) |-> EmptyLevel]
    /\ pgms = << >>

\* The constructor on a sorted range of n pairs whose distinct keys, each with
\* its first value, are data: duplicates count in n but are not stored.
ConstructFrom(n, data) ==
    LET target == Max({ceil_log_base(n), MinLevel})
    IN  /\ used_levels = IF n = 0 THEN MinLevel ELSE target + 1
        /\ levels = [j \in 1..(Max({target + 1, LevelSlots}) - MinLevel + 1) |->
                        IF j = target - MinLevel + 1 THEN data ELSE EmptyLevel]
        /\ pgms = IF n > 0 /\ has_pgm(target)
                  THEN [j \in 1..(target + 1 - MinIndexLevel) |->
                           IF j = target - MinIndexLevel + 1 THEN KeysOf(data) ELSE {}]
                  ELSE << >>

\* Ranges the constructor accepts: of length n, with no reserved value.
SortedRange(n, data) ==
    /\ Cardinality(KeysOf(data)) <= n
    /\ KeysOf(data) = {} <=> n = 0

Init ==
    \/ ConstructEmpty
    \/ \E n \in 0..MaxBulk, data \in [Key -> Value \cup {Absent}] :
          SortedRange(n, data) /\ ConstructFrom(n, data)

-----------------------------------------------------------------------------
(* What a flush merges, and where to.                                      *)

\* The newest item of a key in the levels lo..hi of ls: the one at the smallest
\* level number, since data only ever moves to larger ones.
Newest(ls, lo, hi, k) ==
    LET holders == {i \in lo..hi : ls[i - MinLevel + 1][k] # Absent}
    IN  IF holders = {} THEN Absent ELSE ls[Min(holders) - MinLevel + 1][k]

\* What the levels between the buffer and level i hold, as pairs of a level
\* number and a key.
ItemsAbove(i) ==
    {p \in ((MinLevel + 1)..(i - 1)) \X Key : level(p[1])[p[2]] # Absent}

\* Variant for testing the properties: does not count the new item.
slots_required_NoNewItem(i) == buffer_max_size + Cardinality(ItemsAbove(i))

\* Items a flush brings to level i: a full buffer, the new item, and what the
\* levels between them hold.
slots_required(i) == buffer_max_size + 1 + Cardinality(ItemsAbove(i))

slots_left_in_level(i) == max_size(i) - Size(i)

\* The first level in use with room for the items of a flush; used_levels,
\* that is, a new level, if there is none.
IsFlushTarget(i) ==
    /\ i \in (MinLevel + 1)..used_levels
    /\ i < used_levels => slots_required(i) <= slots_left_in_level(i)
    /\ \A j \in (MinLevel + 1)..(i - 1) : slots_required(j) > slots_left_in_level(j)

\* The newest item of key l among item x of key k and the levels down to hi.
NewestWith(k, x, hi, l) == IF l = k THEN x ELSE Newest(levels, MinLevel, hi, l)

\* Variant for testing the properties: drops a tombstone together with the pair
\* it meets at whatever level.
MergedInto_DropAtAnyLevel(merge_limit, last_level, k, x) ==
    [l \in Key |->
        IF /\ NewestWith(k, x, merge_limit - 1, l) = Tombstone
           /\ level(merge_limit)[l] # Absent
        THEN Absent
        ELSE NewestWith(k, x, merge_limit, l)]

\* The result of merging item x of key k, the buffer and the levels up to
\* merge_limit, newer items first. Merging the last level in use drops the
\* pairs of an erased key and its tombstone for good.
MergedInto(merge_limit, last_level, k, x) ==
    [l \in Key |->
        IF /\ merge_limit = last_level
           /\ NewestWith(k, x, merge_limit - 1, l) = Tombstone
           /\ level(merge_limit)[l] # Absent
        THEN Absent
        ELSE NewestWith(k, x, merge_limit, l)]

\* The three ways an item x of key k enters the container.
Overwrite(k, x) ==
    /\ level(MinLevel)[k] # Absent
    /\ levels' = [levels EXCEPT ![1] = [@ EXCEPT ![k] = x]]
    /\ UNCHANGED <<used_levels, pgms>>

\* Variant for testing the properties: counts a level at every insertion.
InsertInBuffer_AlwaysCount(k, x) ==
    /\ level(MinLevel)[k] = Absent
    /\ Size(MinLevel) < buffer_max_size
    /\ levels' = [levels EXCEPT ![1] = [@ EXCEPT ![k] = x]]
    /\ used_levels' = used_levels + 1
    /\ UNCHANGED pgms

InsertInBuffer(k, x) ==
    /\ level(MinLevel)[k] = Absent
    /\ Size(MinLevel) < buffer_max_size
    /\ levels' = [levels EXCEPT ![1] = [@ EXCEPT ![k] = x]]
    /\ used_levels' = IF used_levels = MinLevel THEN MinLevel + 1 ELSE used_levels
    /\ UNCHANGED pgms

\* Variant for testing the properties: keeps the indexes of the levels emptied.
pairwise_merge_KeepIndexes(k, x, target, last_level, all, indexes) ==
    LET T == target - MinLevel + 1
        P == target - MinIndexLevel + 1
        merge_limit == IF KeysOf(all[T]) = {} THEN target - 1 ELSE target
        data == MergedInto(merge_limit, last_level, k, x)
    IN  /\ levels' = [j \in DOMAIN all |->
                         IF j < T THEN EmptyLevel ELSE IF j = T THEN data ELSE all[j]]
        /\ pgms' = [j \in DOMAIN indexes |->
                       IF j = P THEN KeysOf(data) ELSE indexes[j]]

\* Merges item x of key k, the buffer and the levels below it into the target,
\* empties the levels merged and their indexes, rebuilds the target's index.
\* all and indexes are levels and pgms after a new level has been made room for.
pairwise_merge(k, x, target, last_level, all, indexes) ==
    LET T == target - MinLevel + 1
        P == target - MinIndexLevel + 1
        merge_limit == IF KeysOf(all[T]) = {} THEN target - 1 ELSE target
        data == MergedInto(merge_limit, last_level, k, x)
    IN  /\ levels' = [j \in DOMAIN all |->
                         IF j < T THEN EmptyLevel ELSE IF j = T THEN data ELSE all[j]]
        /\ pgms' = [j \in DOMAIN indexes |->
                       IF j < P THEN {} ELSE IF j = P THEN KeysOf(data) ELSE indexes[j]]

BufferFull(k) ==
    /\ level(MinLevel)[k] = Absent
    /\ Size(MinLevel) >= buffer_max_size

FlushToUsedLevel(k, x, i) ==
    /\ BufferFull(k)
    /\ i < used_levels /\ IsFlushTarget(i)
    /\ pairwise_merge(k, x, i, used_levels - 1, levels, pgms)
    /\ UNCHANGED used_levels

\* Variant for testing the properties: makes room for an index too late.
FlushToNewLevel_LateIndex(k, x) ==
    /\ BufferFull(k)
    /\ IsFlushTarget(used_levels) /\ used_levels < MaxLevel
    /\ used_levels' = used_levels + 1
    /\ pairwise_merge(k, x, used_levels, used_levels, Append(levels, EmptyLevel),
                      IF used_levels - MinIndexLevel > Len(pgms)
                      THEN Append(pgms, {}) ELSE pgms)

FlushToNewLevel(k, x) ==
    /\ BufferFull(k)
    /\ IsFlushTarget(used_levels) /\ used_levels < MaxLevel
    /\ used_levels' = used_levels + 1
    /\ pairwise_merge(k, x, used_levels, used_levels, Append(levels, EmptyLevel),
                      IF used_levels - MinIndexLevel >= Len(pgms)
                      THEN Append(pgms, {}) ELSE pgms)

insert(k, x) ==
    \/ Overwrite(k, x)
    \/ InsertInBuffer(k, x)
    \/ \E i \in (MinLevel + 1)..MaxLevel : FlushToUsedLevel(k, x, i)
    \/ FlushToNewLevel(k, x)

InsertOrAssign(k, v) == insert(k, v)
Erase(k) == insert(k, Tombstone)

Next == \E k \in Key : Erase(k) \/ \E v \in Value : InsertOrAssign(k, v)

Spec == Init /\ [][Next]_vars

-----------------------------------------------------------------------------
(* find: the first level, from the buffer on, in which the key is located  *)
(* decides. A level with an index is searched in the window the index      *)
(* returns, which is sure to hold only the keys the index was built on.    *)

Located(i, k) == level(i)[k] # Absent /\ (has_pgm(i) => k \in pgm(i))

find(k) ==
    LET hits == {i \in MinLevel..(used_levels - 1) : Located(i, k)}
    IN  IF hits = {} THEN Absent
        ELSE LET item == level(Min(hits))[k] IN IF item = Tombstone THEN Absent ELSE item

-----------------------------------------------------------------------------
(* Correctness.                                                            *)

TypeOK ==
    /\ used_levels \in MinLevel..MaxLevel
    /\ levels \in Seq(LevelData)
    /\ pgms \in Seq(SUBSET Key)

\* Every access by level number stays inside the two vectors: levels has a slot
\* for each level in use (and for one buffer at least), pgms exactly one index
\* for each level in use from min_index_level on. The vectors grow in insert
\* (137-142), by one slot each, under a condition of its own for pgms.
VectorsCoverUsedLevels ==
    /\ Len(levels) > used_levels - MinLevel
    /\ Len(pgms) = Max({used_levels - MinIndexLevel, 0})

\* No level outgrows its size, so that max_size(i) - level(i).size() in insert
\* (131), an unsigned subtraction, never wraps around and a flush always finds
\* the room it computed; and a level not in use holds nothing a later flush to a
\* new level could merge.
LevelsFit ==
    /\ Size(MinLevel) <= buffer_max_size
    /\ \A i \in (MinLevel + 1)..(used_levels - 1) : Size(i) <= max_size(i)
    /\ \A i \in used_levels..(MinLevel + Len(levels) - 1) : Size(i) = 0

\* The index of a level was built on exactly the keys the level holds now: no
\* flush leaves a stale index behind, neither on a level it emptied nor on the
\* one it filled (98-109).
IndexesFresh ==
    \A i \in MinIndexLevel..(used_levels - 1) : pgm(i) = KeysOf(level(i))

\* The container is an ordered map, as find sees it: no flush loses a pair,
\* brings an overwritten value back, or revives an erased key by dropping its
\* tombstone while an older pair remains below.
Map == INSTANCE OrderedMap WITH map <- [k \in Key |-> find(k)]
IsAnOrderedMap == Map!Spec
=============================================================================
