--------------------------- MODULE DynamicQueries ---------------------------
(***************************************************************************)
(* lower_bound and begin of DynamicPGMIndex                                *)
(* (src/include/pgm/pgm_index_dynamic.hpp), as the loop over the levels    *)
(* that they are, on a container of any content. A level's array is a map  *)
(* from keys to items; where the array is searched in the window its       *)
(* PGMIndex returns, the window is sure to hold the bound looked for.      *)
(***************************************************************************)
EXTENDS Integers, FiniteSets, FiniteSetsExt

CONSTANTS
    Key,        \* the values of the key type
    LowestMin,  \* std::numeric_limits<K>::min()
    NumLevels   \* used_levels - min_level: the levels 0 (newest) .. NumLevels - 1

ASSUME QueriesAssumption ==
    /\ Key \subseteq Int /\ IsFiniteSet(Key)
    /\ LowestMin \in Int
    /\ NumLevels \in Nat

VARIABLES
    data,       \* data[i][k]: "live", "deleted" or "absent" at level i
    query,      \* the call being answered
    i,          \* the level the loop has come to
    lb,         \* <<level, key>> of the best element so far, or None
    erased,     \* the set "deleted"
    result      \* the answer, or None

locals == <<i, lb, erased>>
query_vars == <<query, locals, result>>

Level == 0..(NumLevels - 1)
None == <<"none">>
EndOf == <<"end">>

LevelData == [Key -> {"live", "deleted", "absent"}]

KeysOf(l) == {k \in Key : data[l][k] # "absent"}

LowerBoundCall(k) == [call |-> "lower_bound", key |-> k]
BeginCall == [call |-> "begin", key |-> LowestMin]
NoCall == [call |-> "none"]
Seeks == query # NoCall

QueryInit ==
    /\ data \in [Level -> LevelData]
    /\ query \in {LowerBoundCall(k) : k \in Key} \cup {BeginCall}
    /\ i = 0
    /\ lb = None
    /\ erased = {}
    /\ result = None

-----------------------------------------------------------------------------
(* lower_bound and begin: one iteration of the loop over the levels.       *)

\* Variant for testing the properties: an element that is not less than the
\* best one so far takes its place.
InReach_Always(k) == k >= query.key

\* The keys of level i the inner loop may come to.
InReach(k) == k >= query.key /\ (lb = None \/ k < lb[2])

\* A key at which the inner loop stops.
Stops(k) == data[i][k] # "deleted" /\ k \notin erased

ScanLevel ==
    /\ Seeks /\ result = None /\ i < NumLevels
    /\ \E reach \in {{k \in KeysOf(i) : InReach(k)}} :
       \E stops \in {{k \in reach : Stops(k)}} :
           /\ erased' = erased \cup
                  {k \in reach : data[i][k] = "deleted" /\ \A s \in stops : k < s}
           /\ lb' = IF stops = {} THEN lb ELSE <<i, Min(stops)>>
           /\ result' = IF query.key \in stops THEN <<i, query.key>> ELSE None
    /\ i' = i + 1
    /\ UNCHANGED <<data, query>>

FinishSeek ==
    /\ Seeks /\ result = None /\ i = NumLevels
    /\ result' = IF lb = None THEN EndOf ELSE lb
    /\ UNCHANGED <<data, query, i, lb, erased>>

Query == ScanLevel \/ FinishSeek

-----------------------------------------------------------------------------
(* Correctness, against the ordered map the container stands for: of each  *)
(* key the newest item, unless it is an erased one.                        *)

NewestLevel(k) == Min({l \in Level : data[l][k] # "absent"})
IsLive(k) == \E l \in Level : data[l][k] = "live" /\ \A m \in 0..(l - 1) : data[m][k] = "absent"

\* The value of a pair tells the level it was inserted at.
Map == INSTANCE OrderedMap WITH
           Value <- Level,
           Absent <- NumLevels,
           map <- [k \in Key |-> IF IsLive(k) THEN NewestLevel(k) ELSE NumLevels]

\* lower_bound returns the first live element not less than the key, at its
\* newest level, even where the levels seen earlier had only erased or larger
\* keys (documentation at 318-322).
LowerBoundIsFirst ==
    query.call = "lower_bound" /\ result # None =>
        IF result = EndOf THEN Map!NoLowerBound(query.key)
        ELSE Map!IsLowerBound(query.key, result[2]) /\ result[1] = NewestLevel(result[2])
=============================================================================
