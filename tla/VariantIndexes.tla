--------------------------- MODULE VariantIndexes ---------------------------
(***************************************************************************)
(* PGMIndex and the indexes derived from it (src/include/pgm/              *)
(* pgm_index_variants.hpp). instance.variant says which of them is built;  *)
(* OneLevelPGMIndex is a PGMIndex without upper levels.                    *)
(***************************************************************************)
EXTENDS BucketingPGMIndex, EliasFanoPGMIndex, MappedPGMIndex

all_vars == <<vars, bucketing_vars, ef_vars, mapped_vars>>

Is(variant) == instance.variant = variant
FromFile == Is("mapped") /\ instance.from_file

ASSUME VariantsAssumption ==
    \A i \in Instances :
        /\ i.variant \in {"plain", "bucketing", "elias_fano", "mapped"}
        /\ i.variant \in {"bucketing", "elias_fano"} => i.EpsilonRecursive = 0
        /\ i.variant = "bucketing" => i.TopLevelSize \in Nat \ {0, 1} /\ i.TopLevelBitSize \in Nat
        /\ i.variant = "mapped" => i.from_file \in BOOLEAN

\* The constructor that reads the keys from a file leaves first_key at zero.
VariantInit ==
    /\ Empty
    /\ first_key = IF FromFile THEN 0 ELSE data[1]
    /\ BucketingInit /\ EliasFanoInit /\ MappedInit

Common == Build /\ UNCHANGED <<bucketing_vars, ef_vars, mapped_vars>>

Plain == Is("plain") /\ (Search \/ Return) /\ UNCHANGED <<bucketing_vars, ef_vars, mapped_vars>>

Bucketing ==
    /\ Is("bucketing")
    /\ BuildTopLevel \/ BucketingSearch \/ ((Answer \/ Return) /\ UNCHANGED bucketing_vars)
    /\ UNCHANGED <<ef_vars, mapped_vars>>

EliasFano ==
    /\ Is("elias_fano")
    /\ BuildVector \/ EliasFanoSearch \/ EliasFanoAnswer \/ EliasFanoReturn
    /\ UNCHANGED <<bucketing_vars, mapped_vars>>

\* What is asked of an object over a file without a header is not followed further.
Mapped ==
    /\ Is("mapped")
    /\ \/ Serialize \/ Lose \/ Load
       \/ phase = "mapped" /\ header_bytes # 0 /\ (Search \/ Return) /\ UNCHANGED mapped_vars
    /\ UNCHANGED <<bucketing_vars, ef_vars>>

VariantNext == Common \/ Plain \/ Bucketing \/ EliasFano \/ Mapped

VariantSpec == VariantInit /\ [][VariantNext]_all_vars

-----------------------------------------------------------------------------
\* No search of any of the indexes reads outside its arrays and no constructor fails,
\* on any sorted keys below the largest of their type. Only the Elias-Fano index, asked
\* for the key just above those of its segments, may look for a bit it does not have,
\* and an index without upper levels that never set first_key (MappedPGMIndex over a
\* file of keys) reads before its first segment for a key below the first one.
StaysInBounds ==
    pc \in {"logic_error", "out_of_bounds", "invalid_argument"} =>
        \/ Is("elias_fano") /\ EndsBelowPowerOfTwo
        \/ EpsilonRecursive = 0 /\ NotRaised
=============================================================================
