-------------------------- MODULE MCVariantIndexes --------------------------
EXTENDS VariantIndexes, MCPGMIndex

CONSTANT MaxStored \* bound: the longest short input of a derived index

PlainInstance(i) == i @@ [variant |-> "plain"]

BucketingInstance(size, bits, floating) ==
    Instance(0, 32, floating, 1)
        @@ [variant |-> "bucketing", TopLevelSize |-> size, TopLevelBitSize |-> bits]

EliasFanoInstance(floating) == Instance(0, 32, floating, 1) @@ [variant |-> "elias_fano"]

MappedInstance(epsilon, from_file, floating) ==
    Instance(epsilon, 32, floating, 1) @@ [variant |-> "mapped", from_file |-> from_file]

\* Slopes of the two kinds, where a built-in type can be built: float is the default of
\* the derived indexes, but with upper levels its level lines never end.
AllVariants ==
    {PlainInstance(i) : i \in AllInstances}
        \cup {BucketingInstance(3, 0, "SoftFloat"), BucketingInstance(5, 32, "float"),
              BucketingInstance(8, 32, "SoftFloat")}
        \cup {EliasFanoInstance("SoftFloat"), EliasFanoInstance("float")}
        \cup {MappedInstance(0, FALSE, "float"), MappedInstance(1, FALSE, "SoftFloat"),
              MappedInstance(1, TRUE, "SoftFloat")}

\* A table of two parts of 32 keys, up to the largest key.
LastBucketVariants == {BucketingInstance(2, 32, "SoftFloat")}

\* Runs of duplicates that reach beyond any range.
LongRuns ==
    {[i \in 1..10 |-> IF i <= a THEN 1 ELSE IF i <= b THEN 3 ELSE 4] : a \in 0..2, b \in 7..9}

VariantInputs(i) ==
    CASE i.variant = "plain" ->
             {s \in AllInputs(i) : s[Len(s)] = KeyMax => Len(s) <= MaxStored + 1}
      [] i.variant \in {"bucketing", "elias_fano"} ->
             {s \in ShortInputs(i) : Len(s) <= MaxStored} \cup Runs[MaxRuns - 2]
      [] i.variant = "mapped" ->
             {s \in ShortInputs(i) : Len(s) <= MaxStored} \cup LongRuns
=============================================================================
