----------------------------- MODULE MCPGMIndex -----------------------------
EXTENDS PGMIndex

CONSTANTS
    MaxLength,  \* bound: the longest short input
    MaxKey,     \* bound: the largest key of a short input below KeyMax
    MaxRuns     \* bound: the number of runs of a long input

\* The sorted sequences of length m.
Sorted[m \in 0..MaxLength] ==
    IF m = 0 THEN {<< >>}
    ELSE UNION {{Append(s, x) : x \in {y \in 0..MaxKey : \A i \in DOMAIN s : s[i] <= y}} :
                    s \in Sorted[m - 1]}

ShortInputs(i) == UNION {Sorted[m] : m \in 1..MaxLength}

\* With numeric_limits<K>::max() as their last key.
ShortInputsWithMax(i) == {Append(s, KeyMax) : s \in ShortInputs(i)}

\* Inputs of many segments: MaxRuns runs, each of four equal keys just above the
\* run before or of one key further up.
Runs[m \in 0..MaxRuns] ==
    IF m = 0 THEN {<<0>>}
    ELSE UNION {{s \o <<s[Len(s)] + 1, s[Len(s)] + 1, s[Len(s)] + 1, s[Len(s)] + 1>>,
                 Append(s, s[Len(s)] + 5)} : s \in Runs[m - 1]}

AllInputs(i) == ShortInputs(i) \cup ShortInputsWithMax(i) \cup Runs[MaxRuns]

\* The keys up to just above the last one below KeyMax, and the largest below KeyMax.
KeysAround(s) ==
    {KeyMax - 1} \cup
        {x \in 0..(KeyMax - 1) : \E i \in DOMAIN s : s[i] < KeyMax /\ x <= s[i] + 2}

Instance(epsilon, threshold, floating, threads) ==
    [EpsilonRecursive |-> epsilon, linear_search_threshold |-> threshold,
     Floating |-> floating, parallelism |-> threads]

\* Flat and recursive, levels scanned and bisected, segmented by one thread or two.
AllInstances ==
    {Instance(0, 32, "SoftFloat", 1), Instance(1, 32, "SoftFloat", 2), Instance(1, 0, "SoftFloat", 1)}

Scanned == {Instance(1, 32, "SoftFloat", 1)}

Flat == {Instance(0, 32, "SoftFloat", 1)}
=============================================================================
