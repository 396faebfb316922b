--------------------------- MODULE MappedPGMIndex ---------------------------
(***************************************************************************)
(* MappedPGMIndex (src/include/pgm/pgm_index_variants.hpp): a PGMIndex     *)
(* written to a file with the keys, and the file mapped into memory. The   *)
(* process may die while it writes; later the file is loaded.              *)
(*                                                                         *)
(* The file is a sequence of units, each a number, a segment or a key, and *)
(* header_bytes counts units. Writes reach the file in their order, and no *)
(* read is checked: what is loaded from a file whose header was never      *)
(* patched takes the first units of the file for its keys.                 *)
(***************************************************************************)
EXTENDS PGMIndex

VARIABLES
    phase,          \* "memory": not written yet; "writing", "mapped", "gone" (the object
                    \* is destructed or lost with its process)
    file,           \* the units written so far
    header_bytes,   \* the size of what comes before the keys
    written         \* history: what the object held when it was written

mapped_vars == <<phase, file, header_bytes, written>>

MappedInit == phase = "memory" /\ file = << >> /\ header_bytes = 0 /\ written = << >>

Contents == <<first_key, levels_offsets, segments, data>>

\* Variant for testing the properties: first_key is left for the loader to set.
Image_NoFirstKey ==
    <<0, n, 0>> \o <<Len(levels_offsets)>> \o levels_offsets
        \o <<Len(segments)>> \o segments \o data

\* Everything serialize_and_map writes, header_bytes still 0.
Image ==
    <<0, n, first_key>> \o <<Len(levels_offsets)>> \o levels_offsets
        \o <<Len(segments)>> \o segments \o data

\* What write_member and write_container add up to.
HeaderSize == 5 + Len(levels_offsets) + Len(segments)

StartWriting ==
    /\ pc = "built" /\ phase = "memory"
    /\ phase' = "writing"
    /\ written' = Contents
    /\ UNCHANGED <<vars, file, header_bytes>>

WriteUnit ==
    /\ phase = "writing" /\ Len(file) < Len(Image)
    /\ file' = Append(file, Image[Len(file) + 1])
    /\ UNCHANGED <<vars, phase, header_bytes, written>>

\* Variant for testing the properties: the header is patched before the keys follow.
AllWritten_Header == Len(file) >= HeaderSize

AllWritten == Len(file) = Len(Image)

\* seekp(0) and the size of the header; then the file is mapped.
PatchHeader ==
    /\ phase = "writing" /\ AllWritten
    /\ header_bytes' = HeaderSize
    /\ file' = [file EXCEPT ![1] = HeaderSize]
    /\ phase' = "mapped"
    /\ UNCHANGED <<vars, written>>

\* The process dies while it writes, or the object is destructed.
Lose ==
    /\ pc = "built" /\ phase \in {"writing", "mapped"}
    /\ phase' = "gone"
    /\ data' = << >> /\ first_key' = 0
    /\ segments' = << >> /\ levels_offsets' = << >>
    /\ last_n' = 0
    /\ header_bytes' = 0
    /\ UNCHANGED <<pc, parameters, query, file, written>>

\* How many units come before the segments, and before what follows them.
SegmentsBegin == 5 + file[4]
SegmentsEnd == SegmentsBegin + file[SegmentsBegin]
HoldsContainers == Len(file) >= 4 /\ Len(file) >= SegmentsBegin /\ Len(file) >= SegmentsEnd

\* Unit i of the mapping, taken for a key. Behind the end of the file a page is zero.
AsKey(i) ==
    IF i > Len(file) THEN 0
    ELSE IF i \in (SegmentsBegin + 1)..SegmentsEnd THEN file[i].key ELSE file[i]

\* MappedPGMIndex(in_filename): the members as they are found. Containers that are cut
\* off have a size or elements nothing was read into: the behavior ends here.
Load ==
    /\ phase = "gone"
    /\ IF ~HoldsContainers
       THEN pc' = "undefined" /\ UNCHANGED <<index, query, phase, header_bytes>>
       ELSE /\ phase' = "mapped"
            /\ header_bytes' = file[1]
            /\ first_key' = file[3]
            /\ levels_offsets' = SubSeq(file, 5, 4 + file[4])
            /\ segments' = SubSeq(file, SegmentsBegin + 1, SegmentsEnd)
            /\ data' = [i \in 1..file[2] |-> AsKey(file[1] + i)]
            /\ UNCHANGED <<pc, parameters, last_n, query>>
    /\ UNCHANGED <<file, written>>

Serialize == StartWriting \/ WriteUnit \/ PatchHeader

-----------------------------------------------------------------------------
(* The queries on the keys, with the range a search has returned.          *)

\* The first position in from..to - 1 whose key is not below x, or is above it.
lower_bound_in(from, to, x) == Min({to} \cup {i \in from..(to - 1) : data[i + 1] >= x})
upper_bound_in(from, to, x) == Min({to} \cup {i \in from..(to - 1) : data[i + 1] > x})

contains ==
    LET i == lower_bound_in(answer.lo, answer.hi, key)
    IN  i < answer.hi /\ data[i + 1] = key

lower_bound == lower_bound_in(answer.lo, answer.hi, key)

\* Variant for testing the properties: the duplicates beyond the range are not looked for.
mapped_upper_bound_InRange == upper_bound_in(answer.lo, answer.hi, key)

\* upper_bound: past the range, the duplicates are skipped in steps that double.
mapped_upper_bound ==
    LET i == upper_bound_in(answer.lo, answer.hi, key)
        stride == CHOOSE s \in {2^j : j \in 0..n} :
                     /\ i + s >= n \/ data[i + s + 1] # key
                     /\ \A j \in 0..n : 2^j < s => i + 2^j < n /\ data[i + 2^j + 1] = key
    IN  upper_bound_in(i + stride \div 2, Min({i + stride, n}), key)

count ==
    IF lower_bound = n \/ data[lower_bound + 1] # key THEN 0
    ELSE mapped_upper_bound - lower_bound

-----------------------------------------------------------------------------
(* Correctness.                                                            *)

\* Every query answers as it would on the sorted keys, however many duplicates lie
\* beyond the range that the search returned.
QueriesAgree ==
    pc = "answered" /\ phase = "mapped" /\ ~Unpredicted
            /\ ~(RunAtTheEnd /\ key > data[n]) =>
        LET rank == Rank(key)
            equal == Cardinality({i \in DOMAIN data : data[i] = key})
        IN  /\ contains <=> equal > 0
            /\ lower_bound = rank
            /\ mapped_upper_bound = rank + equal
            /\ count = equal

\* An object loaded from a file is the one that was written to it.
LoadedIsWritten == phase = "mapped" => Contents = written

\* It is, if the process that wrote it lived to patch the header.
LoadedIsWrittenIfPatched == header_bytes # 0 => LoadedIsWritten

\* However the process that wrote the file ended, a header that is not zero
\* vouches for the whole file.
HeaderVouches ==
    file # << >> /\ file[1] # 0 =>
        /\ Len(file) = file[1] + file[2]
        /\ SubSeq(file, file[1] + 1, Len(file)) = written[4]
=============================================================================
