---------------------- MODULE MultidimensionalPGMIndex ----------------------
(***************************************************************************)
(* MultidimensionalPGMIndex (src/include/pgm/pgm_index_variants.hpp): the  *)
(* Morton codes of points, sorted and indexed by a PGMIndex, and its       *)
(* RangeIterator, which walks the codes from the corner min of a box to    *)
(* the corner max, and after more than miss_threshold codes outside the    *)
(* box jumps to the next code that may be inside.                          *)
(*                                                                         *)
(* Of the inner index what run Index shows of an index that has been built *)
(* and whose slopes are accurate is assumed: where the range of a search   *)
(* lies for a key of the data, between two, and above the last. Positions  *)
(* count from 0; end() is Len(data).                                       *)
(***************************************************************************)
EXTENDS Morton, SequencesExt

CONSTANTS
    Inputs,         \* the sequences of points the container is constructed from
    Boxes,          \* the corners <<min, max>> asked for
    Asked,          \* the points contains is asked about
    Epsilon,
    miss_threshold  \* 64

ASSUME ContainerAssumption ==
    /\ Epsilon \in Nat \ {0} /\ miss_threshold \in Nat
    /\ \A s \in Inputs : s # << >>
    \* range() requires a box; the corners it throws for are asked for as well
    /\ \A box \in Boxes :
          \/ \A d \in 1..Dimensions : box[1][d] <= box[2][d]
          \/ Encode[box[1]] > Encode[box[2]]

VARIABLES
    pc,      \* "new"; "ready"; the RangeIterator "scanning" (in advance), "at" an
             \* element, "end"; "answered" (contains); "thrown"
    data,    \* the codes, sorted
    min, max, \* the corners of the box, and their codes
    zmin, zmax,
    it,      \* the position of the iterator
    p,       \* the point it yields
    miss,    \* the codes outside the box since the last jump; -1: made by begin()
    answer,  \* what contains said of which point
    visited, \* history: the positions the iterator stopped at
    jumps    \* history: from which code to which code it jumped

iterator == <<min, max, zmin, zmax, it, p, miss>>
history == <<visited, jumps>>
vars == <<pc, data, iterator, answer, history>>

NoPoint == << >>
NoAnswer == [of |-> NoPoint, found |-> FALSE]

At(i) == data[i + 1]
end == Len(data)

-----------------------------------------------------------------------------
(* box_zcontains and bigmin *)

\* code & (selector << field)
Masked ==
    [code \in Codes |-> [field \in 0..(Dimensions - 1) |-> Deposit(Extract(code, field), field)]]

\* Variant for testing the properties: every code between the corners is in the box.
box_zcontains_Between(lowest, highest, code) == lowest <= code /\ code <= highest

box_zcontains(lowest, highest, code) ==
    \A field \in 0..(Dimensions - 1) :
        /\ Masked[lowest][field] <= Masked[code][field]
        /\ Masked[code][field] <= Masked[highest][field]

\* Variant for testing the properties: the bits are cleared and the pattern is not put there.
load_MaskOnly(target, pattern, bit_position, dimension) ==
    target - Deposit(Extract(target, dimension) % 2^bit_position, dimension)

\* target with the lowest bit_position bits of a dimension replaced by pattern.
load(target, pattern, bit_position, dimension) ==
    LET old == Extract(target, dimension) % 2^bit_position
    IN  target - Deposit(old, dimension) + Deposit(pattern, dimension)

\* sdsl::bits::hi: the highest set bit, 0 of 0.
hi(x) == Max({0} \cup {b \in 0..(Dimensions * FieldBits - 1) : Bit(x, b) = 1})

\* Variant for testing the properties: the candidate is not kept where max alone has the bit.
Decide_NoCandidate(s, xd, b) ==
    LET bits == b \div Dimensions + 1
        dim == b % Dimensions
        decision == <<Bit(xd, b), Bit(s.zmin, b), Bit(s.zmax, b)>>
    IN  CASE decision = <<0, 0, 1>> -> [s EXCEPT !.zmax = load(s.zmax, 2^(bits - 1) - 1, bits, dim)]
          [] decision = <<0, 1, 1>> -> [s EXCEPT !.bigmin = s.zmin, !.returned = TRUE]
          [] decision = <<1, 0, 0>> -> [s EXCEPT !.returned = TRUE]
          [] decision = <<1, 0, 1>> -> [s EXCEPT !.zmin = load(s.zmin, 2^(bits - 1), bits, dim)]
          [] OTHER -> s

\* One turn of bigmin's loop, on bit b.
Decide(s, xd, b) ==
    LET bits == b \div Dimensions + 1
        dim == b % Dimensions
        decision == <<Bit(xd, b), Bit(s.zmin, b), Bit(s.zmax, b)>>
    IN  CASE decision = <<0, 0, 1>> ->
                 [s EXCEPT !.bigmin = load(s.zmin, 2^(bits - 1), bits, dim),
                           !.zmax = load(s.zmax, 2^(bits - 1) - 1, bits, dim)]
          [] decision = <<0, 1, 1>> -> [s EXCEPT !.bigmin = s.zmin, !.returned = TRUE]
          [] decision = <<1, 0, 0>> -> [s EXCEPT !.returned = TRUE]
          [] decision = <<1, 0, 1>> -> [s EXCEPT !.zmin = load(s.zmin, 2^(bits - 1), bits, dim)]
          [] OTHER -> s

\* The lowest code of the box that is greater than xd.
bigmin(xd, lowest, highest) ==
    LET hi_bit == Max({hi(xd), hi(lowest), hi(highest)})
        start == [zmin |-> lowest, zmax |-> highest, bigmin |-> 0, returned |-> FALSE]
        turn[b \in -1..hi_bit, s \in [zmin : Codes, zmax : Codes, bigmin : Codes, returned : BOOLEAN]] ==
            IF b = -1 \/ s.returned THEN s.bigmin ELSE turn[b - 1, Decide(s, xd, b)]
    IN  turn[hi_bit, start]

-----------------------------------------------------------------------------
(* Searching the codes *)

\* Variant for testing the properties: the elements equal to z are passed.
lower_bound_Upper(range, z) == Min({i \in range.lo..range.hi : i = range.hi \/ At(i) > z})

lower_bound(range, z) == Min({i \in range.lo..range.hi : i = range.hi \/ At(i) >= z})
upper_bound(range, z) == Min({i \in range.lo..range.hi : i = range.hi \/ At(i) > z})

Ranges ==
    {[lo |-> IF pos <= Epsilon THEN 0 ELSE pos - Epsilon, hi |-> Min({pos + Epsilon + 2, end})] :
        pos \in 0..end}

\* The position of the first code not below z.
Rank(z) == Cardinality({i \in 0..(end - 1) : At(i) < z})
LastCode == At(end - 1)
RunAtTheEnd == end > 1 /\ LastCode = At(end - 2) /\ LastCode # At(0)

\* What pgm.search(z) may answer: FirstOccurrenceInRange, LowerBoundInRange, and, for
\* codes above the last, EndInRangeUnlessRun.
search(z) ==
    {r \in Ranges :
        IF z > LastCode THEN r.hi > Rank(LastCode) /\ (RunAtTheEnd \/ r.hi = end)
        ELSE r.lo <= Rank(z) /\ Rank(z) <= r.hi /\ (At(Rank(z)) = z => Rank(z) < r.hi)}

-----------------------------------------------------------------------------
(* The operations. The queries leave the container as it is: one follows its *)
(* construction in a behaviour.                                              *)

TooWide(point) == \E d \in 1..Dimensions : point[d] >= 2^(FieldBits - 1)

Init ==
    /\ pc = "new" /\ data = << >>
    /\ min = NoPoint /\ max = NoPoint /\ zmin = 0 /\ zmax = 0
    /\ it = 0 /\ p = NoPoint /\ miss = 0
    /\ answer = NoAnswer
    /\ visited = {} /\ jumps = {}

Construct(points) ==
    /\ pc = "new"
    /\ IF \E i \in DOMAIN points : TooWide(points[i])
       THEN pc' = "thrown" /\ UNCHANGED data
       ELSE /\ pc' = "ready"
            /\ data' = SortSeq([i \in DOMAIN points |-> Encode[points[i]]], <)
    /\ UNCHANGED <<iterator, answer, history>>

contains(point) ==
    /\ pc = "ready"
    /\ \E zp \in {Encode[point]} : \E range \in search(zp) :
          \E found \in IF lower_bound(range, zp) # end THEN {TRUE}
                       ELSE BOOLEAN : \* compares what lies behind the last element
              answer' = [of |-> point, found |-> found]
    /\ pc' = "answered"
    /\ UNCHANGED <<data, iterator, history>>

StopAt(i) == pc' = "at" /\ it' = i /\ visited' = visited \cup {i}

\* begin(): the point is decoded here and never again.
begin ==
    /\ pc = "ready"
    /\ p' = Decode[At(0)] /\ miss' = -1
    /\ pc' = "at" /\ it' = 0
    /\ visited' = {0}
    /\ UNCHANGED <<data, min, max, zmin, zmax, answer, jumps>>

\* The constructor of the iterator range() returns.
RangeIterator(lowest, highest) ==
    /\ pc = "ready"
    /\ min' = lowest /\ max' = highest
    /\ zmin' = Encode[lowest] /\ zmax' = Encode[highest]
    /\ IF zmin' > zmax'
       THEN pc' = "thrown" /\ UNCHANGED <<it, p, visited>>
       ELSE \E range \in search(zmin') : \E i \in {lower_bound(range, zmin')} :
               \/ i = end
                  /\ pc' = "end" /\ it' = i /\ UNCHANGED <<p, visited>>
               \/ i < end /\ box_zcontains(zmin', zmax', At(i))
                  /\ p' = Decode[At(i)] /\ StopAt(i)
               \/ i < end /\ ~box_zcontains(zmin', zmax', At(i))
                  /\ pc' = "scanning" /\ it' = i + 1 /\ UNCHANGED <<p, visited>>
    /\ UNCHANGED <<data, miss, answer, jumps>>

\* operator++, up to the loop of advance.
Increment ==
    /\ pc = "at"
    /\ it' = it + 1
    /\ IF miss = -1
       THEN /\ pc' = IF it' = end THEN "end" ELSE "at"
            /\ visited' = IF it' = end THEN visited ELSE visited \cup {it'}
       ELSE pc' = "scanning" /\ UNCHANGED visited
    /\ UNCHANGED <<data, min, max, zmin, zmax, p, miss, answer, jumps>>

\* Variant for testing the properties: the codes equal to that of the corner max are left.
Scanning_Strict == pc = "scanning" /\ it < end /\ At(it) < zmax

Scanning == pc = "scanning" /\ it < end /\ At(it) <= zmax

Match ==
    /\ Scanning /\ box_zcontains(zmin, zmax, At(it))
    /\ p' = Decode[At(it)]
    /\ StopAt(it)
    /\ UNCHANGED <<data, min, max, zmin, zmax, miss, answer, jumps>>

Miss ==
    /\ Scanning /\ ~box_zcontains(zmin, zmax, At(it)) /\ miss + 1 <= miss_threshold
    /\ miss' = miss + 1 /\ it' = it + 1
    /\ UNCHANGED <<pc, data, min, max, zmin, zmax, p, answer, history>>

\* upper_bound, then --it and ++it.
Jump ==
    /\ Scanning /\ ~box_zcontains(zmin, zmax, At(it)) /\ miss + 1 > miss_threshold
    /\ miss' = 0
    /\ \E bmin \in {bigmin(At(it), zmin, zmax)} :
          /\ \E range \in search(bmin) : it' = upper_bound(range, bmin)
          /\ jumps' = jumps \cup {[from |-> At(it), to |-> bmin]}
    /\ UNCHANGED <<pc, data, min, max, zmin, zmax, p, answer, visited>>

\* *it > zmax makes it end(), and so does what is read there from behind the elements.
Leave ==
    /\ pc = "scanning" /\ ~Scanning
    /\ pc' = "end" /\ it' = end
    /\ UNCHANGED <<data, min, max, zmin, zmax, p, miss, answer, history>>

advance == Match \/ Miss \/ Jump \/ Leave

Next ==
    \/ \E points \in Inputs : Construct(points)
    \/ \E point \in Asked : contains(point)
    \/ begin
    \/ \E box \in Boxes : RangeIterator(box[1], box[2])
    \/ Increment
    \/ advance

Spec == Init /\ [][Next]_vars /\ WF_vars(advance)

-----------------------------------------------------------------------------
InBox(point) == \A d \in 1..Dimensions : min[d] <= point[d] /\ point[d] <= max[d]
OfRange == miss # -1

\* An iterator range() made stops at elements of the container inside the box, and
\* yields the point of the element it stopped at (RangeIterator, advance).
YieldsPointsOfBox ==
    pc = "at" /\ OfRange => it < end /\ p = Decode[At(it)] /\ InBox(p)

\* bigmin gives the lowest code inside the box that is greater than the one the walk
\* misses with (its comment says greater than x), whatever the bits the three share.
BigminIsLowest ==
    \A j \in jumps :
        j.to = Min({c \in zmin..zmax : c > j.from /\ InBox(Decode[c])})

\* Once the walk of range() has ended, an element inside the box it has not stopped at
\* is one it jumped to: only these does the upper_bound in advance pass over.
NoneSkippedUnlessBigmin ==
    pc = "end" /\ OfRange =>
        \A i \in 0..(end - 1) :
            InBox(Decode[At(i)]) => i \in visited \/ \E j \in jumps : j.to = At(i)

\* Once the walk of range() has ended it has stopped at every element inside the box
\* (the test of the container compares the counts).
NoneSkipped ==
    pc = "end" /\ OfRange =>
        \A i \in 0..(end - 1) : InBox(Decode[At(i)]) => i \in visited

\* contains denies no element of the container, duplicated or last.
ContainsDeniesOnlyAbsent ==
    pc = "answered" /\ ~answer.found => \A i \in 0..(end - 1) : At(i) # Encode[answer.of]

\* advance returns ("successive elements can be retrieved by calling operator++ until ...
\* end()"), wherever in its range the inner index puts the next code: no jump brings the
\* iterator back to codes it has passed. Only where the codes end in a run of equal ones
\* may a jump above the last code land inside the run, and the walk go round for ever.
AdvanceReturnsUnlessRun == pc = "scanning" /\ ~RunAtTheEnd ~> pc # "scanning"
=============================================================================
