--------------------- MODULE MCMultidimensionalPGMIndex ---------------------
EXTENDS MultidimensionalPGMIndex

CONSTANTS
    MaxPoints, \* bound: the most points in a container
    Side       \* bound: the coordinates are below it

Below(limit) == [1..Dimensions -> 0..(limit - 1)]

\* All containers of points below Side, and one point with a coordinate too wide.
PointInputs ==
    {[i \in DOMAIN s |-> Decode[s[i]]] :
        s \in {t \in BoundedSeq({Encode[q] : q \in Below(Side)}, MaxPoints) :
                  t # << >> /\ \A i \in 1..(Len(t) - 1) : t[i] >= t[i + 1]}}
    \cup {<<[d \in 1..Dimensions |-> 2^(FieldBits - 1) - 2 + d]>>}

\* Corners among the points, and above them; also ones in the wrong order.
SomeBoxes ==
    {box \in Below(Side + 1) \X (Below(Side + 1) \cup {[d \in 1..Dimensions |-> 2^FieldBits - 1]}) :
        \/ \A d \in 1..Dimensions : box[1][d] <= box[2][d]
        \/ Encode[box[1]] > Encode[box[2]] /\ box[2][1] = 0}

SomePoints == Below(Side)
=============================================================================
