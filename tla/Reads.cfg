\* three levels, every content of three keys below the largest value of an integer
\* type, whose numeric_limits::min is its least one; every call
CONSTANTS
    Key <- IntegerKeys
    LowestMin = 1
    KeyMax = 4
    NoSource = 255
    NumLevels = 3
    End = end
SPECIFICATION Spec
INVARIANTS LowerBoundIsFirst
INVARIANTS UnconsumedCounted MinSourceIsSmallest NewestComesFirst
PROPERTIES AdvancesToSuccessor WalkEnds
CHECK_DEADLOCK FALSE
