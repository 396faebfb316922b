\* every pair of arrays with up to four keys, each live or erased; range over every
\* content of three levels
CONSTANTS
    Key <- Keys
    Sought <- Seeks
    Deleted = deleted
    Absent = absent
    NumLevels = 3
    Ranges <- SomeRanges
    RangeKey <- ThreeKeys
SPECIFICATION Spec
INVARIANTS OutputIsLevel MergesNewestFirst FindsLowerBound RangeIsExact
CHECK_DEADLOCK FALSE
