\* all short inputs and long ones, with all ways to descend and all derived indexes;
\* the program stops where an assertion fails
CONSTANTS
    Epsilon = 1
    Instances <- AllVariants
    MANT_BITS = 10
    WORD_BITS = 22
    INT_BITS = 6
    ParallelFrom = 6
    MaxLength = 5
    MaxStored = 4
    MaxKey = 6
    MaxRuns = 7
    KeyMax = 63
    Sought <- KeysAround
    Inputs <- VariantInputs
SPECIFICATION VariantSpec
INVARIANTS StaysInBounds ProductsAccurate
INVARIANTS RightmostSegment FirstOccurrenceInRange LowerBoundInRange
INVARIANT EndInRangeUnlessRun
INVARIANTS PredRecoversKey VectorHoldsKeys
INVARIANTS QueriesAgree LoadedIsWrittenIfPatched HeaderVouches
CHECK_DEADLOCK FALSE
