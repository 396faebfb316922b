\* a table whose last part ends at the largest key
CONSTANTS
    Epsilon = 1
    Instances <- LastBucketVariants
    MANT_BITS = 14
    WORD_BITS = 30
    INT_BITS = 6
    ParallelFrom = 6
    MaxLength = 1
    MaxStored = 1
    MaxKey = 6
    MaxRuns = 10
    KeyMax = 63
    Sought <- KeysAround
    Inputs <- VariantInputs
SPECIFICATION VariantSpec
INVARIANT RightmostSegment
