\* keys above the last one
CONSTANTS
    Epsilon = 1
    Instances <- Scanned
    MANT_BITS = 14
    WORD_BITS = 30
    INT_BITS = 6
    ParallelFrom = 6
    MaxLength = 7
    MaxKey = 6
    MaxRuns = 0
    KeyMax = 8
    Sought <- KeysAround
    Inputs <- ShortInputs
SPECIFICATION Spec
INVARIANT EndInRange
