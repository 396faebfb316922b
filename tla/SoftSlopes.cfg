\* inputs with duplicates, slopes of type SoftFloat
CONSTANTS
    Epsilon = 1
    Instances <- Flat
    MANT_BITS = 14
    WORD_BITS = 30
    INT_BITS = 6
    ParallelFrom = 6
    MaxLength = 4
    MaxKey = 6
    MaxRuns = 0
    KeyMax = 56
    Sought <- KeysAround
    Inputs <- ShortInputs
SPECIFICATION Spec
INVARIANT FirstOccurrenceFound
