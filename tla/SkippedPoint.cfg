\* the jumps over two coordinates below three
CONSTANTS
    Dimensions = 2
    FieldBits = 3
    Inputs <- PointInputs
    Boxes <- SomeBoxes
    Asked <- SomePoints
    Epsilon = 1
    miss_threshold = 1
    MaxPoints = 4
    Side = 3
SPECIFICATION Spec
INVARIANT NoneSkipped
CHECK_DEADLOCK FALSE
