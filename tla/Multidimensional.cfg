\* two coordinates below three, up to four points, duplicates included
CONSTANTS
    Dimensions = 2
    FieldBits = 3
    Inputs <- PointInputs
    Boxes <- SomeBoxes
    Asked <- SomePoints
    Epsilon = 1
    miss_threshold = 1
    MaxPoints = 4
    Side = 3
SPECIFICATION Spec
INVARIANTS YieldsPointsOfBox BigminIsLowest NoneSkippedUnlessBigmin ContainsDeniesOnlyAbsent
PROPERTY AdvanceReturnsUnlessRun
CHECK_DEADLOCK FALSE
