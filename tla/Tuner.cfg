\* both searches, whatever is measured, between two epsilons
CONSTANTS
    lo_eps = 2
    hi_eps = 14
    starting_i = 1
    half_line = 1
    max_time = 4
    time_slack = 2
    Times <- SomeTimes
    max_space = 4
    space_slack = 1
    TimedSizes <- SlopedSizes
    Sizes <- StepSizes
    guess_steps_threshold = 3
SPECIFICATION Spec
INVARIANTS MeasuresInBounds ReportsSmallestInTime ReportsFastestThatFits
PROPERTY SearchEnds
CHECK_DEADLOCK FALSE
