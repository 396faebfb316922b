\* sequences of up to six points, duplicates included, cut for two or four threads
CONSTANTS
    epsilon = 1
    MaxPoints = 6
    StepsX = {0, 1, 3}
    StepsY = {1, 2}
    StartsY = {0, 2}
    Parallelisms = {2, 4}
SPECIFICATION Spec
INVARIANTS AcceptsOnlyStabbable RefusesOnlyUnstabbable LineWithinEpsilon ThreadsCoverInput ThreadsKeepOrder
CHECK_DEADLOCK FALSE
