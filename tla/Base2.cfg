\* base 2, buffer_level 1: a buffer of 3 items, levels of 4, 8, 16, ... items
CONSTANTS
    Key = {k1, k2, k3, k4, k5}
    Value = {v1}
    Tombstone = tombstone
    Absent = absent
    LogBase = 1
    MinLevel = 1
    MinIndexLevel = 2
    LevelSlots = 3
    MaxLevel = 4
    MaxBulk = 5
SPECIFICATION Spec
SYMMETRY Symmetry
INVARIANTS TypeOK VectorsCoverUsedLevels LevelsFit IndexesFresh
