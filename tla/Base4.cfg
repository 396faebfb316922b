\* base 4, buffer_level 1: a buffer of 5 items, levels of 16, 64, ... items
CONSTANTS
    Key = {k1, k2, k3, k4, k5, k6}
    Value = {v1}
    Tombstone = tombstone
    Absent = absent
    LogBase = 2
    MinLevel = 1
    MinIndexLevel = 2
    LevelSlots = 3
    MaxLevel = 4
    MaxBulk = 17
SPECIFICATION Spec
SYMMETRY Symmetry
PROPERTY IsAnOrderedMap
