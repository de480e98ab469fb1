\* Three pools, the fewest for which the comparator can fail to be transitive.
SPECIFICATION Spec
CONSTANTS
    Pools = {a, b, c}
    a = a
    b = b
    c = c
    NameRank <- MCNameRank
    Timestamps = {0, 1, 2}
    MaxStamp = 2
INVARIANTS
    TypeOK
    EndsSorted
    UniformSelectionIsOldest
CHECK_DEADLOCK FALSE
