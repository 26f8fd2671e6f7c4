SPECIFICATION FairSpec
CONSTANTS
    m1 = m1
    m2 = m2
    p1 = p1
    p2 = p2
    Members = {m1}
    Partitions = {p1, p2}
    Poison <- FirstOfP1
    MaxOffset = 1
    MaxFaults = 0
    NoPosition = NoPosition
    NoPartition = NoPartition
PROPERTY
    OthersProgress
CHECK_DEADLOCK FALSE
