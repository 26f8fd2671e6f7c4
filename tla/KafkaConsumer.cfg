SPECIFICATION FairSpec
CONSTANTS
    m1 = m1
    m2 = m2
    p1 = p1
    p2 = p2
    Members = {m1, m2}
    Partitions = {p1, p2}
    Poison = {}
    MaxOffset = 2
    MaxFaults = 2
    NoPosition = NoPosition
    NoPartition = NoPartition
INVARIANTS
    NoLoss
PROPERTIES
    ImplementsPromise
    EventuallyApplied
CHECK_DEADLOCK FALSE
