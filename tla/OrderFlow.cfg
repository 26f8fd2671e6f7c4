SPECIFICATION FairSpec
CONSTANTS
    o1 = o1
    o2 = o2
    Orders = {o1, o2}
    Partitions = {1}
    PartitionOf <- MCPartitionOf
    MaxFaults = 1
INVARIANTS
    NoDecisionBlocks
PROPERTIES
    ImplementsPromise
    NoOrderIsForgotten
CHECK_DEADLOCK FALSE
