SPECIFICATION FairSpec
CONSTANTS
    r1 = r1
    r2 = r2
    k1 = k1
    k2 = k2
    Relays = {r1, r2}
    Events = {1, 2, 3}
    KeyOf <- MCKeyOf
    Poison = {1}
    BatchSize = 2
    MaxFaults = 1
    NoOwner = NoOwner
    NoEvent = NoEvent
INVARIANTS
    PublishedIsInTopic
    DuplicatesExplained
PROPERTIES
    HolderKeepsRow
    PromiseSpec
    EventuallySettled
CHECK_DEADLOCK FALSE
