SPECIFICATION FairSpec
CONSTANTS
    d1 = d1
    d2 = d2
    c1 = c1
    c2 = c2
    Dispatchers = {d1, d2}
    Orders = {1, 2}
    Callbacks = {c1, c2}
    BatchSize = 2
    MaxAttempts = 2
    MaxFaults = 1
    NoOwner = NoOwner
    NoOrder = NoOrder
INVARIANTS
    EventsAgree
    MarksAreTrue
PROPERTIES
    ImplementsPromise
    EventuallyHandled
CHECK_DEADLOCK FALSE
