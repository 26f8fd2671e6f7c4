SPECIFICATION Spec
CONSTANTS
    d1 = d1
    d2 = d2
    c1 = c1
    c2 = c2
    Dispatchers = {d1, d2}
    Orders = {1, 2}
    Callbacks = {c1, c2}
    BatchSize = 2
    MaxAttempts = 2
    MaxFaults = 0
    NoOwner = NoOwner
    NoOrder = NoOrder
INVARIANT
    FailedWasTried
CHECK_DEADLOCK FALSE
