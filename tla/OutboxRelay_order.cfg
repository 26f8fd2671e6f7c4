SPECIFICATION Spec
CONSTANTS
    r1 = r1
    r2 = r2
    k1 = k1
    k2 = k2
    Relays = {r1}
    Events = {1, 2, 3}
    KeyOf <- OneKey
    Poison = {}
    BatchSize = 1
    MaxFaults = 0
    NoOwner = NoOwner
    NoEvent = NoEvent
PROPERTY
    OrderedPerKey
CHECK_DEADLOCK FALSE
