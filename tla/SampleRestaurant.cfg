SPECIFICATION FairSpec
CONSTANTS
    o1 = o1
    o2 = o2
    h1 = h1
    h2 = h2
    Orders = {o1, o2}
    Operators = {h1, h2}
    MaxRequests = 4
    MaxRestarts = 1
    NoMessage = NoMessage
INVARIANTS
    AckedIsTold
    RepeatIsSafe
    OneCallbackPerDecision
PROPERTIES
    NeverStuckInFlight
CHECK_DEADLOCK FALSE
