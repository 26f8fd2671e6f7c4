SPECIFICATION FairSpec
CONSTANTS
    r1 = r1
    r2 = r2
    a = a
    b = b
    Replicas = {r1, r2}
    Dir <- MCDir
    Names = {1, 2, 3}
    Versions = {1, 2, 3}
    Texts = {a, b}
    ReadyTimeout = 6
    PingTimeout = 2
    FirstDelay = 1
    MaxDelay = 2
    MaxFaults = 1
    NoOne = NoOne
INVARIANTS
    AppliedOnceInOrder
    ServesMigrated
    StartRaceIsNoError
    GaveUpLate
PROPERTIES
    StopIsClean
    EveryStartEnds
    EveryStopEnds
CHECK_DEADLOCK FALSE
