SPECIFICATION FairSpec
CONSTANTS
    q1 = q1
    q2 = q2
    q3 = q3
    k1 = k1
    k2 = k2
    b1 = b1
    b2 = b2
    Requests = {q1, q2, q3}
    Keys = {k1, k2}
    Bodies = {b1, b2}
    NoOne = NoOne
    None = None
INVARIANTS
    OneOrderPerKey
    AllOrNothing
    AnswersAreTrue
    ReplayNeedsNoCatalog
PROPERTIES
    ImplementsPromise
    EveryRequestAnswered
CHECK_DEADLOCK FALSE
