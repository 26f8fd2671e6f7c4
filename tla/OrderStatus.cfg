SPECIFICATION FairSpec
CONSTANTS
    h1 = h1
    h2 = h2
    h3 = h3
    o1 = o1
    o2 = o2
    e1 = e1
    e2 = e2
    e3 = e3
    e4 = e4
    Orders = {o1, o2}
    Events = {e1, e2, e3, e4}
    EventOrder <- MCEventOrder
    EventStatus <- MCEventStatus
    Handlers = {h1, h2}
    MaxAborts = 2
    NoOne = NoOne
    NoEvent = NoEvent
INVARIANTS
    InboxIsApplied
PROPERTIES
    PromiseSpec
    StatusFollowsDomain
    
