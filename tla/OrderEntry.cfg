SPECIFICATION EntrySpec
CONSTANTS
    i1 = i1
    i2 = i2
    m1 = m1
    m2 = m2
    gone = gone
    q1 = q1
    Items = {i1, i2}
    Mods = {m1, m2}
    ItemOf <- MCItemOf
    Catalogs <- MCCatalogs
    Width = 8
    Requests = {q1}
    Ids = {i1, i2, m1, m2, gone}
    Bodies <- MCBodies
    MaxChanges = 2
    Nothing = Nothing
INVARIANTS
    EntryTypeOK
    PricedFromOneMenu
    StoredIsDeliverable
    
CHECK_DEADLOCK FALSE
