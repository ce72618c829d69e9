SPECIFICATION FairSpec
CONSTANTS
    None = None
    i1 = i1
    i2 = i2
    a1 = a1
    a2 = a2
    r1 = r1
    c1 = c1
    d1 = d1
    d2 = d2
    l1 = l1
    Items = {i1, i2}
    Adjusters = {a1}
    Receivers = {}
    Counters = {}
    Deliveries = {d1}
    Lots = {l1}
    LotOf <- MCLotOf
    Bodies <- MCBodies
    Upstream <- MCUpstream
    Opening <- MCOpening
PROPERTIES
    RefusalIsAnswered
CHECK_DEADLOCK FALSE
