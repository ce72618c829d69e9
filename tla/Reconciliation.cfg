SPECIFICATION DashboardSpec
CONSTANTS
    None = None
    adj = adj
    rev = rev
    s1 = s1
    t1 = t1
    t2 = t2
    cap = cap
    Adjs = {adj, rev}
    Reversals = {rev}
    OriginalOf <- MCOriginalOf
    Submitters = {s1}
    Retriers = {t1, t2}
    Target <- MCTarget
    Items = {cap}
    ItemOf <- MCItemOf
    Delta <- MCDelta
INVARIANTS
    DashboardTypeOK
    AdvisedStayOut
PROPERTIES
    DriftHasRemedy
