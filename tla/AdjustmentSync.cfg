SPECIFICATION Spec
CONSTANTS
    None = None
    adj = adj
    rev = rev
    s1 = s1
    t1 = t1
    t2 = t2
    t3 = t3
    Adjs = {adj, rev}
    Reversals = {rev}
    OriginalOf <- MCOriginalOf
    Submitters = {s1}
    Retriers = {t1, t2, t3}
    Target <- MCTarget
INVARIANTS
    TypeOK
    SyncedIsApplied
    NoLoneReversal
PROPERTIES
    FailedRetryKeepsSynced
CHECK_DEADLOCK FALSE
