SPECIFICATION FairSpec
CONSTANTS
    n1 = n1  n2 = n2  e1 = e1  t1 = t1  i1 = i1
    None = None
    Names = {n1, n2}
    Levels = {1, 2}
    ZohoLevel = 1
    Edits = {e1}
    Retries = {t1}
    Inlines = {i1}
    MaxAtWork = 2
INVARIANTS TypeOK ParkedEditKept OwnLevelKept
PROPERTY Converges
