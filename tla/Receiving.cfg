SPECIFICATION FairSpec
CONSTANTS
    NumLines = 2
    Submissions = {s1}
    Posts = {p1, p2}
    Cartons = {c1}
    Fills <- MCFills
    Typed <- MCTyped
    Uncounted = Uncounted
    Backfill = Backfill
    MaxDirect = 1
INVARIANTS
    TypeOK
    BackfillIsDirect
    FormTakesEffectOnce
    ZohoAfterPackTrack
PROPERTIES
    ReceiptIsNoticed
