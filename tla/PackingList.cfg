SPECIFICATION ListSpec
CONSTANTS
    None = None
    cap = cap
    box = box
    A = A
    B = B
    e1 = e1
    e2 = e2
    f1 = f1
    Catalogs <- MCCatalogs
    Texts <- MCTexts
    Counts <- MCCounts
    Editors = {e1, e2}
    Finalizers = {f1}
    Retriers = {}
    Sweepers = {}
    ItemOf <- MCItemOf
    MaxLines = 1
    MaxCases = 1
    MaxWrites = 2
SYMMETRY Interchangeable
INVARIANTS ListTypeOK FrozenWhenFinalized ReplaceReplaces QuietReportIsEqual
