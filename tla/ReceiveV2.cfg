SPECIFICATION Spec
CONSTANTS
    None = None
    e1 = e1
    e2 = e2
    f1 = f1
    f2 = f2
    r1 = r1
    g1 = g1
    Editors = {e1}
    Finalizers = {f1, f2}
    Retriers = {}
    Sweepers = {}
    MaxLines = 3
    MaxCases = 2
    ItemOf <- MCItemOf
SYMMETRY Interchangeable
INVARIANTS
    TypeOK
    BoxesKeepTheirLines
CHECK_DEADLOCK FALSE
