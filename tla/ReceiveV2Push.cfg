SPECIFICATION Spec
CONSTANTS
    None = None
    e1 = e1
    e2 = e2
    f1 = f1
    f2 = f2
    r1 = r1
    g1 = g1
    Editors = {e1}
    Finalizers = {f1}
    Retriers = {r1}
    Sweepers = {g1}
    MaxLines = 2
    MaxCases = 2
    ItemOf <- MCItemOf
SYMMETRY Interchangeable
PROPERTIES
    PushedOkReachedLuma
CHECK_DEADLOCK FALSE
