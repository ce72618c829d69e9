SPECIFICATION Spec
CONSTANTS
    i1 = i1
    i2 = i2
    Items = {i1, i2}
    Forms = {f}
    Pushes = {p}
    Skus = {A}
    Typed = {i1, i2}
    None = None
    MaxChanges = 2
SYMMETRY Interchangeable
INVARIANTS TypeOK BoxesCarryTheCode LumaAgrees
CHECK_DEADLOCK FALSE
