SPECIFICATION FairSpec
CONSTANTS
    None = None
    Web = Web
    Main = p1
    Jobs = {p1, p2}
    Orders = {a, b}
    Hopeless = {b}
    Window = 2
    MaxMishaps = 1
INVARIANTS
    TypeOK
    ZohoOrdersExplained
    BookAgrees
PROPERTIES
    EventuallyLinked
CHECK_DEADLOCK FALSE
