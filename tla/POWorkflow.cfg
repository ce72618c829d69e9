SPECIFICATION Spec
CONSTANTS
    Requests = {r1, r2}
    MaxShipments = 2
SYMMETRY Interchangeable
INVARIANTS
    TypeOK
    SettledOrderIsClosed
PROPERTIES
    ImplementsOrderLife
    ClosedUnlessReceived
