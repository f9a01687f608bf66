CONSTANTS
    MulLat = 3
    DivLat = 33
    Robs = {r1, r2, r3, r4, r5, r6}
    None = None
SYMMETRY Symmetry
SPECIFICATION Spec
INVARIANTS
    ReservationsExact
    PortExclusive
PROPERTY
    ReportsOnTime
