CONSTANT NumEntries = 5
SPECIFICATION Spec
INVARIANTS
    TotalOrder
    UniqueOldest
PROPERTY
    OldestReadyFirst
