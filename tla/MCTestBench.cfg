CONSTANTS
    W = 12
    B = 3
    I = 7
    NumRegs = 4
    File <- SomeFile
    T0 = 1
    A0 = 2
    A1 = 3
    Padding = 3
    Tests <- AllTests
    StallLimit = 5
    MaxIcnt = 16
    MemLat = 1
    MaxBugs = 1
    None = None
SPECIFICATION Spec
CHECK_DEADLOCK FALSE
INVARIANTS
    NoFalseAlarm
    WrongCaught
    MemoryAgrees
    StartsExact
    AnswersArrive
PROPERTY
    Ends
