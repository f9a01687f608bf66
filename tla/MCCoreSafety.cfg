CONSTANTS
    NumLregs = 2
    NumPregs = 6
    RobEntries = 2
    BobEntries = 1
    Uops <- EveryUop
    Irqs = TRUE
    ResumeAfter = {"brk"}
SPECIFICATION Spec
INVARIANTS
    TypeOK
    RenameMapExact
    FreePartition
    RetirePartition
    NoOrphan
    SerializeAlone
    PendingFaultJustified
PROPERTIES
    RenamesPrecisely
    RollbackOnFault
    AllocateFromFree
