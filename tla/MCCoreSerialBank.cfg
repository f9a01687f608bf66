CONSTANTS
    NumLregs = 2
    NumPregs = 4
    RobEntries = 2
    BobEntries = 1
    Uops <- SerialDstUops
    Irqs = FALSE
    ResumeAfter = {}
SPECIFICATION Spec
PROPERTIES
    AllocateFromFree
