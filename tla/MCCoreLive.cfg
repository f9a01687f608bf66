CONSTANTS
    NumLregs = 2
    NumPregs = 4
    RobEntries = 2
    BobEntries = 1
    Uops <- LiveUops
    Irqs = FALSE
    ResumeAfter = {}
SPECIFICATION FairSpec
PROPERTIES
    HeadLeaves
    Resumes
