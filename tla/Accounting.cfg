SPECIFICATION Spec
CONSTANTS
    MaxCycles = 8
    MaxInsns = 2
    Pushes = {0, 1, 2}
    RobSize = 2
    Starts = {0, 1}
    Ends = {1, 9}
INVARIANTS
    CountsBalance
    LogDated
CHECK_DEADLOCK FALSE
