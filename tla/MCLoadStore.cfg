CONSTANTS
    NumSets = 2
    Tags = {0, 1}
    Words = {0, 1}
    Vals = {0, 1}
    MqEntries = 3
    Slots = {s1, s2, s3}
    Ops <- MixedOps
    Window = 2
    NoReq = NoReq
    NoRob = NoRob
SYMMETRY Symmetry
SPECIFICATION Spec
INVARIANTS
    LoadsExact
    NoneForgotten
    ViewExact
    VictimFresh
    DrainedClean
    FlushWritesBack
PROPERTIES
    OneRequest
