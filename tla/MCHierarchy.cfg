SPECIFICATION Spec
CONSTANTS
    NumSets = 2
    Tags = {0, 1}
    Banks = {0, 1}
    Vals = {0, 1}
    Lats = {1}
    Image <- MCImage
    DLines <- MCDLines
    ILines <- MCILines
    HostLines <- MCHostLines
INVARIANTS
    LinesExact
    HostSeesAll
    NothingStops
PROPERTIES
    NobodyStarves
