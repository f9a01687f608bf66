CONSTANT W = 4
SPECIFICATION Spec
INVARIANTS
    ResultsExact
    DivideExact
