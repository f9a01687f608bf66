CONSTANT W = 4
SPECIFICATION Spec
INVARIANT QuotientByZero
