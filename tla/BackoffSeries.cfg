SPECIFICATION Spec
CONSTANTS
    Milli = 2
    PowBits = 4
    DurationMax = 120
    Bases = {0, 1, 2, 3, 7, 8, 100}
    Maxima = {1, 2, 9, 30, 57, 120}
    Nanos = {0, 1, 2, 5, 9, 13, 24}
    AttemptBound = 6
INVARIANTS
    TypeOK
    WithinQuarter
    NeverHot
PROPERTIES
    Doubles
CHECK_DEADLOCK FALSE
