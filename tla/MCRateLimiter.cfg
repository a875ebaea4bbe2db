SPECIFICATION Spec
CONSTANTS
    Null = Null
    Calls = {c1, c2, c3, c4, c5, c6}
    Limit = 2
    Window = 2
    MaxLag = 1
    MaxTime = 6
SYMMETRY Symmetry
INVARIANTS
    TypeOK
    AtMostTwiceTheLimit
PROPERTIES
    RefusedOnlyWhenSpent
CHECK_DEADLOCK FALSE
