SPECIFICATION Spec
CONSTANTS
    Null = Null
    First = First
    Managers = {m1, m2, m3, m4}
    Callers = {c1}
    MaxTime = 1
PROPERTIES
    RevokedCannotAuthenticate
CHECK_DEADLOCK FALSE
