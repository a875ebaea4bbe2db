SPECIFICATION Spec
CONSTANTS
    Null = Null
    First = First
    Managers = {m1, m2, m3, m4}
    Callers = {c1}
    MaxTime = 1
SYMMETRY Symmetry
INVARIANTS
    RetiredSecretsStayOut
PROPERTIES
    RevivedOnlyByEarlierRead
    KeepsCredential
CHECK_DEADLOCK FALSE
