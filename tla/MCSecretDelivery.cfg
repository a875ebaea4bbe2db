SPECIFICATION Spec
CONSTANTS
    Null = Null
    Leases = {r1, r2}
    Passwords = {p1, p2}
    Cleaners = {c1, c2}
    MaxSalts = 2
    MaxFailed = 2
    LeaseTTL = 0
    Lifetimes = {2}
    StatementLag = 0
    MaxTime = 2
    Retention <- MCNoRetention
SYMMETRY ReplicaSymmetry
INVARIANTS
    TypeOK
    AtMostOneReveal
    LeaseNeedsPasswordInForce
    PayloadFollowsStatus
    FailuresAreCounted
    CleanupIsIdempotent
PROPERTIES
    EndIsFinal
    LiveLeaseIsKept
    OneTime
