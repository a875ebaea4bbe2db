SPECIFICATION FairSpec
CONSTANTS
    Null = Null
    Leases = {r1}
    Passwords = {p1, p2}
    Cleaners = {c1}
    MaxSalts = 1
    MaxFailed = 1
    LeaseTTL = 0
    Lifetimes = {1, 4}
    StatementLag = 0
    MaxTime = 3
    Retention <- MCNoRetention
PROPERTIES
    StaleLeaseIsCleared
