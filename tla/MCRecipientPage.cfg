SPECIFICATION PageSpec
CONSTANTS
    Null = Null
    Blank = Blank
    Leases = {r1, r2}
    Passwords = {Blank, p1}
    Pages = {g1, g2}
    Cleaners = {}
    MaxSalts = 1
    MaxFailed = 2
    LeaseTTL = 0
    Lifetimes = {2}
    StatementLag = 0
    MaxTime = 1
    Retention <- MCNoRetention
SYMMETRY PageSymmetry
INVARIANTS
    
    ViewFitsTokenAndCall
    RevealIsChosen
