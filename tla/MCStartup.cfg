SPECIFICATION FairSpec
CONSTANTS
    r1 = r1
    r2 = r2
    r3 = r3
    admin = admin
    root = root
    Null = Null
    Replicas <- MCReplicas
    Versions = 3
    Files <- MCFiles
    Names = {admin, root}
    Configured <- MCConfigured
    LegacyKey = TRUE
    MaxStops = 1
INVARIANTS OnceInOrder ServingIsMigrated
PROPERTIES  AllServe
CHECK_DEADLOCK FALSE
