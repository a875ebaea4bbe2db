SPECIFICATION Spec
CONSTANTS
    Null = Null
    Admins = {a1, a2}
    Senders = {h1, h2}
    Production = TRUE
    Timeouts = {1}
    WriteTimeout = 0
SYMMETRY Symmetry
INVARIANTS
    TypeOK
    SettingsAreValid
    MailIsAuthorised
    RefusedCreatesNothing
CHECK_DEADLOCK FALSE
