SPECIFICATION Spec
CONSTANTS
    Null = Null
    Links = {l1, l2}
    Names <- MCNames
    Blank = ""
    WellFormed = {"a", "A", "long"}
    Long = {"long"}
    Lower <- MCLower
    Presets = {"a"}
    MaxFields = 2
    MaxSecrets = 3
    MaxSessions = 3
INVARIANTS
    TypeOK
    ActsOnlyOnceConfirmed
    PanelNamesOneLink
    SaysWhatIsStored
    ShownSecretWorks
    SavedBeforeTested
    
PROPERTIES
    RevokesWhatWasShown
    FieldsAreAccepted
