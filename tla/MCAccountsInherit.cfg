SPECIFICATION Spec
CONSTANTS
    d = d
    w = w
    a = a
    b = b
    None = None
    Torn = Torn
    ProfileScope = TRUE
    Shared = Shared
    DefaultProfile = d
    Profile <- MCProfile
    App <- MCApp
    Proc = {p1}
    Ops <- WizardOps
    Select <- Unflagged
    FlakyKeyring = {}
    MaxVersion = 1
    MaxStarts = 3
    MaxFaults = 0
    InitFile <- LegacyFile
    InitClient <- SharedClient
INVARIANTS
    OwnClient
CHECK_DEADLOCK FALSE
