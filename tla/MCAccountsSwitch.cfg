SPECIFICATION Spec
CONSTANTS
    d = d
    w = w
    a = a
    b = b
    None = None
    Torn = Torn
    ProfileScope = FALSE
    Shared = Shared
    DefaultProfile = d
    Profile <- MCProfile
    App <- MCApp
    Proc = {p1, p2}
    Ops <- InitAndUse
    Select <- Unflagged
    FlakyKeyring = {}
    MaxVersion = 1
    MaxStarts = 2
    MaxFaults = 0
    InitFile <- Fresh
    InitClient <- NoClient
INVARIANTS
    TokenOnTarget
CHECK_DEADLOCK FALSE
