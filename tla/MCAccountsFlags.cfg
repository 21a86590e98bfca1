SPECIFICATION Spec
CONSTANTS
    d = d
    w = w
    a = a
    b = b
    None = None
    Torn = Torn
    ProfileScope = FALSE
    Shared = Shared
    DefaultProfile = d
    Profile <- MCProfile
    App <- MCApp
    Proc = {p1, p2}
    Ops <- AllOps
    Select <- Flagged
    FlakyKeyring = {}
    MaxVersion = 1
    MaxStarts = 3
    MaxFaults = 0
    InitFile <- FreshOrSetUp
    InitClient <- SharedClient
SYMMETRY Symmetry
INVARIANTS
    TokenOnTarget
    IdentityOnTarget
    OwnClient
CHECK_DEADLOCK FALSE
