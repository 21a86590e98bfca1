SPECIFICATION Spec
CONSTANTS
    d = d
    w = w
    a = a
    b = b
    None = None
    Torn = Torn
    ProfileScope = TRUE
    Shared = Shared
    DefaultProfile = d
    Profile <- MCProfile
    App <- MCApp
    Proc = {p1}
    Ops <- WizardOps
    Select <- AnySelect
    FlakyKeyring = {None}
    MaxVersion = 2
    MaxStarts = 4
    MaxFaults = 1
    InitFile <- AnyFile
    InitClient <- SomeClient
INVARIANTS
    TypeOK
    ScopesHonest
    ClientMatches
    NeverClobbers
PROPERTIES
    InitLeavesUsable
CHECK_DEADLOCK FALSE
