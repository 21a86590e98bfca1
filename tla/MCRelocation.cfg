SPECIFICATION Spec
CONSTANTS
    d = d
    w = w
    a = a
    b = b
    None = None
    Bad = Bad
    Elsewhere = Elsewhere
    Proc = {p1}
    Profiles <- MCProfiles
    DefaultProfile = d
    Scopes = {1, 2}
    Backends = {1}
    App = {a, b}
    Ops <- AllOps
    MaxStarts = 4
    MaxFaults = 1
    InitYml <- AnyYml
    InitJson <- AnyJson
    InitClient <- AnyClient
INVARIANTS
    TypeOK
    LoadIsHonest
PROPERTIES
    SettingsSurvive
    RelocationCompletes
    PeaceKept
    ClearIsFinal
CHECK_DEADLOCK FALSE
