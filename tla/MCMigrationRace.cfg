SPECIFICATION Spec
CONSTANTS
    a = a
    b = b
    n = n
    None = None
    Zeroed = Zeroed
    Proc = {p1, p2}
    NumSources = 2
    FileSource = {2}
    Token <- MCToken
    NewToken <- MCNewToken
    FlakyReads = FALSE
    MaxFaults = 1
    UserOp <- TokenOps
    InitLegacy <- AnyLegacy
    InitKeyring <- AnyKeyring
    InitClient <- OneClient
    InitConfig <- FreshOrJson
INVARIANTS
    OpenedMeansMigrated
PROPERTIES
    ClientStaysReferenced
    AssociationKept
    ImplementsKeychain
