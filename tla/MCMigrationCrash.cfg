SPECIFICATION Spec
CONSTANTS
    a = a
    b = b
    n = n
    None = None
    Zeroed = Zeroed
    Proc = {p1}
    NumSources = 2
    FileSource = {2}
    Token <- MCToken
    NewToken <- MCNewToken
    FlakyReads = TRUE
    MaxFaults = 2
    UserOp <- AllOps
    InitLegacy <- AnyLegacy
    InitKeyring <- AnyKeyring
    InitClient <- AnyClient
    InitConfig <- AnyConfig
INVARIANTS
    TypeOK
    TokenNeverLost
    CleanupIsSafe
PROPERTIES
    ClientNeverLost
    ImplementsKeychain
