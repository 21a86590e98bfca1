SPECIFICATION Spec
CONSTANTS
    a = a
    b = b
    n = n
    None = None
    Zeroed = Zeroed
    Proc = {p1}
    NumSources = 2
    FileSource = {2}
    Token <- MCToken
    NewToken <- MCNewToken
    FlakyReads = FALSE
    MaxFaults = 0
    UserOp <- Commands
    InitLegacy <- OneLegacy
    InitKeyring <- AnyKeyring
    InitClient <- AnyClient
    InitConfig <- FreshConfig
INVARIANTS
    ClientNeverBlocksToken
