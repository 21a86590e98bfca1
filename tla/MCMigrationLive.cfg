SPECIFICATION FairSpec
CONSTANTS
    a = a
    b = b
    n = n
    None = None
    Zeroed = Zeroed
    Proc = {p1, p2}
    NumSources = 2
    FileSource = {}
    Token <- MCToken
    NewToken <- MCNewToken
    FlakyReads = FALSE
    MaxFaults = 2
    UserOp <- Commands
    InitLegacy <- OneLegacy
    InitKeyring <- AnyKeyring
    InitClient <- UsableClient
    InitConfig <- FreshOrJson
PROPERTIES
    EventuallyMigrated
