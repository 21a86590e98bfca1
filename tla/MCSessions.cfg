SPECIFICATION FairSpec
CONSTANTS
    d = d
    w = w
    a = a
    b = b
    c = c
    None = None
    DefaultProfile = d
    Profile <- MCProfile
    Account <- MCAccount
    Of <- MCOf
    Proc = {p1, p2}
    Select <- AnySelect
    MaxEvents = 2
INVARIANTS
    TypeOK
    AccountsApart
PROPERTIES
    DrivesHeal
CHECK_DEADLOCK FALSE
