SPECIFICATION FairSpec
CONSTANTS
    i1 = i1
    i2 = i2
    i3 = i3
    l1 = l1
    l2 = l2
    n1 = n1
    n2 = n2
    None = None
    System = System
    Proc = {p1, p2}
    Item <- MCItem
    Name = {n1, n2}
    Label <- MCLabel
    Before <- MCBefore
    Given <- MCGiven
    NewNames = {n2}
    IdLists <- MCIdLists
    Batch = 2
    Page = 2
    MaxStarts = 2
    MaxFaults = 1
INVARIANTS
    TypeOK
    ReportHonest
    FailureIsPrefix
    ErasedWithConsent
PROPERTIES
    RetryCompletes
CHECK_DEADLOCK FALSE
