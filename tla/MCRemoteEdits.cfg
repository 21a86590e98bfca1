SPECIFICATION Spec
CONSTANTS
    me = me
    ann = ann
    bob = bob
    al = al
    None = None
    Malformed = Malformed
    Who <- MCWho
    Me <- MCMe
    Self = me
    Proc = {p1, p2}
    Received <- MCReceived
    Composition <- MCComposition
    WebHeaders <- MCWebHeaders
    VacationArgs <- MCVacationArgs
    WebVacations <- MCWebVacations
    Guests <- MCGuests
    Responses = {"accepted"}
    ContactArgs <- MCContactArgs
    WebContacts <- MCWebContacts
    MaxStarts = 3
    MaxFaults = 1
    MaxEdits = 1
CONSTRAINT OneObject
SYMMETRY Symmetry
INVARIANTS
    TypeOK
    SentOnce
    SentAsShown
    ReplyReachesAll
    ThreadChain
    HidesQuotesOnly
PROPERTIES
    EditsAsAsked
    ContactNeverReverts
CHECK_DEADLOCK FALSE
