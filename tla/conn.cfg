SPECIFICATION FairSpec
CONSTANTS
    c1 = c1
    c2 = c2
    c3 = c3
    None = None
    Caller = {c1, c2, c3}
    MsgId = {0, 1, 2, 3}
    IdOf <- MCDistinct
    Payload = {0, 9}
    kMaxPending = 2
    MaxRequests <- MCRequests
    MaxEvents = 1
INVARIANTS
    TypeOK
    NoneBlockedAfterDisconnect
    AnsweredByItsOwnReply
    PendingIsInProgress
PROPERTIES
    EveryRequestReturns
    ShutdownReturns
