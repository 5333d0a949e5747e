SPECIFICATION FairSpec
CONSTANTS
    c1 = c1
    c2 = c2
    c3 = c3
    None = None
    Caller = {c1, c2}
    MsgId = {1}
    IdOf <- MCShared
    Payload = {0, 9}
    kMaxPending = 2
    MaxRequests <- MCOnce
    MaxEvents = 0
CHECK_DEADLOCK FALSE
PROPERTIES
    EveryRequestReturns
