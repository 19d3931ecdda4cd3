CONSTANTS
    c1 = c1
    c2 = c2
    e1 = e1
    r1 = r1
    NoRequest = NoRequest
    Call <- MCOneCall
    Escalation <- MCNone
    Request <- MCRequest
    MaxPending = 1
    MaxJobs = 1
    MaxSubmits = 2
    Patience = 1
    Rungs = 1
    TierEnd <- MCOneTier
    Cancellable <- MCOneCall
    Malformed <- MCNone

SPECIFICATION FairSpec
CHECK_DEADLOCK FALSE

PROPERTIES
    CapacityComesBack
