CONSTANTS
    a1 = a1
    a2 = a2
    b1 = b1
    b2 = b2
    c1 = c1
    c2 = c2
    NoBackend = NoBackend
    NoCaller = NoCaller
    Account = {a1}
    Backend = {b1, b2}
    Caller = {c1, c2}
    AccountOf <- MCShared
    QuotaAccountOf <- MCShared
    WeightedModels <- MCWeighted
    InitEnabled = {b1, b2}
    InitLimit <- MCLimit1
    MaxLimit = 1
    Interval <- MCNoInterval
    Rpm <- MCNoRpm
    Window = 1
    Horizon = 1
    MaxStarts = 4
    FailureThreshold = 2
    MaxCalls = 1
    MaxOps = 0

SPECIFICATION FairSpec

PROPERTY
    EachCallAnswers

CHECK_DEADLOCK FALSE
