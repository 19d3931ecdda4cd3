CONSTANTS
    a1 = a1
    a2 = a2
    b1 = b1
    b2 = b2
    c1 = c1
    c2 = c2
    NoBackend = NoBackend
    NoCaller = NoCaller
    Account = {a1, a2}
    Backend = {b1, b2}
    Caller = {c1, c2}
    AccountOf <- MCApart
    QuotaAccountOf <- MCApart
    WeightedModels <- MCWeighted
    InitEnabled = {b1, b2}
    InitLimit <- MCLimit1
    MaxLimit = 2
    Interval <- MCInterval
    Rpm <- MCNoRpm
    Window = 1
    Horizon = 0
    MaxStarts = 4
    FailureThreshold = 1
    MaxCalls = 1
    MaxOps = 1

SPECIFICATION Spec
SYMMETRY Symmetry

INVARIANTS
    InFlightIsCounted
    TriedOnce
PROPERTY
    SlotsSpec

CHECK_DEADLOCK FALSE
