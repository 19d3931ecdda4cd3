CONSTANTS
    a1 = a1
    a2 = a2
    b1 = b1
    b2 = b2
    b3 = b3
    c1 = c1
    c2 = c2
    NoBackend = NoBackend
    Account <- MCAccount
    Backend <- MCBackend
    Caller <- MCCaller
    AccountOf <- MCAccountOf
    InitLimit <- MCInitLimit
    Interval <- MCInterval
    Rpm <- MCRpm
    MaxLimit = 2
    Window = 4
    Horizon = 7
    MaxStarts = 5

SPECIFICATION Spec
SYMMETRY Symmetry

INVARIANTS
    CountersMatchHolders
    SlidingWindow
    StartSpacing
    NoOverThrottling
    RetryAfterExact
PROPERTY
    NoStartOverLimit
