CONSTANTS
    a1 = a1
    b1 = b1
    b2 = b2
    t1 = t1
    t2 = t2
    NoThread = NoThread
    NoBackend = NoBackend
    Account = {a1}
    Backend = {b1}
    Thread = {t1, t2}
    QuotaAccountOf <- MCQuotaAccountOf
    InitEnabled = {b1}
    FailureThreshold = 2
    MaxFailures = 2
    MaxOps = 4

SPECIFICATION FairSpec

INVARIANTS
    ProbeHasOwner

PROPERTIES
    
    ExhaustedIsProbed

CHECK_DEADLOCK FALSE
