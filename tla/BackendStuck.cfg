CONSTANTS
    a1 = a1
    b1 = b1
    b2 = b2
    t1 = t1
    t2 = t2
    NoThread = NoThread
    NoBackend = NoBackend
    Account = {a1}
    Backend = {b1, b2}
    Thread = {t1, t2}
    QuotaAccountOf <- MCQuotaAccountOf
    InitEnabled = {b1, b2}
    FailureThreshold = 1
    MaxFailures = 0
    MaxOps = 2

SPECIFICATION FairSpec

PROPERTIES
    NoProbingForEver

CHECK_DEADLOCK FALSE
