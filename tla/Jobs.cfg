CONSTANTS
    c1 = c1
    c2 = c2
    e1 = e1
    r1 = r1
    NoRequest = NoRequest
    Call <- MCTwoCalls
    Escalation <- MCEscalation
    Request <- MCRequest
    MaxPending = 1
    MaxJobs = 2
    MaxSubmits = 2
    Patience = 2
    Rungs = 3
    TierEnd <- MCTierEnd
    Cancellable <- MCAll
    Malformed <- MCSecondCall

SPECIFICATION FairSpec
CHECK_DEADLOCK FALSE

INVARIANTS
    QueueBound
    NoOrphan
    RunningIsReal
    StatsOnce

PROPERTIES
    CallLedgerSpec
    EveryJobEnds
