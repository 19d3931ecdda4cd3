SPECIFICATION FairSpec
CONSTANTS
    ann = ann
    bob = bob
    i1 = i1
    Caller = {ann, bob}
    Job = {1, 2, 3}
    Id = {i1}
    Naming <- MCNaming
    ShortId <- MCShortId
    MaxPending = 2
    Timeout = 2
    PostTimeout = 1
    FirstDelay = 1
    LaterDelay = 2
    Soon = 1
    RetryAfter = {0}
    MaxTries <- MCTries
    MaxRestarts = 1
    NoJob = NoJob
    NoId = NoId
INVARIANTS OneJobAtATime AnswerIsMine
PROPERTIES NoNeedlessTimeout EveryCallEnds
CHECK_DEADLOCK FALSE
