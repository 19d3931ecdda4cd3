CONSTANTS
    Timeout = 7
    Second = 2
    MaxRetry = 2
    Provider = {volc, deepseek}
    Strict = {volc}
    Tool = {"claude", "opencode", "codex"}
    MaxLines = 2
    PipeSize = 2
    Wait = 7
    Request = 6
    Interval = 3
    Tock = 2
    volc = volc
    deepseek = deepseek
SPECIFICATION BackendSpec
INVARIANTS
    RetriesWithinDeadline
    CompleteAnswer
    NoToolLeftRunning
    OneJobPerCall
    GaveUpInGoodFaith
PROPERTIES
    EveryCallReturns
CHECK_DEADLOCK FALSE
