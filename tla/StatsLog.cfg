CONSTANTS
    t1 = t1
    t2 = t2
    e1 = e1
    e2 = e2
    e3 = e3
    task1 = task1
    task2 = task2
    stage = stage
    Thread = {t1, t2}
    Event = {e1, e2, e3}
    Task = {task1, task2}
    Scope = {task1, task2, stage}
    Inside <- MCInside
    TaskOf <- MCTaskOf
    Raw <- MCRaw
    Limits = {1, 3}
    RuntimeLimit = 1
    ErrorLimit = 1
    TotalLimit = 2
    MaxOps = 2

SPECIFICATION Spec
SYMMETRY Symmetry

INVARIANTS
    NoSilentLoss
    SnapshotUnderItsTime
    SummaryNeverPartial
    RowsAddUp

CHECK_DEADLOCK FALSE
