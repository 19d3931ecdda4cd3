CONSTANTS
    t1 = t1
    t2 = t2
    k1 = k1
    k2 = k2
    Thread = {t1, t2}
    Key = {k1, k2}
    Weekly = {k1}
    Monthly = {k2}
    ResetDay = 2
    DayLength = 2
    Week = 2
    Month = 3
    MaxClock = 3
    Saved = {k1}
    MaxOps = 2
    Metered = {k1}
    Unlimited = {}
    Window = {"5hour", "weekly"}
    Ttl = 1

SPECIFICATION Spec
SYMMETRY Symmetry

INVARIANTS
    SavedAtRest
    UsageIsFresh

CHECK_DEADLOCK FALSE
