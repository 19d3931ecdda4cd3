CONSTANTS
    b1 = b1
    b2 = b2
    acc = acc
    t1 = t1
    t2 = t2
    c1 = c1
    c2 = c2
    Backend = {b1, b2}
    Account = {acc}
    AccountOf <- MCAccountOf
    TierOf <- MCTierOf
    Thread = {t1, t2}
    Caller = {c1, c2}
    Settings <- MCSettings
    Edits <- MCEdits
    Limits = {2}
    MaxReloads = 2
    MaxOps = 2

SPECIFICATION Spec
SYMMETRY Symmetry

INVARIANTS
    AllJudged
    SlotsStayWithTheirRouter
    RestartsConfigured

CHECK_DEADLOCK FALSE
