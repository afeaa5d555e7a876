\* Two deployments of one run, two assets, closes of 1 and 2 (0: no close).
CONSTANTS
    LiveIds = {l1, l2}
    Runs = {r1}
    l1 = l1
    l2 = l2
    r1 = r1
    MaxKills = 1
    DbFails = FALSE
    StoreFails = FALSE
    Assets = {a1, a2}
    a1 = a1
    a2 = a2
    Prices = {0, 1, 2}
    InitialCash = 12
    LotSize = 2
    MaxPositionDiv = 2
    MaxRows = 3
    CommissionDiv = 10
    MinCommission = 1
    StampDiv = 5
    SlipDiv = 20
SPECIFICATION ExecSpec
INVARIANTS
    ReplayCashIsRemaining
