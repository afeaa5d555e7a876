\* Two deployments of one run over two assets, closes of 1 and 2, positions
\* of at most half the cash; two activations of the kill switch; failing
\* statements, failing writes and crashes of the executor anywhere.
CONSTANTS
    LiveIds = {l1, l2}
    Runs = {r1}
    l1 = l1
    l2 = l2
    r1 = r1
    MaxKills = 2
    DbFails = TRUE
    StoreFails = TRUE
    Assets = {a1, a2}
    a1 = a1
    a2 = a2
    Prices = {0, 1, 2}
    InitialCash = 12
    LotSize = 2
    MaxPositionDiv = 2
    MaxRows = 3
    CommissionDiv = 10
    MinCommission = 1
    StampDiv = 5
    SlipDiv = 20
SYMMETRY ExecSymmetry
SPECIFICATION ExecSpec
INVARIANTS
    ExecTypeOK
    ConcentrationCap
    KillHoldsUntilResume
    IdleResumeRestoresAll
PROPERTIES
    BatchIsAffordable
    OnlyActiveTrade
    StoppedStaysStopped
