CONSTANTS
    Assets <- MCAssets
    InitialCash = 120
    LotSize = 2
    ClipQty = 3
    Closes = {0, 10, 12}
    MaxDay = 3
    CommissionDiv = 100
    MinCommission = 1
    StampDiv = 100
    SlipDiv = 200
CHECK_DEADLOCK FALSE
SPECIFICATION EventSpec
INVARIANTS
    EventTypeOK
    LedgerIsBehind
    LedgerBalances
PROPERTIES
    OverdraftIsCosts
    LedgerReconciles
