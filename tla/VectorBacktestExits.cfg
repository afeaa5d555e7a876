\* The instance of MCVectorBacktest.
CONSTANTS
    Assets <- MCAssets
    FullWeight = 240
    LossTiers <- MCLossTiers
    GainTiers <- MCGainTiers
    MinRemaining = 3
    RearmBuffer = 5
    TrailPct <- MCTrail
    LotSize = 1
    MaxLots = 5
    LimitPct = 99
    Weekday <- MCWeekday
    Daily = FALSE
    Closes = {18, 19, 20}
    Grants = {0, 6}
    CommissionDiv = 100
    MinCommission = 0
    StampDiv = 200
    SlipDiv = 200
CHECK_DEADLOCK FALSE
SPECIFICATION VectorSpec
INVARIANTS
    OnlyStoppedIsSold
