\* One algorithmic order of up to three slices and one order placed by hand, on
\* one asset: an order too small for one lot an hour (1 with lots of 2) and one
\* with a remainder; prices that move between purchase and sale, a minimum
\* commission above the notional of the smallest sale, a volume limit of one
\* lot, and a policy that may refuse or raise.
CONSTANTS
    Assets = {a1}
    AlgoIds = {x1}
    ManualIds = {m1}
    OrderIds <- MCOrderIds
    a1 = a1
    x1 = x1
    m1 = m1
    Totals = {1, 7}
    MaxSlices = 3
    Horizon = 2
    InitialCash = 8
    Prices = {1, 3}
    Volumes = {9}
    Quantities = {1, 3}
    LotSize = 2
    VolumeDiv = 3
    RiskPolicies = TRUE
    CommissionDiv = 10
    MinCommission = 2
    StampDiv = 5
    SlipDiv = 20
SPECIFICATION AlgoFairSpec
INVARIANTS
    BrokerTypeOK
    AlgoTypeOK
    AccountMatchesFills
    BooksBalance
    OverdraftOnlyByFees
    SlicesCoverOrder
    SlicesMatchBroker
PROPERTIES
    OutcomesAreFinal
    EveryOrderEnds
