SPECIFICATION Spec
CONSTANTS
    AShares = {a}
    HShares = {}
    SHDays = {1, 2, 3, 4, 5, 6}
    HKDays = {}
    LastDay = 6
    Base = "CNY"
    FxRates <- MCFlatRate
    CostModel <- MCCosts
    CostUnit = 4
    LockDays <- MCLockDays
    Lot = 2
    InitialCash = 9
    Prices = {1, 2}
    BarStates = {"trading", "suspended", "limit_up", "limit_down"}
    Dividends = {1}
    Ratios <- MCSplit
    Weights = {0, 1, 2}
    WeightUnit = 2
    Untargeted = Untargeted
    PeriodOf <- MCPeriods
    AShareShortAllowed = FALSE
    ReinvestDividends = TRUE
CHECK_DEADLOCK FALSE
INVARIANTS
    NoLookahead
    NeverOverHolds
    CashNeverNegative
PROPERTIES
    FillsAreFair
    SettlementHolds
