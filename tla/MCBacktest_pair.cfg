SPECIFICATION Spec
CONSTANTS
    AShares = {a}
    HShares = {h}
    SHDays = {1, 2, 3, 4}
    HKDays = {1, 2, 4}
    LastDay = 4
    Base = "CNY"
    FxRates <- MCTwoRates
    CostModel <- MCSlippage
    CostUnit = 4
    LockDays <- MCLockDays
    Lot = 2
    InitialCash = 17
    Prices = {2}
    BarStates = {"trading", "suspended", "limit_up", "limit_down"}
    Dividends = {1}
    Ratios <- MCNoRatio
    Weights <- MCSigned
    WeightUnit = 2
    Untargeted = Untargeted
    PeriodOf <- MCDaily
    AShareShortAllowed = FALSE
    ReinvestDividends = TRUE
CHECK_DEADLOCK FALSE
PROPERTIES
    FillsAreFair
