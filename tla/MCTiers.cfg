CONSTANTS
    RAY = 2
    SECONDS_PER_YEAR = 1
    OPTIMAL_UTILIZATION_RATE = 1
    BaseVariableBorrowRate = 0
    VariableRateSlope1 = 0
    VariableRateSlope2 = 0
    WAD_RAY_RATIO = 1
    MaxIndex = 2
    NumUsers = 2
    Reserve <- ThreeTiers
    Treasury = Treasury
    CrtVault = CrtVault
    Ltv <- MCLtv
    LiquidationThreshold <- MCLiquidationThreshold
    ReserveFactor <- MCReserveFactor
    TokenUnit <- MCTokenUnit
    InitialWallet <- MCSmallWallet
    InitialCrt <- MCInitialCrt
    InitialPrice <- MCInitialPrice
    MaxAmount = 100000
    Amounts = {60, 100, 100000}
    DelegatedAmounts = {60}
    PriceAnswers <- MCPriceAnswers
    Freezable <- MCFreezable
    Pausable = TRUE
    MaxTime = 0
    MaxCalls = 5
SPECIFICATION MCSpec
CHECK_DEADLOCK FALSE
INVARIANTS
    TypeOK
    DebtIsFlagged
    ReservesBalance
    CrtHoldingsKept
PROPERTIES
    BorrowLeavesHealthy
    NobodyOwesUnasked
    PausedStandsStill
    FrozenOnlyShrinks
