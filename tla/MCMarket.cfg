CONSTANTS
    RAY = 10000
    SECONDS_PER_YEAR = 10
    OPTIMAL_UTILIZATION_RATE = 8000
    BaseVariableBorrowRate = 0
    VariableRateSlope1 = 8000
    VariableRateSlope2 = 10000
    WAD_RAY_RATIO = 10
    MaxIndex = 40000
    NumUsers = 2
    Reserve <- MCReserve
    Treasury = Treasury
    CrtVault = CrtVault
    Ltv <- MCLtv
    LiquidationThreshold <- MCLiquidationThreshold
    ReserveFactor <- MCReserveFactor
    TokenUnit <- MCTokenUnit
    InitialWallet <- MCInitialWallet
    InitialCrt <- MCInitialCrt
    InitialPrice <- MCInitialPrice
    MaxAmount = 100000
    Amounts = {7, 500, 100000}
    DelegatedAmounts = {}
    PriceAnswers <- MCPriceAnswers
    Freezable = {}
    Pausable = FALSE
    MaxTime = 3
    MaxCalls = 5
    Rays = 1
SPECIFICATION MCSpec
CHECK_DEADLOCK FALSE
INVARIANTS
    EarningsFollowDebts
    DebtIsFlagged
    DebtSupplyIsDebts
    SuppliersEarnNoMoreThanBorrowersPay
    ClaimsBacked
    ClaimsBackedUpToRounding
PROPERTIES
    ReportedIndexesNeverFall
    DebtFallsOnlyByPayment
