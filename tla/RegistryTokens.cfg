CONSTANTS
    RAY = 2
    SECONDS_PER_YEAR = 1
    Asset = {"dai", "eth"}
    NoReserve = NoReserve
    MaxNumberOfReserves = 4
    ToldTiers = {2}
    Observed <- MCObserved
    CollateralParameters <- MCCollateralParameters
    ReserveFactors = {1000, 10000, 20000}
    MaxCalls = 3
SPECIFICATION MCSpec
CHECK_DEADLOCK FALSE
INVARIANT
    TokensKnowTheirTier
