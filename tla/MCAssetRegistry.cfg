CONSTANTS
    RAY = 2
    SECONDS_PER_YEAR = 1
    Asset = {"dai", "eth"}
    NoReserve = NoReserve
    MaxNumberOfReserves = 4
    ToldTiers = {1, 2}
    Observed <- MCObserved
    CollateralParameters <- MCCollateralParameters
    ReserveFactors = {1000, 10000, 20000, 70000}
    MaxCalls = 7
SPECIFICATION MCSpec
CHECK_DEADLOCK FALSE
INVARIANTS
    TypeOK
    ListNamesReserves
    InactiveIsAtRest
PROPERTIES
    ListIsACatalog
