CONSTANTS
    NumRuns = 2
    Scripts = {"mainnet", "goerli", "mocks"}
    SameProcess = FALSE
SPECIFICATION FairSpec
INVARIANTS
    TypeOK
    BorrowableIsPriced
    NoBitOutOfPlace
    ReservesFollowClasses
    ReadsItsOwn
    MarketsDoNotMix
    RegistryMatchesDb
    MarketAsConfigured
PROPERTIES
    MainnetEnds
    PoolIsARegistry
