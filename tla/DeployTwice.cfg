CONSTANTS
    NumRuns = 2
    Scripts = {"mainnet"}
    SameProcess = TRUE
    MaxSwitches = 2
SPECIFICATION MCSpec
INVARIANTS
    NothingIsRefused
