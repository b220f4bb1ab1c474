CONSTANTS
    NumAccounts = 2
    MaxUint = 3
    MaxNonce = 1
SPECIFICATION Spec
INVARIANT HoldingsCovered
PROPERTY NothingWraps
