CONSTANTS
    NumAccounts = 2
    MaxUint = 3
    MaxNonce = 0
SPECIFICATION Spec
INVARIANT SupplyIsHoldings
