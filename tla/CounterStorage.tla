--------------------------- MODULE CounterStorage ---------------------------
(***************************************************************************)
(* What the lending pool and the tokens it drives keep, and how balances   *)
(* are read from it.  A reserve is a pair <<asset, risk tier>>: the same   *)
(* asset may be listed in several tiers, each with its own pToken, debt    *)
(* token and indexes.  Tier 0 is the safest class (A), tier 2 the class    *)
(* every asset starts in (C).                                              *)
(*                                                                         *)
(* pTokens and debt tokens are kept by their scaled balances, as in the    *)
(* code.                                                                   *)
(***************************************************************************)
EXTENDS ReserveLogic, FiniteSets, FiniteSetsExt

CONSTANTS NumUsers,               \* number of accounts that call the protocol
          Reserve,                \* the listed <<asset, tier>> pairs
          Treasury, CrtVault,     \* the two holders interest is minted to
          Ltv, LiquidationThreshold, ReserveFactor,  \* per reserve, in bps
          TokenUnit,              \* 10**decimals, per asset
          InitialWallet, InitialCrt, InitialPrice,
          MaxAmount               \* type(uint256).max as an argument

User == 1..NumUsers
Holder == User \cup {Treasury, CrtVault}

AssetOf(r) == r[1]
TierOf(r) == r[2]
Asset == {AssetOf(r) : r \in Reserve}

ASSUME CounterAssumption ==
    /\ NumUsers \in Nat \ {0}
    /\ Treasury \notin User /\ CrtVault \notin User /\ Treasury # CrtVault
    /\ \A r \in Reserve : r = <<AssetOf(r), TierOf(r)>> /\ TierOf(r) \in 0..2
    /\ Ltv \in [Reserve -> 0..PERCENTAGE_FACTOR]
    /\ LiquidationThreshold \in [Reserve -> 0..PERCENTAGE_FACTOR]
    /\ ReserveFactor \in [Reserve -> 0..PERCENTAGE_FACTOR]
    /\ \A r \in Reserve : Ltv[r] <= LiquidationThreshold[r]
    /\ TokenUnit \in [Asset -> Nat \ {0}]
    /\ InitialWallet \in [Asset -> [User -> Nat]]
    /\ InitialCrt \in [User -> Nat]
    /\ InitialPrice \in [Asset -> Nat \ {0}]
    /\ MaxAmount \in Nat

VARIABLES
    now,                \* block.timestamp
    reserves,           \* _reserves: indexes, rates and timestamp per reserve
    pBalances,          \* scaled pToken balances, per reserve and holder
    debts,              \* scaled variable debt, per reserve and user
    debtSupply,         \* scaledTotalSupply of each reserve's debt token
    cash,               \* underlying held by each reserve's pToken
    wallets,            \* underlying held by each user, per asset
    usingAsCollateral,  \* _usersConfig: the collateral bits of each user
    borrowing,          \* _usersConfig: the borrowing bits of each user
    crtBalance,         \* CRT: free tokens of each user
    crtLocked,          \* CRT: locked tokens of each user
    crtValue,           \* _usersCredit: the credit the lock stands for
    borrowAllowances,   \* debt tokens: credit delegated, per reserve
    prices,             \* the oracle's answers
    frozen,             \* reserves whose frozen bit is set
    paused              \* _paused

marketVars == <<reserves, pBalances, debts, debtSupply, cash, wallets>>
flagVars == <<usingAsCollateral, borrowing>>
crtVars == <<crtBalance, crtLocked, crtValue>>
adminVars == <<prices, frozen, paused>>
vars == <<now, reserves, pBalances, debts, debtSupply, cash, wallets,
          usingAsCollateral, borrowing, crtBalance, crtLocked, crtValue,
          borrowAllowances, prices, frozen, paused>>

Init ==
    /\ now = 0
    /\ reserves = [r \in Reserve |-> InitialReserve]
    /\ pBalances = [r \in Reserve |-> [h \in Holder |-> 0]]
    /\ debts = [r \in Reserve |-> [u \in User |-> 0]]
    /\ debtSupply = [r \in Reserve |-> 0]
    /\ cash = [r \in Reserve |-> 0]
    /\ wallets = InitialWallet
    /\ usingAsCollateral = [u \in User |-> {}]
    /\ borrowing = [u \in User |-> {}]
    /\ crtBalance = InitialCrt
    /\ crtLocked = [u \in User |-> 0]
    /\ crtValue = [u \in User |-> 0]
    /\ borrowAllowances = [r \in Reserve |-> [u \in User |-> [v \in User |-> 0]]]
    /\ prices = InitialPrice
    /\ frozen = {}
    /\ paused = FALSE

-----------------------------------------------------------------------------

\* balanceOf of the pToken and of the debt token, at the present time.
BalanceOf(r, holder) ==
    RayMul(pBalances[r][holder], NormalizedIncome(reserves[r], now))
DebtOf(r, user) ==
    RayMul(debts[r][user], NormalizedDebt(reserves[r], now))

ValueInUSD(r, amount) ==
    (prices[AssetOf(r)] * amount) \div TokenUnit[AssetOf(r)]

=============================================================================
