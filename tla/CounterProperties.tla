------------------------- MODULE CounterProperties -------------------------
(***************************************************************************)
(* What the lending pool should guarantee, stated over its state.  Each    *)
(* property says which code it is about; the MC modules choose instances.  *)
(***************************************************************************)
EXTENDS Counter

\* What a reserve stores.
ReserveData ==
    [liquidityIndex : RAY..MaxIndex, variableBorrowIndex : RAY..MaxIndex,
     currentLiquidityRate : 0..MaxIndex, currentVariableBorrowRate : 0..MaxIndex,
     lastUpdateTimestamp : 0..MaxTime]

\* The pool's state has its type: no balance, debt or lock goes below zero,
\* flags name listed reserves and no index is below the ray it starts at.
TypeOK ==
    /\ now \in 0..MaxTime
    /\ reserves \in [Reserve -> ReserveData]
    /\ \A r \in Reserve : reserves[r].lastUpdateTimestamp <= now
    /\ pBalances \in [Reserve -> [Holder -> Nat]]
    /\ debts \in [Reserve -> [User -> Nat]]
    /\ debtSupply \in [Reserve -> Nat]
    /\ cash \in [Reserve -> Nat]
    /\ wallets \in [Asset -> [User -> Nat]]
    /\ usingAsCollateral \in [User -> SUBSET Reserve]
    /\ borrowing \in [User -> SUBSET Reserve]
    /\ crtBalance \in [User -> Nat]
    /\ crtLocked \in [User -> Nat]
    /\ crtValue \in [User -> Nat]
    /\ borrowAllowances \in [Reserve -> [User -> [User -> Nat]]]
    /\ prices \in [Asset -> Nat \ {0}]
    /\ frozen \subseteq Freezable
    /\ paused \in BOOLEAN

\* calculateUserAccountData only looks at reserves whose bit is set, so a debt
\* whose borrowing bit is clear would never count against its owner.  borrow
\* sets the bit on the first debt, repay clears it on the last: they must
\* agree on which those are, across accruals, rounding and other users' calls.
DebtIsFlagged ==
    \A r \in Reserve, u \in User : debts[r][u] > 0 => r \in borrowing[u]

\* updateState and the strategy work with the debt token's supply, users owe and
\* repay their own balances: through every rounding of a loan and a repayment
\* the supply is exactly what all of them owe.
DebtSupplyIsDebts ==
    \A r \in Reserve : debtSupply[r] = SumFunctionOnSet(debts[r], User)

\* Suppliers earn a part of what borrowers pay: the liquidity index, compounded
\* linearly per update, never gets ahead of the borrow index.
SuppliersEarnNoMoreThanBorrowersPay ==
    \A r \in Reserve :
        reserves[r].liquidityIndex <= reserves[r].variableBorrowIndex

\* No debt, however small, makes the overall rate higher than this.
HighestOverallRate(borrowRate) ==
    borrowRate + (RAY + WAD_RAY_RATIO) \div (2 * WAD_RAY_RATIO)

\* The strategies leave suppliers less than borrowers pay even if the overall
\* rate is rounded up as far as it can be, and of the borrow rate only what is
\* left once calculateCompoundedInterest has cut it to a whole number of rays
\* per second.  The contracts do not check it; the parameters the market is
\* deployed with make it so.
RatesCoverEarnings ==
    \A r \in Reserve, utilization \in 0..RAY :
        LET borrowRate == VariableBorrowRate(utilization)
        IN  PercentMul(RayMul(HighestOverallRate(borrowRate), utilization),
                       PERCENTAGE_FACTOR - ReserveFactor[r])
                <= SECONDS_PER_YEAR * (borrowRate \div SECONDS_PER_YEAR)

\* How much of a reserve is lent, as the strategy sees it.
TotalDebt(r) == RayMul(debtSupply[r], reserves[r].variableBorrowIndex)
Utilization(r) == UtilizationRate(cash[r], TotalDebt(r))

\* The loans of a reserve are dust to _getOverallBorrowRate, which loses a year's
\* interest on them if that is less than a ray, or to calculateInterestRates,
\* which loses a year's earnings of a ray of the reserve if they are below two.
LoansAreDust(r) ==
    LET borrowRate == reserves[r].currentVariableBorrowRate
    IN  \/ TotalDebt(r) * WAD_RAY_RATIO * borrowRate < RAY
        \/ borrowRate * Utilization(r) < 2 * RAY

\* _updateIndexes leaves the borrow index alone while suppliers earn nothing, so
\* interest that borrowers are shown is dropped at the next update if the
\* suppliers' rate comes out as zero: while loans are more than dust it does not.
EarningsFollowDebts ==
    \A r \in Reserve :
        debtSupply[r] > 0 /\ ~LoansAreDust(r) => reserves[r].currentLiquidityRate > 0

\* What balanceOf of a pToken or of a debt token reports for one scaled token
\* never falls, unless the debt is dust: the views extrapolate from the last
\* update, and updateState has to store at least what they last showed.
ReportedIndexesNeverFall ==
    [][\A r \in Reserve :
          /\ NormalizedIncome(reserves'[r], now') >= NormalizedIncome(reserves[r], now)
          /\ debtSupply[r] > 0 /\ ~LoansAreDust(r) =>
                 NormalizedDebt(reserves'[r], now') >= NormalizedDebt(reserves[r], now)
      ]_<<reserves, now>>

\* A debt falls only against underlying: what disappears from the debt token
\* in a step has arrived in the pToken, up to the rounding of one repayment.
DebtFallsOnlyByPayment ==
    [][\A r \in Reserve, u \in User :
          debts'[r][u] < debts[r][u] =>
              RayMul(debts[r][u] - debts'[r][u], reserves'[r].variableBorrowIndex)
                  <= cash'[r] - cash[r] + RayMul(1, reserves'[r].variableBorrowIndex)
      ]_<<debts, cash, reserves>>

-----------------------------------------------------------------------------
(***************************************************************************)
(* The balance sheet of a reserve.                                         *)
(***************************************************************************)

ScaledSupply(r, holders) == SumFunctionOnSet(pBalances[r], holders)

\* What the pTokens of `holders` are worth, and what the reserve has for them.
Claims(r, holders) ==
    RayMul(ScaledSupply(r, holders), NormalizedIncome(reserves[r], now))
Assets(r) == cash[r] + RayMul(debtSupply[r], NormalizedDebt(reserves[r], now))

\* No interest has accrued: one scaled token is one token, on both sides.
NoInterestYet ==
    \A r \in Reserve :
        /\ NormalizedIncome(reserves[r], now) = RAY
        /\ NormalizedDebt(reserves[r], now) = RAY

\* Nor ever does, with strategies that ask for none.
NoInterest ==
    BaseVariableBorrowRate = 0 /\ VariableRateSlope1 = 0 /\ VariableRateSlope2 = 0

\* With no interest yet, the underlying of a reserve and what is owed to it are
\* exactly what its pTokens stand for: no call mints, burns or lends without
\* the counterpart, whoever it is made for.
ReservesBalance ==
    \A r \in Reserve : Claims(r, Holder) = Assets(r)

\* mintToTreasury promises that minting the protocol's share "wont cause
\* potentially valid transactions to fail": a reserve can always be brought up
\* to date.  Every call on it but a pToken transfer starts with that.
AccrualNeverBlocks == \A r \in Reserve : AccrualDefined(r)

-----------------------------------------------------------------------------
(***************************************************************************)
(* Borrowing.                                                              *)
(***************************************************************************)

\* A loan without credit leaves its owner with a health factor of at least 1
\* over the tier borrowed from and the safer ones.  borrow checks the position
\* before it mints, so this needs the validation, the flag and the debt it
\* writes to agree, whatever the user holds and owes elsewhere.
BorrowLeavesHealthy ==
    [][\A r \in Reserve, u \in User :
          debts'[r][u] > debts[r][u] /\ crtValue'[u] = 0 =>
              HealthFactorAtLeastOne(AccountData(pBalances, u, TierOf(r)), 0)'
      ]_vars

\* Nobody comes to owe for what another took, beyond what was delegated: a new
\* debt is what its owner received in underlying, scaled by the index it is
\* written at, or what a delegatee received and lost from its allowance.
NobodyOwesUnasked ==
    [][\A r \in Reserve, u \in User :
          LET owed == debts'[r][u] - debts[r][u]
              Received(v) == wallets'[AssetOf(r)][v] - wallets[AssetOf(r)][v]
              OwedFor(amount) == RayDiv(amount, reserves'[r].variableBorrowIndex)
          IN  owed > 0 =>
                  \/ owed = OwedFor(Received(u))
                  \/ \E v \in User \ {u} :
                        /\ owed = OwedFor(Received(v))
                        /\ borrowAllowances[r][u][v] - borrowAllowances'[r][u][v]
                               = Received(v)
      ]_vars

\* The pool may lock a user's CRT and release it, never hand it to another:
\* repay works out from the borrower's lock what to release, and releases it in
\* the payer's name.
CrtHoldingsKept ==
    \A u \in User : crtBalance[u] + crtLocked[u] = InitialCrt[u]

\* A balance decrease is allowed if it "doesn't bring the user borrow position
\* health factor under HEALTH_FACTOR_LIQUIDATION_THRESHOLD", and a borrow only
\* from above it: with constant prices and no interest every position stays
\* healthy.
PositionsHealthy ==
    \A u \in User :
        HealthFactorAtLeastOne(AccountData(pBalances, u, 2), crtValue[u])

\* repay takes "the address of any other borrower whose debt should be removed":
\* whoever has the underlying can pay another's whole debt.
AnyoneCanRepay ==
    \A payer, borrower \in User, r \in Reserve :
        /\ ~paused
        /\ payer # borrower
        /\ DebtOf(r, borrower) > 0
        /\ wallets[AssetOf(r)][payer] >= DebtOf(r, borrower)
        => ENABLED Repay(payer, r, DebtOf(r, borrower), borrower)

-----------------------------------------------------------------------------
(***************************************************************************)
(* The switches.                                                           *)
(***************************************************************************)

\* A paused pool stands still, for pTokens moved between users as well: their
\* transfer is not an entry point of the pool and meets the pause only in
\* finalizeTransfer.
PausedStandsStill ==
    [][paused => UNCHANGED <<marketVars, flagVars, crtVars>>]_vars

\* A frozen reserve only winds down: it takes no deposit and gives no loan.
FrozenOnlyShrinks ==
    [][\A r \in frozen :
          /\ ScaledSupply(r, User)' <= ScaledSupply(r, User)
          /\ debtSupply'[r] <= debtSupply[r]
      ]_vars

=============================================================================
