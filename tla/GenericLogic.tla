---------------------------- MODULE GenericLogic ----------------------------
(***************************************************************************)
(* What a user's position is worth and whether it may shrink.  Reserves of *)
(* a tier above the one asked about are skipped, for collateral and for    *)
(* debt alike.                                                             *)
(***************************************************************************)
EXTENDS CounterStorage

\* calculateUserAccountData of `user` over the pToken balances `held`.  The
\* averages are weighted by value but divided by the value plus the credit.
AccountData(held, user, tier) ==
    LET backing == {r \in usingAsCollateral[user] :
                        TierOf(r) <= tier /\ LiquidationThreshold[r] # 0}
        owed == {r \in borrowing[user] : TierOf(r) <= tier}
        Worth(r) == ValueInUSD(r, RayMul(held[r][user],
                                         NormalizedIncome(reserves[r], now)))
        collateral == MapThenSumSet(Worth, backing)
        Average(bps) ==
            IF collateral = 0 THEN 0
            ELSE MapThenSumSet(LAMBDA r : Worth(r) * bps[r], backing)
                 \div (collateral + crtValue[user])
    IN  [collateral |-> collateral,
         debt |-> MapThenSumSet(LAMBDA r : ValueInUSD(r, DebtOf(r, user)), owed),
         ltv |-> Average(Ltv),
         threshold |-> Average(LiquidationThreshold)]

\* calculateHealthFactorFromBalances against HEALTH_FACTOR_LIQUIDATION_THRESHOLD:
\* a health factor of 1 ether is a covered amount equal to the debt.
HealthFactorDefined(account, credit) ==
    \/ account.debt = 0
    \/ PercentMulDefined(account.collateral + credit, account.threshold)

CoveredDebt(account, credit) ==
    PercentMul(account.collateral + credit, account.threshold)

HealthFactorAtLeastOne(account, credit) ==
    \/ account.debt = 0
    \/ CoveredDebt(account, credit) >= account.debt

HealthFactorAboveOne(account, credit) ==
    \/ account.debt = 0
    \/ CoveredDebt(account, credit) > account.debt

\* balanceDecreaseAllowed.  Only the weighted decrease is divided by what
\* remains: the quotient is subtracted from a sum that is still weighted.
BalanceDecreaseAllowed(user, r, amount) ==
    \/ borrowing[user] = {}
    \/ r \notin usingAsCollateral[user]
    \/ LiquidationThreshold[r] = 0
    \/ LET account == AccountData(pBalances, user, TierOf(r))
           decrease == ValueInUSD(r, amount)
           remaining == account.collateral - decrease
           threshold == account.collateral * account.threshold
                        - (decrease * LiquidationThreshold[r]) \div remaining
       IN  /\ HealthFactorDefined(account, crtValue[user])
           /\ \/ account.debt = 0
              \/ /\ remaining > 0
                 /\ threshold >= 0
                 /\ PercentMulAtLeast(remaining, threshold, account.debt)

=============================================================================
