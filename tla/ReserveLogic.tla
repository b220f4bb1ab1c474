---------------------------- MODULE ReserveLogic ----------------------------
(***************************************************************************)
(* Interest accrual of one reserve: the two cumulative indexes, the views  *)
(* that extrapolate them to the present, and the rates the strategy sets   *)
(* from utilisation.  Pure operators on a reserve record                   *)
(*   [liquidityIndex, variableBorrowIndex, currentLiquidityRate,           *)
(*    currentVariableBorrowRate, lastUpdateTimestamp].                     *)
(***************************************************************************)
EXTENDS FixedPoint

CONSTANTS OPTIMAL_UTILIZATION_RATE,  \* of the strategy contract, in ray
          BaseVariableBorrowRate,
          VariableRateSlope1,
          VariableRateSlope2,
          WAD_RAY_RATIO,             \* WadRayMath.WAD_RAY_RATIO
          MaxIndex                   \* type(uint128).max

ASSUME StrategyAssumption ==
    /\ OPTIMAL_UTILIZATION_RATE \in 1..(RAY - 1)
    /\ BaseVariableBorrowRate \in Nat
    /\ VariableRateSlope1 \in Nat
    /\ VariableRateSlope2 \in Nat
    /\ WAD_RAY_RATIO \in Nat \ {0}
    /\ MaxIndex \in Nat /\ MaxIndex >= RAY

InitialReserve ==
    [liquidityIndex |-> RAY, variableBorrowIndex |-> RAY,
     currentLiquidityRate |-> 0, currentVariableBorrowRate |-> 0,
     lastUpdateTimestamp |-> 0]

\* What one scaled pToken is worth at time t.
NormalizedIncome(reserve, t) ==
    IF reserve.lastUpdateTimestamp = t
    THEN reserve.liquidityIndex
    ELSE RayMul(LinearInterest(reserve.currentLiquidityRate,
                               t - reserve.lastUpdateTimestamp),
                reserve.liquidityIndex)

\* What one scaled debt token is worth at time t.
NormalizedDebt(reserve, t) ==
    IF reserve.lastUpdateTimestamp = t
    THEN reserve.variableBorrowIndex
    ELSE RayMul(CompoundedInterest(reserve.currentVariableBorrowRate,
                                   t - reserve.lastUpdateTimestamp),
                reserve.variableBorrowIndex)

\* The slip of a mutant: the update accrues from the previous tick only.
UpdateIndexesLate(reserve, scaledDebt, t) ==
    [reserve EXCEPT
        !.liquidityIndex = NormalizedIncome(reserve, t),
        !.lastUpdateTimestamp = t]

\* _updateIndexes: the borrow index moves only while suppliers earn and
\* somebody owes; the timestamp moves always.
UpdateIndexes(reserve, scaledDebt, t) ==
    LET elapsed == t - reserve.lastUpdateTimestamp
        earning == reserve.currentLiquidityRate > 0
    IN  [reserve EXCEPT
            !.liquidityIndex =
                IF earning
                THEN RayMul(LinearInterest(reserve.currentLiquidityRate, elapsed),
                            reserve.liquidityIndex)
                ELSE reserve.liquidityIndex,
            !.variableBorrowIndex =
                IF earning /\ scaledDebt # 0
                THEN RayMul(CompoundedInterest(reserve.currentVariableBorrowRate,
                                               elapsed),
                            reserve.variableBorrowIndex)
                ELSE reserve.variableBorrowIndex,
            !.lastUpdateTimestamp = t]

IndexesFit(reserve) ==
    /\ reserve.liquidityIndex \in 0..MaxIndex
    /\ reserve.variableBorrowIndex \in 0..MaxIndex

RatesFit(reserve) ==
    /\ reserve.currentLiquidityRate \in 0..MaxIndex
    /\ reserve.currentVariableBorrowRate \in 0..MaxIndex

\* Interest that borrowers together came to owe between two reserve states.
DebtAccrued(before, after, scaledDebt) ==
    RayMul(scaledDebt, after.variableBorrowIndex)
    - RayMul(scaledDebt, before.variableBorrowIndex)

UtilizationRate(liquidity, totalDebt) ==
    IF totalDebt = 0 THEN 0 ELSE RayDiv(totalDebt, liquidity + totalDebt)

VariableBorrowRate(utilization) ==
    IF utilization > OPTIMAL_UTILIZATION_RATE
    THEN BaseVariableBorrowRate + VariableRateSlope1
         + RayMul(VariableRateSlope2,
                  RayDiv(utilization - OPTIMAL_UTILIZATION_RATE,
                         RAY - OPTIMAL_UTILIZATION_RATE))
    ELSE BaseVariableBorrowRate
         + RayDiv(RayMul(utilization, VariableRateSlope1),
                  OPTIMAL_UTILIZATION_RATE)

\* The slip of a mutant: the debt is left in its own units.
OverallBorrowRateUnscaled(totalDebt, borrowRate) ==
    IF totalDebt = 0 THEN 0 ELSE RayDiv(RayMul(totalDebt, borrowRate), totalDebt)

\* The average rate over all debt.  There is but one kind of debt, so it is the
\* borrow rate again, after two roundings: of a year's interest on the whole
\* debt to rays, which makes it 0 on a small enough debt, and of the quotient.
OverallBorrowRate(totalDebt, borrowRate) ==
    LET debtInRay == totalDebt * WAD_RAY_RATIO
    IN  IF totalDebt = 0 THEN 0 ELSE RayDiv(RayMul(debtInRay, borrowRate), debtInRay)

\* calculateInterestRates: the rate borrowers pay, and what a ray of the reserve
\* earns before the protocol's share is set aside.
StrategyRates(liquidity, totalDebt) ==
    LET utilization == UtilizationRate(liquidity, totalDebt)
        borrowRate == VariableBorrowRate(utilization)
    IN  [borrowRate |-> borrowRate,
         earned |-> RayMul(OverallBorrowRate(totalDebt, borrowRate), utilization)]

\* The slip of a mutant: suppliers are paid the protocol's share as well.
UpdateInterestRatesGross(reserve, liquidity, scaledDebt, reserveFactor) ==
    LET rates == StrategyRates(liquidity, RayMul(scaledDebt, reserve.variableBorrowIndex))
    IN  [reserve EXCEPT !.currentVariableBorrowRate = rates.borrowRate,
                        !.currentLiquidityRate = rates.earned]

\* updateInterestRates with the strategy's calculateInterestRates: `liquidity`
\* is what the pToken will hold once the operation has moved the underlying.
UpdateInterestRates(reserve, liquidity, scaledDebt, reserveFactor) ==
    LET rates == StrategyRates(liquidity, RayMul(scaledDebt, reserve.variableBorrowIndex))
    IN  [reserve EXCEPT
            !.currentVariableBorrowRate = rates.borrowRate,
            !.currentLiquidityRate =
                PercentMul(rates.earned, PERCENTAGE_FACTOR - reserveFactor)]

\* The strategy refuses to answer when so little is earned that percentMul does.
RatesDefined(reserve, liquidity, scaledDebt, reserveFactor) ==
    LET rates == StrategyRates(liquidity, RayMul(scaledDebt, reserve.variableBorrowIndex))
    IN  PercentMulDefined(rates.earned, PERCENTAGE_FACTOR - reserveFactor)

=============================================================================
