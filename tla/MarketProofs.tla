---------------------------- MODULE MarketProofs ----------------------------
(***************************************************************************)
(* Proofs about what the lending pool owes and is owed as time passes: the *)
(* debt token's supply, the two indexes, the balance sheet of a reserve,   *)
(* its solvency while interest accrues, and the freeze.                    *)
(***************************************************************************)
EXTENDS CounterProofs, SumProofs, CountedMarket

-----------------------------------------------------------------------------
(***************************************************************************)
(* Users and holders are finitely many.                                    *)
(***************************************************************************)

LEMMA FiniteHolders == IsFiniteSet(User) /\ IsFiniteSet(Holder)
  <1>1. NumUsers \in Nat
    BY CounterAssumption
  <1>2. IsFiniteSet(User)
    BY <1>1, FS_Interval DEF User
  <1>3. IsFiniteSet(User \cup {Treasury})
    BY <1>2, FS_AddElement
  <1>4. IsFiniteSet((User \cup {Treasury}) \cup {CrtVault})
    BY <1>3, FS_AddElement
  <1>5. Holder = (User \cup {Treasury}) \cup {CrtVault}
    BY DEF Holder
  <1> QED BY <1>2, <1>4, <1>5

-----------------------------------------------------------------------------
(***************************************************************************)
(* The supply of the debt token.                                           *)
(***************************************************************************)

\* A step that changes one debt changes the supply by as much.
LEMMA DebtsAndSupplyMove ==
    ASSUME TypeOK, TypeOK', [Next]_vars
    PROVE  \/ UNCHANGED <<debts, debtSupply>>
           \/ \E r \in Reserve, u \in User :
                 /\ \A s \in Reserve \ {r} :
                       debts'[s] = debts[s] /\ debtSupply'[s] = debtSupply[s]
                 /\ \A v \in User \ {u} : debts'[r][v] = debts[r][v]
                 /\ debtSupply'[r] - debtSupply[r] = debts'[r][u] - debts[r][u]
  <1>1. \A amount \in Amounts : amount \in Nat
    BY CounterInputAssumption
  <1>2. ASSUME NEW r \in Reserve, NEW u \in User, NEW minted \in Nat,
               MintDebt(r, u, minted)
        PROVE  /\ \A s \in Reserve \ {r} :
                     debts'[s] = debts[s] /\ debtSupply'[s] = debtSupply[s]
               /\ \A v \in User \ {u} : debts'[r][v] = debts[r][v]
               /\ debtSupply'[r] - debtSupply[r] = debts'[r][u] - debts[r][u]
    BY <1>2 DEF MintDebt, TypeOK
  <1>3. ASSUME NEW r \in Reserve, NEW u \in User, NEW burned \in Nat,
               BurnDebt(r, u, burned)
        PROVE  /\ \A s \in Reserve \ {r} :
                     debts'[s] = debts[s] /\ debtSupply'[s] = debtSupply[s]
               /\ \A v \in User \ {u} : debts'[r][v] = debts[r][v]
               /\ debtSupply'[r] - debtSupply[r] = debts'[r][u] - debts[r][u]
    BY <1>3 DEF BurnDebt, TypeOK
  <1>4. ASSUME NEW user \in User, NEW u \in User, NEW r \in Reserve, NEW amount \in Nat,
               NEW crtenable \in BOOLEAN, Borrow(user, r, amount, u, crtenable)
        PROVE  \E minted \in Nat : MintDebt(r, u, minted)
    <2>1. /\ AccrualDefined(r)
          /\ MintDebt(r, u, RayDiv(amount, Accrued(r).variableBorrowIndex))
      BY <1>4 DEF Borrow
    <2> QED BY <2>1, ScaledAmount
  <1>5. ASSUME NEW user \in User, NEW u \in User, NEW r \in Reserve, NEW amount \in Nat,
               Repay(user, r, amount, u)
        PROVE  \E burned \in Nat : BurnDebt(r, u, burned)
    <2> DEFINE owed == DebtOf(r, u)
               paid == IF amount < owed THEN amount ELSE owed
    <2>1. AccrualDefined(r) /\ BurnDebt(r, u, DebtBurned(r, paid))
      BY <1>5 DEF Repay
    <2>2. owed \in Nat
      BY ViewType
    <2> HIDE DEF owed
    <2>3. paid \in Nat
      BY <2>2
    <2> HIDE DEF paid
    <2>4. DebtBurned(r, paid) \in Nat
      BY <2>1, <2>3, ScaledAmount DEF DebtBurned
    <2> QED BY <2>1, <2>4
  <1>6. CASE \E user, u \in User, r \in Reserve, amount \in Amounts :
                \E crtenable \in BOOLEAN : Borrow(user, r, amount, u, crtenable)
    <2>1. PICK u \in User, r \in Reserve, minted \in Nat : MintDebt(r, u, minted)
      BY <1>1, <1>4, <1>6
    <2> QED BY <1>2, <2>1
  <1>7. CASE \E user, u \in User, r \in Reserve, amount \in Amounts :
                Repay(user, r, amount, u)
    <2>1. PICK u \in User, r \in Reserve, burned \in Nat : BurnDebt(r, u, burned)
      BY <1>1, <1>5, <1>7
    <2> QED BY <1>3, <2>1
  <1>8. CASE ~ \E user, u \in User, r \in Reserve, amount \in Amounts :
                 \/ \E crtenable \in BOOLEAN : Borrow(user, r, amount, u, crtenable)
                 \/ Repay(user, r, amount, u)
    <2>1. CASE UserCall
      BY <1>8, <2>1 DEF UserCall, Deposit, Withdraw, PTransfer
    <2>2. CASE UserSetting
      BY <2>2 DEF UserSetting, SetUserUseReserveAsCollateral, ApproveDelegation,
                  marketVars
    <2>3. CASE Environment
      BY <2>3 DEF Environment, SetReserveFreeze, SetPause, SetPrice, Tick, marketVars
    <2>4. CASE UNCHANGED vars
      BY <2>4 DEF vars
    <2> QED BY <2>1, <2>2, <2>3, <2>4 DEF Next
  <1> QED BY <1>6, <1>7, <1>8

LEMMA SupplyStep ==
    TypeOK /\ TypeOK' /\ DebtSupplyIsDebts /\ [Next]_vars => DebtSupplyIsDebts'
  <1> SUFFICES ASSUME TypeOK, TypeOK', DebtSupplyIsDebts, [Next]_vars, NEW s \in Reserve
               PROVE  debtSupply'[s] = SumFunctionOnSet(debts'[s], User)
    BY DEF DebtSupplyIsDebts
  <1>1. debtSupply[s] = SumFunctionOnSet(debts[s], User)
    BY DEF DebtSupplyIsDebts
  <1>2. CASE UNCHANGED <<debts, debtSupply>>
    BY <1>1, <1>2
  <1>3. CASE \E r \in Reserve, u \in User :
                 /\ \A t \in Reserve \ {r} :
                       debts'[t] = debts[t] /\ debtSupply'[t] = debtSupply[t]
                 /\ \A v \in User \ {u} : debts'[r][v] = debts[r][v]
                 /\ debtSupply'[r] - debtSupply[r] = debts'[r][u] - debts[r][u]
    <2>1. PICK r \in Reserve, u \in User :
                 /\ \A t \in Reserve \ {r} :
                       debts'[t] = debts[t] /\ debtSupply'[t] = debtSupply[t]
                 /\ \A v \in User \ {u} : debts'[r][v] = debts[r][v]
                 /\ debtSupply'[r] - debtSupply[r] = debts'[r][u] - debts[r][u]
      BY <1>3
    <2>2. CASE s # r
      BY <1>1, <2>1, <2>2
    <2>3. CASE s = r
      <3>1. \A v \in User : debts[s][v] \in Nat /\ debts'[s][v] \in Nat
        BY DEF TypeOK
      <3>2. SumFunctionOnSet(debts'[s], User) - SumFunctionOnSet(debts[s], User)
                = debts'[s][u] - debts[s][u]
        BY <2>1, <2>3, <3>1, FiniteHolders, SumOneChanged
      <3>3. /\ SumFunctionOnSet(debts'[s], User) \in Nat
            /\ SumFunctionOnSet(debts[s], User) \in Nat
        BY <3>1, FiniteHolders, SumType
      <3>4. debtSupply[s] \in Nat /\ debtSupply'[s] \in Nat
        BY DEF TypeOK
      <3> QED BY <1>1, <2>1, <2>3, <3>1, <3>2, <3>3, <3>4
    <2> QED BY <2>2, <2>3
  <1> QED BY <1>2, <1>3, DebtsAndSupplyMove

\* Whatever the indexes, amounts and rounding, the supply that interest and the
\* treasury's share are computed from is the sum of what all users owe.
THEOREM SupplyIsOwed == Spec => []DebtSupplyIsDebts
  <1>1. Init => DebtSupplyIsDebts
    <2> SUFFICES ASSUME Init, NEW r \in Reserve
                 PROVE  debtSupply[r] = SumFunctionOnSet(debts[r], User)
      BY DEF DebtSupplyIsDebts
    <2>1. debtSupply[r] = 0 /\ \A u \in User : debts[r][u] = 0
      BY DEF Init
    <2> QED BY <2>1, FiniteHolders, SumOfZeros
  <1> QED BY <1>1, SupplyStep, TypeCorrect, PTL DEF Spec

-----------------------------------------------------------------------------
(***************************************************************************)
(* What a step does to the reserves and their clock.                       *)
(***************************************************************************)

\* A call brought reserve r up to date and set its rates from what it holds and
\* is owed after the call.
Refreshed(r) ==
    /\ AccrualDefined(r)
    /\ now' = now
    /\ SetRates(r, cash'[r], debtSupply'[r])
    /\ \A s \in Reserve \ {r} : debtSupply'[s] = debtSupply[s] /\ cash'[s] = cash[s]

\* Every call but a transfer of pTokens refreshes the reserve it is on.
LEMMA CallRefreshes ==
    ASSUME TypeOK, NEW user \in User, NEW other \in User, NEW r \in Reserve,
           NEW amount \in Amounts,
           \/ Deposit(user, r, amount, other)
           \/ Withdraw(user, r, amount, other)
           \/ \E crtenable \in BOOLEAN : Borrow(user, r, amount, other, crtenable)
           \/ Repay(user, r, amount, other)
    PROVE  Refreshed(r)
  <1>1. CASE Deposit(user, r, amount, other)
    <2>1. /\ AccrualDefined(r)
          /\ SetRates(r, cash[r] + amount, debtSupply[r])
          /\ cash' = [cash EXCEPT ![r] = @ + amount]
          /\ UNCHANGED <<now, debtSupply>>
      BY <1>1 DEF Deposit
    <2>2. cash'[r] = cash[r] + amount /\ debtSupply'[r] = debtSupply[r]
      BY <2>1 DEF TypeOK
    <2>3. \A s \in Reserve \ {r} : debtSupply'[s] = debtSupply[s] /\ cash'[s] = cash[s]
      BY <2>1 DEF TypeOK
    <2> QED BY <2>1, <2>2, <2>3 DEF Refreshed
  <1>2. CASE Withdraw(user, r, amount, other)
    <2> DEFINE paid == IF amount = MaxAmount THEN BalanceOf(r, user) ELSE amount
    <2>1. /\ AccrualDefined(r)
          /\ SetRates(r, cash[r] - paid, debtSupply[r])
          /\ cash' = [cash EXCEPT ![r] = @ - paid]
          /\ UNCHANGED <<now, debtSupply>>
      BY <1>2 DEF Withdraw
    <2> HIDE DEF paid
    <2>2. cash'[r] = cash[r] - paid /\ debtSupply'[r] = debtSupply[r]
      BY <2>1 DEF TypeOK
    <2>3. \A s \in Reserve \ {r} : debtSupply'[s] = debtSupply[s] /\ cash'[s] = cash[s]
      BY <2>1 DEF TypeOK
    <2> QED BY <2>1, <2>2, <2>3 DEF Refreshed
  <1>3. CASE \E crtenable \in BOOLEAN : Borrow(user, r, amount, other, crtenable)
    <2> DEFINE minted == RayDiv(amount, Accrued(r).variableBorrowIndex)
    <2>1. /\ AccrualDefined(r)
          /\ SetRates(r, cash[r] - amount, debtSupply[r] + minted)
          /\ cash' = [cash EXCEPT ![r] = @ - amount]
          /\ debtSupply' = [debtSupply EXCEPT ![r] = @ + minted]
          /\ UNCHANGED now
      BY <1>3 DEF Borrow, MintDebt
    <2> HIDE DEF minted
    <2>2. cash'[r] = cash[r] - amount /\ debtSupply'[r] = debtSupply[r] + minted
      BY <2>1 DEF TypeOK
    <2>3. \A s \in Reserve \ {r} : debtSupply'[s] = debtSupply[s] /\ cash'[s] = cash[s]
      BY <2>1 DEF TypeOK
    <2> QED BY <2>1, <2>2, <2>3 DEF Refreshed
  <1>4. CASE Repay(user, r, amount, other)
    <2> DEFINE owed == DebtOf(r, other)
               paid == IF amount < owed THEN amount ELSE owed
               burned == DebtBurned(r, paid)
    <2>1. /\ AccrualDefined(r)
          /\ SetRates(r, cash[r] + paid, debtSupply[r] - burned)
          /\ cash' = [cash EXCEPT ![r] = @ + paid]
          /\ debtSupply' = [debtSupply EXCEPT ![r] = @ - burned]
          /\ UNCHANGED now
      BY <1>4 DEF Repay, BurnDebt
    <2> HIDE DEF paid, burned
    <2>2. cash'[r] = cash[r] + paid /\ debtSupply'[r] = debtSupply[r] - burned
      BY <2>1 DEF TypeOK
    <2>3. \A s \in Reserve \ {r} : debtSupply'[s] = debtSupply[s] /\ cash'[s] = cash[s]
      BY <2>1 DEF TypeOK
    <2> QED BY <2>1, <2>2, <2>3 DEF Refreshed
  <1> QED BY <1>1, <1>2, <1>3, <1>4

LEMMA EveryStep ==
    ASSUME TypeOK, [Next]_vars
    PROVE  \/ UNCHANGED <<now, reserves, debtSupply, cash>>
           \/ now' = now + 1 /\ UNCHANGED <<reserves, debtSupply, cash>>
           \/ \E r \in Reserve : Refreshed(r)
  <1>1. CASE UserCall
    <2>1. PICK user \in User, other \in User, r \in Reserve, amount \in Amounts :
              \/ Deposit(user, r, amount, other)
              \/ Withdraw(user, r, amount, other)
              \/ \E crtenable \in BOOLEAN : Borrow(user, r, amount, other, crtenable)
              \/ Repay(user, r, amount, other)
              \/ PTransfer(user, r, amount, other)
      BY <1>1 DEF UserCall
    <2>2. CASE PTransfer(user, r, amount, other)
      BY <2>2 DEF PTransfer
    <2> QED BY <2>1, <2>2, CallRefreshes
  <1>2. CASE UserSetting
    BY <1>2 DEF UserSetting, SetUserUseReserveAsCollateral, ApproveDelegation, marketVars
  <1>3. CASE Environment
    BY <1>3 DEF Environment, SetReserveFreeze, SetPause, SetPrice, Tick, marketVars
  <1>4. CASE UNCHANGED vars
    BY <1>4 DEF vars
  <1> QED BY <1>1, <1>2, <1>3, <1>4 DEF Next

\* What Refreshed leaves in the reserve it is about, and in the others.
LEMMA RefreshedSteps ==
    ASSUME TypeOK, NEW r \in Reserve, Refreshed(r)
    PROVE  LET rated == UpdateInterestRates(Accrued(r), cash'[r], debtSupply'[r],
                                            ReserveFactor[r])
           IN  /\ reserves'[r] = rated
               /\ rated \in ReserveData
               /\ rated.liquidityIndex = Accrued(r).liquidityIndex
               /\ rated.variableBorrowIndex = Accrued(r).variableBorrowIndex
               /\ rated.lastUpdateTimestamp = now
               /\ Accrued(r) \in ReserveData
               /\ \A s \in Reserve \ {r} : reserves'[s] = reserves[s]
  <1> DEFINE rated == UpdateInterestRates(Accrued(r), cash'[r], debtSupply'[r],
                                          ReserveFactor[r])
  <1>1. /\ RatesFit(rated) /\ reserves' = [reserves EXCEPT ![r] = rated]
        /\ AccrualDefined(r)
    BY DEF Refreshed, SetRates, SetReserve
  <1>2. Accrued(r) \in ReserveData /\ Accrued(r).lastUpdateTimestamp = now
    BY <1>1, AccruedSteps
  <1>3. /\ rated \in ReserveData
        /\ rated.liquidityIndex = Accrued(r).liquidityIndex
        /\ rated.variableBorrowIndex = Accrued(r).variableBorrowIndex
        /\ rated.lastUpdateTimestamp = now
    BY <1>1, <1>2, UpdateInterestRatesSteps
  <1> HIDE DEF rated
  <1>4. reserves'[r] = rated /\ \A s \in Reserve \ {r} : reserves'[s] = reserves[s]
    BY <1>1 DEF TypeOK
  <1> QED BY <1>2, <1>3, <1>4 DEF rated

-----------------------------------------------------------------------------
(***************************************************************************)
(* Suppliers earn no more than borrowers pay.                              *)
(***************************************************************************)

\* No more than everything is lent out.
LEMMA UtilizationWithinRay ==
    ASSUME NEW liquidity \in Nat, NEW totalDebt \in Nat
    PROVE  UtilizationRate(liquidity, totalDebt) \in 0..RAY
  <1>1. RAY \in Nat \ {0}
    BY RAYAssumption
  <1>2. CASE totalDebt = 0
    BY <1>1, <1>2 DEF UtilizationRate
  <1>3. CASE totalDebt # 0
    <2> DEFINE all == liquidity + totalDebt
               q == RayDiv(totalDebt, all)
    <2>1. all \in Nat \ {0} /\ totalDebt <= all
      BY <1>3
    <2>2. UtilizationRate(liquidity, totalDebt) = q
      BY <1>3 DEF UtilizationRate
    <2> HIDE DEF all
    <2>3. /\ q \in Nat
          /\ all * q <= totalDebt * RAY + all \div 2
          /\ all \div 2 \in Nat /\ 2 * (all \div 2) <= all
      BY <2>1, RayDivBounds, DivBounds
    <2>4. RAY * totalDebt <= RAY * all
      BY <1>1, <2>1, MulMono
    <2>5. totalDebt * RAY = RAY * totalDebt /\ RAY * all \in Nat /\ RAY * totalDebt \in Nat
      BY <1>1, <2>1
    <2> HIDE DEF q
    <2>6. ASSUME RAY + 1 <= q PROVE FALSE
      <3>1. all * (RAY + 1) <= all * q
        BY <1>1, <2>1, <2>3, <2>6, MulMono
      <3>2. all * (RAY + 1) = RAY * all + all
        BY <1>1, <2>1
      <3>3. all * q \in Nat
        BY <2>1, <2>3
      <3> QED BY <2>1, <2>3, <2>4, <2>5, <3>1, <3>2, <3>3
    <2> QED BY <1>1, <2>2, <2>3, <2>6
  <1> QED BY <1>2, <1>3

\* What keeps the indexes in order from one accrual to the next: the borrow
\* rate covers the supply rate, and a reserve whose suppliers earn has debt, so
\* that _updateIndexes moves both indexes or only the borrow index.
EarningsCovered ==
    \A r \in Reserve :
        /\ reserves[r].liquidityIndex <= reserves[r].variableBorrowIndex
        /\ reserves[r].currentLiquidityRate
               <= SECONDS_PER_YEAR
                      * (reserves[r].currentVariableBorrowRate \div SECONDS_PER_YEAR)
        /\ reserves[r].currentLiquidityRate > 0 => debtSupply[r] > 0

\* The two roundings of the overall rate: how far it may be from the borrow rate,
\* and that a year's interest of a ray or more leaves at least half of it.
LEMMA OverallRateBounds ==
    ASSUME NEW totalDebt \in Nat \ {0}, NEW borrowRate \in Nat
    PROVE  LET overall == OverallBorrowRate(totalDebt, borrowRate)
           IN  /\ overall \in Nat
               /\ overall <= HighestOverallRate(borrowRate)
               /\ overall <= borrowRate + RAY
               /\ 2 * (totalDebt * overall) <= 2 * (totalDebt * borrowRate) + RAY + totalDebt
               /\ RAY <= totalDebt * WAD_RAY_RATIO * borrowRate => borrowRate <= 2 * overall
  <1> DEFINE w == WAD_RAY_RATIO
             debtInRay == totalDebt * w
             interest == RayMul(debtInRay, borrowRate)
             overall == RayDiv(interest, debtInRay)
             half == RAY \div 2
             halfDebt == debtInRay \div 2
  <1>1. w \in Nat \ {0} /\ RAY \in Nat \ {0}
    BY StrategyAssumption, RAYAssumption
  <1>2. OverallBorrowRate(totalDebt, borrowRate) = overall
    BY DEF OverallBorrowRate
  <1> HIDE DEF w
  <1>3. debtInRay \in Nat \ {0} /\ w <= debtInRay /\ totalDebt <= debtInRay
    BY <1>1
  <1> HIDE DEF debtInRay
  <1>4. /\ half \in Nat /\ 2 * half <= RAY /\ RAY <= 2 * half + 1
        /\ halfDebt \in Nat /\ 2 * halfDebt <= debtInRay /\ debtInRay <= 2 * halfDebt + 1
    BY <1>1, <1>3, DivBounds
  <1>5. /\ interest \in Nat
        /\ RAY * interest <= debtInRay * borrowRate + half
        /\ debtInRay * borrowRate + half < RAY * interest + RAY
    BY <1>3, RayMulBounds
  <1> HIDE DEF interest, half, halfDebt
  <1>6. /\ overall \in Nat
        /\ debtInRay * overall <= interest * RAY + halfDebt
        /\ interest * RAY + halfDebt < debtInRay * overall + debtInRay
    BY <1>3, <1>5, RayDivBounds DEF halfDebt
  <1> HIDE DEF overall
  <1>7. interest * RAY = RAY * interest /\ RAY * interest \in Nat
        /\ debtInRay * borrowRate \in Nat /\ debtInRay * overall \in Nat
    BY <1>1, <1>3, <1>5, <1>6
  <1>8. 2 * (debtInRay * overall) <= 2 * (debtInRay * borrowRate) + RAY + debtInRay
    BY <1>1, <1>3, <1>4, <1>5, <1>6, <1>7
  <1>9. 2 * (debtInRay * borrowRate) < 2 * (debtInRay * overall) + debtInRay + RAY
    BY <1>1, <1>3, <1>4, <1>5, <1>6, <1>7
  <1> DEFINE more == overall - borrowRate
  <1>10. ASSUME borrowRate < overall
         PROVE  /\ more \in Nat \ {0}
                /\ (2 * more - 1) * debtInRay <= RAY
    <2>1. debtInRay * overall = debtInRay * borrowRate + debtInRay * more
      BY <1>3, <1>6
    <2>2. 2 * (debtInRay * more) <= RAY + debtInRay
      BY <1>1, <1>3, <1>6, <1>7, <1>8, <2>1
    <2> QED BY <1>1, <1>3, <1>6, <1>10, <2>2
  <1>11. overall <= HighestOverallRate(borrowRate)
    <2> DEFINE allowed == (RAY + w) \div (2 * w)
    <2>1. allowed \in Nat /\ HighestOverallRate(borrowRate) = borrowRate + allowed
      <3>1. 2 * w \in Nat \ {0} /\ RAY + w \in Nat
        BY <1>1
      <3> QED BY <3>1, DivBounds DEF HighestOverallRate, w
    <2>2. ASSUME borrowRate < overall PROVE more <= allowed
      <3>1. more \in Nat \ {0} /\ (2 * more - 1) * debtInRay <= RAY
        BY <1>10, <2>2
      <3> HIDE DEF more
      <3>2. 2 * more - 1 \in Nat
        BY <3>1
      <3>3. (2 * more - 1) * w <= (2 * more - 1) * debtInRay
        BY <1>1, <1>3, <3>2, MulMono
      <3>4. (2 * more - 1) * w <= RAY
        BY <1>1, <1>3, <3>1, <3>2, <3>3
      <3>5. more * (2 * w) <= RAY + w
        BY <1>1, <3>1, <3>4
      <3> QED BY <1>1, <3>1, <3>5, DivAtLeast
    <2> HIDE DEF allowed
    <2> QED BY <1>6, <2>1, <2>2
  <1>12. overall <= borrowRate + RAY
    <2>1. ASSUME borrowRate < overall PROVE more <= RAY
      <3>1. more \in Nat \ {0} /\ (2 * more - 1) * debtInRay <= RAY
        BY <1>10, <2>1
      <3> HIDE DEF more
      <3>2. 2 * more - 1 \in Nat
        BY <3>1
      <3>3. (2 * more - 1) * 1 <= (2 * more - 1) * debtInRay
        BY <1>3, <3>2, MulMono
      <3> QED BY <1>1, <1>3, <3>1, <3>2, <3>3
    <2> QED BY <1>1, <1>6, <2>1
  <1>13. 2 * (totalDebt * overall) <= 2 * (totalDebt * borrowRate) + RAY + totalDebt
    <2> DEFINE over == 2 * (totalDebt * overall) - 2 * (totalDebt * borrowRate) - totalDebt
    <2>1. over \in Int /\ over * w <= RAY
      BY <1>1, <1>6, <1>8 DEF debtInRay
    <2>2. ASSUME over > RAY PROVE FALSE
      <3> HIDE DEF over
      <3>1. over * 1 <= over * w
        BY <1>1, <2>1, <2>2, MulMono
      <3> QED BY <1>1, <2>1, <2>2, <3>1
    <2>3. over <= RAY
      BY <1>1, <2>1, <2>2
    <2>4. totalDebt * overall \in Nat /\ totalDebt * borrowRate \in Nat
      BY <1>6
    <2> QED BY <1>1, <2>3, <2>4
  <1>14. ASSUME RAY <= totalDebt * w * borrowRate PROVE borrowRate <= 2 * overall
    <2>1. RAY <= debtInRay * borrowRate
      BY <1>1, <1>14 DEF debtInRay
    <2>2. debtInRay * borrowRate < 2 * (debtInRay * overall) + debtInRay
      BY <1>1, <1>3, <1>7, <1>9, <2>1
    <2>3. ASSUME 2 * overall + 1 <= borrowRate PROVE FALSE
      <3>1. debtInRay * (2 * overall + 1) <= debtInRay * borrowRate
        BY <1>3, <1>6, <2>3, MulMono
      <3>2. debtInRay * (2 * overall + 1) = 2 * (debtInRay * overall) + debtInRay
        BY <1>3, <1>6
      <3> QED BY <1>3, <1>7, <2>2, <3>1, <3>2
    <2> QED BY <1>6, <2>3
  <1> QED BY <1>2, <1>6, <1>11, <1>12, <1>13, <1>14 DEF w

\* The same where nothing may be owed.
LEMMA OverallRateWithin ==
    ASSUME NEW totalDebt \in Nat, NEW borrowRate \in Nat
    PROVE  LET overall == OverallBorrowRate(totalDebt, borrowRate)
           IN  /\ overall \in Nat
               /\ overall <= borrowRate + RAY
               /\ 2 * (totalDebt * overall) <= 2 * (totalDebt * borrowRate) + RAY + totalDebt
  <1> DEFINE overall == OverallBorrowRate(totalDebt, borrowRate)
  <1>1. CASE totalDebt = 0
    <2>1. overall = 0
      BY <1>1 DEF OverallBorrowRate
    <2> HIDE DEF overall
    <2>2. 2 * (totalDebt * overall) = 0 /\ 2 * (totalDebt * borrowRate) = 0 /\ RAY \in Nat
      BY <1>1, <2>1, RAYAssumption
    <2> QED BY <1>1, <2>1, <2>2 DEF overall
  <1>2. CASE totalDebt # 0
    <2>1. totalDebt \in Nat \ {0}
      BY <1>2
    <2> QED BY <2>1, OverallRateBounds
  <1> QED BY <1>1, <1>2

LEMMA HighestRateType ==
    ASSUME NEW borrowRate \in Nat
    PROVE  HighestOverallRate(borrowRate) \in Nat
  <1>1. RAY + WAD_RAY_RATIO \in Nat /\ 2 * WAD_RAY_RATIO \in Nat \ {0}
    BY RAYAssumption, StrategyAssumption
  <1>2. (RAY + WAD_RAY_RATIO) \div (2 * WAD_RAY_RATIO) \in Nat
    BY <1>1, DivBounds
  <1> QED BY <1>2 DEF HighestOverallRate

LEMMA PercentMulMono ==
    ASSUME NEW a \in Nat, NEW b \in Nat, NEW bps \in Nat, a <= b
    PROVE  /\ PercentMul(a, bps) <= PercentMul(b, bps)
           /\ PercentMul(a, bps) \in Nat /\ PercentMul(b, bps) \in Nat
  <1>1. bps * a <= bps * b
    BY MulMono
  <1>2. a * bps \in Nat /\ b * bps \in Nat /\ a * bps <= b * bps
    BY <1>1
  <1>3. PERCENTAGE_FACTOR \in Nat \ {0}
    BY DEF PERCENTAGE_FACTOR
  <1> QED BY <1>2, <1>3, DivMono, DivBounds DEF PercentMul

\* No rate, no overall rate.
LEMMA OverallRateZero ==
    ASSUME NEW totalDebt \in Nat
    PROVE  OverallBorrowRate(totalDebt, 0) = 0
  <1> DEFINE debtInRay == totalDebt * WAD_RAY_RATIO
  <1>1. CASE totalDebt = 0
    BY <1>1 DEF OverallBorrowRate
  <1>2. CASE totalDebt # 0
    <2>1. debtInRay \in Nat \ {0} /\ 0 * RAY = 0
      BY <1>2, StrategyAssumption, RAYAssumption
    <2>2. OverallBorrowRate(totalDebt, 0) = RayDiv(RayMul(debtInRay, 0), debtInRay)
      BY <1>2 DEF OverallBorrowRate
    <2> HIDE DEF debtInRay
    <2>3. RayMul(debtInRay, 0) = 0
      BY <2>1, RayMulZero
    <2>4. debtInRay \div 2 \in Nat /\ 2 * (debtInRay \div 2) <= debtInRay
      BY <2>1, DivBounds
    <2>5. (debtInRay \div 2) \div debtInRay = 0
      BY <2>1, <2>4
    <2>6. 0 + debtInRay \div 2 = debtInRay \div 2
      BY <2>4
    <2> QED BY <2>1, <2>2, <2>3, <2>5, <2>6 DEF RayDiv
  <1> QED BY <1>1, <1>2

\* The fields that new rates set.
LEMMA NewRates ==
    ASSUME NEW reserve \in ReserveData, NEW liquidity, NEW scaledDebt, NEW factor,
           RatesFit(UpdateInterestRates(reserve, liquidity, scaledDebt, factor))
    PROVE  LET after == UpdateInterestRates(reserve, liquidity, scaledDebt, factor)
               totalDebt == RayMul(scaledDebt, reserve.variableBorrowIndex)
               utilization == UtilizationRate(liquidity, totalDebt)
               borrowRate == VariableBorrowRate(utilization)
               overallRate == OverallBorrowRate(totalDebt, borrowRate)
           IN  /\ after.currentVariableBorrowRate = borrowRate
               /\ after.currentLiquidityRate =
                     PercentMul(RayMul(overallRate, utilization), PERCENTAGE_FACTOR - factor)
               /\ after.currentLiquidityRate \in Nat
               /\ after.currentVariableBorrowRate \in Nat
  <1> DEFINE after == UpdateInterestRates(reserve, liquidity, scaledDebt, factor)
             totalDebt == RayMul(scaledDebt, reserve.variableBorrowIndex)
             utilization == UtilizationRate(liquidity, totalDebt)
             rate == VariableBorrowRate(utilization)
             overallRate == OverallBorrowRate(totalDebt, rate)
             supplyRate == PercentMul(RayMul(overallRate, utilization),
                                      PERCENTAGE_FACTOR - factor)
             rates == StrategyRates(liquidity, totalDebt)
  <1>0. rates.borrowRate = rate /\ rates.earned = RayMul(overallRate, utilization)
    BY Zenon DEF StrategyRates
  <1>1. after = [reserve EXCEPT !.currentVariableBorrowRate = rate,
                                !.currentLiquidityRate = supplyRate]
    BY <1>0, Zenon DEF UpdateInterestRates
  <1>2. /\ after.currentLiquidityRate \in 0..MaxIndex
        /\ after.currentVariableBorrowRate \in 0..MaxIndex
    BY DEF RatesFit
  <1> HIDE DEF after, rate, supplyRate
  <1>3. after.currentVariableBorrowRate = rate /\ after.currentLiquidityRate = supplyRate
    BY <1>1 DEF ReserveData
  <1>4. after.currentLiquidityRate \in Nat /\ after.currentVariableBorrowRate \in Nat
    BY <1>2, StrategyAssumption
  <1> QED BY <1>3, <1>4 DEF after, rate, supplyRate

\* What suppliers keep of the interest, in basis points.
LEMMA FactorKept ==
    ASSUME NEW r \in Reserve
    PROVE  /\ ReserveFactor[r] \in Nat
           /\ PERCENTAGE_FACTOR - ReserveFactor[r] \in Nat
           /\ PERCENTAGE_FACTOR - ReserveFactor[r] <= PERCENTAGE_FACTOR
  <1>1. ReserveFactor[r] \in 0..PERCENTAGE_FACTOR
    BY CounterAssumption
  <1>2. \A bps \in 0..PERCENTAGE_FACTOR :
            /\ bps \in Nat /\ PERCENTAGE_FACTOR - bps \in Nat
            /\ PERCENTAGE_FACTOR - bps <= PERCENTAGE_FACTOR
    BY DEF PERCENTAGE_FACTOR
  <1> QED BY <1>1, <1>2

\* Nobody earns a rate of zero.
LEMMA NothingEarned ==
    ASSUME NEW r \in Reserve, NEW utilization \in Nat
    PROVE  PercentMul(RayMul(0, utilization), PERCENTAGE_FACTOR - ReserveFactor[r]) = 0
  <1> DEFINE kept == PERCENTAGE_FACTOR - ReserveFactor[r]
  <1>1. kept \in Nat
    BY FactorKept
  <1>2. RayMul(0, utilization) = 0
    BY RayMulZero
  <1> HIDE DEF kept
  <1>3. 0 * kept = 0
    BY <1>1
  <1>4. PercentMul(0, kept) = 0
    BY <1>3 DEF PercentMul, PERCENTAGE_FACTOR
  <1> QED BY <1>2, <1>4 DEF kept

\* Rates that the strategy sets keep EarningsCovered.
LEMMA RatesCovered ==
    ASSUME RatesCoverEarnings, NEW r \in Reserve, NEW reserve \in ReserveData,
           NEW liquidity \in Nat, NEW scaledDebt \in Nat,
           RatesFit(UpdateInterestRates(reserve, liquidity, scaledDebt, ReserveFactor[r]))
    PROVE  LET after == UpdateInterestRates(reserve, liquidity, scaledDebt, ReserveFactor[r])
           IN  /\ after.currentLiquidityRate
                      <= SECONDS_PER_YEAR
                             * (after.currentVariableBorrowRate \div SECONDS_PER_YEAR)
               /\ after.currentLiquidityRate > 0 => scaledDebt > 0
  <1> DEFINE after == UpdateInterestRates(reserve, liquidity, scaledDebt, ReserveFactor[r])
             totalDebt == RayMul(scaledDebt, reserve.variableBorrowIndex)
             utilization == UtilizationRate(liquidity, totalDebt)
             borrowRate == VariableBorrowRate(utilization)
             overallRate == OverallBorrowRate(totalDebt, borrowRate)
             kept == PERCENTAGE_FACTOR - ReserveFactor[r]
             whole == SECONDS_PER_YEAR * (borrowRate \div SECONDS_PER_YEAR)
  <1>1. /\ after.currentVariableBorrowRate = borrowRate
        /\ after.currentLiquidityRate = PercentMul(RayMul(overallRate, utilization), kept)
        /\ after.currentLiquidityRate \in Nat
        /\ borrowRate \in Nat
    BY NewRates
  <1>2. reserve.variableBorrowIndex \in Nat
    BY RAYAssumption, StrategyAssumption DEF ReserveData
  <1>3. totalDebt \in Nat
    BY <1>2, RayMulBounds
  <1>4. scaledDebt = 0 => totalDebt = 0
    BY <1>2, RayMulZero
  <1> HIDE DEF totalDebt
  <1>5. utilization \in 0..RAY
    BY <1>3, UtilizationWithinRay
  <1>6. utilization \in Nat
    BY <1>5, RAYAssumption
  <1>7. whole \in Nat
    <2>1. borrowRate \div SECONDS_PER_YEAR \in Nat /\ SECONDS_PER_YEAR \in Nat
      BY <1>1, YearAssumption, DivBounds
    <2> HIDE DEF borrowRate
    <2> QED BY <2>1
  <1>8. PercentMul(RayMul(HighestOverallRate(borrowRate), utilization), kept) <= whole
    BY <1>5 DEF RatesCoverEarnings
  <1>9. totalDebt = 0 => after.currentLiquidityRate = 0
    <2>1. totalDebt = 0 => overallRate = 0
      BY DEF OverallBorrowRate
    <2> QED BY <1>1, <1>6, <2>1, NothingEarned
  <1>10. kept \in Nat
    BY FactorKept
  <1> HIDE DEF utilization, borrowRate, after, kept, whole
  <1>11. ASSUME totalDebt # 0
         PROVE  PercentMul(RayMul(overallRate, utilization), kept) <= whole
    <2> DEFINE highest == HighestOverallRate(borrowRate)
    <2>1. totalDebt \in Nat \ {0}
      BY <1>3, <1>11
    <2>2. overallRate \in Nat /\ overallRate <= highest
      BY <1>1, <2>1, OverallRateBounds
    <2>3. highest \in Nat
      BY <1>1, HighestRateType
    <2> HIDE DEF overallRate, highest
    <2>4. RayMul(overallRate, utilization) <= RayMul(highest, utilization)
      BY <1>6, <2>2, <2>3, RayMulMono
    <2>5. RayMul(overallRate, utilization) \in Nat /\ RayMul(highest, utilization) \in Nat
      BY <1>6, <2>2, <2>3, RayMulBounds
    <2>6. /\ PercentMul(RayMul(overallRate, utilization), kept)
                 <= PercentMul(RayMul(highest, utilization), kept)
          /\ PercentMul(RayMul(overallRate, utilization), kept) \in Nat
          /\ PercentMul(RayMul(highest, utilization), kept) \in Nat
      BY <1>10, <2>4, <2>5, PercentMulMono
    <2> QED BY <1>7, <1>8, <2>6 DEF highest
  <1>12. after.currentLiquidityRate <= whole
    BY <1>1, <1>7, <1>9, <1>11
  <1>13. after.currentLiquidityRate > 0 => scaledDebt > 0
    BY <1>1, <1>4, <1>9
  <1> QED BY <1>1, <1>12, <1>13 DEF whole, after

\* An accrual keeps the indexes in order.
LEMMA AccrualKeepsOrder ==
    ASSUME NEW reserve \in ReserveData, NEW t \in Nat, NEW scaledDebt \in Nat,
           reserve.lastUpdateTimestamp <= t,
           reserve.liquidityIndex <= reserve.variableBorrowIndex,
           reserve.currentLiquidityRate
               <= SECONDS_PER_YEAR * (reserve.currentVariableBorrowRate \div SECONDS_PER_YEAR),
           reserve.currentLiquidityRate > 0 => scaledDebt > 0
    PROVE  LET after == UpdateIndexes(reserve, scaledDebt, t)
           IN  after.liquidityIndex <= after.variableBorrowIndex
  <1> DEFINE elapsed == t - reserve.lastUpdateTimestamp
             linear == LinearInterest(reserve.currentLiquidityRate, elapsed)
             compounded == CompoundedInterest(reserve.currentVariableBorrowRate, elapsed)
             a == IF reserve.currentLiquidityRate > 0
                  THEN RayMul(linear, reserve.liquidityIndex) ELSE reserve.liquidityIndex
             b == IF reserve.currentLiquidityRate > 0 /\ scaledDebt # 0
                  THEN RayMul(compounded, reserve.variableBorrowIndex)
                  ELSE reserve.variableBorrowIndex
             after == UpdateIndexes(reserve, scaledDebt, t)
  <1>1. /\ RAY \in Nat
        /\ reserve.liquidityIndex \in Nat
        /\ reserve.variableBorrowIndex \in Nat
        /\ reserve.currentLiquidityRate \in Nat
        /\ reserve.currentVariableBorrowRate \in Nat
        /\ elapsed \in Nat
    BY RAYAssumption, StrategyAssumption, CounterInputAssumption DEF ReserveData
  <1>2. after = [reserve EXCEPT !.liquidityIndex = a,
                                !.variableBorrowIndex = b,
                                !.lastUpdateTimestamp = t]
    BY Zenon DEF UpdateIndexes
  <1> SUFFICES after.liquidityIndex <= after.variableBorrowIndex
    OBVIOUS
  <1> HIDE DEF a, b, after
  <1>3. after.liquidityIndex = a /\ after.variableBorrowIndex = b
    BY <1>2 DEF ReserveData
  <1>4. linear \in Nat /\ compounded \in Nat /\ linear <= compounded
    BY <1>1, LinearAtLeastRay, CompoundedAtLeastRay, LinearWithinCompounded
  <1> HIDE DEF linear, compounded
  <1>5. CASE reserve.currentLiquidityRate > 0
    <2>1. /\ RayMul(linear, reserve.liquidityIndex)
                  <= RayMul(linear, reserve.variableBorrowIndex)
          /\ RayMul(linear, reserve.variableBorrowIndex)
                  <= RayMul(compounded, reserve.variableBorrowIndex)
      BY <1>1, <1>4, RayMulMono
    <2>2. /\ RayMul(linear, reserve.liquidityIndex) \in Nat
          /\ RayMul(linear, reserve.variableBorrowIndex) \in Nat
          /\ RayMul(compounded, reserve.variableBorrowIndex) \in Nat
      BY <1>1, <1>4, RayMulBounds
    <2>3. RayMul(linear, reserve.liquidityIndex)
              <= RayMul(compounded, reserve.variableBorrowIndex)
      BY <2>1, <2>2
    <2>4. scaledDebt # 0
      BY <1>5
    <2> QED BY <1>3, <1>5, <2>3, <2>4 DEF a, b
  <1>6. CASE ~(reserve.currentLiquidityRate > 0)
    BY <1>3, <1>6 DEF a, b
  <1> QED BY <1>5, <1>6

LEMMA EarningsStep ==
    ASSUME RatesCoverEarnings
    PROVE  TypeOK /\ TypeOK' /\ EarningsCovered /\ [Next]_vars => EarningsCovered'
  <1> SUFFICES ASSUME TypeOK, TypeOK', EarningsCovered, [Next]_vars PROVE EarningsCovered'
    OBVIOUS
  <1>1. CASE UNCHANGED <<reserves, debtSupply>>
    BY <1>1 DEF EarningsCovered
  <1>2. ASSUME NEW r \in Reserve, Refreshed(r) PROVE EarningsCovered'
    <2> DEFINE rated == UpdateInterestRates(Accrued(r), cash'[r], debtSupply'[r],
                                            ReserveFactor[r])
    <2>1. /\ reserves'[r] = rated
          /\ rated.liquidityIndex = Accrued(r).liquidityIndex
          /\ rated.variableBorrowIndex = Accrued(r).variableBorrowIndex
          /\ Accrued(r) \in ReserveData
          /\ \A s \in Reserve \ {r} : reserves'[s] = reserves[s]
      BY <1>2, RefreshedSteps
    <2>2. /\ RatesFit(rated)
          /\ \A s \in Reserve \ {r} : debtSupply'[s] = debtSupply[s]
      BY <1>2 DEF Refreshed, SetRates, SetReserve
    <2>3. cash'[r] \in Nat /\ debtSupply'[r] \in Nat /\ debtSupply[r] \in Nat
      BY DEF TypeOK
    <2>4. /\ rated.currentLiquidityRate
                 <= SECONDS_PER_YEAR
                        * (rated.currentVariableBorrowRate \div SECONDS_PER_YEAR)
          /\ rated.currentLiquidityRate > 0 => debtSupply'[r] > 0
      BY <2>1, <2>2, <2>3, RatesCovered
    <2> HIDE DEF rated
    <2>5. Accrued(r).liquidityIndex <= Accrued(r).variableBorrowIndex
      <3>1. /\ reserves[r] \in ReserveData /\ now \in Nat
            /\ reserves[r].lastUpdateTimestamp <= now
        BY ReserveType
      <3> QED BY <2>3, <3>1, AccrualKeepsOrder DEF Accrued, EarningsCovered
    <2>6. /\ reserves'[r].liquidityIndex <= reserves'[r].variableBorrowIndex
          /\ reserves'[r].currentLiquidityRate
                 <= SECONDS_PER_YEAR
                        * (reserves'[r].currentVariableBorrowRate \div SECONDS_PER_YEAR)
          /\ reserves'[r].currentLiquidityRate > 0 => debtSupply'[r] > 0
      BY <2>1, <2>4, <2>5
    <2> QED BY <2>1, <2>2, <2>6 DEF EarningsCovered
  <1> QED BY <1>1, <1>2, EveryStep

\* No rate, no debt and two indexes of one ray.
LEMMA EarningsFromStart == Init => EarningsCovered
  <1>1. 0 <= SECONDS_PER_YEAR * (0 \div SECONDS_PER_YEAR) /\ RAY <= RAY
    BY RAYAssumption, YearAssumption
  <1>2. ASSUME Init, NEW r \in Reserve
        PROVE  /\ reserves[r].liquidityIndex = RAY
               /\ reserves[r].variableBorrowIndex = RAY
               /\ reserves[r].currentLiquidityRate = 0
               /\ reserves[r].currentVariableBorrowRate = 0
    BY <1>2 DEF Init, InitialReserve
  <1>3. ~(0 > 0)
    OBVIOUS
  <1> QED BY <1>1, <1>2, <1>3 DEF EarningsCovered

\* For every history of loans, repayments and rates, and every ray and year: with
\* strategies that leave suppliers less than borrowers pay, the liquidity index
\* never overtakes the borrow index.
THEOREM SuppliersStayBehind ==
    ASSUME RatesCoverEarnings
    PROVE  Spec => []SuppliersEarnNoMoreThanBorrowersPay
  <1>1. Init => EarningsCovered
    BY EarningsFromStart
  <1>2. EarningsCovered => SuppliersEarnNoMoreThanBorrowersPay
    BY DEF EarningsCovered, SuppliersEarnNoMoreThanBorrowersPay
  <1>3. TypeOK /\ TypeOK' /\ EarningsCovered /\ [Next]_vars => EarningsCovered'
    BY EarningsStep
  <1> QED BY <1>1, <1>2, <1>3, TypeCorrect, PTL DEF Spec

LEMMA RateType ==
    ASSUME NEW utilization \in 0..RAY
    PROVE  VariableBorrowRate(utilization) \in Nat
  <1> DEFINE optimal == OPTIMAL_UTILIZATION_RATE
             excess == RayDiv(utilization - optimal, RAY - optimal)
             below == RayDiv(RayMul(utilization, VariableRateSlope1), optimal)
             above == RayMul(VariableRateSlope2, excess)
  <1>1. /\ RAY \in Nat \ {0} /\ optimal \in Nat \ {0} /\ optimal < RAY
        /\ BaseVariableBorrowRate \in Nat /\ VariableRateSlope1 \in Nat
        /\ VariableRateSlope2 \in Nat
    BY RAYAssumption, StrategyAssumption
  <1>2. utilization \in Nat
    BY <1>1
  <1> HIDE DEF optimal
  <1>3. below \in Nat
    BY <1>1, <1>2, RayMulBounds, RayDivBounds
  <1>4. utilization > optimal => above \in Nat
    <2> SUFFICES ASSUME utilization > optimal PROVE above \in Nat
      OBVIOUS
    <2>1. utilization - optimal \in Nat /\ RAY - optimal \in Nat \ {0}
      BY <1>1, <1>2
    <2>2. excess \in Nat
      BY <2>1, RayDivBounds
    <2> QED BY <1>1, <2>2, RayMulBounds
  <1>5. VariableBorrowRate(utilization) =
            IF utilization > optimal
            THEN BaseVariableBorrowRate + VariableRateSlope1 + above
            ELSE BaseVariableBorrowRate + below
    BY DEF VariableBorrowRate, optimal
  <1> HIDE DEF below, above
  <1> QED BY <1>1, <1>3, <1>4, <1>5

\* The share of the interest that a reserve factor holds back makes up for what
\* the division by the seconds of a year cuts off and what the overall rate gains
\* by rounding; where little is lent, so does the part of the rate that suppliers
\* do not get.  The mainnet strategies meet this with a factor of 10%, a ray of 27
\* digits and a ratio of 9: a rate of 5% or more is in the first case; of a rate
\* from zero up, a quarter or more lent is in the first, less of it in the second,
\* and in the third where the rate is below one ray per second.
THEOREM ReserveFactorCoversRounding ==
    ASSUME \A r \in Reserve, utilization \in 0..RAY :
               LET rate == VariableBorrowRate(utilization)
                   highest == HighestOverallRate(rate)
               IN  \/ highest * (PERCENTAGE_FACTOR - ReserveFactor[r])
                          + PERCENTAGE_FACTOR * SECONDS_PER_YEAR
                              <= PERCENTAGE_FACTOR * rate
                   \/ SECONDS_PER_YEAR <= rate /\ 2 * (highest * utilization) <= RAY * rate
                   \/ 2 * (highest * utilization) < RAY
    PROVE  RatesCoverEarnings
  <1> SUFFICES ASSUME NEW r \in Reserve, NEW utilization \in 0..RAY
               PROVE  LET rate == VariableBorrowRate(utilization)
                      IN  PercentMul(RayMul(HighestOverallRate(rate), utilization),
                                     PERCENTAGE_FACTOR - ReserveFactor[r])
                              <= SECONDS_PER_YEAR * (rate \div SECONDS_PER_YEAR)
    BY DEF RatesCoverEarnings
  <1> DEFINE F == PERCENTAGE_FACTOR
             rate == VariableBorrowRate(utilization)
             highest == HighestOverallRate(rate)
             earned == RayMul(highest, utilization)
             year == SECONDS_PER_YEAR
             kept == F - ReserveFactor[r]
             product == earned * kept
             paidOut == product \div F
             whole == year * (rate \div year)
  <1>1. /\ RAY \in Nat \ {0} /\ year \in Nat \ {0} /\ utilization \in Nat /\ utilization <= RAY
        /\ F \in Nat \ {0}
    BY RAYAssumption, YearAssumption DEF PERCENTAGE_FACTOR
  <1>2. rate \in Nat
    BY RateType
  <1>3. highest \in Nat
    BY <1>2, HighestRateType
  <1>4. \/ highest * kept + F * year <= F * rate
        \/ year <= rate /\ 2 * (highest * utilization) <= RAY * rate
        \/ 2 * (highest * utilization) < RAY
    OBVIOUS
  <1>5. PercentMul(earned, kept) = paidOut
    BY DEF PercentMul
  <1>6. kept \in Nat /\ kept <= F
    BY FactorKept
  <1> HIDE DEF F, rate, highest, year, kept
  <1>7. /\ earned \in Nat /\ RAY * earned <= highest * utilization + RAY \div 2
        /\ earned <= highest
    <2>1. RayMul(highest, utilization) <= RayMul(highest, RAY)
      BY <1>1, <1>3, RayMulMono
    <2>2. RayMul(highest, RAY) = highest
      BY <1>3, RayMulUnit
    <2> QED BY <1>1, <1>3, <2>1, <2>2, RayMulBounds
  <1>8. RAY \div 2 \in Nat /\ 2 * (RAY \div 2) <= RAY
    BY <1>1, DivBounds
  <1> HIDE DEF earned
  <1>9. product \in Nat
    BY <1>6, <1>7
  <1>10. /\ product <= highest * kept /\ highest * kept \in Nat
         /\ product <= F * earned
    <2>1. kept * earned <= kept * highest /\ earned * kept <= earned * F
      BY <1>1, <1>3, <1>6, <1>7, MulMono
    <2> QED BY <1>1, <1>3, <1>6, <1>7, <2>1
  <1> HIDE DEF product
  <1>11. paidOut \in Nat /\ F * paidOut <= product
    BY <1>1, <1>9, DivBounds
  <1> HIDE DEF paidOut
  <1>12. paidOut <= earned
    <2>1. F * paidOut <= F * earned
      BY <1>1, <1>7, <1>9, <1>10, <1>11
    <2> QED BY <1>1, <1>7, <1>11, <2>1, MulCancel
  <1>13. rate \div year \in Nat /\ whole \in Nat /\ rate < whole + year
    BY <1>1, <1>2, DivBounds
  <1>14. ASSUME highest * kept + F * year <= F * rate PROVE paidOut <= whole
    <2>1. F * (paidOut + year) <= F * rate
      BY <1>1, <1>2, <1>9, <1>10, <1>11, <1>14
    <2>2. paidOut + year <= rate
      BY <1>1, <1>2, <1>11, <2>1, MulCancel
    <2> HIDE DEF whole
    <2> QED BY <1>1, <1>2, <1>11, <1>13, <2>2
  <1>15. ASSUME year <= rate, 2 * (highest * utilization) <= RAY * rate
         PROVE  paidOut <= whole
    <2>1. year <= whole
      <3>1. 1 <= rate \div year
        <4>1. 1 * year <= rate
          BY <1>1, <1>15
        <4> QED BY <1>1, <1>2, <4>1, DivAtLeast
      <3>2. year * 1 <= year * (rate \div year)
        BY <1>1, <1>13, <3>1, MulMono
      <3> QED BY <1>1, <3>2
    <2>2. 2 * earned <= rate + 1
      <3>1. RAY * (2 * earned) <= RAY * (rate + 1)
        <4>1. highest * utilization \in Nat /\ RAY * earned \in Nat /\ RAY * rate \in Nat
          BY <1>1, <1>2, <1>3, <1>7
        <4>2. 2 * (RAY * earned) <= RAY * rate + RAY
          BY <1>1, <1>7, <1>8, <1>15, <4>1
        <4> QED BY <1>1, <1>2, <1>7, <4>2
      <3> QED BY <1>1, <1>2, <1>7, <3>1, MulCancel
    <2> HIDE DEF whole
    <2> QED BY <1>1, <1>2, <1>7, <1>11, <1>12, <1>13, <2>1, <2>2
  <1>16. ASSUME 2 * (highest * utilization) < RAY PROVE paidOut <= whole
    <2>1. highest * utilization \in Nat
      BY <1>1, <1>3
    <2>2. RAY * earned < RAY
      BY <1>1, <1>7, <1>8, <1>16, <2>1
    <2>3. ASSUME 1 <= earned PROVE FALSE
      <3>1. RAY * 1 <= RAY * earned
        BY <1>1, <1>7, <2>3, MulMono
      <3> QED BY <1>1, <1>7, <2>2, <3>1
    <2>4. earned = 0
      BY <1>7, <2>3
    <2> HIDE DEF whole
    <2> QED BY <1>7, <1>11, <1>12, <1>13, <2>4
  <1>17. paidOut <= whole
    BY <1>4, <1>14, <1>15, <1>16
  <1> QED BY <1>5, <1>17, Zenon DEF earned, rate, highest, kept, F, whole, year

-----------------------------------------------------------------------------
(***************************************************************************)
(* What the tokens report.                                                 *)
(***************************************************************************)

\* updateState stores what the views reported: always for suppliers, and for
\* borrowers as long as suppliers earn when borrowers pay.
LEMMA UpdateStoresViews ==
    ASSUME NEW reserve \in ReserveData, NEW t \in Nat, NEW scaledDebt \in Nat,
           reserve.lastUpdateTimestamp <= t
    PROVE  LET after == UpdateIndexes(reserve, scaledDebt, t)
           IN  /\ after.liquidityIndex = NormalizedIncome(reserve, t)
               /\ /\ scaledDebt > 0
                  /\ reserve.currentVariableBorrowRate > 0 => reserve.currentLiquidityRate > 0
                  => after.variableBorrowIndex = NormalizedDebt(reserve, t)
  <1> DEFINE elapsed == t - reserve.lastUpdateTimestamp
             rate == reserve.currentLiquidityRate
             borrowRate == reserve.currentVariableBorrowRate
             linear == LinearInterest(rate, elapsed)
             compounded == CompoundedInterest(borrowRate, elapsed)
             a == IF rate > 0
                  THEN RayMul(linear, reserve.liquidityIndex) ELSE reserve.liquidityIndex
             b == IF rate > 0 /\ scaledDebt # 0
                  THEN RayMul(compounded, reserve.variableBorrowIndex)
                  ELSE reserve.variableBorrowIndex
             after == UpdateIndexes(reserve, scaledDebt, t)
  <1> SUFFICES /\ after.liquidityIndex = NormalizedIncome(reserve, t)
               /\ (scaledDebt > 0 /\ (borrowRate > 0 => rate > 0)
                      => after.variableBorrowIndex = NormalizedDebt(reserve, t))
    OBVIOUS
  <1>1. /\ RAY \in Nat
        /\ reserve.liquidityIndex \in Nat
        /\ reserve.variableBorrowIndex \in Nat
        /\ rate \in Nat /\ borrowRate \in Nat
        /\ elapsed \in Nat
        /\ (elapsed = 0 <=> reserve.lastUpdateTimestamp = t)
    BY RAYAssumption, StrategyAssumption, CounterInputAssumption DEF ReserveData
  <1>2. after = [reserve EXCEPT !.liquidityIndex = a,
                                !.variableBorrowIndex = b,
                                !.lastUpdateTimestamp = t]
    BY Zenon DEF UpdateIndexes
  <1>3. /\ NormalizedIncome(reserve, t) =
               IF reserve.lastUpdateTimestamp = t THEN reserve.liquidityIndex
               ELSE RayMul(linear, reserve.liquidityIndex)
        /\ NormalizedDebt(reserve, t) =
               IF reserve.lastUpdateTimestamp = t THEN reserve.variableBorrowIndex
               ELSE RayMul(compounded, reserve.variableBorrowIndex)
    BY DEF NormalizedIncome, NormalizedDebt
  <1> HIDE DEF a, b, after
  <1>4. after.liquidityIndex = a /\ after.variableBorrowIndex = b
    BY <1>2 DEF ReserveData
  <1>5. elapsed = 0 \/ rate = 0 => linear = RAY
    <2>1. 0 \div SECONDS_PER_YEAR = 0 /\ rate * 0 = 0 /\ 0 * elapsed = 0
      BY <1>1, YearAssumption
    <2>2. ASSUME elapsed = 0 \/ rate = 0 PROVE rate * elapsed = 0
      BY <2>1, <2>2
    <2> QED BY <1>1, <2>1, <2>2 DEF LinearInterest
  <1>6. elapsed = 0 \/ borrowRate = 0 => compounded = RAY
    <2>1. elapsed = 0 => compounded = RAY
      BY DEF CompoundedInterest
    <2>2. borrowRate = 0 => compounded = RAY
      BY <1>1, CompoundedNoRate
    <2> QED BY <2>1, <2>2
  <1> HIDE DEF linear, compounded, elapsed, rate, borrowRate
  <1>7. /\ RayMul(RAY, reserve.liquidityIndex) = reserve.liquidityIndex
        /\ RayMul(RAY, reserve.variableBorrowIndex) = reserve.variableBorrowIndex
    BY <1>1, RayMulOne
  <1>8. after.liquidityIndex = NormalizedIncome(reserve, t)
    <2>1. CASE rate > 0 /\ elapsed # 0
      BY <1>1, <1>3, <1>4, <2>1 DEF a
    <2>2. CASE rate > 0 /\ elapsed = 0
      BY <1>1, <1>3, <1>4, <1>5, <1>7, <2>2 DEF a
    <2>3. CASE ~(rate > 0)
      <3>1. rate = 0 /\ a = reserve.liquidityIndex
        BY <1>1, <2>3 DEF a
      <3> QED BY <1>3, <1>4, <1>5, <1>7, <3>1
    <2> QED BY <2>1, <2>2, <2>3
  <1>9. ASSUME scaledDebt > 0, borrowRate > 0 => rate > 0
        PROVE  after.variableBorrowIndex = NormalizedDebt(reserve, t)
    <2>1. CASE rate > 0 /\ elapsed # 0
      BY <1>1, <1>3, <1>4, <1>9, <2>1 DEF b
    <2>2. CASE rate > 0 /\ elapsed = 0
      BY <1>1, <1>3, <1>4, <1>6, <1>7, <2>2 DEF b
    <2>3. CASE ~(rate > 0)
      <3>1. borrowRate = 0 /\ b = reserve.variableBorrowIndex
        BY <1>1, <1>9, <2>3 DEF b
      <3> QED BY <1>3, <1>4, <1>6, <1>7, <3>1
    <2> QED BY <2>1, <2>2, <2>3
  <1> QED BY <1>8, <1>9

\* The views only grow while time passes.
LEMMA ViewsGrow ==
    ASSUME NEW reserve \in ReserveData, NEW t \in Nat, reserve.lastUpdateTimestamp <= t
    PROVE  /\ NormalizedIncome(reserve, t) <= NormalizedIncome(reserve, t + 1)
           /\ NormalizedDebt(reserve, t) <= NormalizedDebt(reserve, t + 1)
  <1> DEFINE elapsed == t - reserve.lastUpdateTimestamp
             rate == reserve.currentLiquidityRate
             borrowRate == reserve.currentVariableBorrowRate
             index == reserve.liquidityIndex
             debtIndex == reserve.variableBorrowIndex
             linear == LinearInterest(rate, elapsed)
             compounded == CompoundedInterest(borrowRate, elapsed)
             linearNext == LinearInterest(rate, elapsed + 1)
             compoundedNext == CompoundedInterest(borrowRate, elapsed + 1)
  <1>1. /\ RAY \in Nat
        /\ index \in Nat /\ debtIndex \in Nat
        /\ rate \in Nat /\ borrowRate \in Nat
        /\ elapsed \in Nat /\ elapsed + 1 \in Nat /\ elapsed <= elapsed + 1
        /\ (t + 1) - reserve.lastUpdateTimestamp = elapsed + 1
        /\ reserve.lastUpdateTimestamp # t + 1
    BY RAYAssumption, StrategyAssumption, CounterInputAssumption DEF ReserveData
  <1>2. /\ NormalizedIncome(reserve, t) =
               IF reserve.lastUpdateTimestamp = t THEN index ELSE RayMul(linear, index)
        /\ NormalizedDebt(reserve, t) =
               IF reserve.lastUpdateTimestamp = t THEN debtIndex
               ELSE RayMul(compounded, debtIndex)
    BY DEF NormalizedIncome, NormalizedDebt
  <1>3. /\ NormalizedIncome(reserve, t + 1) = RayMul(linearNext, index)
        /\ NormalizedDebt(reserve, t + 1) = RayMul(compoundedNext, debtIndex)
    BY <1>1 DEF NormalizedIncome, NormalizedDebt
  <1> DEFINE next == elapsed + 1
  <1> HIDE DEF elapsed, next, rate, borrowRate
  <1>4. rate \in Nat /\ borrowRate \in Nat /\ elapsed \in Nat /\ next \in Nat /\ elapsed <= next
    BY <1>1 DEF next
  <1>5. /\ linear \in Nat /\ linearNext \in Nat /\ linear <= linearNext /\ RAY <= linearNext
    BY <1>4, LinearAtLeastRay, LinearMono DEF next
  <1>6. /\ compounded \in Nat /\ compoundedNext \in Nat
        /\ compounded <= compoundedNext /\ RAY <= compoundedNext
    BY <1>4, CompoundedAtLeastRay, CompoundedMono DEF next
  <1> HIDE DEF linear, linearNext, compounded, compoundedNext, index, debtIndex
  <1>7. /\ RayMul(linear, index) <= RayMul(linearNext, index)
        /\ RayMul(compounded, debtIndex) <= RayMul(compoundedNext, debtIndex)
    BY <1>1, <1>5, <1>6, RayMulMono
  <1>8. index <= RayMul(linearNext, index) /\ debtIndex <= RayMul(compoundedNext, debtIndex)
    BY <1>1, <1>5, <1>6, RayMulGrows
  <1> QED BY <1>2, <1>3, <1>7, <1>8

LEMMA ReportsStep ==
    ASSUME TypeOK, TypeOK', [Next]_vars, NEW s \in Reserve
    PROVE  /\ NormalizedIncome(reserves'[s], now') >= NormalizedIncome(reserves[s], now)
           /\ debtSupply[s] > 0 /\ ~LoansAreDust(s) /\ EarningsFollowDebts =>
                  NormalizedDebt(reserves'[s], now') >= NormalizedDebt(reserves[s], now)
  <1>1. /\ reserves[s] \in ReserveData /\ now \in Nat
        /\ reserves[s].lastUpdateTimestamp <= now
        /\ debtSupply[s] \in Nat
    BY ReserveType DEF TypeOK
  <1>2. /\ NormalizedIncome(reserves[s], now) \in Nat
        /\ NormalizedDebt(reserves[s], now) \in Nat
    BY <1>1, ViewsAtLeastRay
  <1>3. CASE UNCHANGED <<now, reserves>>
    BY <1>2, <1>3
  <1>4. CASE now' = now + 1 /\ UNCHANGED reserves
    <2>1. /\ NormalizedIncome(reserves[s], now) <= NormalizedIncome(reserves[s], now + 1)
          /\ NormalizedDebt(reserves[s], now) <= NormalizedDebt(reserves[s], now + 1)
      BY <1>1, ViewsGrow
    <2>2. /\ NormalizedIncome(reserves[s], now + 1) \in Nat
          /\ NormalizedDebt(reserves[s], now + 1) \in Nat
      <3>1. /\ reserves'[s] \in ReserveData /\ now' \in Nat
            /\ reserves'[s].lastUpdateTimestamp <= now'
        BY CounterInputAssumption DEF TypeOK
      <3> QED BY <1>4, <3>1, ViewsAtLeastRay
    <2> QED BY <1>2, <1>4, <2>1, <2>2
  <1>5. ASSUME NEW r \in Reserve, Refreshed(r)
        PROVE  /\ NormalizedIncome(reserves'[s], now') >= NormalizedIncome(reserves[s], now)
               /\ debtSupply[s] > 0 /\ ~LoansAreDust(s) /\ EarningsFollowDebts =>
                    NormalizedDebt(reserves'[s], now') >= NormalizedDebt(reserves[s], now)
    <2> DEFINE rated == UpdateInterestRates(Accrued(r), cash'[r], debtSupply'[r],
                                            ReserveFactor[r])
    <2>1. /\ reserves'[r] = rated
          /\ rated.liquidityIndex = Accrued(r).liquidityIndex
          /\ rated.variableBorrowIndex = Accrued(r).variableBorrowIndex
          /\ rated.lastUpdateTimestamp = now
          /\ \A t \in Reserve \ {r} : reserves'[t] = reserves[t]
      BY <1>5, RefreshedSteps
    <2>2. now' = now
      BY <1>5 DEF Refreshed
    <2>3. CASE s # r
      BY <1>2, <2>1, <2>2, <2>3
    <2>4. CASE s = r
      <3> HIDE DEF rated
      <3>1. /\ NormalizedIncome(reserves'[s], now') = Accrued(r).liquidityIndex
            /\ NormalizedDebt(reserves'[s], now') = Accrued(r).variableBorrowIndex
        BY <2>1, <2>2, <2>4 DEF NormalizedIncome, NormalizedDebt
      <3>2. /\ Accrued(r).liquidityIndex = NormalizedIncome(reserves[s], now)
            /\ /\ debtSupply[s] > 0
               /\ reserves[s].currentVariableBorrowRate > 0
                      => reserves[s].currentLiquidityRate > 0
               => Accrued(r).variableBorrowIndex = NormalizedDebt(reserves[s], now)
        BY <1>1, <2>4, UpdateStoresViews DEF Accrued
      <3>3. debtSupply[s] > 0 /\ ~LoansAreDust(s) /\ EarningsFollowDebts =>
                (reserves[s].currentVariableBorrowRate > 0
                      => reserves[s].currentLiquidityRate > 0)
        BY DEF EarningsFollowDebts
      <3> QED BY <1>2, <3>1, <3>2, <3>3
    <2> QED BY <2>3, <2>4
  <1> QED BY <1>3, <1>4, <1>5, EveryStep

\* What one scaled pToken is worth, as balanceOf and transfers read it, never
\* falls: for all rates, indexes and rounding, whoever calls.
THEOREM IncomeNeverFalls ==
    Spec => [][\A r \in Reserve :
                  NormalizedIncome(reserves'[r], now') >= NormalizedIncome(reserves[r], now)
              ]_<<reserves, now>>
  <1>1. TypeOK /\ TypeOK' /\ [Next]_vars =>
            [\A r \in Reserve :
                NormalizedIncome(reserves'[r], now') >= NormalizedIncome(reserves[r], now)
            ]_<<reserves, now>>
    BY ReportsStep
  <1> QED BY <1>1, TypeCorrect, PTL DEF Spec

\* Nor does what one scaled debt token stands for, unless the debt is dust, as long
\* as suppliers earn when borrowers pay: only a supply rate of zero can make an
\* update drop what the view had shown.
LEMMA ReportsNeverFall == Spec /\ []EarningsFollowDebts => ReportedIndexesNeverFall
  <1>1. TypeOK /\ TypeOK' /\ EarningsFollowDebts /\ [Next]_vars =>
            [\A r \in Reserve :
                /\ NormalizedIncome(reserves'[r], now') >= NormalizedIncome(reserves[r], now)
                /\ debtSupply[r] > 0 /\ ~LoansAreDust(r) =>
                     NormalizedDebt(reserves'[r], now') >= NormalizedDebt(reserves[r], now)
            ]_<<reserves, now>>
    BY ReportsStep
  <1> QED BY <1>1, TypeCorrect, PTL DEF Spec, ReportedIndexesNeverFall

-----------------------------------------------------------------------------
(***************************************************************************)
(* The freeze.                                                             *)
(***************************************************************************)

\* A pToken transfer moves scaled balances about and creates none.
LEMMA MovedKeepsSum ==
    ASSUME TypeOK, NEW r \in Reserve, NEW from \in User, NEW to \in User,
           NEW scaled \in Nat, scaled <= pBalances[r][from],
           NEW S, User \subseteq S, S \subseteq Holder
    PROVE  SumFunctionOnSet(Moved(r, from, scaled, to)[r], S)
               = SumFunctionOnSet(pBalances[r], S)
  <1> DEFINE held == pBalances[r]
             sent == [held EXCEPT ![from] = @ - scaled]
             got == [sent EXCEPT ![to] = @ + scaled]
  <1>1. held \in [Holder -> Nat] /\ from \in Holder /\ to \in Holder /\ scaled <= held[from]
    BY DEF TypeOK, Holder
  <1>2. Moved(r, from, scaled, to)[r] = got
    BY DEF Moved, TypeOK
  <1>3. S \subseteq Holder /\ from \in S /\ to \in S /\ IsFiniteSet(S)
    BY FiniteHolders, FS_Subset
  <1> HIDE DEF held
  <1>4. /\ sent \in [Holder -> Nat] /\ sent[from] = held[from] - scaled
        /\ \A h \in Holder \ {from} : held[h] = sent[h]
    BY <1>1
  <1> HIDE DEF sent
  <1>5. /\ got \in [Holder -> Nat] /\ got[to] = sent[to] + scaled
        /\ \A h \in Holder \ {to} : sent[h] = got[h]
    BY <1>1, <1>4
  <1> HIDE DEF got
  <1>6. SumFunctionOnSet(sent, S) - SumFunctionOnSet(held, S) = sent[from] - held[from]
    BY <1>1, <1>3, <1>4, SumOneChanged
  <1>7. SumFunctionOnSet(got, S) - SumFunctionOnSet(sent, S) = got[to] - sent[to]
    BY <1>3, <1>4, <1>5, SumOneChanged
  <1>8. /\ SumFunctionOnSet(held, S) \in Nat /\ SumFunctionOnSet(sent, S) \in Nat
        /\ SumFunctionOnSet(got, S) \in Nat
    BY <1>1, <1>3, <1>4, <1>5, SumType
  <1>9. sent[from] - held[from] = 0 - scaled /\ got[to] - sent[to] = scaled
    BY <1>1, <1>3, <1>4, <1>5
  <1> DEFINE x == SumFunctionOnSet(held, S)
             y == SumFunctionOnSet(sent, S)
             z == SumFunctionOnSet(got, S)
  <1>10. x \in Nat /\ y \in Nat /\ z \in Nat /\ y - x = 0 - scaled /\ z - y = scaled
    BY <1>6, <1>7, <1>8, <1>9
  <1> HIDE DEF x, y, z
  <1>11. z = x
    BY <1>10
  <1> QED BY <1>2, <1>11 DEF x, z, held

LEMMA FrozenStep ==
    ASSUME TypeOK, TypeOK', [Next]_vars, NEW s \in frozen
    PROVE  /\ SumFunctionOnSet(pBalances'[s], User) <= SumFunctionOnSet(pBalances[s], User)
           /\ debtSupply'[s] <= debtSupply[s]
  <1>1. /\ s \in Reserve
        /\ pBalances[s] \in [Holder -> Nat] /\ pBalances'[s] \in [Holder -> Nat]
        /\ debtSupply[s] \in Nat
    BY CounterInputAssumption DEF TypeOK
  <1>2. \A u \in User : pBalances[s][u] \in Nat /\ pBalances'[s][u] \in Nat /\ u \in Holder
    BY <1>1 DEF Holder
  <1>3. /\ SumFunctionOnSet(pBalances[s], User) \in Nat
        /\ SumFunctionOnSet(pBalances'[s], User) \in Nat
    BY <1>2, FiniteHolders, SumType
  <1>4. ASSUME \A u \in User : pBalances'[s][u] = pBalances[s][u]
        PROVE  SumFunctionOnSet(pBalances'[s], User) <= SumFunctionOnSet(pBalances[s], User)
    <2>1. SumFunctionOnSet(pBalances'[s], User) = SumFunctionOnSet(pBalances[s], User)
      BY <1>4, FiniteHolders, SumSame
    <2> QED BY <1>3, <2>1
  <1>5. ASSUME pBalances'[s] = pBalances[s], debtSupply'[s] = debtSupply[s]
        PROVE  /\ SumFunctionOnSet(pBalances'[s], User) <= SumFunctionOnSet(pBalances[s], User)
               /\ debtSupply'[s] <= debtSupply[s]
    <2>1. debtSupply'[s] <= debtSupply[s]
      BY <1>1, <1>5
    <2> QED BY <1>4, <1>5, <2>1
  <1>6. CASE UserCall
    <2>1. PICK user \in User, other \in User, r \in Reserve, amount \in Amounts :
              \/ Deposit(user, r, amount, other)
              \/ Withdraw(user, r, amount, other)
              \/ \E crtenable \in BOOLEAN : Borrow(user, r, amount, other, crtenable)
              \/ Repay(user, r, amount, other)
              \/ PTransfer(user, r, amount, other)
      BY <1>6 DEF UserCall
    <2>2. amount \in Nat
      BY CounterInputAssumption
    <2>3. CASE Deposit(user, r, amount, other)
      <3>1. r \notin frozen /\ debtSupply' = debtSupply
            /\ \E row : pBalances' = [pBalances EXCEPT ![r] = row]
        BY <2>3 DEF Deposit, ValidateDeposit
      <3>2. pBalances'[s] = pBalances[s]
        BY <1>1, <3>1 DEF TypeOK
      <3> QED BY <1>5, <3>1, <3>2
    <2>4. CASE Withdraw(user, r, amount, other)
      <3> DEFINE paid == IF amount = MaxAmount THEN BalanceOf(r, user) ELSE amount
                 burned == RayDiv(paid, Accrued(r).liquidityIndex)
      <3>1. /\ AccrualDefined(r)
            /\ pBalances[r][user] >= burned
            /\ pBalances' = [pBalances EXCEPT ![r] =
                   [BalancesAfterAccrual(r) EXCEPT ![user] = @ - burned]]
            /\ debtSupply' = debtSupply
        BY <2>4 DEF Withdraw
      <3>2. paid \in Nat
        BY <2>2, ViewType DEF Holder
      <3> HIDE DEF paid
      <3>3. burned \in Nat
        BY <3>1, <3>2, ScaledAmount
      <3> HIDE DEF burned
      <3>4. /\ BalancesAfterAccrual(r) \in [Holder -> Nat]
            /\ \A u \in User : BalancesAfterAccrual(r)[u] = pBalances[r][u]
        BY <3>1, ShareMinted
      <3>5. CASE s # r
        <4>1. pBalances'[s] = pBalances[s]
          BY <1>1, <3>1, <3>5 DEF TypeOK
        <4> QED BY <1>5, <3>1, <4>1
      <3>6. CASE s = r
        <4>1. /\ \A u \in User \ {user} : pBalances[s][u] = pBalances'[s][u]
              /\ pBalances'[s][user] - pBalances[s][user] <= 0
          <5>1. pBalances'[s] = [BalancesAfterAccrual(r) EXCEPT ![user] = @ - burned]
            BY <1>1, <3>1, <3>6 DEF TypeOK
          <5> QED BY <1>2, <3>1, <3>3, <3>4, <3>6, <5>1
        <4>2. SumFunctionOnSet(pBalances'[s], User) - SumFunctionOnSet(pBalances[s], User)
                  = pBalances'[s][user] - pBalances[s][user]
          BY <1>2, <4>1, FiniteHolders, SumOneChanged
        <4>3. SumFunctionOnSet(pBalances'[s], User) <= SumFunctionOnSet(pBalances[s], User)
          BY <1>2, <1>3, <4>1, <4>2
        <4> QED BY <1>1, <3>1, <4>3
      <3> QED BY <3>5, <3>6
    <2>5. CASE \E crtenable \in BOOLEAN : Borrow(user, r, amount, other, crtenable)
      <3>1. r \notin frozen
        BY <2>5 DEF Borrow, ValidateBorrow
      <3>2. /\ \E row : pBalances' = [pBalances EXCEPT ![r] = row]
            /\ \E minted : debtSupply' = [debtSupply EXCEPT ![r] = minted]
        BY <2>5 DEF Borrow, MintDebt
      <3>3. pBalances'[s] = pBalances[s] /\ debtSupply'[s] = debtSupply[s]
        BY <1>1, <3>1, <3>2 DEF TypeOK
      <3> QED BY <1>5, <3>3
    <2>6. CASE Repay(user, r, amount, other)
      <3> DEFINE owed == DebtOf(r, other)
                 paid == IF amount < owed THEN amount ELSE owed
                 burned == DebtBurned(r, paid)
      <3>1. /\ AccrualDefined(r)
            /\ debtSupply' = [debtSupply EXCEPT ![r] = @ - burned]
            /\ pBalances' = [pBalances EXCEPT ![r] = BalancesAfterAccrual(r)]
        BY <2>6 DEF Repay, BurnDebt
      <3>2. owed \in Nat
        BY ViewType
      <3> HIDE DEF owed
      <3>3. paid \in Nat
        BY <2>2, <3>2
      <3> HIDE DEF paid
      <3>4. burned \in Nat
        BY <3>1, <3>3, ScaledAmount DEF DebtBurned
      <3> HIDE DEF burned
      <3>5. \A u \in User : BalancesAfterAccrual(r)[u] = pBalances[r][u]
        BY <3>1, ShareMinted
      <3>6. \A u \in User : pBalances'[s][u] = pBalances[s][u]
        BY <1>1, <3>1, <3>5 DEF TypeOK
      <3>7. debtSupply'[s] <= debtSupply[s]
        BY <1>1, <3>1, <3>4 DEF TypeOK
      <3> QED BY <1>4, <3>6, <3>7
    <2>7. CASE PTransfer(user, r, amount, other)
      <3> DEFINE scaled == RayDiv(amount, NormalizedIncome(reserves[r], now))
      <3>1. /\ pBalances[r][user] >= scaled
            /\ pBalances' = Moved(r, user, scaled, other)
            /\ debtSupply' = debtSupply
        BY <2>7 DEF PTransfer
      <3>2. scaled \in Nat
        BY <2>2, ViewType, RayDivBounds
      <3> HIDE DEF scaled
      <3>3. CASE s = r
        <4>1. pBalances[r][user] \in Nat
          BY <1>2, <3>3
        <4>2. SumFunctionOnSet(Moved(r, user, scaled, other)[r], User)
                  = SumFunctionOnSet(pBalances[r], User)
          <5>1. User \subseteq Holder
            BY DEF Holder
          <5> QED BY <3>1, <3>2, <4>1, <5>1, MovedKeepsSum
        <4>3. SumFunctionOnSet(pBalances'[s], User) = SumFunctionOnSet(pBalances[s], User)
          BY <3>1, <3>3, <4>2, Zenon
        <4>4. debtSupply'[s] <= debtSupply[s]
          BY <1>1, <3>1
        <4> QED BY <1>3, <4>3, <4>4
      <3>4. CASE s # r
        <4>1. pBalances'[s] = pBalances[s]
          BY <1>1, <3>1, <3>4 DEF Moved, TypeOK
        <4> QED BY <1>5, <3>1, <4>1
      <3> QED BY <3>3, <3>4
    <2> QED BY <2>1, <2>3, <2>4, <2>5, <2>6, <2>7
  <1>7. CASE UserSetting
    BY <1>5, <1>7 DEF UserSetting, SetUserUseReserveAsCollateral, ApproveDelegation, marketVars
  <1>8. CASE Environment
    BY <1>5, <1>8 DEF Environment, SetReserveFreeze, SetPause, SetPrice, Tick, marketVars
  <1>9. CASE UNCHANGED vars
    BY <1>5, <1>9 DEF vars
  <1> QED BY <1>6, <1>7, <1>8, <1>9 DEF Next

\* A frozen reserve only winds down: whoever calls, and however interest is
\* minted, users together hold no more of its pTokens and owe no more to it.
THEOREM FrozenReservesShrink == Spec => FrozenOnlyShrinks
  <1>1. TypeOK /\ TypeOK' /\ [Next]_vars =>
            [\A r \in frozen :
                /\ ScaledSupply(r, User)' <= ScaledSupply(r, User)
                /\ debtSupply'[r] <= debtSupply[r]]_vars
    BY FrozenStep DEF ScaledSupply
  <1> QED BY <1>1, TypeCorrect, PTL DEF Spec, FrozenOnlyShrinks

-----------------------------------------------------------------------------
(***************************************************************************)
(* The balance sheet before any interest.                                  *)
(***************************************************************************)

\* An index is at least a ray and at most what its view reports.
LEMMA NothingAccruedYet ==
    ASSUME TypeOK, NoInterestYet, NEW r \in Reserve
    PROVE  /\ reserves[r].variableBorrowIndex = RAY
           /\ Accrued(r).liquidityIndex = RAY
           /\ Accrued(r).variableBorrowIndex = RAY
  <1> DEFINE reserve == reserves[r]
             elapsed == now - reserve.lastUpdateTimestamp
             debtIndex == reserve.variableBorrowIndex
             compounded == CompoundedInterest(reserve.currentVariableBorrowRate, elapsed)
  <1>1. /\ reserve \in ReserveData /\ now \in Nat /\ reserve.lastUpdateTimestamp <= now
        /\ debtSupply[r] \in Nat
    BY ReserveType DEF TypeOK
  <1>2. NormalizedIncome(reserve, now) = RAY /\ NormalizedDebt(reserve, now) = RAY
    BY DEF NoInterestYet
  <1>3. /\ RAY \in Nat /\ debtIndex \in Nat /\ RAY <= debtIndex
        /\ reserve.currentVariableBorrowRate \in Nat /\ elapsed \in Nat
    BY <1>1, RAYAssumption, StrategyAssumption, CounterInputAssumption DEF ReserveData
  <1>4. compounded \in Nat /\ RAY <= compounded
    BY <1>3, CompoundedAtLeastRay
  <1>5. debtIndex <= NormalizedDebt(reserve, now)
    <2>1. NormalizedDebt(reserve, now) =
              IF reserve.lastUpdateTimestamp = now THEN debtIndex
              ELSE RayMul(compounded, debtIndex)
      BY DEF NormalizedDebt
    <2> HIDE DEF compounded, debtIndex
    <2>2. debtIndex <= RayMul(compounded, debtIndex)
      BY <1>3, <1>4, RayMulGrows
    <2> QED BY <1>3, <2>1, <2>2
  <1>6. debtIndex = RAY
    BY <1>2, <1>3, <1>5
  <1>7. Accrued(r).liquidityIndex = RAY
    BY <1>1, <1>2, UpdateStoresViews DEF Accrued
  <1>8. Accrued(r).variableBorrowIndex = RAY
    <2>1. CASE reserve.lastUpdateTimestamp = now
      <3>1. compounded = RAY
        BY <2>1, <1>1 DEF CompoundedInterest, ReserveData
      <3> QED BY <1>1, <1>2, <1>3, <1>6, <3>1, RayMulOne DEF Accrued, UpdateIndexes, ReserveData
    <2>2. CASE reserve.lastUpdateTimestamp # now
      <3>1. RayMul(compounded, debtIndex) = RAY
        BY <1>2, <2>2 DEF NormalizedDebt
      <3> QED BY <1>1, <1>6, <3>1 DEF Accrued, UpdateIndexes, ReserveData
    <2> QED BY <2>1, <2>2
  <1> QED BY <1>6, <1>7, <1>8

\* So there is no share to mint.
LEMMA NoShareYet ==
    ASSUME TypeOK, NoInterestYet, NEW r \in Reserve
    PROVE  BalancesAfterAccrual(r) = pBalances[r]
  <1> DEFINE owed == RayMul(debtSupply[r], RAY)
  <1>1. InterestAccrued(r) = owed - owed
    BY NothingAccruedYet DEF InterestAccrued, DebtAccrued
  <1>2. owed \in Nat
    BY RayMulUnit DEF TypeOK
  <1> HIDE DEF owed
  <1>3. InterestAccrued(r) = 0
    BY <1>1, <1>2
  <1>4. ReserveFactor[r] \in Nat
    <2>1. ReserveFactor \in [Reserve -> 0..PERCENTAGE_FACTOR]
      BY CounterAssumption
    <2>2. ReserveFactor[r] \in 0..PERCENTAGE_FACTOR
      BY <2>1
    <2>3. \A bps \in 0..PERCENTAGE_FACTOR : bps \in Nat
      BY DEF PERCENTAGE_FACTOR
    <2> QED BY <2>2, <2>3
  <1>5. PercentMul(0, ReserveFactor[r]) = 0
    <2>1. 0 * ReserveFactor[r] = 0
      BY <1>4
    <2>2. 0 \div PERCENTAGE_FACTOR = 0
      BY DEF PERCENTAGE_FACTOR
    <2> QED BY <2>1, <2>2 DEF PercentMul
  <1>6. RayDiv(0, Accrued(r).liquidityIndex) = 0
    BY NothingAccruedYet, RayDivUnit
  <1>7. BalancesAfterAccrual(r) =
            [pBalances[r] EXCEPT ![Treasury] = @ + 0, ![CrtVault] = @ + 0]
    BY <1>3, <1>5, <1>6 DEF BalancesAfterAccrual
  <1>8. pBalances[r] \in [Holder -> Nat] /\ Treasury \in Holder /\ CrtVault \in Holder
    BY DEF TypeOK, Holder
  <1> QED BY <1>7, <1>8

\* Scaled, the two sides of the balance sheet.
SheetBalances ==
    \A r \in Reserve : SumFunctionOnSet(pBalances[r], Holder) = cash[r] + debtSupply[r]

LEMMA SheetIsBalance ==
    ASSUME TypeOK, NoInterestYet
    PROVE  SheetBalances => ReservesBalance
  <1> SUFFICES ASSUME NEW r \in Reserve, SheetBalances
               PROVE  Claims(r, Holder) = Assets(r)
    BY DEF ReservesBalance
  <1>1. /\ NormalizedIncome(reserves[r], now) = RAY
        /\ NormalizedDebt(reserves[r], now) = RAY
    BY DEF NoInterestYet
  <1>2. cash[r] \in Nat /\ debtSupply[r] \in Nat
    BY DEF TypeOK
  <1>3. SumFunctionOnSet(pBalances[r], Holder) = cash[r] + debtSupply[r]
    BY DEF SheetBalances
  <1>4. Claims(r, Holder) = cash[r] + debtSupply[r]
    BY <1>1, <1>2, <1>3, RayMulUnit DEF Claims, ScaledSupply
  <1>5. Assets(r) = cash[r] + debtSupply[r]
    BY <1>1, <1>2, RayMulUnit DEF Assets
  <1> QED BY <1>4, <1>5

\* Each call enters the same amount on both sides, or on two lines of one.
LEMMA SheetStep ==
    ASSUME TypeOK, TypeOK', NoInterestYet, SheetBalances, [Next]_vars
    PROVE  SheetBalances'
  <1> SUFFICES ASSUME NEW s \in Reserve
               PROVE  SumFunctionOnSet(pBalances'[s], Holder) = cash'[s] + debtSupply'[s]
    BY DEF SheetBalances
  <1>1. SumFunctionOnSet(pBalances[s], Holder) = cash[s] + debtSupply[s]
    BY DEF SheetBalances
  <1>2. /\ pBalances[s] \in [Holder -> Nat] /\ pBalances'[s] \in [Holder -> Nat]
        /\ cash[s] \in Nat /\ cash'[s] \in Nat
        /\ debtSupply[s] \in Nat /\ debtSupply'[s] \in Nat
    BY DEF TypeOK
  <1>3. \A h \in Holder : pBalances[s][h] \in Nat /\ pBalances'[s][h] \in Nat
    BY <1>2
  <1>4. /\ SumFunctionOnSet(pBalances[s], Holder) \in Nat
        /\ SumFunctionOnSet(pBalances'[s], Holder) \in Nat
    BY <1>3, FiniteHolders, SumType
  <1>5. ASSUME pBalances'[s] = pBalances[s],
               cash'[s] + debtSupply'[s] = cash[s] + debtSupply[s]
        PROVE  SumFunctionOnSet(pBalances'[s], Holder) = cash'[s] + debtSupply'[s]
    BY <1>1, <1>5
  <1>6. ASSUME UNCHANGED <<pBalances, cash, debtSupply>>
        PROVE  SumFunctionOnSet(pBalances'[s], Holder) = cash'[s] + debtSupply'[s]
    BY <1>5, <1>6
  <1>7. ASSUME NEW h \in Holder,
               \A g \in Holder \ {h} : pBalances[s][g] = pBalances'[s][g],
               pBalances'[s][h] - pBalances[s][h] = cash'[s] - cash[s],
               debtSupply'[s] = debtSupply[s]
        PROVE  SumFunctionOnSet(pBalances'[s], Holder) = cash'[s] + debtSupply'[s]
    <2> DEFINE before == SumFunctionOnSet(pBalances[s], Holder)
               after == SumFunctionOnSet(pBalances'[s], Holder)
    <2>1. after - before = pBalances'[s][h] - pBalances[s][h]
      BY <1>3, <1>7, FiniteHolders, SumOneChanged
    <2>2. before \in Nat /\ after \in Nat /\ before = cash[s] + debtSupply[s]
      BY <1>1, <1>4
    <2> SUFFICES after = cash'[s] + debtSupply'[s]
      OBVIOUS
    <2> HIDE DEF before, after
    <2> QED BY <1>2, <1>3, <1>7, <2>1, <2>2
  <1>8. \A u \in User : u \in Holder
    BY DEF Holder
  <1>9. CASE UserCall
    <2>1. PICK user \in User, other \in User, r \in Reserve, amount \in Amounts :
              \/ Deposit(user, r, amount, other)
              \/ Withdraw(user, r, amount, other)
              \/ \E crtenable \in BOOLEAN : Borrow(user, r, amount, other, crtenable)
              \/ Repay(user, r, amount, other)
              \/ PTransfer(user, r, amount, other)
      BY <1>9 DEF UserCall
    <2>2. amount \in Nat
      BY CounterInputAssumption
    <2>3. /\ Accrued(r).liquidityIndex = RAY /\ Accrued(r).variableBorrowIndex = RAY
          /\ BalancesAfterAccrual(r) = pBalances[r]
      BY NothingAccruedYet, NoShareYet
    <2>4. CASE Deposit(user, r, amount, other)
      <3>1. RayDiv(amount, Accrued(r).liquidityIndex) = amount
        BY <2>2, <2>3, RayDivUnit
      <3>2. /\ pBalances' = [pBalances EXCEPT ![r] = [pBalances[r] EXCEPT ![other] = @ + amount]]
            /\ cash' = [cash EXCEPT ![r] = @ + amount]
            /\ debtSupply' = debtSupply
        BY <2>3, <2>4, <3>1 DEF Deposit
      <3>3. CASE s = r
        <4>1. /\ \A g \in Holder \ {other} : pBalances[s][g] = pBalances'[s][g]
              /\ pBalances'[s][other] - pBalances[s][other] = cash'[s] - cash[s]
          BY <1>2, <1>3, <1>8, <2>2, <3>2, <3>3 DEF TypeOK
        <4> QED BY <1>7, <1>8, <3>2, <4>1
      <3>4. CASE s # r
        BY <1>5, <3>2, <3>4 DEF TypeOK
      <3> QED BY <3>3, <3>4
    <2>5. CASE Withdraw(user, r, amount, other)
      <3> DEFINE paid == IF amount = MaxAmount THEN BalanceOf(r, user) ELSE amount
                 burned == RayDiv(paid, Accrued(r).liquidityIndex)
      <3>1. /\ pBalances[r][user] >= burned
            /\ pBalances' = [pBalances EXCEPT ![r] =
                   [BalancesAfterAccrual(r) EXCEPT ![user] = @ - burned]]
            /\ cash' = [cash EXCEPT ![r] = @ - paid]
            /\ debtSupply' = debtSupply
        BY <2>5 DEF Withdraw
      <3>2. paid \in Nat
        BY <2>2, ViewType DEF Holder
      <3> HIDE DEF paid
      <3>3. burned = paid
        BY <2>3, <3>2, RayDivUnit
      <3> HIDE DEF burned
      <3>4. CASE s = r
        <4>1. pBalances'[s] = [pBalances[s] EXCEPT ![user] = @ - paid]
          BY <1>2, <2>3, <3>1, <3>3, <3>4 DEF TypeOK
        <4>2. cash'[s] = cash[s] - paid
          BY <3>1, <3>4 DEF TypeOK
        <4>3. /\ \A g \in Holder \ {user} : pBalances[s][g] = pBalances'[s][g]
              /\ pBalances'[s][user] - pBalances[s][user] = cash'[s] - cash[s]
          BY <1>2, <1>3, <1>8, <3>2, <4>1, <4>2
        <4> QED BY <1>7, <1>8, <3>1, <4>3
      <3>5. CASE s # r
        BY <1>5, <3>1, <3>5 DEF TypeOK
      <3> QED BY <3>4, <3>5
    <2>6. CASE \E crtenable \in BOOLEAN : Borrow(user, r, amount, other, crtenable)
      <3>1. RayDiv(amount, Accrued(r).variableBorrowIndex) = amount
        BY <2>2, <2>3, RayDivUnit
      <3>2. /\ pBalances' = [pBalances EXCEPT ![r] = pBalances[r]]
            /\ cash' = [cash EXCEPT ![r] = @ - amount]
            /\ debtSupply' = [debtSupply EXCEPT ![r] = @ + amount]
        BY <2>3, <2>6, <3>1 DEF Borrow, MintDebt
      <3>3. pBalances'[s] = pBalances[s]
        BY <3>2 DEF TypeOK
      <3>4. cash'[s] + debtSupply'[s] = cash[s] + debtSupply[s]
        BY <1>2, <2>2, <3>2 DEF TypeOK
      <3> QED BY <1>5, <3>3, <3>4
    <2>7. CASE Repay(user, r, amount, other)
      <3> DEFINE owed == DebtOf(r, other)
                 paid == IF amount < owed THEN amount ELSE owed
                 burned == DebtBurned(r, paid)
      <3>1. /\ pBalances' = [pBalances EXCEPT ![r] = BalancesAfterAccrual(r)]
            /\ cash' = [cash EXCEPT ![r] = @ + paid]
            /\ debtSupply' = [debtSupply EXCEPT ![r] = @ - burned]
        BY <2>7 DEF Repay, BurnDebt
      <3>2. owed \in Nat
        BY ViewType
      <3> HIDE DEF owed
      <3>3. paid \in Nat
        BY <2>2, <3>2
      <3> HIDE DEF paid
      <3>4. burned = paid
        BY <2>3, <3>3, RayDivUnit DEF DebtBurned
      <3> HIDE DEF burned
      <3>5. pBalances'[s] = pBalances[s]
        BY <2>3, <3>1 DEF TypeOK
      <3>6. cash'[s] + debtSupply'[s] = cash[s] + debtSupply[s]
        BY <1>2, <3>1, <3>3, <3>4 DEF TypeOK
      <3> QED BY <1>5, <3>5, <3>6
    <2>8. CASE PTransfer(user, r, amount, other)
      <3> DEFINE scaled == RayDiv(amount, NormalizedIncome(reserves[r], now))
      <3>1. /\ pBalances[r][user] >= scaled
            /\ pBalances' = Moved(r, user, scaled, other)
            /\ UNCHANGED <<cash, debtSupply>>
        BY <2>8 DEF PTransfer
      <3>2. scaled \in Nat
        BY <2>2, ViewType, RayDivBounds
      <3> HIDE DEF scaled
      <3>3. CASE s = r
        <4>1. pBalances[r][user] \in Nat
          BY <1>3, <1>8, <3>3
        <4>2. SumFunctionOnSet(Moved(r, user, scaled, other)[r], Holder)
                  = SumFunctionOnSet(pBalances[r], Holder)
          <5>1. User \subseteq Holder
            BY DEF Holder
          <5> QED BY <3>1, <3>2, <4>1, <5>1, MovedKeepsSum
        <4>3. SumFunctionOnSet(pBalances'[s], Holder) = SumFunctionOnSet(pBalances[s], Holder)
          BY <3>1, <3>3, <4>2, Zenon
        <4> QED BY <1>1, <3>1, <4>3
      <3>4. CASE s # r
        <4>1. pBalances'[s] = pBalances[s]
          BY <3>1, <3>4 DEF Moved, TypeOK
        <4> QED BY <1>5, <3>1, <4>1
      <3> QED BY <3>3, <3>4
    <2> QED BY <2>1, <2>4, <2>5, <2>6, <2>7, <2>8
  <1>10. CASE UserSetting
    BY <1>6, <1>10 DEF UserSetting, SetUserUseReserveAsCollateral, ApproveDelegation, marketVars
  <1>11. CASE Environment
    BY <1>6, <1>11 DEF Environment, SetReserveFreeze, SetPause, SetPrice, Tick, marketVars
  <1>12. CASE UNCHANGED vars
    BY <1>6, <1>12 DEF vars
  <1> QED BY <1>9, <1>10, <1>11, <1>12 DEF Next

\* As long as no interest has accrued, pTokens stand for exactly what a reserve
\* holds and is owed: no sequence of calls mints or burns on one side only.
THEOREM BalancesBeforeInterest == Spec /\ []NoInterestYet => []ReservesBalance
  <1>1. Init => SheetBalances
    <2> SUFFICES ASSUME Init, NEW r \in Reserve
                 PROVE  SumFunctionOnSet(pBalances[r], Holder) = cash[r] + debtSupply[r]
      BY DEF SheetBalances
    <2>1. /\ \A h \in Holder : pBalances[r][h] = 0
          /\ cash[r] = 0 /\ debtSupply[r] = 0
      BY DEF Init
    <2>2. SumFunctionOnSet(pBalances[r], Holder) = 0
      BY <2>1, FiniteHolders, SumOfZeros
    <2> QED BY <2>1, <2>2
  <1>2. TypeOK /\ TypeOK' /\ NoInterestYet /\ SheetBalances /\ [Next]_vars => SheetBalances'
    BY SheetStep
  <1>3. TypeOK /\ NoInterestYet /\ SheetBalances => ReservesBalance
    BY SheetIsBalance
  <1> QED BY <1>1, <1>2, <1>3, TypeCorrect, PTL DEF Spec

\* What never changes in a market whose strategies ask for no interest.
ReservesAtRest ==
    \A r \in Reserve :
        /\ reserves[r].liquidityIndex = RAY /\ reserves[r].variableBorrowIndex = RAY
        /\ reserves[r].currentLiquidityRate = 0
        /\ reserves[r].currentVariableBorrowRate = 0

LEMMA NoRate ==
    ASSUME NoInterest, NEW utilization \in 0..RAY
    PROVE  VariableBorrowRate(utilization) = 0
  <1> DEFINE optimal == OPTIMAL_UTILIZATION_RATE
             excess == RayDiv(utilization - optimal, RAY - optimal)
  <1>1. RAY \in Nat \ {0} /\ optimal \in Nat /\ 0 < optimal /\ optimal < RAY
    BY RAYAssumption, StrategyAssumption
  <1>2. utilization \in Nat
    BY <1>1
  <1>3. RayMul(utilization, 0) = 0
    BY <1>2, RayMulZero
  <1>4. RayDiv(0, optimal) = 0
    <2> HIDE DEF optimal
    <2>1. 0 * RAY = 0
      BY <1>1
    <2>2. /\ optimal \div 2 \in Nat /\ 2 * (optimal \div 2) <= optimal
      BY <1>1, DivBounds
    <2>3. (optimal \div 2) \div optimal = 0
      BY <1>1, <2>2
    <2>4. 0 + optimal \div 2 = optimal \div 2
      BY <2>2
    <2> QED BY <2>1, <2>3, <2>4 DEF RayDiv
  <1>5. utilization > optimal => RayMul(0, excess) = 0
    <2> HIDE DEF optimal
    <2> SUFFICES ASSUME utilization > optimal PROVE RayMul(0, excess) = 0
      OBVIOUS
    <2>1. utilization - optimal \in Nat /\ RAY - optimal \in Nat \ {0}
      BY <1>1, <1>2
    <2>2. excess \in Nat
      BY <2>1, RayDivBounds
    <2> QED BY <2>2, RayMulZero
  <1>6. /\ BaseVariableBorrowRate = 0 /\ VariableRateSlope1 = 0 /\ VariableRateSlope2 = 0
    BY DEF NoInterest
  <1>7. VariableBorrowRate(utilization) =
            IF utilization > optimal
            THEN 0 + 0 + RayMul(0, excess)
            ELSE 0 + RayDiv(RayMul(utilization, 0), optimal)
    BY <1>6 DEF VariableBorrowRate
  <1> HIDE DEF optimal, excess
  <1> QED BY <1>3, <1>4, <1>5, <1>7

LEMMA RestIsNoInterest == TypeOK /\ ReservesAtRest => NoInterestYet
  <1> SUFFICES ASSUME TypeOK, ReservesAtRest, NEW r \in Reserve
               PROVE  /\ NormalizedIncome(reserves[r], now) = RAY
                      /\ NormalizedDebt(reserves[r], now) = RAY
    BY DEF NoInterestYet
  <1> DEFINE elapsed == now - reserves[r].lastUpdateTimestamp
  <1>1. /\ reserves[r].liquidityIndex = RAY /\ reserves[r].variableBorrowIndex = RAY
        /\ reserves[r].currentLiquidityRate = 0
        /\ reserves[r].currentVariableBorrowRate = 0
    BY DEF ReservesAtRest
  <1>2. elapsed \in Nat
    BY ReserveType, CounterInputAssumption DEF TypeOK, ReserveData
  <1> HIDE DEF elapsed
  <1>3. LinearInterest(0, elapsed) = RAY
    <2>1. 0 * elapsed = 0 /\ 0 \div SECONDS_PER_YEAR = 0
      BY <1>2, YearAssumption
    <2> QED BY <2>1, RAYAssumption DEF LinearInterest
  <1>4. CompoundedInterest(0, elapsed) = RAY
    BY <1>2, CompoundedNoRate
  <1>5. RayMul(RAY, RAY) = RAY
    BY RAYAssumption, RayMulUnit
  <1> QED BY <1>1, <1>3, <1>4, <1>5 DEF NormalizedIncome, NormalizedDebt, elapsed

LEMMA RestStep ==
    ASSUME NoInterest, TypeOK, TypeOK', ReservesAtRest, [Next]_vars
    PROVE  ReservesAtRest'
  <1> SUFFICES ASSUME NEW s \in Reserve
               PROVE  /\ reserves'[s].liquidityIndex = RAY
                      /\ reserves'[s].variableBorrowIndex = RAY
                      /\ reserves'[s].currentLiquidityRate = 0
                      /\ reserves'[s].currentVariableBorrowRate = 0
    BY DEF ReservesAtRest
  <1>1. CASE UNCHANGED reserves
    BY <1>1 DEF ReservesAtRest
  <1>2. ASSUME NEW r \in Reserve, Refreshed(r)
        PROVE  /\ reserves'[s].liquidityIndex = RAY
               /\ reserves'[s].variableBorrowIndex = RAY
               /\ reserves'[s].currentLiquidityRate = 0
               /\ reserves'[s].currentVariableBorrowRate = 0
    <2> DEFINE rated == UpdateInterestRates(Accrued(r), cash'[r], debtSupply'[r],
                                            ReserveFactor[r])
               totalDebt == RayMul(debtSupply'[r], Accrued(r).variableBorrowIndex)
               utilization == UtilizationRate(cash'[r], totalDebt)
    <2>1. /\ reserves'[r] = rated
          /\ rated.liquidityIndex = Accrued(r).liquidityIndex
          /\ rated.variableBorrowIndex = Accrued(r).variableBorrowIndex
          /\ Accrued(r) \in ReserveData
          /\ \A t \in Reserve \ {r} : reserves'[t] = reserves[t]
      BY <1>2, RefreshedSteps
    <2>2. /\ Accrued(r).liquidityIndex = RAY /\ Accrued(r).variableBorrowIndex = RAY
      BY RestIsNoInterest, NothingAccruedYet
    <2>3. RatesFit(rated)
      BY <1>2 DEF Refreshed, SetRates, SetReserve
    <2>4. cash'[r] \in Nat /\ debtSupply'[r] \in Nat
      BY DEF TypeOK
    <2>5. totalDebt \in Nat
      BY <2>2, <2>4, RayMulUnit
    <2>6. utilization \in 0..RAY
      <3> HIDE DEF totalDebt
      <3> QED BY <2>4, <2>5, UtilizationWithinRay
    <2>7. VariableBorrowRate(utilization) = 0
      <3> HIDE DEF utilization
      <3> QED BY <2>6, NoRate
    <2>8. RayMul(0, utilization) = 0
      <3>1. utilization \in Nat
        BY <2>6, RAYAssumption
      <3> HIDE DEF utilization
      <3> QED BY <3>1, RayMulZero
    <2>9. PercentMul(0, PERCENTAGE_FACTOR - ReserveFactor[r]) = 0
      <3>1. ReserveFactor \in [Reserve -> 0..PERCENTAGE_FACTOR]
        BY CounterAssumption
      <3>2. ReserveFactor[r] \in 0..PERCENTAGE_FACTOR
        BY <3>1
      <3>3. \A bps \in 0..PERCENTAGE_FACTOR : 0 * (PERCENTAGE_FACTOR - bps) = 0
        BY DEF PERCENTAGE_FACTOR
      <3>4. 0 \div PERCENTAGE_FACTOR = 0
        BY DEF PERCENTAGE_FACTOR
      <3> QED BY <3>2, <3>3, <3>4 DEF PercentMul
    <2>10. /\ rated.currentVariableBorrowRate = VariableBorrowRate(utilization)
           /\ rated.currentLiquidityRate =
                 PercentMul(RayMul(OverallBorrowRate(totalDebt, VariableBorrowRate(utilization)),
                                   utilization),
                            PERCENTAGE_FACTOR - ReserveFactor[r])
      BY <2>1, <2>3, NewRates
    <2> HIDE DEF rated, totalDebt, utilization
    <2>11. OverallBorrowRate(totalDebt, 0) = 0
      BY <2>5, OverallRateZero
    <2>12. rated.currentVariableBorrowRate = 0 /\ rated.currentLiquidityRate = 0
      BY <2>7, <2>8, <2>9, <2>10, <2>11
    <2>13. CASE s = r
      BY <2>1, <2>2, <2>12, <2>13
    <2>14. CASE s # r
      BY <2>1, <2>14 DEF ReservesAtRest
    <2> QED BY <2>13, <2>14
  <1> QED BY <1>1, <1>2, EveryStep

\* A market whose strategies ask for no interest balances for ever.
THEOREM BalancesWithoutInterest ==
    ASSUME NoInterest
    PROVE  Spec => []ReservesBalance
  <1>1. Init => ReservesAtRest
    BY DEF Init, InitialReserve, ReservesAtRest
  <1>2. TypeOK /\ TypeOK' /\ ReservesAtRest /\ [Next]_vars => ReservesAtRest'
    BY RestStep
  <1>3. TypeOK /\ ReservesAtRest => NoInterestYet
    BY RestIsNoInterest
  <1> QED BY <1>1, <1>2, <1>3, TypeCorrect, BalancesBeforeInterest, PTL DEF Spec

-----------------------------------------------------------------------------
(***************************************************************************)
(* Who comes to owe.                                                       *)
(***************************************************************************)

\* The movements of a loan.
LEMMA LoanSteps ==
    ASSUME TypeOK, NEW user \in User, NEW r \in Reserve, NEW amount \in Nat,
           NEW onBehalfOf \in User, NEW crtenable \in BOOLEAN,
           Borrow(user, r, amount, onBehalfOf, crtenable)
    PROVE  LET minted == RayDiv(amount, reserves'[r].variableBorrowIndex)
           IN  /\ minted \in Nat
               /\ debts' = [debts EXCEPT ![r][onBehalfOf] = @ + minted]
               /\ wallets' = [wallets EXCEPT ![AssetOf(r)][user] = @ + amount]
               /\ UseBorrowAllowance(user, r, amount, onBehalfOf)
  <1> DEFINE minted == RayDiv(amount, Accrued(r).variableBorrowIndex)
  <1>1. /\ AccrualDefined(r)
        /\ now' = now
        /\ SetRates(r, cash[r] - amount, debtSupply[r] + minted)
        /\ debts' = [debts EXCEPT ![r][onBehalfOf] = @ + minted]
        /\ wallets' = [wallets EXCEPT ![AssetOf(r)][user] = @ + amount]
        /\ UseBorrowAllowance(user, r, amount, onBehalfOf)
    BY DEF Borrow, MintDebt
  <1>2. reserves'[r].variableBorrowIndex = Accrued(r).variableBorrowIndex
    BY <1>1, StoredReserve
  <1>3. minted \in Nat
    BY <1>1, ScaledAmount
  <1> QED BY <1>1, <1>2, <1>3

LEMMA OwedStep ==
    ASSUME TypeOK, [Next]_vars, NEW s \in Reserve, NEW u \in User,
           debts'[s][u] - debts[s][u] > 0
    PROVE  LET owed == debts'[s][u] - debts[s][u]
               Received(v) == wallets'[AssetOf(s)][v] - wallets[AssetOf(s)][v]
               OwedFor(amount) == RayDiv(amount, reserves'[s].variableBorrowIndex)
           IN  \/ owed = OwedFor(Received(u))
               \/ \E v \in User \ {u} :
                     /\ owed = OwedFor(Received(v))
                     /\ borrowAllowances[s][u][v] - borrowAllowances'[s][u][v] = Received(v)
  <1> DEFINE owed == debts'[s][u] - debts[s][u]
             Received(v) == wallets'[AssetOf(s)][v] - wallets[AssetOf(s)][v]
  <1>1. debts[s][u] \in Nat
    BY DEF TypeOK
  <1>2. \A amount \in Amounts : amount \in Nat
    BY CounterInputAssumption
  <1>3. CASE \E user, onBehalfOf \in User, r \in Reserve, amount \in Amounts :
                \E crtenable \in BOOLEAN : Borrow(user, r, amount, onBehalfOf, crtenable)
    <2>1. PICK user \in User, onBehalfOf \in User, r \in Reserve, amount \in Amounts,
               crtenable \in BOOLEAN : Borrow(user, r, amount, onBehalfOf, crtenable)
      BY <1>3
    <2> DEFINE minted == RayDiv(amount, reserves'[r].variableBorrowIndex)
    <2>2. /\ minted \in Nat
          /\ debts' = [debts EXCEPT ![r][onBehalfOf] = @ + minted]
          /\ wallets' = [wallets EXCEPT ![AssetOf(r)][user] = @ + amount]
          /\ UseBorrowAllowance(user, r, amount, onBehalfOf)
      BY <1>2, <2>1, LoanSteps
    <2> HIDE DEF minted
    <2>3. s = r /\ u = onBehalfOf
      <3> SUFFICES ASSUME ~(s = r /\ u = onBehalfOf) PROVE FALSE
        OBVIOUS
      <3>1. debts'[s][u] = debts[s][u]
        BY <2>2 DEF TypeOK
      <3> QED BY <1>1, <3>1
    <2>4. owed = minted
      BY <1>1, <2>2, <2>3 DEF TypeOK
    <2>5. Received(user) = amount
      <3>1. AssetOf(s) \in Asset /\ amount \in Nat
        BY <1>2 DEF Asset
      <3>2. wallets[AssetOf(s)] \in [User -> Nat] /\ wallets \in [Asset -> [User -> Nat]]
        BY <3>1 DEF TypeOK
      <3>3. wallets'[AssetOf(s)] = [wallets[AssetOf(s)] EXCEPT ![user] = @ + amount]
        BY <2>2, <2>3, <3>1, <3>2
      <3> HIDE DEF Asset
      <3> QED BY <3>1, <3>2, <3>3
    <2>6. user # u => borrowAllowances[s][u][user] - borrowAllowances'[s][u][user] = amount
      <3> SUFFICES ASSUME user # u
                   PROVE  borrowAllowances[s][u][user] - borrowAllowances'[s][u][user] = amount
        OBVIOUS
      <3>1. borrowAllowances' = [borrowAllowances EXCEPT ![s][u][user] = @ - amount]
        BY <2>2, <2>3 DEF UseBorrowAllowance
      <3>2. /\ borrowAllowances[s][u][user] \in Nat /\ amount \in Nat
            /\ borrowAllowances'[s][u][user] = borrowAllowances[s][u][user] - amount
        BY <1>2, <3>1 DEF TypeOK
      <3> QED BY <3>2
    <2>7. owed = RayDiv(Received(user), reserves'[s].variableBorrowIndex)
      BY <2>3, <2>4, <2>5 DEF minted
    <2>8. CASE user = u
      BY <2>7, <2>8
    <2>9. CASE user # u
      BY <2>5, <2>6, <2>7, <2>9
    <2> QED BY <2>8, <2>9
  <1>4. CASE \E user, onBehalfOf \in User, r \in Reserve, amount \in Amounts :
                 Repay(user, r, amount, onBehalfOf)
    <2> PICK onBehalfOf \in User, r \in Reserve, burned \in Nat :
               debts' = [debts EXCEPT ![r][onBehalfOf] = @ - burned]
      BY <1>2, <1>4, RepaySteps
    <2> QED BY <1>1 DEF TypeOK
  <1>5. CASE UNCHANGED <<debts, borrowing, crtVars>>
    BY <1>1, <1>5
  <1> QED BY <1>3, <1>4, <1>5, OtherSteps

\* With interest accruing or not, a debt is written only for underlying that its
\* owner, or one whom its owner trusted with as much, took in the same call.
THEOREM NobodyOwesForOthers == Spec => NobodyOwesUnasked
  <1>1. TypeOK /\ [Next]_vars =>
            [\A r \in Reserve, u \in User :
               LET owed == debts'[r][u] - debts[r][u]
                   Received(v) == wallets'[AssetOf(r)][v] - wallets[AssetOf(r)][v]
                   OwedFor(amount) == RayDiv(amount, reserves'[r].variableBorrowIndex)
               IN  owed > 0 =>
                      \/ owed = OwedFor(Received(u))
                      \/ \E v \in User \ {u} :
                            /\ owed = OwedFor(Received(v))
                            /\ borrowAllowances[r][u][v] - borrowAllowances'[r][u][v]
                                   = Received(v)]_vars
    BY OwedStep
  <1> QED BY <1>1, TypeCorrect, PTL DEF Spec, NobodyOwesUnasked

-----------------------------------------------------------------------------
(***************************************************************************)
(* The balance sheet while interest accrues.  SheetBacked, which talks about *)
(* each reserve as of its last update, is what every step keeps.           *)
(***************************************************************************)

\* The utilisation is the debt's share of the sheet, to half a unit.
LEMMA UtilizationOfSheet ==
    ASSUME NEW liquidity \in Nat, NEW owed \in Nat
    PROVE  2 * ((liquidity + owed) * UtilizationRate(liquidity, owed))
               <= 2 * (owed * RAY) + (liquidity + owed)
  <1> DEFINE sheet == liquidity + owed
  <1>1. RAY \in Nat \ {0}
    BY RAYAssumption
  <1>2. CASE owed = 0
    <2>1. UtilizationRate(liquidity, owed) = 0
      BY <1>2 DEF UtilizationRate
    <2> QED BY <1>1, <1>2, <2>1
  <1>3. CASE owed # 0
    <2> DEFINE q == RayDiv(owed, sheet)
    <2>1. sheet \in Nat \ {0} /\ UtilizationRate(liquidity, owed) = q
      BY <1>3 DEF UtilizationRate
    <2> HIDE DEF sheet
    <2>2. /\ q \in Nat /\ sheet * q <= owed * RAY + sheet \div 2
          /\ sheet \div 2 \in Nat /\ 2 * (sheet \div 2) <= sheet
      BY <2>1, RayDivBounds, DivBounds
    <2> HIDE DEF q
    <2>3. 2 * (sheet * q) <= 2 * (owed * RAY) + sheet
      BY <1>1, <2>1, <2>2
    <2> QED BY <2>1, <2>3 DEF sheet
  <1> QED BY <1>2, <1>3

\* The fields that an update of the indexes sets.
LEMMA NewIndexes ==
    ASSUME NEW reserve \in ReserveData, NEW t, NEW scaledDebt
    PROVE  LET after == UpdateIndexes(reserve, scaledDebt, t)
               elapsed == t - reserve.lastUpdateTimestamp
               rate == reserve.currentLiquidityRate
           IN  /\ ~(rate > 0) =>
                      /\ after.liquidityIndex = reserve.liquidityIndex
                      /\ after.variableBorrowIndex = reserve.variableBorrowIndex
               /\ rate > 0 /\ scaledDebt # 0 =>
                      /\ after.liquidityIndex
                             = RayMul(LinearInterest(rate, elapsed), reserve.liquidityIndex)
                      /\ after.variableBorrowIndex
                             = RayMul(CompoundedInterest(reserve.currentVariableBorrowRate, elapsed),
                                      reserve.variableBorrowIndex)
  <1> DEFINE elapsed == t - reserve.lastUpdateTimestamp
             rate == reserve.currentLiquidityRate
             linear == RayMul(LinearInterest(rate, elapsed), reserve.liquidityIndex)
             compounded == RayMul(CompoundedInterest(reserve.currentVariableBorrowRate, elapsed),
                                  reserve.variableBorrowIndex)
             a == IF rate > 0 THEN linear ELSE reserve.liquidityIndex
             b == IF rate > 0 /\ scaledDebt # 0 THEN compounded ELSE reserve.variableBorrowIndex
             after == UpdateIndexes(reserve, scaledDebt, t)
  <1>1. after = [reserve EXCEPT !.liquidityIndex = a,
                                !.variableBorrowIndex = b,
                                !.lastUpdateTimestamp = t]
    BY Zenon DEF UpdateIndexes
  <1> HIDE DEF a, b, after
  <1>2. after.liquidityIndex = a /\ after.variableBorrowIndex = b
    BY <1>1 DEF ReserveData
  <1> HIDE DEF linear, compounded, rate
  <1>3. /\ ~(rate > 0) => a = reserve.liquidityIndex /\ b = reserve.variableBorrowIndex
        /\ rate > 0 /\ scaledDebt # 0 => a = linear /\ b = compounded
    BY DEF a, b
  <1> QED BY <1>2, <1>3 DEF after, linear, compounded, rate

\* A reserve whose rates are those of the sheet it has: `scaledDebt` owed and
\* `liquidity` in hand, of which `kept` of the factor is for the suppliers.
RatedOn(reserve, liquidity, scaledDebt, kept) ==
    LET owed == RayMul(scaledDebt, reserve.variableBorrowIndex)
    IN  reserve.currentLiquidityRate > 0 =>
            /\ scaledDebt # 0
            /\ reserve.currentLiquidityRate
                   = PercentMul(RayMul(OverallBorrowRate(owed, reserve.currentVariableBorrowRate),
                                       UtilizationRate(liquidity, owed)),
                                kept)

\* The supply rate stays below the borrow rate, and so do the indexes.
InOrder(reserve) ==
    /\ reserve.liquidityIndex <= reserve.variableBorrowIndex
    /\ reserve.currentLiquidityRate
           <= SECONDS_PER_YEAR * (reserve.currentVariableBorrowRate \div SECONDS_PER_YEAR)

\* The claims of `supply` scaled pTokens are covered up to n units of the borrow
\* index, and nothing on the sheet comes to more than K rays.
CoveredUpTo(n, K, reserve, supply, liquidity, scaledDebt) ==
    /\ supply * reserve.liquidityIndex
           <= liquidity * RAY + scaledDebt * reserve.variableBorrowIndex
              + n * reserve.variableBorrowIndex
    /\ supply <= K * RAY
    /\ scaledDebt <= K * RAY
    /\ liquidity + RayMul(scaledDebt, reserve.variableBorrowIndex) <= K * RAY
    /\ n <= 2 * RAY

\* Interest adds to the claims of suppliers their part of what it adds to the
\* debt, and rounding errors.
LEMMA InterestOnSheet ==
    ASSUME NEW reserve \in ReserveData, NEW t \in Nat, reserve.lastUpdateTimestamp <= t,
           NEW supply \in Nat, NEW scaledDebt \in Nat, NEW liquidity \in Nat,
           NEW n \in Nat, NEW K \in Nat, NEW kept \in Nat, kept <= PERCENTAGE_FACTOR,
           InOrder(reserve), RatedOn(reserve, liquidity, scaledDebt, kept),
           CoveredUpTo(n, K, reserve, supply, liquidity, scaledDebt)
    PROVE  LET after == UpdateIndexes(reserve, scaledDebt, t)
               elapsed == t - reserve.lastUpdateTimestamp
               up == after.variableBorrowIndex - reserve.variableBorrowIndex
           IN  /\ after.liquidityIndex \in Nat /\ after.variableBorrowIndex \in Nat
               /\ up \in Nat
               /\ PERCENTAGE_FACTOR * (supply * after.liquidityIndex)
                      <= PERCENTAGE_FACTOR * (supply * reserve.liquidityIndex)
                         + kept * (scaledDebt * up) + PERCENTAGE_FACTOR * (n * up)
                         + PERCENTAGE_FACTOR
                               * ((2 * K + 2 + (3 * K + 1) * elapsed) * after.variableBorrowIndex)
  <1> DEFINE after == UpdateIndexes(reserve, scaledDebt, t)
             newL == after.liquidityIndex
             newB == after.variableBorrowIndex
             L == reserve.liquidityIndex
             B == reserve.variableBorrowIndex
             rate == reserve.currentLiquidityRate
             borrowRate == reserve.currentVariableBorrowRate
             elapsed == t - reserve.lastUpdateTimestamp
             perSecond == borrowRate \div SECONDS_PER_YEAR
             growth == (rate * elapsed) \div SECONDS_PER_YEAR
             linear == LinearInterest(rate, elapsed)
             compounded == CompoundedInterest(borrowRate, elapsed)
             owed == RayMul(scaledDebt, B)
             sheet == liquidity + owed
             utilization == UtilizationRate(liquidity, owed)
             overall == OverallBorrowRate(owed, borrowRate)
             F == PERCENTAGE_FACTOR
             half == RAY \div 2
  <1>1. /\ RAY \in Nat \ {0} /\ L \in Nat /\ B \in Nat /\ RAY <= B
        /\ rate \in Nat /\ borrowRate \in Nat /\ elapsed \in Nat
        /\ half \in Nat /\ 2 * half <= RAY /\ RAY <= 2 * half + 1
        /\ F \in Nat \ {0} /\ SECONDS_PER_YEAR \in Nat \ {0}
    BY RAYAssumption, YearAssumption, StrategyAssumption, CounterInputAssumption, DivBounds
       DEF ReserveData, PERCENTAGE_FACTOR
  <1>2. /\ ~(rate > 0) => newL = L /\ newB = B
        /\ rate > 0 /\ scaledDebt # 0 => newL = RayMul(linear, L) /\ newB = RayMul(compounded, B)
    BY NewIndexes
  <1> HIDE DEF after
  <1>3. CASE ~(rate > 0)
    <2>1. newL = L /\ newB = B
      BY <1>2, <1>3
    <2> HIDE DEF F, L, B, newL, newB, elapsed
    <2>2. newB - B = 0 /\ newB \in Nat /\ newL \in Nat
      BY <1>1, <2>1
    <2>3. (2 * K + 2 + (3 * K + 1) * elapsed) * newB \in Nat
      BY <1>1, <2>2
    <2>4. F * (supply * newL)
              <= F * (supply * L) + kept * (scaledDebt * (newB - B)) + F * (n * (newB - B))
                 + F * ((2 * K + 2 + (3 * K + 1) * elapsed) * newB)
      BY <1>1, <2>1, <2>2, <2>3
    <2> QED BY <2>2, <2>4 DEF F, L, B, newL, newB, elapsed, after
  <1>4. CASE rate > 0
    <2>1. /\ scaledDebt # 0
          /\ rate = PercentMul(RayMul(overall, utilization), kept)
      BY <1>4 DEF RatedOn
    <2>2. newL = RayMul(linear, L) /\ newB = RayMul(compounded, B)
      BY <1>2, <1>4, <2>1
    <2>3. /\ supply * L <= liquidity * RAY + scaledDebt * B + n * B
          /\ supply <= K * RAY /\ scaledDebt <= K * RAY /\ sheet <= K * RAY /\ n <= 2 * RAY
          /\ L <= B /\ rate <= SECONDS_PER_YEAR * perSecond
      BY DEF CoveredUpTo, InOrder
    <2>4. owed \in Nat /\ RAY * owed <= scaledDebt * B + half
          /\ scaledDebt * B + half < RAY * owed + RAY
      BY <1>1, RayMulBounds
    <2>5. utilization \in Nat /\ 2 * (sheet * utilization) <= 2 * (owed * RAY) + sheet
      <3>1. utilization \in 0..RAY
        BY <2>4, UtilizationWithinRay
      <3>2. 2 * (sheet * utilization) <= 2 * (owed * RAY) + sheet
        BY <2>4, UtilizationOfSheet
      <3> HIDE DEF utilization
      <3>3. utilization \in Nat
        BY <1>1, <3>1
      <3> QED BY <3>2, <3>3
    <2>6. linear = growth + RAY
      BY DEF LinearInterest
    <2>7. perSecond \in Nat /\ growth \in Nat
      <3>1. rate * elapsed \in Nat
        BY <1>1
      <3> QED BY <1>1, <3>1, DivBounds
    <2>8. growth <= perSecond * elapsed
      <3>1. rate * elapsed \in Nat /\ SECONDS_PER_YEAR * growth <= rate * elapsed
        <4>1. rate * elapsed \in Nat
          BY <1>1
        <4> QED BY <1>1, <4>1, DivBounds
      <3>2. elapsed * rate <= elapsed * (SECONDS_PER_YEAR * perSecond)
        BY <1>1, <2>3, <2>7, MulMono
      <3> HIDE DEF growth, perSecond, rate, elapsed
      <3> DEFINE q == perSecond * elapsed
      <3>3. q \in Nat /\ SECONDS_PER_YEAR * growth <= SECONDS_PER_YEAR * q
        BY <1>1, <2>7, <3>1, <3>2
      <3> HIDE DEF q
      <3>4. growth <= q
        BY <1>1, <2>7, <3>3, MulCancel
      <3> QED BY <3>4 DEF q
    <2>9. compounded \in Nat /\ RAY + perSecond * elapsed <= compounded
      BY <1>1, CompoundedAtLeastLinear
    <2>10. /\ newL \in Nat /\ RAY * newL <= linear * L + half
           /\ newB \in Nat /\ compounded * B + half < RAY * newB + RAY
           /\ B <= newB
      <3>1. linear \in Nat
        BY <1>1, <2>6, <2>7
      <3>2. RAY <= compounded
        BY <1>1, CompoundedAtLeastRay
      <3> HIDE DEF linear, compounded, L, B, newL, newB
      <3> QED BY <1>1, <2>2, <2>9, <3>1, <3>2, RayMulBounds, RayMulGrows
    <2>11. 2 * (F * (RAY * (growth * sheet)))
               <= (kept * elapsed)
                      * ((perSecond + 1) * (2 * (owed * RAY) + sheet)
                         + 3 * (sheet * RAY) + RAY * RAY)
      <3> HIDE DEF utilization, owed, borrowRate, elapsed, F
      <3>1. sheet \in Nat /\ owed <= sheet
        BY <2>4
      <3>2. /\ overall \in Nat /\ overall <= borrowRate + RAY
            /\ 2 * (owed * overall) <= 2 * (owed * borrowRate) + RAY + owed
        BY <1>1, <2>4, OverallRateWithin
      <3> HIDE DEF sheet, overall
      <3> DEFINE r == PercentMul(RayMul(overall, utilization), kept)
      <3>3. 2 * (F * (RAY * (((r * elapsed) \div SECONDS_PER_YEAR) * sheet)))
               <= (kept * elapsed)
                      * ((perSecond + 1) * (2 * (owed * RAY) + sheet)
                         + 3 * (sheet * RAY) + RAY * RAY)
        BY <1>1, <2>4, <2>5, <3>1, <3>2, RateOnSheet DEF F
      <3>4. r = rate
        BY <2>1
      <3> HIDE DEF r
      <3> QED BY <3>3, <3>4
    <2> HIDE DEF newL, newB, L, B, growth, perSecond, owed, utilization, linear, compounded,
                 rate, borrowRate, elapsed, half, F
    <2>12. 2 * (RAY * newL) <= 2 * ((RAY + growth) * L) + RAY
      BY <1>1, <2>6, <2>7, <2>10
    <2>13. 2 * ((RAY + perSecond * elapsed) * B) <= 2 * (RAY * newB) + RAY
      <3> DEFINE step == RAY + perSecond * elapsed
      <3>1. step \in Nat /\ step <= compounded
        BY <1>1, <2>7, <2>9
      <3> HIDE DEF step
      <3>2. B * step <= B * compounded
        BY <1>1, <2>9, <3>1, MulMono
      <3>3. 2 * (step * B) <= 2 * (RAY * newB) + RAY
        BY <1>1, <2>9, <2>10, <3>1, <3>2
      <3> QED BY <3>3 DEF step
    <2>14. 2 * (supply * L) <= 2 * (RAY * sheet) + RAY + 2 * (n * B)
      BY <1>1, <2>3, <2>4
    <2>15. 2 * (owed * RAY) <= 2 * (scaledDebt * B) + RAY
      BY <1>1, <2>4
    <2>16. sheet \in Nat /\ owed <= sheet
      BY <2>4
    <2> HIDE DEF sheet
    <2>17. F * (supply * newL)
               <= F * (supply * L) + kept * (scaledDebt * (newB - B)) + F * (n * (newB - B))
                      + F * ((2 * K + 2 + (3 * K + 1) * elapsed) * newB)
      <3>1. kept <= F /\ 1 <= F /\ 1 <= RAY
        BY <1>1 DEF F
      <3>2. Accrual(RAY, F, kept, elapsed, L, B, scaledDebt, supply, n, growth, perSecond,
                    owed, sheet, newL, newB, K)
        BY <1>1, <2>3, <2>4, <2>7, <2>8, <2>10, <2>11, <2>12, <2>13, <2>14, <2>15, <2>16,
           <3>1 DEF Accrual
      <3> QED BY <3>2, GrowthOnSheet, Zenon
    <2>18. newL \in Nat /\ newB \in Nat /\ newB - B \in Nat
      BY <1>1, <2>10
    <2> QED BY <2>17, <2>18 DEF F, L, B, newL, newB, elapsed, after
  <1> QED BY <1>1, <1>3, <1>4

\* Holders of the part that is backed.
LEMMA PromisedHolders ==
    /\ IsFiniteSet(Promised) /\ Promised \subseteq Holder
    /\ User \subseteq Promised /\ Treasury \in Promised
  <1>1. Promised \subseteq Holder
    BY DEF Promised
  <1>2. IsFiniteSet(Promised)
    BY <1>1, FiniteHolders, FS_Subset
  <1> QED BY <1>1, <1>2, CounterAssumption DEF Promised, Holder

LEMMA SupplyType ==
    ASSUME TypeOK, NEW r \in Reserve
    PROVE  ScaledSupply(r, Promised) \in Nat
  <1>1. \A h \in Promised : pBalances[r][h] \in Nat
    BY PromisedHolders DEF TypeOK
  <1> QED BY <1>1, PromisedHolders, SumType DEF ScaledSupply

\* What r's suppliers and treasury hold once the share is minted.
SupplyAfterAccrual(r) == SumFunctionOnSet(BalancesAfterAccrual(r), Promised)

\* The vault's second share is not counted.
LEMMA ShareOfTreasury ==
    ASSUME TypeOK, NEW r \in Reserve, AccrualDefined(r)
    PROVE  LET minted == RayDiv(PercentMul(InterestAccrued(r), ReserveFactor[r]),
                                Accrued(r).liquidityIndex)
           IN  /\ SupplyAfterAccrual(r) \in Nat
               /\ minted \in Nat
                    => SupplyAfterAccrual(r) = ScaledSupply(r, Promised) + minted
  <1> DEFINE minted == RayDiv(PercentMul(InterestAccrued(r), ReserveFactor[r]),
                              Accrued(r).liquidityIndex)
             held == pBalances[r]
             after == BalancesAfterAccrual(r)
  <1>1. after = [held EXCEPT ![Treasury] = @ + minted, ![CrtVault] = @ + minted]
    BY DEF BalancesAfterAccrual
  <1>2. after \in [Holder -> Nat] /\ held \in [Holder -> Nat]
    BY ShareMinted DEF TypeOK
  <1>3. Treasury # CrtVault /\ Treasury \in Holder /\ CrtVault \notin Promised
    BY CounterAssumption DEF Promised, Holder
  <1> HIDE DEF after, held, minted
  <1>4. /\ after[Treasury] = held[Treasury] + minted
        /\ \A h \in Promised \ {Treasury} : held[h] = after[h]
    BY <1>1, <1>2, <1>3, PromisedHolders
  <1>5. \A h \in Promised : held[h] \in Nat /\ after[h] \in Nat
    BY <1>2, PromisedHolders
  <1>6. /\ SumFunctionOnSet(after, Promised) - SumFunctionOnSet(held, Promised)
               = after[Treasury] - held[Treasury]
        /\ SumFunctionOnSet(after, Promised) \in Nat
        /\ SumFunctionOnSet(held, Promised) \in Nat
    BY <1>4, <1>5, PromisedHolders, SumOneChanged, SumType
  <1>7. /\ SumFunctionOnSet(after, Promised) \in Nat
        /\ minted \in Nat => SumFunctionOnSet(after, Promised)
                                 = SumFunctionOnSet(held, Promised) + minted
    <2>1. held[Treasury] \in Nat
      BY <1>5, PromisedHolders
    <2> DEFINE x == SumFunctionOnSet(after, Promised)
               y == SumFunctionOnSet(held, Promised)
    <2>2. x - y = after[Treasury] - held[Treasury] /\ x \in Nat /\ y \in Nat
      BY <1>6
    <2> HIDE DEF x, y
    <2>3. x \in Nat /\ (minted \in Nat => x = y + minted)
      BY <1>4, <2>1, <2>2
    <2> QED BY <2>3 DEF x, y
  <1> QED BY <1>7 DEF after, held, minted, SupplyAfterAccrual, ScaledSupply

\* What an accrual adds to the claims, shares of the treasury included, it adds to
\* the debt, up to 2 * K + 4 roundings and 2 * K more for each second gone by.
LEMMA AccrualOnSheet ==
    ASSUME TypeOK, NEW r \in Reserve, AccrualDefined(r), NEW n \in Nat, NEW K \in Nat,
           InOrder(reserves[r]),
           RatedOn(reserves[r], cash[r], debtSupply[r], PERCENTAGE_FACTOR - ReserveFactor[r]),
           CoveredUpTo(n, K, reserves[r], ScaledSupply(r, Promised), cash[r], debtSupply[r])
    PROVE  LET elapsed == now - reserves[r].lastUpdateTimestamp
           IN  SupplyAfterAccrual(r) * Accrued(r).liquidityIndex
                   <= cash[r] * RAY + debtSupply[r] * Accrued(r).variableBorrowIndex
                      + (n + 2 * K + 4 + (3 * K + 1) * elapsed) * Accrued(r).variableBorrowIndex
  <1> DEFINE supply == ScaledSupply(r, Promised)
             after == SupplyAfterAccrual(r)
             D == debtSupply[r]
             C == cash[r]
             L == reserves[r].liquidityIndex
             B == reserves[r].variableBorrowIndex
             newL == Accrued(r).liquidityIndex
             newB == Accrued(r).variableBorrowIndex
             elapsed == now - reserves[r].lastUpdateTimestamp
             up == newB - B
             F == PERCENTAGE_FACTOR
             factor == ReserveFactor[r]
             kept == F - factor
             minted == RayDiv(PercentMul(InterestAccrued(r), factor), newL)
             lost == 2 * K + 2 + (3 * K + 1) * elapsed
  <1>1. /\ reserves[r] \in ReserveData /\ now \in Nat /\ reserves[r].lastUpdateTimestamp <= now
        /\ D \in Nat /\ C \in Nat /\ supply \in Nat
    BY ReserveType, SupplyType DEF TypeOK
  <1>2. factor \in Nat /\ kept \in Nat /\ kept <= F /\ F \in Nat \ {0} /\ factor <= F
    <2>1. factor \in Nat /\ kept \in Nat /\ kept <= F
      BY FactorKept
    <2>2. F \in Nat \ {0}
      BY DEF PERCENTAGE_FACTOR
    <2> HIDE DEF factor, F
    <2>3. factor <= F
      BY <2>1, <2>2
    <2> QED BY <2>1, <2>2, <2>3
  <1>3. /\ newL \in Nat /\ newB \in Nat /\ up \in Nat
        /\ F * (supply * newL)
               <= F * (supply * L) + kept * (D * up) + F * (n * up) + F * (lost * newB)
    BY <1>1, <1>2, InterestOnSheet DEF Accrued
  <1>4. /\ Accrued(r) \in ReserveData /\ B <= newB /\ L \in Nat /\ B \in Nat
        /\ newL \in Nat \ {0} /\ RAY <= newB /\ RAY \in Nat /\ elapsed \in Nat
    BY <1>1, AccruedSteps, RAYAssumption, StrategyAssumption, CounterInputAssumption
       DEF ReserveData
  <1>5. newL <= newB
    <2>1. reserves[r].currentLiquidityRate > 0 => debtSupply[r] # 0
      BY DEF RatedOn
    <2>2. reserves[r].currentLiquidityRate > 0 => debtSupply[r] > 0
      BY <1>1, <2>1
    <2>3. /\ reserves[r].liquidityIndex <= reserves[r].variableBorrowIndex
          /\ reserves[r].currentLiquidityRate
                 <= SECONDS_PER_YEAR
                        * (reserves[r].currentVariableBorrowRate \div SECONDS_PER_YEAR)
      BY DEF InOrder
    <2> DEFINE reached == UpdateIndexes(reserves[r], debtSupply[r], now)
    <2>4. reached.liquidityIndex <= reached.variableBorrowIndex
      BY <1>1, <2>2, <2>3, AccrualKeepsOrder
    <2> QED BY <2>4 DEF Accrued
  <1>6. minted \in Nat /\ F * (minted * newL) <= factor * (D * up) + 2 * (F * newB)
    BY <1>1, <1>2, <1>3, <1>4, <1>5, ShareOnSheet DEF InterestAccrued, DebtAccrued
  <1>7. after = supply + minted
    BY <1>6, ShareOfTreasury
  <1>8. supply * L <= C * RAY + D * B + n * B
    BY DEF CoveredUpTo
  <1> HIDE DEF supply, after, D, C, L, B, newL, newB, elapsed, F, factor, minted
  <1>9. F * (supply * L) <= F * (C * RAY + D * B + n * B)
    BY <1>1, <1>2, <1>4, <1>8, MulMono
  <1> DEFINE right == C * RAY + D * newB + (n + 2 * K + 4 + (3 * K + 1) * elapsed) * newB
             left == after * newL
  <1>10. left \in Nat /\ right \in Nat
    BY <1>1, <1>3, <1>4, <1>6, <1>7
  <1>11. F * left <= F * right
    <2>1. left = supply * newL + minted * newL
      BY <1>1, <1>3, <1>6, <1>7
    <2>2. F * left = F * (supply * newL) + F * (minted * newL)
      <3> HIDE DEF left
      <3> QED BY <1>1, <1>2, <1>3, <1>6, <2>1
    <2>3. kept * (D * up) + factor * (D * up) = F * (D * up)
      BY <1>1, <1>2, <1>3
    <2>4. F * (D * B) + F * (D * up) = F * (D * newB) /\ F * (n * B) + F * (n * up) = F * (n * newB)
      BY <1>1, <1>2, <1>3, <1>4
    <2>5. F * right = F * (C * RAY) + F * (D * newB) + F * (n * newB) + F * (lost * newB)
                      + 2 * (F * newB)
      BY <1>1, <1>2, <1>3, <1>4
    <2>6. F * (C * RAY + D * B + n * B) = F * (C * RAY) + F * (D * B) + F * (n * B)
      BY <1>1, <1>2, <1>4
    <2>7. /\ F * (supply * newL) \in Nat /\ F * (minted * newL) \in Nat /\ F * (D * up) \in Nat
          /\ F * (supply * L) \in Nat /\ kept * (D * up) \in Nat /\ factor * (D * up) \in Nat
          /\ F * (n * up) \in Nat /\ F * (lost * newB) \in Nat /\ F * newB \in Nat
          /\ F * (C * RAY) \in Nat /\ F * (D * B) \in Nat /\ F * (n * B) \in Nat
      BY <1>1, <1>2, <1>3, <1>4, <1>6
    <2> HIDE DEF left, right, lost, kept, up
    <2> QED BY <1>3, <1>6, <1>9, <2>2, <2>3, <2>4, <2>5, <2>6, <2>7
  <1> HIDE DEF left, right
  <1>12. left <= right
    BY <1>2, <1>10, <1>11, MulCancel
  <1> QED BY <1>12 DEF left, right, after, D, C, newL, newB, elapsed

\* A call on r enters what it moves on both sides of the sheet, or on two lines of
\* one, up to one rounding.
EntersBoth(r) ==
    LET L == Accrued(r).liquidityIndex
        B == Accrued(r).variableBorrowIndex
    IN  SumFunctionOnSet(pBalances'[r], Promised) * L + cash[r] * RAY + debtSupply[r] * B
            <= SupplyAfterAccrual(r) * L + cash'[r] * RAY + debtSupply'[r] * B + B

LEMMA SupplyMoves ==
    ASSUME TypeOK, TypeOK', NEW r \in Reserve, AccrualDefined(r), NEW u \in User, NEW moved \in Int,
           pBalances'[r][u] = BalancesAfterAccrual(r)[u] + moved,
           \A h \in Holder \ {u} : pBalances'[r][h] = BalancesAfterAccrual(r)[h]
    PROVE  SumFunctionOnSet(pBalances'[r], Promised) = SupplyAfterAccrual(r) + moved
  <1> DEFINE f == BalancesAfterAccrual(r)
             g == pBalances'[r]
  <1>1. f \in [Holder -> Nat] /\ g \in [Holder -> Nat] /\ u \in Promised /\ Promised \subseteq Holder
    BY ShareMinted, PromisedHolders DEF TypeOK
  <1>2. g[u] = f[u] + moved /\ \A h \in Holder \ {u} : g[h] = f[h]
    OBVIOUS
  <1> HIDE DEF f, g
  <1>3. g[u] = f[u] + moved /\ \A h \in Promised \ {u} : f[h] = g[h]
    BY <1>1, <1>2
  <1>4. \A h \in Promised : f[h] \in Nat /\ g[h] \in Nat
    BY <1>1
  <1> DEFINE x == SumFunctionOnSet(f, Promised)
             y == SumFunctionOnSet(g, Promised)
  <1>5. x \in Nat /\ y \in Nat /\ y - x = g[u] - f[u] /\ f[u] \in Nat
    BY <1>1, <1>3, <1>4, PromisedHolders, SumOneChanged, SumType
  <1> HIDE DEF x, y
  <1>6. y = x + moved
    BY <1>3, <1>5
  <1> QED BY <1>6 DEF x, y, f, g, SupplyAfterAccrual

LEMMA CallEntersBoth ==
    ASSUME TypeOK, TypeOK', NEW user \in User, NEW other \in User, NEW r \in Reserve,
           NEW amount \in Amounts,
           Accrued(r).liquidityIndex <= Accrued(r).variableBorrowIndex,
           \/ Deposit(user, r, amount, other)
           \/ Withdraw(user, r, amount, other)
           \/ \E crtenable \in BOOLEAN : Borrow(user, r, amount, other, crtenable)
           \/ Repay(user, r, amount, other)
    PROVE  /\ EntersBoth(r)
           /\ \A s \in Reserve \ {r} : pBalances'[s] = pBalances[s]
  <1> DEFINE L == Accrued(r).liquidityIndex
             B == Accrued(r).variableBorrowIndex
             before == SupplyAfterAccrual(r)
             after == SumFunctionOnSet(pBalances'[r], Promised)
  <1>1. amount \in Nat /\ RAY \in Nat
    BY CounterInputAssumption, RAYAssumption
  <1>2. AccrualDefined(r)
    BY DEF Deposit, Withdraw, Borrow, Repay
  <1>3. L \in Nat \ {0} /\ B \in Nat \ {0} /\ L <= B
    BY <1>2, AccruedSteps, RAYAssumption, StrategyAssumption DEF ReserveData
  <1>4. /\ before \in Nat /\ cash[r] \in Nat /\ cash'[r] \in Nat
        /\ debtSupply[r] \in Nat /\ debtSupply'[r] \in Nat
    BY <1>2, ShareOfTreasury DEF TypeOK
  <1>5. BalancesAfterAccrual(r) \in [Holder -> Nat]
    BY <1>2, ShareMinted
  <1>6. CASE Deposit(user, r, amount, other)
    <2> DEFINE minted == RayDiv(amount, L)
    <2>1. /\ pBalances' = [pBalances EXCEPT ![r] =
                 [BalancesAfterAccrual(r) EXCEPT ![other] = @ + minted]]
          /\ cash' = [cash EXCEPT ![r] = @ + amount]
          /\ debtSupply' = debtSupply
      BY <1>6 DEF Deposit
    <2>2. minted \in Nat /\ minted * L <= amount * RAY + B
      BY <1>1, <1>3, RayDivBounds, ScaledIsWorth
    <2> HIDE DEF minted
    <2>3. after = before + minted
      <3>1. pBalances'[r] = [BalancesAfterAccrual(r) EXCEPT ![other] = @ + minted]
        BY <2>1 DEF TypeOK
      <3>2. other \in Holder
        BY DEF Holder
      <3>3. /\ pBalances'[r][other] = BalancesAfterAccrual(r)[other] + minted
            /\ \A h \in Holder \ {other} : pBalances'[r][h] = BalancesAfterAccrual(r)[h]
        BY <1>5, <3>1, <3>2
      <3> QED BY <1>2, <2>2, <3>3, SupplyMoves
    <2>4. /\ cash'[r] = cash[r] + amount
          /\ \A s \in Reserve \ {r} : pBalances'[s] = pBalances[s]
      BY <2>1 DEF TypeOK
    <2> HIDE DEF L, B, before, after
    <2>5. after * L + cash[r] * RAY <= before * L + cash'[r] * RAY + B
      BY <1>1, <1>3, <1>4, <2>2, <2>3, <2>4
    <2> DEFINE c == cash[r] * RAY
               c2 == cash'[r] * RAY
               x == after * L
               y == before * L
               d == debtSupply[r] * B
    <2>6. c \in Nat /\ c2 \in Nat /\ x \in Nat /\ y \in Nat /\ d \in Nat
      BY <1>1, <1>3, <1>4, <2>2, <2>3
    <2>7. x + c <= y + c2 + B
      BY <2>5
    <2> HIDE DEF c, c2, x, y, d
    <2>8. x + c + d <= y + c2 + d + B
      BY <1>3, <2>6, <2>7
    <2> QED BY <2>1, <2>4, <2>8 DEF EntersBoth, L, B, before, after, c, c2, x, y, d
  <1>7. CASE Withdraw(user, r, amount, other)
    <2> DEFINE paid == IF amount = MaxAmount THEN BalanceOf(r, user) ELSE amount
               burned == RayDiv(paid, L)
    <2>1. /\ pBalances' = [pBalances EXCEPT ![r] =
                 [BalancesAfterAccrual(r) EXCEPT ![user] = @ - burned]]
          /\ cash' = [cash EXCEPT ![r] = @ - paid]
          /\ debtSupply' = debtSupply
      BY <1>7 DEF Withdraw
    <2>2. paid \in Nat
      BY <1>1, ViewType DEF Holder
    <2> HIDE DEF paid
    <2>3. burned \in Nat /\ paid * RAY <= burned * L + B
      BY <1>3, <2>2, RayDivBounds, ScaledIsWorth
    <2> HIDE DEF burned
    <2>4. after = before + (0 - burned)
      <3>1. pBalances'[r] = [BalancesAfterAccrual(r) EXCEPT ![user] = @ - burned]
        BY <2>1 DEF TypeOK
      <3>2. user \in Holder
        BY DEF Holder
      <3>3. /\ pBalances'[r][user] = BalancesAfterAccrual(r)[user] + (0 - burned)
            /\ \A h \in Holder \ {user} : pBalances'[r][h] = BalancesAfterAccrual(r)[h]
        BY <1>5, <2>3, <3>1, <3>2
      <3>4. 0 - burned \in Int
        BY <2>3
      <3> QED BY <1>2, <3>3, <3>4, SupplyMoves
    <2>5. /\ cash'[r] = cash[r] - paid
          /\ \A s \in Reserve \ {r} : pBalances'[s] = pBalances[s]
      BY <2>1 DEF TypeOK
    <2> HIDE DEF L, B, before, after
    <2>6. after * L + burned * L = before * L
      BY <1>3, <1>4, <2>3, <2>4
    <2>7. cash'[r] * RAY + paid * RAY = cash[r] * RAY
      BY <1>1, <1>4, <2>2, <2>5
    <2> DEFINE c == cash[r] * RAY
               c2 == cash'[r] * RAY
               x == after * L
               y == before * L
               d == debtSupply[r] * B
               p == paid * RAY
               q == burned * L
    <2>8. /\ c \in Int /\ c2 \in Int /\ x \in Int /\ y \in Int /\ d \in Int /\ p \in Int
          /\ q \in Int /\ B \in Int
      BY <1>1, <1>3, <1>4, <2>2, <2>3, <2>4
    <2>9. x + q = y /\ c2 + p = c /\ p <= q + B
      BY <2>3, <2>6, <2>7
    <2> HIDE DEF c, c2, x, y, d, p, q
    <2>10. x + c + d <= y + c2 + d + B
      BY <2>8, <2>9
    <2> QED BY <2>1, <2>5, <2>10 DEF EntersBoth, L, B, before, after, c, c2, x, y, d
  <1>8. CASE \E crtenable \in BOOLEAN : Borrow(user, r, amount, other, crtenable)
    <2> DEFINE minted == RayDiv(amount, B)
    <2>1. /\ pBalances' = [pBalances EXCEPT ![r] = BalancesAfterAccrual(r)]
          /\ cash' = [cash EXCEPT ![r] = @ - amount]
          /\ debtSupply' = [debtSupply EXCEPT ![r] = @ + minted]
      BY <1>8 DEF Borrow, MintDebt
    <2>2. minted \in Nat /\ amount * RAY <= minted * B + B
      <3> HIDE DEF B
      <3>1. B \in Nat /\ B <= B
        BY <1>3
      <3> QED BY <1>1, <1>3, <3>1, RayDivBounds, ScaledIsWorth
    <2> HIDE DEF minted
    <2>3. /\ cash'[r] = cash[r] - amount /\ debtSupply'[r] = debtSupply[r] + minted
          /\ pBalances'[r] = BalancesAfterAccrual(r)
          /\ \A s \in Reserve \ {r} : pBalances'[s] = pBalances[s]
      BY <2>1 DEF TypeOK
    <2>4. after = before
      BY <2>3 DEF SupplyAfterAccrual
    <2> HIDE DEF L, B, before, after
    <2>5. cash'[r] * RAY + amount * RAY = cash[r] * RAY
      BY <1>1, <1>4, <2>3
    <2>6. debtSupply'[r] * B = debtSupply[r] * B + minted * B
      BY <1>3, <1>4, <2>2, <2>3
    <2> DEFINE c == cash[r] * RAY
               c2 == cash'[r] * RAY
               y == before * L
               d == debtSupply[r] * B
               d2 == debtSupply'[r] * B
               p == amount * RAY
               q == minted * B
    <2>7. /\ c \in Int /\ c2 \in Int /\ y \in Int /\ d \in Int /\ d2 \in Int /\ p \in Int
          /\ q \in Int /\ B \in Int
      BY <1>1, <1>3, <1>4, <2>2
    <2>8. d2 = d + q /\ c2 + p = c /\ p <= q + B
      BY <2>2, <2>5, <2>6
    <2> HIDE DEF c, c2, y, d, d2, p, q
    <2>9. y + c + d <= y + c2 + d2 + B
      BY <2>7, <2>8
    <2> QED BY <2>3, <2>4, <2>9 DEF EntersBoth, L, B, before, after, c, c2, y, d, d2
  <1>9. CASE Repay(user, r, amount, other)
    <2> DEFINE owed == DebtOf(r, other)
               paid == IF amount < owed THEN amount ELSE owed
               burned == DebtBurned(r, paid)
    <2>1. /\ pBalances' = [pBalances EXCEPT ![r] = BalancesAfterAccrual(r)]
          /\ cash' = [cash EXCEPT ![r] = @ + paid]
          /\ debtSupply' = [debtSupply EXCEPT ![r] = @ - burned]
      BY <1>9 DEF Repay, BurnDebt
    <2>2. owed \in Nat
      BY ViewType
    <2> HIDE DEF owed
    <2>3. paid \in Nat
      BY <1>1, <2>2
    <2> HIDE DEF paid
    <2>4. burned \in Nat /\ burned * B <= paid * RAY + B
      BY <1>3, <2>3, RayDivBounds, ScaledIsWorth DEF DebtBurned
    <2> HIDE DEF burned
    <2>5. /\ cash'[r] = cash[r] + paid /\ debtSupply'[r] = debtSupply[r] - burned
          /\ pBalances'[r] = BalancesAfterAccrual(r)
          /\ \A s \in Reserve \ {r} : pBalances'[s] = pBalances[s]
      BY <2>1 DEF TypeOK
    <2>6. after = before
      BY <2>5 DEF SupplyAfterAccrual
    <2> HIDE DEF L, B, before, after
    <2>7. cash'[r] * RAY = cash[r] * RAY + paid * RAY
      BY <1>1, <1>4, <2>3, <2>5
    <2>8. debtSupply'[r] * B + burned * B = debtSupply[r] * B
      BY <1>3, <1>4, <2>4, <2>5
    <2> DEFINE c == cash[r] * RAY
               c2 == cash'[r] * RAY
               y == before * L
               d == debtSupply[r] * B
               d2 == debtSupply'[r] * B
               p == paid * RAY
               q == burned * B
    <2>9. /\ c \in Int /\ c2 \in Int /\ y \in Int /\ d \in Int /\ d2 \in Int /\ p \in Int
          /\ q \in Int /\ B \in Int
      BY <1>1, <1>3, <1>4, <2>3, <2>4
    <2>10. d2 + q = d /\ c2 = c + p /\ q <= p + B
      BY <2>4, <2>7, <2>8
    <2> HIDE DEF c, c2, y, d, d2, p, q
    <2>11. y + c + d <= y + c2 + d2 + B
      BY <2>9, <2>10
    <2> QED BY <2>5, <2>6, <2>11 DEF EntersBoth, L, B, before, after, c, c2, y, d, d2
  <1> QED BY <1>6, <1>7, <1>8, <1>9

\* The rates of a reserve are those of the sheet it has: whatever moves underlying
\* or debt sets them anew.
RatesAreSet ==
    \A r \in Reserve :
        RatedOn(reserves[r], cash[r], debtSupply[r], PERCENTAGE_FACTOR - ReserveFactor[r])

LEMMA RatesSetStep ==
    ASSUME TypeOK, TypeOK', RatesAreSet, [Next]_vars
    PROVE  RatesAreSet'
  <1>1. CASE UNCHANGED <<reserves, debtSupply, cash>>
    BY <1>1 DEF RatesAreSet
  <1>2. ASSUME NEW r \in Reserve, Refreshed(r) PROVE RatesAreSet'
    <2> DEFINE rated == UpdateInterestRates(Accrued(r), cash'[r], debtSupply'[r],
                                            ReserveFactor[r])
               owed == RayMul(debtSupply'[r], Accrued(r).variableBorrowIndex)
               utilization == UtilizationRate(cash'[r], owed)
               borrowRate == VariableBorrowRate(utilization)
               kept == PERCENTAGE_FACTOR - ReserveFactor[r]
    <2>1. /\ reserves'[r] = rated
          /\ rated.variableBorrowIndex = Accrued(r).variableBorrowIndex
          /\ Accrued(r) \in ReserveData
          /\ \A s \in Reserve \ {r} : reserves'[s] = reserves[s]
      BY <1>2, RefreshedSteps
    <2>2. /\ RatesFit(rated)
          /\ \A s \in Reserve \ {r} : debtSupply'[s] = debtSupply[s] /\ cash'[s] = cash[s]
      BY <1>2 DEF Refreshed, SetRates, SetReserve
    <2>3. /\ rated.currentVariableBorrowRate = borrowRate
          /\ rated.currentLiquidityRate =
                PercentMul(RayMul(OverallBorrowRate(owed, borrowRate), utilization), kept)
          /\ rated.currentLiquidityRate \in Nat
      BY <2>1, <2>2, NewRates
    <2>4. cash'[r] \in Nat /\ debtSupply'[r] \in Nat /\ Accrued(r).variableBorrowIndex \in Nat
      BY <2>1, RAYAssumption, StrategyAssumption DEF TypeOK, ReserveData
    <2>5. owed \in Nat /\ (debtSupply'[r] = 0 => owed = 0)
      BY <2>4, RayMulBounds, RayMulZero
    <2>6. utilization \in Nat
      <3>1. utilization \in 0..RAY
        BY <2>4, <2>5, UtilizationWithinRay
      <3> HIDE DEF utilization
      <3> QED BY <3>1, RAYAssumption
    <2>7. owed = 0 => PercentMul(RayMul(OverallBorrowRate(owed, borrowRate), utilization), kept) = 0
      <3>1. owed = 0 => OverallBorrowRate(owed, borrowRate) = 0
        BY DEF OverallBorrowRate
      <3> QED BY <2>6, <3>1, NothingEarned
    <2> HIDE DEF rated, owed, utilization, borrowRate, kept
    <2>8. rated.currentLiquidityRate > 0 =>
              /\ debtSupply'[r] # 0
              /\ rated.currentLiquidityRate
                     = PercentMul(RayMul(OverallBorrowRate(owed, rated.currentVariableBorrowRate),
                                         utilization), kept)
      BY <2>3, <2>5, <2>7
    <2>9. RatedOn(reserves'[r], cash'[r], debtSupply'[r], kept)
      BY <2>1, <2>8, Zenon DEF RatedOn, owed, utilization
    <2>10. ASSUME NEW s \in Reserve \ {r}
           PROVE  RatedOn(reserves'[s], cash'[s], debtSupply'[s],
                          PERCENTAGE_FACTOR - ReserveFactor[s])
      BY <2>1, <2>2, Zenon DEF RatesAreSet
    <2> QED BY <2>9, <2>10, Zenon DEF RatesAreSet, kept
  <1> QED BY <1>1, <1>2, EveryStep

\* The claims on a reserve as of its last update are covered, up to the roundings
\* there had been by then and those of the calls since.
SheetBacked ==
    \A r \in Reserve :
        ScaledSupply(r, Promised) * reserves[r].liquidityIndex
            <= cash[r] * RAY + debtSupply[r] * reserves[r].variableBorrowIndex
               + Roundings(calls, reserves[r].lastUpdateTimestamp)
                     * reserves[r].variableBorrowIndex

\* Roundings grow with the calls and with time.
LEMMA RoundingsGrow ==
    ASSUME NEW n \in Nat, NEW s \in Nat, NEW t \in Nat, s <= t
    PROVE  /\ Roundings(n, s) \in Nat /\ Roundings(n + 1, s) \in Nat /\ Roundings(n, t) \in Nat
           /\ Roundings(n, s) <= Roundings(n, t)
           /\ Roundings(n, s) <= Roundings(n + 1, s)
           /\ Roundings(n + 1, t)
                  = Roundings(n, s) + 2 * Rays + 5 + (3 * Rays + 1) * (t - s)
  <1>1. Rays \in Nat
    BY RaysAssumption
  <1>2. /\ (3 * Rays + 1) * s + (3 * Rays + 1) * (t - s) = (3 * Rays + 1) * t
        /\ (3 * Rays + 1) * (t - s) \in Nat
    BY <1>1
  <1>3. (2 * Rays + 5) * n \in Nat /\ (3 * Rays + 1) * s \in Nat /\ (3 * Rays + 1) * t \in Nat
    BY <1>1
  <1>4. (2 * Rays + 5) * (n + 1) = (2 * Rays + 5) * n + 2 * Rays + 5
    BY <1>1
  <1> QED BY <1>1, <1>2, <1>3, <1>4 DEF Roundings

LEMMA SheetIsCovered ==
    ASSUME TypeOK, calls \in Nat, SheetBacked, ModestAmounts, NEW r \in Reserve
    PROVE  LET n == Roundings(calls, reserves[r].lastUpdateTimestamp)
           IN  /\ n \in Nat
               /\ CoveredUpTo(n, Rays, reserves[r], ScaledSupply(r, Promised), cash[r],
                              debtSupply[r])
  <1> DEFINE n == Roundings(calls, reserves[r].lastUpdateTimestamp)
  <1>1. now \in Nat /\ reserves[r].lastUpdateTimestamp \in Nat
        /\ reserves[r].lastUpdateTimestamp <= now
    BY ReserveType, CounterInputAssumption DEF ReserveData
  <1>2. n \in Nat /\ n <= Roundings(calls, now) /\ Roundings(calls, now) \in Nat
    BY <1>1, RoundingsGrow
  <1>3. /\ Roundings(calls, now) <= 2 * RAY /\ ScaledSupply(r, Promised) <= Rays * RAY
        /\ debtSupply[r] <= Rays * RAY
        /\ cash[r] + RayMul(debtSupply[r], reserves[r].variableBorrowIndex) <= Rays * RAY
    BY DEF ModestAmounts
  <1>4. ScaledSupply(r, Promised) * reserves[r].liquidityIndex
            <= cash[r] * RAY + debtSupply[r] * reserves[r].variableBorrowIndex
               + n * reserves[r].variableBorrowIndex
    BY DEF SheetBacked
  <1> HIDE DEF n
  <1>5. n <= 2 * RAY
    BY <1>2, <1>3, RAYAssumption
  <1> QED BY <1>2, <1>3, <1>4, <1>5, Zenon DEF CoveredUpTo, n

\* Every step that is not a call leaves the sheets alone, and a call has one more
\* rounding.
LEMMA SheetBackedStep ==
    ASSUME TypeOK, TypeOK', calls \in Nat, EarningsCovered, RatesAreSet, SheetBacked,
           ModestAmounts, [CountedNext]_<<vars, calls>>
    PROVE  SheetBacked'
  <1> SUFFICES ASSUME NEW s \in Reserve
               PROVE  SumFunctionOnSet(pBalances'[s], Promised) * reserves'[s].liquidityIndex
                          <= cash'[s] * RAY
                             + debtSupply'[s] * reserves'[s].variableBorrowIndex
                             + Roundings(calls', reserves'[s].lastUpdateTimestamp)
                                   * reserves'[s].variableBorrowIndex
    BY DEF SheetBacked, ScaledSupply
  <1> DEFINE n == Roundings(calls, reserves[s].lastUpdateTimestamp)
             supply == SumFunctionOnSet(pBalances[s], Promised)
             L == reserves[s].liquidityIndex
             B == reserves[s].variableBorrowIndex
  <1>1. /\ supply * L <= cash[s] * RAY + debtSupply[s] * B + n * B
        /\ supply \in Nat
    BY SupplyType DEF SheetBacked, ScaledSupply
  <1>2. /\ n \in Nat
        /\ CoveredUpTo(n, Rays, reserves[s], ScaledSupply(s, Promised), cash[s], debtSupply[s])
    BY SheetIsCovered
  <1>3. /\ RAY \in Nat /\ now \in Nat /\ reserves[s].lastUpdateTimestamp \in Nat
        /\ reserves[s].lastUpdateTimestamp <= now /\ B \in Nat /\ L \in Nat
        /\ cash[s] \in Nat /\ cash'[s] \in Nat /\ debtSupply[s] \in Nat /\ debtSupply'[s] \in Nat
    BY ReserveType, RAYAssumption, StrategyAssumption, CounterInputAssumption
       DEF ReserveData, TypeOK
  <1>4. ASSUME reserves'[s] = reserves[s], cash'[s] = cash[s], debtSupply'[s] = debtSupply[s],
               SumFunctionOnSet(pBalances'[s], Promised) = supply,
               calls' = calls \/ calls' = calls + 1
        PROVE  SumFunctionOnSet(pBalances'[s], Promised) * reserves'[s].liquidityIndex
                   <= cash'[s] * RAY
                      + debtSupply'[s] * reserves'[s].variableBorrowIndex
                      + Roundings(calls', reserves'[s].lastUpdateTimestamp)
                            * reserves'[s].variableBorrowIndex
    <2> DEFINE m == Roundings(calls', reserves[s].lastUpdateTimestamp)
    <2>1. m \in Nat /\ n <= m
      <3>1. /\ Roundings(calls + 1, reserves[s].lastUpdateTimestamp) \in Nat
            /\ n <= Roundings(calls + 1, reserves[s].lastUpdateTimestamp)
        BY <1>3, RoundingsGrow
      <3>2. CASE calls' = calls
        BY <1>2, <3>2
      <3>3. CASE calls' = calls + 1
        BY <3>1, <3>3
      <3> QED BY <1>4, <3>2, <3>3
    <2> HIDE DEF n, m, supply, L, B
    <2>2. B * n <= B * m
      BY <1>2, <1>3, <2>1, MulMono
    <2>3. supply * L <= cash[s] * RAY + debtSupply[s] * B + m * B
      <3> DEFINE x == supply * L
                 y == cash[s] * RAY + debtSupply[s] * B
                 b == B * n
                 c == B * m
      <3>1. x \in Nat /\ y \in Nat /\ b \in Nat /\ c \in Nat /\ x <= y + b /\ b <= c
        BY <1>1, <1>2, <1>3, <2>1, <2>2
      <3>2. c = m * B
        BY <1>3, <2>1
      <3> HIDE DEF x, y, b, c
      <3>3. x <= y + c
        BY <3>1
      <3> QED BY <3>2, <3>3 DEF x, y
    <2> QED BY <1>4, <2>3 DEF m, L, B
  <1>5. CASE UserCall /\ calls' = calls + 1
    <2>1. PICK user \in User, other \in User, r \in Reserve, amount \in Amounts :
              \/ Deposit(user, r, amount, other)
              \/ Withdraw(user, r, amount, other)
              \/ \E crtenable \in BOOLEAN : Borrow(user, r, amount, other, crtenable)
              \/ Repay(user, r, amount, other)
              \/ PTransfer(user, r, amount, other)
      BY <1>5 DEF UserCall
    <2>2. amount \in Nat
      BY CounterInputAssumption
    <2>3. CASE PTransfer(user, r, amount, other)
      <3> DEFINE scaled == RayDiv(amount, NormalizedIncome(reserves[r], now))
      <3>1. /\ pBalances[r][user] >= scaled
            /\ pBalances' = Moved(r, user, scaled, other)
            /\ UNCHANGED <<reserves, cash, debtSupply>>
        BY <2>3 DEF PTransfer
      <3>2. scaled \in Nat
        BY <2>2, ViewType, RayDivBounds
      <3> HIDE DEF scaled, supply
      <3>3. SumFunctionOnSet(pBalances'[s], Promised) = supply
        <4>1. CASE s = r
          <5>1. pBalances[r][user] \in Nat
            BY DEF TypeOK, Holder
          <5>2. SumFunctionOnSet(Moved(r, user, scaled, other)[r], Promised)
                    = SumFunctionOnSet(pBalances[r], Promised)
            BY <3>1, <3>2, <5>1, PromisedHolders, MovedKeepsSum
          <5> QED BY <3>1, <4>1, <5>2, Zenon DEF supply
        <4>2. CASE s # r
          <5>1. pBalances'[s] = pBalances[s]
            BY <3>1, <4>2 DEF Moved, TypeOK
          <5> QED BY <5>1 DEF supply
        <4> QED BY <4>1, <4>2
      <3> QED BY <1>4, <1>5, <3>1, <3>3
    <2>4. CASE ~PTransfer(user, r, amount, other)
      <3>1. \/ Deposit(user, r, amount, other)
            \/ Withdraw(user, r, amount, other)
            \/ \E crtenable \in BOOLEAN : Borrow(user, r, amount, other, crtenable)
            \/ Repay(user, r, amount, other)
        BY <2>1, <2>4
      <3>2. Refreshed(r)
        BY <3>1, CallRefreshes
      <3>3. /\ reserves'[r].liquidityIndex = Accrued(r).liquidityIndex
            /\ reserves'[r].variableBorrowIndex = Accrued(r).variableBorrowIndex
            /\ reserves'[r].lastUpdateTimestamp = now
            /\ \A t \in Reserve \ {r} : reserves'[t] = reserves[t]
            /\ Accrued(r) \in ReserveData
        BY <3>2, RefreshedSteps
      <3>4. /\ AccrualDefined(r)
            /\ \A t \in Reserve \ {r} : debtSupply'[t] = debtSupply[t] /\ cash'[t] = cash[t]
        BY <3>2 DEF Refreshed
      <3>5. Accrued(r).liquidityIndex <= Accrued(r).variableBorrowIndex
        <4>1. /\ reserves[r] \in ReserveData /\ now \in Nat
              /\ reserves[r].lastUpdateTimestamp <= now /\ debtSupply[r] \in Nat
          BY ReserveType DEF TypeOK
        <4> QED BY <4>1, AccrualKeepsOrder DEF Accrued, EarningsCovered
      <3>6. /\ EntersBoth(r)
            /\ \A t \in Reserve \ {r} : pBalances'[t] = pBalances[t]
        BY <3>1, <3>5, CallEntersBoth
      <3>7. CASE s # r
        BY <1>4, <1>5, <3>3, <3>4, <3>6, <3>7
      <3>8. CASE s = r
        <4> DEFINE elapsed == now - reserves[s].lastUpdateTimestamp
                   newL == Accrued(s).liquidityIndex
                   newB == Accrued(s).variableBorrowIndex
                   held == SupplyAfterAccrual(s)
                   after == SumFunctionOnSet(pBalances'[s], Promised)
                   m == Roundings(calls + 1, now)
        <4>1. InOrder(reserves[s])
          BY DEF EarningsCovered, InOrder
        <4>2. RatedOn(reserves[s], cash[s], debtSupply[s], PERCENTAGE_FACTOR - ReserveFactor[s])
          BY Zenon DEF RatesAreSet
        <4>3. Rays \in Nat
          BY RaysAssumption
        <4>4. held * newL <= cash[s] * RAY + debtSupply[s] * newB
                             + (n + 2 * Rays + 4 + (3 * Rays + 1) * elapsed) * newB
          BY <1>2, <3>4, <3>8, <4>1, <4>2, <4>3, AccrualOnSheet
        <4>5. after * newL + cash[s] * RAY + debtSupply[s] * newB
                  <= held * newL + cash'[s] * RAY + debtSupply'[s] * newB + newB
          BY <3>6, <3>8 DEF EntersBoth
        <4>6. m = n + 2 * Rays + 5 + (3 * Rays + 1) * elapsed
          BY <1>3, RoundingsGrow
        <4>7. newL \in Nat /\ newB \in Nat /\ held \in Nat
          BY <3>3, <3>4, <3>8, ShareOfTreasury, RAYAssumption, StrategyAssumption DEF ReserveData
        <4>8. after \in Nat
          <5>1. \A h \in Promised : pBalances'[s][h] \in Nat
            BY PromisedHolders DEF TypeOK
          <5> QED BY <5>1, PromisedHolders, SumType
        <4>9. elapsed \in Nat
          BY <1>3
        <4> HIDE DEF elapsed, newL, newB, held, after, n, m
        <4>10. m * newB = (n + 2 * Rays + 4 + (3 * Rays + 1) * elapsed) * newB + newB
          BY <1>2, <4>3, <4>6, <4>7, <4>9
        <4> DEFINE a == after * newL
                   b == held * newL
                   c == cash[s] * RAY
                   d == debtSupply[s] * newB
                   c2 == cash'[s] * RAY
                   d2 == debtSupply'[s] * newB
                   e == (n + 2 * Rays + 4 + (3 * Rays + 1) * elapsed) * newB
        <4>11. /\ a \in Nat /\ b \in Nat /\ c \in Nat /\ d \in Nat /\ c2 \in Nat /\ d2 \in Nat
               /\ e \in Nat /\ newB \in Nat
          BY <1>2, <1>3, <4>3, <4>7, <4>8, <4>9
        <4>12. b <= c + d + e /\ a + c + d <= b + c2 + d2 + newB /\ m * newB = e + newB
          BY <4>4, <4>5, <4>10
        <4> HIDE DEF a, b, c, d, c2, d2, e
        <4>13. a <= c2 + d2 + m * newB
          BY <4>11, <4>12
        <4>14. after * newL <= cash'[s] * RAY + debtSupply'[s] * newB + m * newB
          BY <4>13 DEF a, c2, d2
        <4> QED BY <1>5, <3>3, <3>8, <4>14 DEF after, newL, newB, m
      <3> QED BY <3>7, <3>8
    <2> QED BY <2>3, <2>4
  <1>6. CASE UNCHANGED <<reserves, pBalances, cash, debtSupply, calls>>
    BY <1>4, <1>6
  <1>7. CASE (UserSetting \/ Environment) /\ UNCHANGED calls
    <2>1. UNCHANGED <<reserves, pBalances, cash, debtSupply>>
      BY <1>7 DEF UserSetting, SetUserUseReserveAsCollateral, ApproveDelegation, Environment,
                  SetReserveFreeze, SetPause, SetPrice, Tick, marketVars
    <2> QED BY <1>6, <1>7, <2>1
  <1>8. CASE UNCHANGED <<vars, calls>>
    BY <1>6, <1>8 DEF vars
  <1> QED BY <1>5, <1>7, <1>8 DEF CountedNext

\* What an update stores for borrowers never exceeds what the view reports.
LEMMA UpdateWithinView ==
    ASSUME NEW reserve \in ReserveData, NEW t \in Nat, NEW scaledDebt \in Nat,
           reserve.lastUpdateTimestamp <= t,
           reserve.currentLiquidityRate > 0 => scaledDebt # 0
    PROVE  /\ UpdateIndexes(reserve, scaledDebt, t).variableBorrowIndex
                  <= NormalizedDebt(reserve, t)
           /\ NormalizedDebt(reserve, t) \in Nat
           /\ RAY <= NormalizedDebt(reserve, t)
  <1> DEFINE elapsed == t - reserve.lastUpdateTimestamp
             compounded == CompoundedInterest(reserve.currentVariableBorrowRate, elapsed)
             B == reserve.variableBorrowIndex
             newB == UpdateIndexes(reserve, scaledDebt, t).variableBorrowIndex
             shown == NormalizedDebt(reserve, t)
  <1>1. /\ RAY \in Nat /\ B \in Nat /\ RAY <= B /\ elapsed \in Nat
        /\ reserve.currentVariableBorrowRate \in Nat
    BY RAYAssumption, StrategyAssumption, CounterInputAssumption DEF ReserveData
  <1>2. /\ ~(reserve.currentLiquidityRate > 0) => newB = B
        /\ reserve.currentLiquidityRate > 0 => newB = RayMul(compounded, B)
    BY NewIndexes
  <1>3. shown = IF reserve.lastUpdateTimestamp = t THEN B ELSE RayMul(compounded, B)
    BY DEF NormalizedDebt
  <1>4. compounded \in Nat /\ RAY <= compounded
    BY <1>1, CompoundedAtLeastRay
  <1>5. reserve.lastUpdateTimestamp = t => compounded = RAY
    <2>1. reserve.lastUpdateTimestamp = t => elapsed = 0
      BY CounterInputAssumption DEF ReserveData
    <2>2. elapsed = 0 => compounded = RAY
      BY DEF CompoundedInterest
    <2> QED BY <2>1, <2>2
  <1> HIDE DEF compounded, B, newB, shown, elapsed
  <1>6. /\ RayMul(compounded, B) \in Nat /\ B <= RayMul(compounded, B)
        /\ RayMul(RAY, B) = B
    BY <1>1, <1>4, RayMulBounds, RayMulGrows, RayMulOne
  <1>7. newB <= shown /\ shown \in Nat /\ RAY <= shown
    BY <1>1, <1>2, <1>3, <1>5, <1>6
  <1> QED BY <1>7 DEF newB, shown

\* Covered as of the last update, the claims are covered as the views show them
\* until the next.
LEMMA SheetShown ==
    ASSUME TypeOK, calls \in Nat, EarningsCovered, RatesAreSet, SheetBacked, ModestAmounts
    PROVE  ClaimsBackedUpToRounding
  <1> SUFFICES ASSUME NEW r \in Reserve
               PROVE  RAY * Claims(r, Promised)
                          <= RAY * Assets(r)
                             + Roundings(calls + 1, now) * NormalizedDebt(reserves[r], now)
    BY DEF ClaimsBackedUpToRounding
  <1> DEFINE n == Roundings(calls, reserves[r].lastUpdateTimestamp)
             m == Roundings(calls + 1, now)
             supply == ScaledSupply(r, Promised)
             C == cash[r]
             D == debtSupply[r]
             L == reserves[r].liquidityIndex
             B == reserves[r].variableBorrowIndex
             updated == UpdateIndexes(reserves[r], D, now)
             newL == updated.liquidityIndex
             newB == updated.variableBorrowIndex
             income == NormalizedIncome(reserves[r], now)
             debt == NormalizedDebt(reserves[r], now)
             elapsed == now - reserves[r].lastUpdateTimestamp
             up == newB - B
             F == PERCENTAGE_FACTOR
             kept == F - ReserveFactor[r]
             lost == 2 * Rays + 2 + (3 * Rays + 1) * elapsed
             half == RAY \div 2
  <1>1. /\ reserves[r] \in ReserveData /\ now \in Nat /\ reserves[r].lastUpdateTimestamp <= now
        /\ reserves[r].lastUpdateTimestamp \in Nat
        /\ D \in Nat /\ C \in Nat /\ supply \in Nat /\ L \in Nat /\ B \in Nat /\ Rays \in Nat
        /\ elapsed \in Nat
    BY ReserveType, SupplyType, RaysAssumption, RAYAssumption, StrategyAssumption,
       CounterInputAssumption DEF TypeOK, ReserveData
  <1>2. /\ n \in Nat
        /\ CoveredUpTo(n, Rays, reserves[r], supply, C, D)
    BY SheetIsCovered
  <1>3. RatedOn(reserves[r], C, D, kept)
    BY Zenon DEF RatesAreSet
  <1>4. kept \in Nat /\ kept <= F /\ F \in Nat \ {0}
    <2>1. F \in Nat \ {0}
      BY DEF PERCENTAGE_FACTOR
    <2> QED BY <2>1, FactorKept
  <1>5. /\ newL \in Nat /\ newB \in Nat /\ up \in Nat
        /\ F * (supply * newL)
               <= F * (supply * L) + kept * (D * up) + F * (n * up) + F * (lost * newB)
    <2>1. InOrder(reserves[r])
      BY DEF EarningsCovered, InOrder
    <2> QED BY <1>1, <1>2, <1>3, <1>4, <2>1, InterestOnSheet
  <1>6. newL = income
    BY <1>1, UpdateStoresViews
  <1>7. newB <= debt /\ debt \in Nat /\ RAY <= debt
    <2>1. reserves[r].currentLiquidityRate > 0 => D # 0
      BY <1>3 DEF RatedOn
    <2> HIDE DEF D
    <2> QED BY <1>1, <2>1, UpdateWithinView
  <1>8. supply * L <= C * RAY + D * B + n * B
    BY <1>2 DEF CoveredUpTo
  <1>9. m = n + 2 * Rays + 5 + (3 * Rays + 1) * elapsed
    BY <1>1, RoundingsGrow
  <1>10. /\ RAY \in Nat \ {0} /\ half \in Nat /\ 2 * half <= RAY
         /\ RayMul(supply, income) \in Nat
         /\ RAY * RayMul(supply, income) <= supply * income + half
         /\ RayMul(D, debt) \in Nat
         /\ D * debt + half < RAY * RayMul(D, debt) + RAY
    <2>1. income \in Nat
      BY <1>5, <1>6
    <2> HIDE DEF supply, income, debt, D
    <2>2. RAY \in Nat \ {0} /\ half \in Nat /\ 2 * half <= RAY
      BY RAYAssumption, DivBounds
    <2>3. supply \in Nat /\ D \in Nat /\ debt \in Nat
      BY <1>1, <1>7
    <2>4. /\ RayMul(supply, income) \in Nat
          /\ RAY * RayMul(supply, income) <= supply * income + half
      BY <2>1, <2>3, RayMulBounds
    <2>5. /\ RayMul(D, debt) \in Nat
          /\ D * debt + half < RAY * RayMul(D, debt) + RAY
      BY <2>3, RayMulBounds
    <2> QED BY <2>2, <2>4, <2>5
  <1>11. Claims(r, Promised) = RayMul(supply, income) /\ Assets(r) = C + RayMul(D, debt)
    BY DEF Claims, Assets
  <1> HIDE DEF n, m, supply, C, D, L, B, newL, newB, income, debt, elapsed, F, kept, half
  <1>12. supply * newL <= C * RAY + D * newB + (n + lost) * newB
    <2> DEFINE left == supply * newL
               right == C * RAY + D * newB + (n + lost) * newB
    <2>1. lost \in Nat
      BY <1>1
    <2> HIDE DEF lost
    <2>2. left \in Nat /\ right \in Nat
      BY <1>1, <1>2, <1>5, <1>10, <2>1
    <2>3. (D * up) * kept <= (D * up) * F
      BY <1>1, <1>4, <1>5, MulMono
    <2>4. F * (supply * L) <= F * (C * RAY + D * B + n * B)
      BY <1>1, <1>2, <1>4, <1>8, <1>10, MulMono
    <2>5. F * (D * B) + F * (D * up) = F * (D * newB) /\ F * (n * B) + F * (n * up) = F * (n * newB)
      BY <1>1, <1>2, <1>4, <1>5
    <2>6. F * right = F * (C * RAY) + F * (D * newB) + F * (n * newB) + F * (lost * newB)
      BY <1>1, <1>2, <1>4, <1>5, <1>10, <2>1
    <2>7. F * (C * RAY + D * B + n * B) = F * (C * RAY) + F * (D * B) + F * (n * B)
      BY <1>1, <1>2, <1>4, <1>10
    <2>8. (D * up) * kept = kept * (D * up) /\ (D * up) * F = F * (D * up)
      BY <1>1, <1>4, <1>5
    <2>9. /\ F * left \in Nat /\ F * (supply * L) \in Nat /\ kept * (D * up) \in Nat
          /\ F * (D * up) \in Nat /\ F * (n * up) \in Nat /\ F * (lost * newB) \in Nat
          /\ F * (C * RAY) \in Nat /\ F * (D * B) \in Nat /\ F * (n * B) \in Nat
      BY <1>1, <1>2, <1>4, <1>5, <1>10, <2>1, <2>2
    <2>10. F * left <= F * right
      <3> HIDE DEF right, up, kept
      <3>1. F * left <= F * (supply * L) + kept * (D * up) + F * (n * up) + F * (lost * newB)
        BY <1>5
      <3> HIDE DEF left
      <3> QED BY <2>3, <2>4, <2>5, <2>6, <2>7, <2>8, <2>9, <3>1
    <2> HIDE DEF left, right
    <2>11. left <= right
      BY <1>4, <2>2, <2>10, MulCancel
    <2> QED BY <2>11 DEF left, right
  <1>13. lost \in Nat /\ m = n + lost + 3
    <2>1. Rays * elapsed \in Nat
      BY <1>1
    <2> QED BY <1>1, <1>2, <1>9, <2>1
  <1> HIDE DEF lost
  <1>14. D * newB <= D * debt /\ (n + lost) * newB <= (n + lost) * debt
    BY <1>1, <1>2, <1>5, <1>7, <1>13, MulMono
  <1>15. m * debt = (n + lost) * debt + 3 * debt
    BY <1>2, <1>7, <1>13
  <1> DEFINE claims == RayMul(supply, income)
             owed == RayMul(D, debt)
             a == RAY * claims
             c == C * RAY
             d == D * newB
             d2 == D * debt
             e == (n + lost) * newB
             e2 == (n + lost) * debt
             o == RAY * owed
  <1>16. /\ a \in Nat /\ c \in Nat /\ d \in Nat /\ d2 \in Nat /\ e \in Nat /\ e2 \in Nat /\ o \in Nat
    BY <1>1, <1>2, <1>5, <1>7, <1>10, <1>13
  <1>17. supply * newL \in Nat /\ supply * newL = supply * income
    BY <1>1, <1>5, <1>6
  <1>18. /\ supply * newL <= c + d + e /\ d <= d2 /\ e <= e2
         /\ a <= supply * newL + half
         /\ d2 + half < o + RAY /\ m * debt = e2 + 3 * debt
    BY <1>10, <1>12, <1>14, <1>15, <1>17
  <1>19. RAY * (C + owed) = c + o
    BY <1>1, <1>10
  <1> HIDE DEF a, c, d, d2, e, e2, o, claims, owed
  <1>20. a <= c + o + m * debt
    BY <1>7, <1>10, <1>16, <1>17, <1>18
  <1> QED BY <1>11, <1>19, <1>20 DEF a, claims, owed, m, debt

\* What suppliers are promised is there: for every ray and year, every parameter
\* of the strategies, all amounts up to Rays rays and as many calls and seconds
\* as a ray leaves room for, what the suppliers and the treasury of a reserve
\* hold exceeds what the reserve has by no more than Roundings of units of its
\* debt index, a few units of the smallest denomination a call and a second.
THEOREM SuppliersAreBacked ==
    ASSUME RatesCoverEarnings
    PROVE  CountedSpec /\ []ModestAmounts => []ClaimsBackedUpToRounding
  <1> DEFINE SheetInv == calls \in Nat /\ EarningsCovered /\ RatesAreSet /\ SheetBacked
  <1>1. CountedInit => Init /\ SheetInv
    <2> SUFFICES ASSUME CountedInit PROVE Init /\ SheetInv
      OBVIOUS
    <2>1. Init /\ calls \in Nat
      BY DEF CountedInit
    <2>2. EarningsCovered
      BY <2>1, EarningsFromStart
    <2>3. RatesAreSet
      <3>1. ~(0 > 0)
        OBVIOUS
      <3>2. \A r \in Reserve : reserves[r].currentLiquidityRate = 0
        BY <2>1 DEF Init, InitialReserve
      <3> QED BY <3>1, <3>2 DEF RatesAreSet, RatedOn
    <2>4. SheetBacked
      <3> SUFFICES ASSUME NEW r \in Reserve
                   PROVE  ScaledSupply(r, Promised) * reserves[r].liquidityIndex
                              <= cash[r] * RAY + debtSupply[r] * reserves[r].variableBorrowIndex
                                 + Roundings(calls, reserves[r].lastUpdateTimestamp)
                                       * reserves[r].variableBorrowIndex
        BY DEF SheetBacked
      <3>1. /\ cash[r] = 0 /\ debtSupply[r] = 0 /\ calls = 0
            /\ reserves[r].liquidityIndex = RAY /\ reserves[r].variableBorrowIndex = RAY
            /\ reserves[r].lastUpdateTimestamp = 0
        BY <2>1 DEF CountedInit, Init, InitialReserve
      <3>2. ScaledSupply(r, Promised) = 0
        <4>1. \A h \in Promised : pBalances[r][h] = 0
          BY <2>1, PromisedHolders DEF Init
        <4> QED BY <4>1, PromisedHolders, SumOfZeros DEF ScaledSupply
      <3>3. RAY \in Nat /\ Roundings(0, 0) \in Nat
        BY RAYAssumption, RoundingsGrow
      <3> QED BY <3>1, <3>2, <3>3
    <2> QED BY <2>1, <2>2, <2>3, <2>4
  <1>2. [CountedNext]_<<vars, calls>> => [Next]_vars
    BY DEF CountedNext, Next
  <1>3. /\ TypeOK /\ TypeOK' /\ SheetInv /\ ModestAmounts
        /\ [CountedNext]_<<vars, calls>>
        => SheetInv'
    <2> SUFFICES ASSUME TypeOK, TypeOK', SheetInv, ModestAmounts, [CountedNext]_<<vars, calls>>
                 PROVE  SheetInv'
      OBVIOUS
    <2>1. calls' \in Nat
      BY DEF CountedNext
    <2>2. EarningsCovered'
      BY <1>2, EarningsStep
    <2>3. RatesAreSet'
      BY <1>2, RatesSetStep
    <2>4. SheetBacked'
      BY SheetBackedStep
    <2> QED BY <2>1, <2>2, <2>3, <2>4
  <1>4. TypeOK /\ SheetInv /\ ModestAmounts => ClaimsBackedUpToRounding
    BY SheetShown
  <1> HIDE DEF SheetInv
  <1>5. CountedSpec => Spec
    BY <1>1, <1>2, PTL DEF CountedSpec, Spec
  <1> QED BY <1>1, <1>3, <1>4, <1>5, TypeCorrect, PTL DEF CountedSpec

-----------------------------------------------------------------------------
(***************************************************************************)
(* Suppliers earn whenever borrowers pay, unless what is lent is dust.     *)
(***************************************************************************)

\* What a ray of the reserve earns before the protocol's share is set aside.
Earned(r) ==
    RayMul(OverallBorrowRate(TotalDebt(r), VariableBorrowRate(Utilization(r))), Utilization(r))

\* A reserve that lends has both rates from what it lends now: no call moves
\* underlying or debt and leaves the rates of before.  And the strategy has
\* answered, so percentMul has not refused what is earned as too little.
RatesAreCurrent ==
    \A r \in Reserve :
        debtSupply[r] > 0 =>
            /\ reserves[r].currentVariableBorrowRate = VariableBorrowRate(Utilization(r))
            /\ reserves[r].currentLiquidityRate
                   = PercentMul(Earned(r), PERCENTAGE_FACTOR - ReserveFactor[r])
            /\ PercentMulDefined(Earned(r), PERCENTAGE_FACTOR - ReserveFactor[r])

LEMMA RatesCurrentStep ==
    ASSUME TypeOK, TypeOK', RatesAreCurrent, [Next]_vars
    PROVE  RatesAreCurrent'
  <1>1. CASE UNCHANGED <<reserves, debtSupply, cash>>
    BY <1>1 DEF RatesAreCurrent, Earned, Utilization, TotalDebt
  <1>2. ASSUME NEW r \in Reserve, Refreshed(r) PROVE RatesAreCurrent'
    <2> DEFINE rated == UpdateInterestRates(Accrued(r), cash'[r], debtSupply'[r],
                                            ReserveFactor[r])
               owed == RayMul(debtSupply'[r], Accrued(r).variableBorrowIndex)
               utilization == UtilizationRate(cash'[r], owed)
               borrowRate == VariableBorrowRate(utilization)
               earned == RayMul(OverallBorrowRate(owed, borrowRate), utilization)
               kept == PERCENTAGE_FACTOR - ReserveFactor[r]
    <2>1. /\ reserves'[r] = rated
          /\ rated.variableBorrowIndex = Accrued(r).variableBorrowIndex
          /\ Accrued(r) \in ReserveData
          /\ \A s \in Reserve \ {r} : reserves'[s] = reserves[s]
      BY <1>2, RefreshedSteps
    <2>2. /\ RatesFit(rated)
          /\ RatesDefined(Accrued(r), cash'[r], debtSupply'[r], ReserveFactor[r])
          /\ \A s \in Reserve \ {r} : debtSupply'[s] = debtSupply[s] /\ cash'[s] = cash[s]
      BY <1>2 DEF Refreshed, SetRates, SetReserve
    <2>3. /\ rated.currentVariableBorrowRate = borrowRate
          /\ rated.currentLiquidityRate = PercentMul(earned, kept)
      BY <2>1, <2>2, NewRates
    <2>4. PercentMulDefined(earned, kept)
      BY <2>2 DEF RatesDefined, StrategyRates
    <2>5. TotalDebt(r)' = owed
      BY <2>1 DEF TotalDebt
    <2>6. Utilization(r)' = utilization
      BY <2>5 DEF Utilization
    <2> HIDE DEF rated, owed, utilization
    <2>7. Earned(r)' = earned
      BY <2>5, <2>6, Zenon DEF Earned
    <2> HIDE DEF borrowRate, earned, kept
    <2>8. ASSUME NEW s \in Reserve \ {r}
          PROVE  Utilization(s)' = Utilization(s) /\ Earned(s)' = Earned(s)
      <3>1. TotalDebt(s)' = TotalDebt(s)
        BY <2>1, <2>2 DEF TotalDebt
      <3>2. Utilization(s)' = Utilization(s)
        BY <2>2, <3>1 DEF Utilization
      <3> QED BY <3>1, <3>2, Zenon DEF Earned
    <2>9. ASSUME NEW s \in Reserve, debtSupply'[s] > 0
          PROVE  /\ reserves'[s].currentVariableBorrowRate = VariableBorrowRate(Utilization(s)')
                 /\ reserves'[s].currentLiquidityRate
                        = PercentMul(Earned(s)', PERCENTAGE_FACTOR - ReserveFactor[s])
                 /\ PercentMulDefined(Earned(s)', PERCENTAGE_FACTOR - ReserveFactor[s])
      <3>1. CASE s = r
        BY <2>1, <2>3, <2>4, <2>6, <2>7, <3>1, Zenon DEF borrowRate, kept
      <3>2. CASE s # r
        BY <2>1, <2>2, <2>8, <2>9, <3>2, Zenon DEF RatesAreCurrent
      <3> QED BY <3>1, <3>2
    <2> QED BY <2>9, Zenon DEF RatesAreCurrent
  <1> QED BY <1>1, <1>2, EveryStep

LEMMA CurrentFromStart == Init => RatesAreCurrent
  <1>1. ~(0 > 0)
    OBVIOUS
  <1>2. Init => \A r \in Reserve : debtSupply[r] = 0
    BY DEF Init
  <1> QED BY <1>1, <1>2 DEF RatesAreCurrent

\* What loans that are not dust earn does not round to zero.
LEMMA MoreThanDustEarns ==
    ASSUME NEW totalDebt \in Nat \ {0}, NEW rate \in Nat, NEW utilization \in 0..RAY,
           RAY <= totalDebt * WAD_RAY_RATIO * rate, 2 * RAY <= rate * utilization
    PROVE  /\ RayMul(OverallBorrowRate(totalDebt, rate), utilization) \in Nat
           /\ 1 <= RayMul(OverallBorrowRate(totalDebt, rate), utilization)
  <1> DEFINE overall == OverallBorrowRate(totalDebt, rate)
             half == RAY \div 2
  <1>1. /\ RAY \in Nat \ {0} /\ utilization \in Nat
        /\ half \in Nat /\ RAY <= 2 * half + 1
    BY RAYAssumption, DivBounds
  <1>2. overall \in Nat /\ rate <= 2 * overall
    BY OverallRateBounds
  <1> HIDE DEF overall, half
  <1>3. utilization * rate <= utilization * (2 * overall)
    BY <1>1, <1>2, MulMono
  <1>4. overall * utilization \in Nat /\ RAY <= overall * utilization
    BY <1>1, <1>2, <1>3
  <1>5. 1 * RAY <= overall * utilization + half /\ overall * utilization + half \in Nat
    BY <1>1, <1>4
  <1>6. 1 <= RayMul(overall, utilization)
    BY <1>1, <1>5, DivAtLeast DEF RayMul, half
  <1> QED BY <1>1, <1>2, <1>6, RayMulBounds DEF overall

LEMMA CurrentRatesEarn ==
    ASSUME TypeOK, RatesAreCurrent, \A r \in Reserve : ReserveFactor[r] < PERCENTAGE_FACTOR
    PROVE  EarningsFollowDebts
  <1> SUFFICES ASSUME NEW r \in Reserve, debtSupply[r] > 0, ~LoansAreDust(r)
               PROVE  reserves[r].currentLiquidityRate > 0
    BY DEF EarningsFollowDebts
  <1> DEFINE rate == VariableBorrowRate(Utilization(r))
             kept == PERCENTAGE_FACTOR - ReserveFactor[r]
             earned == Earned(r)
  <1>1. /\ reserves[r].currentVariableBorrowRate = rate
        /\ reserves[r].currentLiquidityRate = PercentMul(earned, kept)
        /\ PercentMulDefined(earned, kept)
    BY DEF RatesAreCurrent
  <1>2. /\ cash[r] \in Nat /\ debtSupply[r] \in Nat \ {0}
        /\ reserves[r].variableBorrowIndex \in Nat /\ RAY <= reserves[r].variableBorrowIndex
        /\ RAY \in Nat \ {0} /\ reserves[r].currentVariableBorrowRate \in Nat
        /\ WAD_RAY_RATIO \in Nat
    BY RAYAssumption, StrategyAssumption DEF TypeOK, ReserveData
  <1>3. TotalDebt(r) \in Nat \ {0}
    <2> DEFINE debt == debtSupply[r]
               index == reserves[r].variableBorrowIndex
    <2>1. debt * index = index * debt /\ debt <= RayMul(index, debt)
      BY <1>2, RayMulGrows
    <2>2. TotalDebt(r) = RayMul(index, debt)
      BY <2>1 DEF TotalDebt, RayMul
    <2>3. RayMul(index, debt) \in Nat
      BY <1>2, RayMulBounds
    <2> HIDE DEF debt, index
    <2>4. debt \in Nat \ {0}
      BY <1>2 DEF debt
    <2> QED BY <2>1, <2>2, <2>3, <2>4
  <1>4. Utilization(r) \in 0..RAY
    BY <1>2, <1>3, UtilizationWithinRay DEF Utilization
  <1>5. ~(TotalDebt(r) * WAD_RAY_RATIO * rate < RAY) /\ ~(rate * Utilization(r) < 2 * RAY)
    BY <1>1, Zenon DEF LoansAreDust
  <1>6. rate \in Nat /\ Utilization(r) \in Nat
    BY <1>1, <1>2, <1>4
  <1> HIDE DEF rate, kept, earned
  <1>7. RAY <= TotalDebt(r) * WAD_RAY_RATIO * rate /\ 2 * RAY <= rate * Utilization(r)
    <2>1. TotalDebt(r) * WAD_RAY_RATIO * rate \in Nat /\ rate * Utilization(r) \in Nat
      BY <1>2, <1>3, <1>6
    <2> QED BY <1>2, <1>5, <2>1
  <1>8. earned \in Nat /\ 1 <= earned
    BY <1>3, <1>4, <1>6, <1>7, MoreThanDustEarns DEF Earned, earned, rate
  <1>9. kept \in Nat \ {0}
    <2>1. kept \in Nat /\ ReserveFactor[r] \in Nat /\ ReserveFactor[r] < PERCENTAGE_FACTOR
      BY FactorKept DEF kept
    <2> QED BY <2>1 DEF kept, PERCENTAGE_FACTOR
  <1>10. PERCENTAGE_FACTOR < earned * kept /\ earned * kept \in Nat
    BY <1>1, <1>8, <1>9 DEF PercentMulDefined
  <1>11. 1 <= PercentMul(earned, kept) /\ PercentMul(earned, kept) \in Nat
    <2> DEFINE product == earned * kept
    <2>1. product \in Nat /\ 1 * PERCENTAGE_FACTOR <= product /\ PERCENTAGE_FACTOR \in Nat \ {0}
      BY <1>10 DEF PERCENTAGE_FACTOR
    <2> HIDE DEF product
    <2>2. 1 <= product \div PERCENTAGE_FACTOR /\ product \div PERCENTAGE_FACTOR \in Nat
      BY <2>1, DivAtLeast, DivBounds
    <2> QED BY <2>2 DEF PercentMul, product
  <1> QED BY <1>1, <1>11

\* The rates that accrue are those of the loans there are, after every call and
\* for any parameters, so that suppliers earn whenever borrowers pay and the loans
\* are not dust: neither the roundings of the overall rate nor those of
\* percentMul, which refuses rather than answer zero, lose what they earn.
THEOREM EarningsReachSuppliers ==
    ASSUME \A r \in Reserve : ReserveFactor[r] < PERCENTAGE_FACTOR
    PROVE  Spec => []EarningsFollowDebts
  <1>1. TypeOK /\ TypeOK' /\ RatesAreCurrent /\ [Next]_vars => RatesAreCurrent'
    BY RatesCurrentStep
  <1>2. TypeOK /\ RatesAreCurrent => EarningsFollowDebts
    BY CurrentRatesEarn
  <1> QED BY <1>1, <1>2, CurrentFromStart, TypeCorrect, PTL DEF Spec

\* So what a token stands for never falls, pToken or debt token, unless the debt
\* is dust: for all parameters but a factor that leaves the suppliers nothing.
THEOREM ReportsOfLoansNeverFall ==
    ASSUME \A r \in Reserve : ReserveFactor[r] < PERCENTAGE_FACTOR
    PROVE  Spec => ReportedIndexesNeverFall
  <1> QED BY EarningsReachSuppliers, ReportsNeverFall, PTL

=============================================================================
