--------------------------- MODULE CounterProofs ---------------------------
(***************************************************************************)
(* Proofs about the lending pool, for any users, reserves, parameters,     *)
(* rates and size of a ray.                                                *)
(***************************************************************************)
EXTENDS CounterProperties, FixedPointProofs

-----------------------------------------------------------------------------
(***************************************************************************)
(* Lemmas about one reserve.                                               *)
(***************************************************************************)

\* The views are numbers of at least one ray.
LEMMA ViewsAtLeastRay ==
    ASSUME NEW reserve \in ReserveData, NEW t \in Nat,
           reserve.lastUpdateTimestamp <= t
    PROVE  /\ NormalizedIncome(reserve, t) \in Nat
           /\ NormalizedDebt(reserve, t) \in Nat
           /\ RAY <= NormalizedIncome(reserve, t)
           /\ RAY <= NormalizedDebt(reserve, t)
  <1> DEFINE elapsed == t - reserve.lastUpdateTimestamp
             linear == LinearInterest(reserve.currentLiquidityRate, elapsed)
             compounded == CompoundedInterest(reserve.currentVariableBorrowRate, elapsed)
  <1>1. /\ RAY \in Nat /\ MaxIndex \in Nat /\ MaxTime \in Nat
        /\ reserve.liquidityIndex \in Nat /\ RAY <= reserve.liquidityIndex
        /\ reserve.variableBorrowIndex \in Nat /\ RAY <= reserve.variableBorrowIndex
        /\ reserve.currentLiquidityRate \in Nat
        /\ reserve.currentVariableBorrowRate \in Nat
        /\ elapsed \in Nat
    BY RAYAssumption, StrategyAssumption, CounterInputAssumption DEF ReserveData
  <1>2. linear \in Nat /\ RAY <= linear /\ compounded \in Nat /\ RAY <= compounded
    BY <1>1, LinearAtLeastRay, CompoundedAtLeastRay
  <1> HIDE DEF linear, compounded
  <1>3. /\ RayMul(linear, reserve.liquidityIndex) \in Nat
        /\ reserve.liquidityIndex <= RayMul(linear, reserve.liquidityIndex)
    BY <1>1, <1>2, RayMulBounds, RayMulGrows
  <1>4. /\ RayMul(compounded, reserve.variableBorrowIndex) \in Nat
        /\ reserve.variableBorrowIndex <= RayMul(compounded, reserve.variableBorrowIndex)
    BY <1>1, <1>2, RayMulBounds, RayMulGrows
  <1> QED BY <1>1, <1>3, <1>4 DEF NormalizedIncome, NormalizedDebt, linear, compounded

\* Bringing a reserve up to date moves no index down, and the borrow index no
\* further than the view of the debt token has already moved.
LEMMA UpdateIndexesSteps ==
    ASSUME NEW reserve \in ReserveData, NEW t \in 0..MaxTime, NEW scaledDebt,
           reserve.lastUpdateTimestamp <= t,
           NEW after, after = UpdateIndexes(reserve, scaledDebt, t), IndexesFit(after)
    PROVE  /\ after \in ReserveData
           /\ after.lastUpdateTimestamp = t
           /\ reserve.liquidityIndex <= after.liquidityIndex
           /\ reserve.variableBorrowIndex <= after.variableBorrowIndex
           /\ after.variableBorrowIndex <= NormalizedDebt(reserve, t)
  <1> DEFINE elapsed == t - reserve.lastUpdateTimestamp
             linear == LinearInterest(reserve.currentLiquidityRate, elapsed)
             compounded == CompoundedInterest(reserve.currentVariableBorrowRate, elapsed)
             newIndex == RayMul(linear, reserve.liquidityIndex)
             newDebtIndex == RayMul(compounded, reserve.variableBorrowIndex)
             a == IF reserve.currentLiquidityRate > 0
                  THEN newIndex ELSE reserve.liquidityIndex
             b == IF reserve.currentLiquidityRate > 0 /\ scaledDebt # 0
                  THEN newDebtIndex ELSE reserve.variableBorrowIndex
  <1>1. /\ RAY \in Nat /\ MaxIndex \in Nat /\ MaxTime \in Nat
        /\ reserve.liquidityIndex \in Nat /\ RAY <= reserve.liquidityIndex
        /\ reserve.variableBorrowIndex \in Nat /\ RAY <= reserve.variableBorrowIndex
        /\ reserve.currentLiquidityRate \in Nat
        /\ reserve.currentVariableBorrowRate \in Nat
        /\ elapsed \in Nat
    BY RAYAssumption, StrategyAssumption, CounterInputAssumption DEF ReserveData
  <1>2. linear \in Nat /\ RAY <= linear /\ compounded \in Nat /\ RAY <= compounded
    BY <1>1, LinearAtLeastRay, CompoundedAtLeastRay
  <1>3. elapsed = 0 => compounded = RAY
    BY DEF CompoundedInterest
  <1>4. after = [reserve EXCEPT !.liquidityIndex = a,
                                !.variableBorrowIndex = b,
                                !.lastUpdateTimestamp = t]
    BY Zenon DEF UpdateIndexes
  <1>5. NormalizedDebt(reserve, t) =
            IF elapsed = 0 THEN reserve.variableBorrowIndex ELSE newDebtIndex
    BY <1>1 DEF NormalizedDebt, ReserveData
  <1> HIDE DEF linear, compounded, a, b
  <1>6. /\ after.liquidityIndex = a
        /\ after.variableBorrowIndex = b
        /\ after.lastUpdateTimestamp = t
        /\ a \in RAY..MaxIndex /\ b \in RAY..MaxIndex => after \in ReserveData
    BY <1>4 DEF ReserveData
  <1>7. newIndex \in Nat /\ reserve.liquidityIndex <= newIndex
    BY <1>1, <1>2, RayMulBounds, RayMulGrows
  <1>8. newDebtIndex \in Nat /\ reserve.variableBorrowIndex <= newDebtIndex
    BY <1>1, <1>2, RayMulBounds, RayMulGrows
  <1>9. elapsed = 0 => newDebtIndex = reserve.variableBorrowIndex
    BY <1>1, <1>3, RayMulOne
  <1>10. after.liquidityIndex \in 0..MaxIndex /\ after.variableBorrowIndex \in 0..MaxIndex
    BY DEF IndexesFit
  <1> HIDE DEF newIndex, newDebtIndex, elapsed
  <1>11. /\ reserve.liquidityIndex <= a
         /\ reserve.variableBorrowIndex <= b
         /\ b <= NormalizedDebt(reserve, t)
    BY <1>1, <1>5, <1>7, <1>8, <1>9 DEF a, b
  <1>12. a \in RAY..MaxIndex /\ b \in RAY..MaxIndex
    BY <1>1, <1>6, <1>10, <1>11
  <1> QED BY <1>6, <1>11, <1>12

\* New rates leave the rest of a reserve alone.
LEMMA UpdateInterestRatesSteps ==
    ASSUME NEW reserve \in ReserveData, NEW liquidity, NEW scaledDebt, NEW factor,
           RatesFit(UpdateInterestRates(reserve, liquidity, scaledDebt, factor))
    PROVE  LET after == UpdateInterestRates(reserve, liquidity, scaledDebt, factor)
           IN  /\ after \in ReserveData
               /\ after.variableBorrowIndex = reserve.variableBorrowIndex
               /\ after.liquidityIndex = reserve.liquidityIndex
               /\ after.lastUpdateTimestamp = reserve.lastUpdateTimestamp
  <1> DEFINE after == UpdateInterestRates(reserve, liquidity, scaledDebt, factor)
             rates == StrategyRates(liquidity, RayMul(scaledDebt, reserve.variableBorrowIndex))
             rate == rates.borrowRate
             supplyRate == PercentMul(rates.earned, PERCENTAGE_FACTOR - factor)
  <1>1. after = [reserve EXCEPT !.currentVariableBorrowRate = rate,
                                !.currentLiquidityRate = supplyRate]
    BY Zenon DEF UpdateInterestRates
  <1>2. /\ after.currentLiquidityRate \in 0..MaxIndex
        /\ after.currentVariableBorrowRate \in 0..MaxIndex
    BY DEF RatesFit
  <1> HIDE DEF after, rate, supplyRate
  <1>3. /\ after.currentVariableBorrowRate = rate
        /\ after.currentLiquidityRate = supplyRate
        /\ after.liquidityIndex = reserve.liquidityIndex
        /\ after.variableBorrowIndex = reserve.variableBorrowIndex
        /\ after.lastUpdateTimestamp = reserve.lastUpdateTimestamp
        /\ /\ rate \in 0..MaxIndex
           /\ supplyRate \in 0..MaxIndex
           => after \in ReserveData
    BY <1>1 DEF ReserveData
  <1> QED BY <1>2, <1>3 DEF after

-----------------------------------------------------------------------------
(***************************************************************************)
(* Lemmas about what every entry point does to a reserve.                  *)
(***************************************************************************)

LEMMA ReserveType ==
    ASSUME TypeOK, NEW r \in Reserve
    PROVE  /\ reserves[r] \in ReserveData
           /\ now \in 0..MaxTime /\ now \in Nat
           /\ reserves[r].lastUpdateTimestamp <= now
  BY CounterInputAssumption DEF TypeOK

\* A reserve brought up to date.
LEMMA AccruedSteps ==
    ASSUME TypeOK, NEW r \in Reserve, AccrualDefined(r)
    PROVE  /\ Accrued(r) \in ReserveData
           /\ Accrued(r).lastUpdateTimestamp = now
           /\ reserves[r].variableBorrowIndex <= Accrued(r).variableBorrowIndex
           /\ Accrued(r).variableBorrowIndex <= NormalizedDebt(reserves[r], now)
  <1>1. /\ reserves[r] \in ReserveData /\ now \in 0..MaxTime
        /\ reserves[r].lastUpdateTimestamp <= now
    BY ReserveType
  <1>2. /\ Accrued(r) = UpdateIndexes(reserves[r], debtSupply[r], now)
        /\ IndexesFit(Accrued(r))
    BY DEF Accrued, AccrualDefined
  <1> HIDE DEF Accrued
  <1>3. \A after : after = UpdateIndexes(reserves[r], debtSupply[r], now)
                   /\ IndexesFit(after) =>
            /\ after \in ReserveData
            /\ after.lastUpdateTimestamp = now
            /\ reserves[r].variableBorrowIndex <= after.variableBorrowIndex
            /\ after.variableBorrowIndex <= NormalizedDebt(reserves[r], now)
    BY <1>1, UpdateIndexesSteps
  <1> QED BY <1>2, <1>3

\* The protocol's share goes to nobody who calls, and is not negative.
LEMMA ShareMinted ==
    ASSUME TypeOK, NEW r \in Reserve, AccrualDefined(r)
    PROVE  /\ BalancesAfterAccrual(r) \in [Holder -> Nat]
           /\ \A u \in User : BalancesAfterAccrual(r)[u] = pBalances[r][u]
  <1> DEFINE oldIndex == reserves[r].variableBorrowIndex
             newIndex == Accrued(r).variableBorrowIndex
             liquidityIndex == Accrued(r).liquidityIndex
             interest == InterestAccrued(r)
             share == PercentMul(interest, ReserveFactor[r])
             minted == RayDiv(share, liquidityIndex)
  <1>1. /\ oldIndex \in Nat /\ newIndex \in Nat /\ oldIndex <= newIndex
        /\ liquidityIndex \in Nat \ {0}
    BY ReserveType, AccruedSteps, RAYAssumption, StrategyAssumption DEF ReserveData
  <1>2. debtSupply[r] \in Nat
    BY DEF TypeOK
  <1> HIDE DEF oldIndex, newIndex, liquidityIndex
  <1>3. /\ RayMul(debtSupply[r], newIndex) \in Nat
        /\ RayMul(debtSupply[r], oldIndex) \in Nat
        /\ RayMul(debtSupply[r], oldIndex) <= RayMul(debtSupply[r], newIndex)
    BY <1>1, <1>2, RayMulBounds, RayMulMono
  <1>4. interest \in Nat
    BY <1>3 DEF InterestAccrued, DebtAccrued, oldIndex, newIndex
  <1>5. ReserveFactor[r] \in Nat
    <2>1. ReserveFactor \in [Reserve -> 0..PERCENTAGE_FACTOR]
      BY CounterAssumption
    <2>2. ReserveFactor[r] \in 0..PERCENTAGE_FACTOR
      BY <2>1
    <2>3. \A bps \in 0..PERCENTAGE_FACTOR : bps \in Nat
      BY DEF PERCENTAGE_FACTOR
    <2> QED BY <2>2, <2>3
  <1> HIDE DEF interest
  <1>6. interest * ReserveFactor[r] \in Nat
    BY <1>4, <1>5
  <1>7. share \in Nat
    BY <1>6, DivBounds DEF PercentMul, PERCENTAGE_FACTOR
  <1> HIDE DEF share
  <1>8. minted \in Nat
    BY <1>1, <1>7, RayDivBounds
  <1> HIDE DEF minted
  <1>9. BalancesAfterAccrual(r) =
            [pBalances[r] EXCEPT ![Treasury] = @ + minted, ![CrtVault] = @ + minted]
    BY DEF BalancesAfterAccrual, minted, share, interest, liquidityIndex
  <1>10. pBalances[r] \in [Holder -> Nat]
    BY DEF TypeOK
  <1>11. Treasury \in Holder /\ CrtVault \in Holder
    BY DEF Holder
  <1>12. \A u \in User : u # Treasury /\ u # CrtVault /\ u \in Holder
    BY CounterAssumption DEF Holder
  <1> QED BY <1>8, <1>9, <1>10, <1>11, <1>12

\* What an entry point stores back.
LEMMA StoredReserve ==
    ASSUME TypeOK, NEW r \in Reserve, AccrualDefined(r), NEW liquidity, NEW scaledDebt,
           now' = now,
           SetRates(r, liquidity, scaledDebt)
    PROVE  /\ reserves' \in [Reserve -> ReserveData]
           /\ \A s \in Reserve : reserves'[s].lastUpdateTimestamp <= now'
           /\ reserves'[r].variableBorrowIndex = Accrued(r).variableBorrowIndex
  <1> DEFINE stored == UpdateInterestRates(Accrued(r), liquidity, scaledDebt,
                                           ReserveFactor[r])
  <1>1. RatesFit(stored) /\ reserves' = [reserves EXCEPT ![r] = stored]
    BY DEF SetRates, SetReserve
  <1>2. /\ stored \in ReserveData
        /\ stored.variableBorrowIndex = Accrued(r).variableBorrowIndex
        /\ stored.lastUpdateTimestamp = now
    BY <1>1, AccruedSteps, UpdateInterestRatesSteps
  <1> HIDE DEF stored
  <1>3. now \in Nat
    BY ReserveType
  <1> QED BY <1>1, <1>2, <1>3 DEF TypeOK

\* Amounts that are minted or burned at an index of at least one ray.
LEMMA ScaledAmount ==
    ASSUME TypeOK, NEW r \in Reserve, AccrualDefined(r), NEW amount \in Nat
    PROVE  /\ RayDiv(amount, Accrued(r).liquidityIndex) \in Nat
           /\ RayDiv(amount, Accrued(r).variableBorrowIndex) \in Nat
  <1>1. /\ Accrued(r).liquidityIndex \in Nat \ {0}
        /\ Accrued(r).variableBorrowIndex \in Nat \ {0}
    BY AccruedSteps, RAYAssumption, StrategyAssumption DEF ReserveData
  <1> QED BY <1>1, RayDivBounds

\* What the token views report.
LEMMA ViewType ==
    ASSUME TypeOK, NEW r \in Reserve
    PROVE  /\ \A h \in Holder : BalanceOf(r, h) \in Nat
           /\ \A u \in User : DebtOf(r, u) \in Nat
           /\ NormalizedIncome(reserves[r], now) \in Nat \ {0}
           /\ NormalizedDebt(reserves[r], now) \in Nat \ {0}
  <1>1. /\ NormalizedIncome(reserves[r], now) \in Nat \ {0}
        /\ NormalizedDebt(reserves[r], now) \in Nat \ {0}
    BY ReserveType, ViewsAtLeastRay, RAYAssumption
  <1>2. \A h \in Holder : pBalances[r][h] \in Nat
    BY DEF TypeOK
  <1>3. \A u \in User : debts[r][u] \in Nat
    BY DEF TypeOK
  <1> QED BY <1>1, <1>2, <1>3, RayMulBounds DEF BalanceOf, DebtOf

\* Locking for a loan and releasing after a repayment move CRT between the two
\* halves of one account.
LEMMA LockCreditSteps ==
    ASSUME TypeOK, NEW borrower \in User, NEW credit, LockCredit(borrower, credit)
    PROVE  /\ crtBalance' \in [User -> Nat]
           /\ crtLocked' \in [User -> Nat]
           /\ crtValue' \in [User -> Nat]
           /\ \A u \in User : crtBalance'[u] + crtLocked'[u] = crtBalance[u] + crtLocked[u]
  <1>1. CASE credit.need = 0
    BY <1>1 DEF LockCredit, crtVars, TypeOK
  <1>2. CASE credit.need # 0
    <2> DEFINE need == credit.need
               value == credit.value
    <2>1. /\ need \in Nat /\ value \in Nat
          /\ crtBalance[borrower] >= need
          /\ crtBalance' = [crtBalance EXCEPT ![borrower] = @ - need]
          /\ crtLocked' = [crtLocked EXCEPT ![borrower] = @ + need]
          /\ crtValue' = [crtValue EXCEPT ![borrower] = @ + value]
      BY <1>2 DEF LockCredit, Crt!LockCRT
    <2> HIDE DEF need, value
    <2> QED BY <2>1 DEF TypeOK
  <1> QED BY <1>1, <1>2

LEMMA ReleaseCreditSteps ==
    ASSUME TypeOK, NEW payer \in User, NEW release, ReleaseCredit(payer, release)
    PROVE  /\ crtBalance' \in [User -> Nat]
           /\ crtLocked' \in [User -> Nat]
           /\ crtValue' \in [User -> Nat]
           /\ \A u \in User : crtBalance'[u] + crtLocked'[u] = crtBalance[u] + crtLocked[u]
  <1>1. CASE release.idle = 0
    BY <1>1 DEF ReleaseCredit, crtVars, TypeOK
  <1>2. CASE release.idle # 0
    <2> DEFINE idle == release.idle
               value == release.value
    <2>1. /\ idle \in Nat /\ value \in Nat
          /\ crtLocked[payer] >= idle
          /\ crtBalance' = [crtBalance EXCEPT ![payer] = @ + idle]
          /\ crtLocked' = [crtLocked EXCEPT ![payer] = @ - idle]
          /\ crtValue' = [crtValue EXCEPT ![payer] = value]
      BY <1>2 DEF ReleaseCredit, Crt!UnlockCRT
    <2> HIDE DEF idle, value
    <2> QED BY <2>1 DEF TypeOK
  <1> QED BY <1>1, <1>2

-----------------------------------------------------------------------------
(***************************************************************************)
(* Type correctness, one lemma per entry point that moves tokens.          *)
(***************************************************************************)

LEMMA InitType == Init => TypeOK
  <1> SUFFICES ASSUME Init PROVE TypeOK
    OBVIOUS
  <1>1. /\ InitialWallet \in [Asset -> [User -> Nat]]
        /\ InitialCrt \in [User -> Nat]
        /\ InitialPrice \in [Asset -> Nat \ {0}]
    BY CounterAssumption
  <1>2. InitialReserve \in ReserveData
    BY RAYAssumption, StrategyAssumption, CounterInputAssumption
       DEF InitialReserve, ReserveData
  <1>3. /\ now = 0 /\ 0 \in 0..MaxTime
        /\ \A r \in Reserve : reserves[r].lastUpdateTimestamp = 0
    BY CounterInputAssumption DEF Init, InitialReserve
  <1>4. reserves \in [Reserve -> ReserveData]
    BY <1>2 DEF Init
  <1>5. /\ pBalances \in [Reserve -> [Holder -> Nat]]
        /\ debts \in [Reserve -> [User -> Nat]]
        /\ debtSupply \in [Reserve -> Nat]
        /\ cash \in [Reserve -> Nat]
        /\ borrowAllowances \in [Reserve -> [User -> [User -> Nat]]]
    BY DEF Init
  <1>6. /\ usingAsCollateral \in [User -> SUBSET Reserve]
        /\ borrowing \in [User -> SUBSET Reserve]
        /\ frozen \subseteq Freezable
        /\ paused \in BOOLEAN
    BY DEF Init
  <1>7. /\ wallets \in [Asset -> [User -> Nat]]
        /\ crtBalance \in [User -> Nat]
        /\ crtLocked \in [User -> Nat]
        /\ crtValue \in [User -> Nat]
        /\ prices \in [Asset -> Nat \ {0}]
    BY <1>1 DEF Init
  <1> QED BY <1>3, <1>4, <1>5, <1>6, <1>7 DEF TypeOK

LEMMA DepositType ==
    ASSUME TypeOK, NEW user \in User, NEW r \in Reserve, NEW amount \in Nat,
           NEW onBehalfOf \in User, Deposit(user, r, amount, onBehalfOf)
    PROVE  TypeOK'
  <1> DEFINE minted == RayDiv(amount, Accrued(r).liquidityIndex)
             held == BalancesAfterAccrual(r)
  <1>1. /\ AccrualDefined(r)
        /\ wallets[AssetOf(r)][user] >= amount
        /\ SetRates(r, cash[r] + amount, debtSupply[r])
        /\ wallets' = [wallets EXCEPT ![AssetOf(r)][user] = @ - amount]
        /\ cash' = [cash EXCEPT ![r] = @ + amount]
        /\ pBalances' = [pBalances EXCEPT ![r] = [held EXCEPT ![onBehalfOf] = @ + minted]]
        /\ usingAsCollateral' =
               IF pBalances[r][onBehalfOf] = 0
               THEN [usingAsCollateral EXCEPT ![onBehalfOf] = @ \cup {r}]
               ELSE usingAsCollateral
        /\ UNCHANGED <<now, debts, debtSupply, borrowing, crtBalance, crtLocked,
                       crtValue, borrowAllowances, prices, frozen, paused>>
    BY DEF Deposit, crtVars, adminVars
  <1>2. minted \in Nat
    BY <1>1, ScaledAmount
  <1>3. held \in [Holder -> Nat] /\ onBehalfOf \in Holder
    BY <1>1, ShareMinted DEF Holder
  <1>4. /\ reserves' \in [Reserve -> ReserveData]
        /\ \A s \in Reserve : reserves'[s].lastUpdateTimestamp <= now'
    BY <1>1, StoredReserve
  <1> HIDE DEF minted, held
  <1>5. pBalances' \in [Reserve -> [Holder -> Nat]]
    BY <1>1, <1>2, <1>3 DEF TypeOK
  <1>6. AssetOf(r) \in Asset
    BY DEF Asset
  <1>7. wallets' \in [Asset -> [User -> Nat]] /\ cash' \in [Reserve -> Nat]
    BY <1>1, <1>6 DEF TypeOK
  <1>8. usingAsCollateral' \in [User -> SUBSET Reserve]
    BY <1>1 DEF TypeOK
  <1> QED BY <1>1, <1>4, <1>5, <1>7, <1>8 DEF TypeOK

LEMMA WithdrawType ==
    ASSUME TypeOK, NEW user \in User, NEW r \in Reserve, NEW requested \in Nat,
           NEW to \in User, Withdraw(user, r, requested, to)
    PROVE  TypeOK'
  <1> DEFINE balance == BalanceOf(r, user)
             amount == IF requested = MaxAmount THEN balance ELSE requested
             burned == RayDiv(amount, Accrued(r).liquidityIndex)
             held == BalancesAfterAccrual(r)
  <1>1. /\ AccrualDefined(r)
        /\ cash[r] >= amount
        /\ pBalances[r][user] >= burned
        /\ SetRates(r, cash[r] - amount, debtSupply[r])
        /\ usingAsCollateral' =
               IF amount = balance
               THEN [usingAsCollateral EXCEPT ![user] = @ \ {r}]
               ELSE usingAsCollateral
        /\ pBalances' = [pBalances EXCEPT ![r] = [held EXCEPT ![user] = @ - burned]]
        /\ cash' = [cash EXCEPT ![r] = @ - amount]
        /\ wallets' = [wallets EXCEPT ![AssetOf(r)][to] = @ + amount]
        /\ UNCHANGED <<now, debts, debtSupply, borrowing, crtBalance, crtLocked,
                       crtValue, borrowAllowances, prices, frozen, paused>>
    BY DEF Withdraw, crtVars, adminVars
  <1>2. balance \in Nat
    BY ViewType DEF Holder
  <1>3. amount \in Nat
    BY <1>2
  <1> HIDE DEF balance, amount
  <1>4. burned \in Nat
    BY <1>1, <1>3, ScaledAmount
  <1>5. /\ held \in [Holder -> Nat] /\ user \in Holder
        /\ held[user] = pBalances[r][user]
    BY <1>1, ShareMinted DEF Holder
  <1>6. /\ reserves' \in [Reserve -> ReserveData]
        /\ \A s \in Reserve : reserves'[s].lastUpdateTimestamp <= now'
    BY <1>1, StoredReserve
  <1> HIDE DEF burned, held
  <1>7. pBalances' \in [Reserve -> [Holder -> Nat]]
    BY <1>1, <1>4, <1>5 DEF TypeOK
  <1>8. AssetOf(r) \in Asset
    BY DEF Asset
  <1>9. wallets' \in [Asset -> [User -> Nat]] /\ cash' \in [Reserve -> Nat]
    BY <1>1, <1>3, <1>8 DEF TypeOK
  <1>10. usingAsCollateral' \in [User -> SUBSET Reserve]
    BY <1>1 DEF TypeOK
  <1> QED BY <1>1, <1>6, <1>7, <1>9, <1>10 DEF TypeOK

LEMMA BorrowType ==
    ASSUME TypeOK, NEW user \in User, NEW r \in Reserve, NEW amount \in Nat,
           NEW onBehalfOf \in User, NEW crtenable \in BOOLEAN,
           Borrow(user, r, amount, onBehalfOf, crtenable)
    PROVE  TypeOK'
  <1> DEFINE minted == RayDiv(amount, Accrued(r).variableBorrowIndex)
  <1>1. /\ AccrualDefined(r)
        /\ cash[r] >= amount
        /\ UseBorrowAllowance(user, r, amount, onBehalfOf)
        /\ debts' = [debts EXCEPT ![r][onBehalfOf] = @ + minted]
        /\ borrowing' =
               IF debts[r][onBehalfOf] = 0
               THEN [borrowing EXCEPT ![onBehalfOf] = @ \cup {r}]
               ELSE borrowing
        /\ debtSupply' = [debtSupply EXCEPT ![r] = @ + minted]
        /\ SetRates(r, cash[r] - amount, debtSupply[r] + minted)
        /\ pBalances' = [pBalances EXCEPT ![r] = BalancesAfterAccrual(r)]
        /\ cash' = [cash EXCEPT ![r] = @ - amount]
        /\ wallets' = [wallets EXCEPT ![AssetOf(r)][user] = @ + amount]
        /\ UNCHANGED <<now, usingAsCollateral, prices, frozen, paused>>
    BY DEF Borrow, MintDebt, adminVars
  <1>2. \E credit : LockCredit(onBehalfOf, credit)
    BY DEF Borrow
  <1>3. /\ crtBalance' \in [User -> Nat]
        /\ crtLocked' \in [User -> Nat]
        /\ crtValue' \in [User -> Nat]
    BY <1>2, LockCreditSteps
  <1>4. minted \in Nat
    BY <1>1, ScaledAmount
  <1>5. /\ reserves' \in [Reserve -> ReserveData]
        /\ \A s \in Reserve : reserves'[s].lastUpdateTimestamp <= now'
    BY <1>1, StoredReserve
  <1>6. pBalances' \in [Reserve -> [Holder -> Nat]]
    BY <1>1, ShareMinted DEF TypeOK
  <1> HIDE DEF minted
  <1>7. debts' \in [Reserve -> [User -> Nat]] /\ debtSupply' \in [Reserve -> Nat]
    BY <1>1, <1>4 DEF TypeOK
  <1>8. AssetOf(r) \in Asset
    BY DEF Asset
  <1>9. wallets' \in [Asset -> [User -> Nat]] /\ cash' \in [Reserve -> Nat]
    BY <1>1, <1>8 DEF TypeOK
  <1>10. borrowing' \in [User -> SUBSET Reserve]
    BY <1>1 DEF TypeOK
  <1>11. borrowAllowances' \in [Reserve -> [User -> [User -> Nat]]]
    <2>1. CASE user = onBehalfOf
      BY <1>1, <2>1 DEF UseBorrowAllowance, TypeOK
    <2>2. CASE user # onBehalfOf
      <3> DEFINE given == borrowAllowances[r]
                 left == given[onBehalfOf][user] - amount
                 row == [given[onBehalfOf] EXCEPT ![user] = left]
      <3>1. given \in [User -> [User -> Nat]]
        BY DEF TypeOK
      <3>2. /\ given[onBehalfOf][user] >= amount
            /\ borrowAllowances' =
                   [borrowAllowances EXCEPT ![r] = [given EXCEPT ![onBehalfOf] = row]]
        BY <1>1, <2>2 DEF UseBorrowAllowance
      <3> HIDE DEF given
      <3>3. left \in Nat
        BY <3>1, <3>2
      <3> HIDE DEF left
      <3>4. row \in [User -> Nat]
        BY <3>1, <3>3
      <3> HIDE DEF row
      <3>5. [given EXCEPT ![onBehalfOf] = row] \in [User -> [User -> Nat]]
        BY <3>1, <3>4
      <3> QED BY <3>2, <3>5 DEF TypeOK
    <2> QED BY <2>1, <2>2
  <1> QED BY <1>1, <1>3, <1>5, <1>6, <1>7, <1>9, <1>10, <1>11 DEF TypeOK

LEMMA RepayType ==
    ASSUME TypeOK, NEW user \in User, NEW r \in Reserve, NEW requested \in Nat,
           NEW onBehalfOf \in User, Repay(user, r, requested, onBehalfOf)
    PROVE  TypeOK'
  <1> DEFINE variableDebt == DebtOf(r, onBehalfOf)
             amount == IF requested < variableDebt THEN requested ELSE variableDebt
             burned == DebtBurned(r, amount)
  <1>1. /\ AccrualDefined(r)
        /\ debtSupply[r] >= burned
        /\ debts[r][onBehalfOf] >= burned
        /\ wallets[AssetOf(r)][user] >= amount
        /\ debts' = [debts EXCEPT ![r][onBehalfOf] = @ - burned]
        /\ debtSupply' = [debtSupply EXCEPT ![r] = @ - burned]
        /\ SetRates(r, cash[r] + amount, debtSupply[r] - burned)
        /\ pBalances' = [pBalances EXCEPT ![r] = BalancesAfterAccrual(r)]
        /\ borrowing' = BorrowingAfterRepay(r, onBehalfOf, amount, variableDebt)
        /\ wallets' = [wallets EXCEPT ![AssetOf(r)][user] = @ - amount]
        /\ cash' = [cash EXCEPT ![r] = @ + amount]
        /\ UNCHANGED <<now, usingAsCollateral, borrowAllowances, prices, frozen, paused>>
    BY DEF Repay, BurnDebt, adminVars
  <1>2. \E release : ReleaseCredit(user, release)
    BY DEF Repay
  <1>3. /\ crtBalance' \in [User -> Nat]
        /\ crtLocked' \in [User -> Nat]
        /\ crtValue' \in [User -> Nat]
    BY <1>2, ReleaseCreditSteps
  <1>4. variableDebt \in Nat
    BY ViewType
  <1>5. amount \in Nat
    BY <1>4
  <1> HIDE DEF variableDebt, amount
  <1>6. burned \in Nat
    BY <1>1, <1>5, ScaledAmount DEF DebtBurned
  <1>7. /\ reserves' \in [Reserve -> ReserveData]
        /\ \A s \in Reserve : reserves'[s].lastUpdateTimestamp <= now'
    BY <1>1, StoredReserve
  <1>8. pBalances' \in [Reserve -> [Holder -> Nat]]
    BY <1>1, ShareMinted DEF TypeOK
  <1> HIDE DEF burned
  <1>9. debts' \in [Reserve -> [User -> Nat]] /\ debtSupply' \in [Reserve -> Nat]
    BY <1>1, <1>6 DEF TypeOK
  <1>10. AssetOf(r) \in Asset
    BY DEF Asset
  <1>11. wallets' \in [Asset -> [User -> Nat]] /\ cash' \in [Reserve -> Nat]
    BY <1>1, <1>5, <1>10 DEF TypeOK
  <1>12. borrowing' \in [User -> SUBSET Reserve]
    BY <1>1 DEF BorrowingAfterRepay, TypeOK
  <1> QED BY <1>1, <1>3, <1>7, <1>8, <1>9, <1>11, <1>12 DEF TypeOK

LEMMA PTransferType ==
    ASSUME TypeOK, NEW from \in User, NEW r \in Reserve, NEW amount \in Nat,
           NEW to \in User, PTransfer(from, r, amount, to)
    PROVE  TypeOK'
  <1> DEFINE scaled == RayDiv(amount, NormalizedIncome(reserves[r], now))
  <1>1. /\ pBalances[r][from] >= scaled
        /\ usingAsCollateral' = UsingAfterTransfer(r, from, to, amount)
        /\ pBalances' = Moved(r, from, scaled, to)
        /\ UNCHANGED <<now, reserves, debts, debtSupply, cash, wallets, borrowing,
                       crtBalance, crtLocked, crtValue, borrowAllowances, prices,
                       frozen, paused>>
    BY DEF PTransfer, FinalizeTransfer, crtVars, adminVars
  <1>2. scaled \in Nat
    BY ViewType, RayDivBounds
  <1> HIDE DEF scaled
  <1>3. from \in Holder /\ to \in Holder
    BY DEF Holder
  <1>4. pBalances' \in [Reserve -> [Holder -> Nat]]
    <2> DEFINE sent == [pBalances[r] EXCEPT ![from] = @ - scaled]
               row == [sent EXCEPT ![to] = @ + scaled]
    <2>1. pBalances[r] \in [Holder -> Nat]
      BY DEF TypeOK
    <2>2. sent \in [Holder -> Nat]
      BY <1>1, <1>2, <1>3, <2>1
    <2>3. row \in [Holder -> Nat]
      BY <1>2, <1>3, <2>2
    <2>4. pBalances' = [pBalances EXCEPT ![r] = row]
      BY <1>1 DEF Moved
    <2> QED BY <2>3, <2>4 DEF TypeOK
  <1>5. usingAsCollateral' \in [User -> SUBSET Reserve]
    BY <1>1 DEF UsingAfterTransfer, TypeOK
  <1> QED BY <1>1, <1>4, <1>5 DEF TypeOK

\* The calls that move no token.
LEMMA SettingType ==
    ASSUME TypeOK, UserSetting \/ Environment
    PROVE  TypeOK'
  <1>1. CASE \E user \in User, r \in Reserve, use \in BOOLEAN :
                 SetUserUseReserveAsCollateral(user, r, use)
    BY <1>1 DEF SetUserUseReserveAsCollateral, marketVars, crtVars, adminVars, TypeOK
  <1>2. CASE \E user, delegatee \in User, r \in Reserve, amount \in DelegatedAmounts :
                 ApproveDelegation(user, r, delegatee, amount)
    <2>1. PICK user \in User, delegatee \in User, r \in Reserve,
               amount \in DelegatedAmounts :
                   ApproveDelegation(user, r, delegatee, amount)
      BY <1>2
    <2> DEFINE given == borrowAllowances[r]
               row == [given[user] EXCEPT ![delegatee] = amount]
    <2>2. amount \in Nat
      BY CounterInputAssumption
    <2>3. given \in [User -> [User -> Nat]]
      BY DEF TypeOK
    <2>4. /\ borrowAllowances' =
                 [borrowAllowances EXCEPT ![r] = [given EXCEPT ![user] = row]]
          /\ UNCHANGED <<now, reserves, pBalances, debts, debtSupply, cash, wallets,
                         usingAsCollateral, borrowing, crtBalance, crtLocked,
                         crtValue, prices, frozen, paused>>
      BY <2>1 DEF ApproveDelegation, marketVars, flagVars, crtVars, adminVars
    <2> HIDE DEF given
    <2>5. row \in [User -> Nat]
      BY <2>2, <2>3
    <2> HIDE DEF row
    <2>6. [given EXCEPT ![user] = row] \in [User -> [User -> Nat]]
      BY <2>3, <2>5
    <2>7. borrowAllowances' \in [Reserve -> [User -> [User -> Nat]]]
      BY <2>4, <2>6 DEF TypeOK
    <2> QED BY <2>4, <2>7 DEF TypeOK
  <1>3. CASE \E r \in Freezable, freeze \in BOOLEAN : SetReserveFreeze(r, freeze)
    BY <1>3 DEF SetReserveFreeze, marketVars, flagVars, crtVars, TypeOK
  <1>4. CASE \E val \in BOOLEAN : SetPause(val)
    BY <1>4 DEF SetPause, marketVars, flagVars, crtVars, TypeOK
  <1>5. CASE \E a \in Asset : \E price \in PriceAnswers[a] : SetPrice(a, price)
    <2> PICK a \in Asset : \E price \in PriceAnswers[a] : SetPrice(a, price)
      BY <1>5
    <2>1. PICK price \in PriceAnswers[a] : SetPrice(a, price)
      OBVIOUS
    <2>2. price \in Nat \ {0}
      BY CounterInputAssumption
    <2>3. prices' \in [Asset -> Nat \ {0}]
      BY <2>1, <2>2 DEF SetPrice, TypeOK
    <2> QED BY <2>1, <2>3 DEF SetPrice, marketVars, flagVars, crtVars, TypeOK
  <1>6. CASE Tick
    <2>1. now' = now + 1 /\ now' \in 0..MaxTime
      BY <1>6, CounterInputAssumption DEF Tick, TypeOK
    <2>2. UNCHANGED <<reserves, pBalances, debts, debtSupply, cash, wallets,
                      usingAsCollateral, borrowing, crtBalance, crtLocked, crtValue,
                      borrowAllowances, prices, frozen, paused>>
      BY <1>6 DEF Tick, marketVars, flagVars, crtVars, adminVars
    <2>3. \A r \in Reserve : reserves'[r].lastUpdateTimestamp <= now'
      <3> SUFFICES ASSUME NEW r \in Reserve
                   PROVE  reserves[r].lastUpdateTimestamp <= now'
        BY <2>2
      <3>1. reserves[r].lastUpdateTimestamp \in Nat
        BY ReserveType, CounterInputAssumption DEF ReserveData
      <3> QED BY <2>1, <3>1, ReserveType
    <2> QED BY <2>1, <2>2, <2>3 DEF TypeOK
  <1> QED BY <1>1, <1>2, <1>3, <1>4, <1>5, <1>6 DEF UserSetting, Environment

LEMMA StepType == TypeOK /\ [Next]_vars => TypeOK'
  <1> SUFFICES ASSUME TypeOK, [Next]_vars PROVE TypeOK'
    OBVIOUS
  <1>1. \A amount \in Amounts : amount \in Nat
    BY CounterInputAssumption
  <1>2. CASE UserCall
    BY <1>1, <1>2, DepositType, WithdrawType, BorrowType, RepayType, PTransferType
       DEF UserCall
  <1>3. CASE UserSetting \/ Environment
    BY <1>3, SettingType
  <1>4. CASE UNCHANGED vars
    BY <1>4 DEF vars, TypeOK
  <1> QED BY <1>2, <1>3, <1>4 DEF Next

\* Whatever the users, tiers and rates, no call leaves a balance, debt, lock or
\* allowance below zero, an index below one ray or a flag that names no reserve.
THEOREM TypeCorrect == Spec => []TypeOK
  <1> QED BY InitType, StepType, PTL DEF Spec

-----------------------------------------------------------------------------
(***************************************************************************)
(* Debts and their flags.                                                  *)
(***************************************************************************)

\* What a repayment does to the debts.
LEMMA RepaySteps ==
    ASSUME TypeOK, NEW user \in User, NEW r \in Reserve, NEW requested \in Nat,
           NEW onBehalfOf \in User, Repay(user, r, requested, onBehalfOf)
    PROVE  \E paid, burned \in Nat :
               /\ burned <= debts[r][onBehalfOf]
               /\ debts' = [debts EXCEPT ![r][onBehalfOf] = @ - burned]
               /\ cash' = [cash EXCEPT ![r] = @ + paid]
               /\ burned = RayDiv(paid, Accrued(r).variableBorrowIndex)
               /\ reserves'[r].variableBorrowIndex = Accrued(r).variableBorrowIndex
               /\ paid = DebtOf(r, onBehalfOf) => burned = debts[r][onBehalfOf]
               /\ borrowing' = IF paid = DebtOf(r, onBehalfOf)
                               THEN [borrowing EXCEPT ![onBehalfOf] = @ \ {r}]
                               ELSE borrowing
               /\ AccrualDefined(r)
  <1> DEFINE variableDebt == DebtOf(r, onBehalfOf)
             paid == IF requested < variableDebt THEN requested ELSE variableDebt
             index == Accrued(r).variableBorrowIndex
             view == NormalizedDebt(reserves[r], now)
             debt == debts[r][onBehalfOf]
             burned == RayDiv(paid, index)
  <1>1. /\ AccrualDefined(r)
        /\ debt >= burned
        /\ debts' = [debts EXCEPT ![r][onBehalfOf] = @ - burned]
        /\ SetRates(r, cash[r] + paid, debtSupply[r] - burned)
        /\ borrowing' = BorrowingAfterRepay(r, onBehalfOf, paid, variableDebt)
        /\ cash' = [cash EXCEPT ![r] = @ + paid]
        /\ now' = now
    BY DEF Repay, BurnDebt, DebtBurned
  <1>2. variableDebt \in Nat /\ view \in Nat
    BY ViewType
  <1>3. /\ index \in Nat /\ RAY <= index /\ index <= view
    BY <1>1, AccruedSteps, RAYAssumption, StrategyAssumption DEF ReserveData
  <1>4. debt \in Nat
    BY DEF TypeOK
  <1>5. variableDebt = RayMul(debt, view)
    BY DEF DebtOf
  <1>6. reserves'[r].variableBorrowIndex = index
    BY <1>1, StoredReserve
  <1> HIDE DEF variableDebt, index, view, debt
  <1>7. paid \in Nat
    BY <1>2
  <1> HIDE DEF paid
  <1>8. burned \in Nat
    BY <1>1, <1>7, ScaledAmount DEF index
  <1>9. debt <= RayDiv(RayMul(debt, view), index)
    BY <1>2, <1>3, <1>4, FullPaymentBurnsAll
  <1>10. ASSUME paid = variableDebt PROVE burned = debt
    <2>1. debt <= burned
      BY <1>5, <1>9, <1>10
    <2> HIDE DEF burned
    <2> QED BY <1>1, <1>4, <1>8, <2>1
  <1> QED
    BY <1>1, <1>4, <1>6, <1>7, <1>8, <1>10
       DEF BorrowingAfterRepay, variableDebt, index, debt

\* What a loan does to the debts.
LEMMA BorrowSteps ==
    ASSUME TypeOK, NEW user \in User, NEW r \in Reserve, NEW amount \in Nat,
           NEW onBehalfOf \in User, NEW crtenable \in BOOLEAN,
           Borrow(user, r, amount, onBehalfOf, crtenable)
    PROVE  \E minted \in Nat :
               /\ debts' = [debts EXCEPT ![r][onBehalfOf] = @ + minted]
               /\ borrowing' = IF debts[r][onBehalfOf] = 0
                               THEN [borrowing EXCEPT ![onBehalfOf] = @ \cup {r}]
                               ELSE borrowing
  <1> DEFINE minted == RayDiv(amount, Accrued(r).variableBorrowIndex)
  <1>1. /\ AccrualDefined(r)
        /\ debts' = [debts EXCEPT ![r][onBehalfOf] = @ + minted]
        /\ borrowing' = IF debts[r][onBehalfOf] = 0
                        THEN [borrowing EXCEPT ![onBehalfOf] = @ \cup {r}]
                        ELSE borrowing
    BY DEF Borrow, MintDebt
  <1>2. minted \in Nat
    BY <1>1, ScaledAmount
  <1> QED BY <1>1, <1>2

\* Every other step leaves them alone.
LEMMA OtherSteps ==
    ASSUME [Next]_vars,
           ~ \E user, other \in User, r \in Reserve, amount \in Amounts :
                 \/ \E crtenable \in BOOLEAN : Borrow(user, r, amount, other, crtenable)
                 \/ Repay(user, r, amount, other)
    PROVE  UNCHANGED <<debts, borrowing, crtVars>>
  <1>1. CASE UserCall
    BY <1>1 DEF UserCall, Deposit, Withdraw, PTransfer
  <1>2. CASE UserSetting
    BY <1>2 DEF UserSetting, SetUserUseReserveAsCollateral, ApproveDelegation,
                marketVars, flagVars
  <1>3. CASE Environment
    BY <1>3 DEF Environment, SetReserveFreeze, SetPause, SetPrice, Tick,
                marketVars, flagVars
  <1>4. CASE UNCHANGED vars
    BY <1>4 DEF vars, crtVars
  <1> QED BY <1>1, <1>2, <1>3, <1>4 DEF Next

LEMMA FlaggedStep == TypeOK /\ DebtIsFlagged /\ [Next]_vars => DebtIsFlagged'
  <1> SUFFICES ASSUME TypeOK, DebtIsFlagged, [Next]_vars,
                      NEW s \in Reserve, NEW u \in User, debts'[s][u] > 0
               PROVE  s \in borrowing'[u]
    BY DEF DebtIsFlagged
  <1>1. debts[s][u] \in Nat /\ (debts[s][u] > 0 => s \in borrowing[u])
    BY DEF DebtIsFlagged, TypeOK
  <1>2. \A amount \in Amounts : amount \in Nat
    BY CounterInputAssumption
  <1>3. CASE \E user, onBehalfOf \in User, r \in Reserve, amount \in Amounts :
                \E crtenable \in BOOLEAN : Borrow(user, r, amount, onBehalfOf, crtenable)
    <2> PICK onBehalfOf \in User, r \in Reserve :
            \E minted \in Nat :
               /\ debts' = [debts EXCEPT ![r][onBehalfOf] = @ + minted]
               /\ borrowing' = IF debts[r][onBehalfOf] = 0
                               THEN [borrowing EXCEPT ![onBehalfOf] = @ \cup {r}]
                               ELSE borrowing
      BY <1>2, <1>3, BorrowSteps
    <2>1. CASE s = r /\ u = onBehalfOf
      BY <1>1, <2>1 DEF TypeOK
    <2>2. CASE ~(s = r /\ u = onBehalfOf)
      <3>1. debts'[s][u] = debts[s][u]
        BY <2>2 DEF TypeOK
      <3> QED BY <1>1, <3>1 DEF TypeOK
    <2> QED BY <2>1, <2>2
  <1>4. CASE \E user, onBehalfOf \in User, r \in Reserve, amount \in Amounts :
                 Repay(user, r, amount, onBehalfOf)
    <2> PICK onBehalfOf \in User, r \in Reserve :
            \E paid, burned \in Nat :
               /\ burned <= debts[r][onBehalfOf]
               /\ debts' = [debts EXCEPT ![r][onBehalfOf] = @ - burned]
               /\ paid = DebtOf(r, onBehalfOf) => burned = debts[r][onBehalfOf]
               /\ borrowing' = IF paid = DebtOf(r, onBehalfOf)
                               THEN [borrowing EXCEPT ![onBehalfOf] = @ \ {r}]
                               ELSE borrowing
      BY <1>2, <1>4, RepaySteps
    <2>1. CASE s = r /\ u = onBehalfOf
      BY <1>1, <2>1 DEF TypeOK
    <2>2. CASE ~(s = r /\ u = onBehalfOf)
      <3>1. debts'[s][u] = debts[s][u]
        BY <2>2 DEF TypeOK
      <3> QED BY <1>1, <2>2, <3>1 DEF TypeOK
    <2> QED BY <2>1, <2>2
  <1>5. CASE UNCHANGED <<debts, borrowing, crtVars>>
    BY <1>1, <1>5
  <1> QED BY <1>3, <1>4, <1>5, OtherSteps

\* However indexes move and amounts are rounded, every debt has its borrowing
\* bit set, so no debt escapes calculateUserAccountData.
THEOREM DebtsFlagged == Spec => []DebtIsFlagged
  <1>1. Init => DebtIsFlagged
    BY DEF Init, DebtIsFlagged
  <1> QED BY <1>1, FlaggedStep, TypeCorrect, PTL DEF Spec

LEMMA PaidStep ==
    TypeOK /\ [Next]_vars =>
        \A r \in Reserve, u \in User :
          debts'[r][u] < debts[r][u] =>
              RayMul(debts[r][u] - debts'[r][u], reserves'[r].variableBorrowIndex)
                  <= cash'[r] - cash[r] + RayMul(1, reserves'[r].variableBorrowIndex)
  <1> SUFFICES ASSUME TypeOK, [Next]_vars,
                      NEW s \in Reserve, NEW u \in User, debts'[s][u] < debts[s][u]
               PROVE  RayMul(debts[s][u] - debts'[s][u], reserves'[s].variableBorrowIndex)
                         <= cash'[s] - cash[s] + RayMul(1, reserves'[s].variableBorrowIndex)
    OBVIOUS
  <1>1. debts[s][u] \in Nat /\ cash[s] \in Nat
    BY DEF TypeOK
  <1>2. \A amount \in Amounts : amount \in Nat
    BY CounterInputAssumption
  <1>3. CASE \E user, onBehalfOf \in User, r \in Reserve, amount \in Amounts :
                \E crtenable \in BOOLEAN : Borrow(user, r, amount, onBehalfOf, crtenable)
    <2> PICK onBehalfOf \in User, r \in Reserve, minted \in Nat :
            debts' = [debts EXCEPT ![r][onBehalfOf] = @ + minted]
      BY <1>2, <1>3, BorrowSteps
    <2> QED BY <1>1 DEF TypeOK
  <1>4. CASE \E user, onBehalfOf \in User, r \in Reserve, amount \in Amounts :
                 Repay(user, r, amount, onBehalfOf)
    <2> PICK onBehalfOf \in User, r \in Reserve, paid \in Nat, burned \in Nat :
               /\ burned <= debts[r][onBehalfOf]
               /\ debts' = [debts EXCEPT ![r][onBehalfOf] = @ - burned]
               /\ cash' = [cash EXCEPT ![r] = @ + paid]
               /\ burned = RayDiv(paid, Accrued(r).variableBorrowIndex)
               /\ reserves'[r].variableBorrowIndex = Accrued(r).variableBorrowIndex
               /\ AccrualDefined(r)
      BY <1>2, <1>4, RepaySteps
    <2> DEFINE index == Accrued(r).variableBorrowIndex
    <2>1. index \in Nat \ {0}
      BY AccruedSteps, RAYAssumption, StrategyAssumption DEF ReserveData
    <2>2. s = r /\ u = onBehalfOf
      <3> SUFFICES ASSUME ~(s = r /\ u = onBehalfOf) PROVE FALSE
        OBVIOUS
      <3>1. debts'[s][u] = debts[s][u]
        BY DEF TypeOK
      <3> QED BY <1>1, <3>1
    <2>3. debts[s][u] - debts'[s][u] = burned /\ cash'[s] - cash[s] = paid
      BY <1>1, <2>2 DEF TypeOK
    <2>4. reserves'[s].variableBorrowIndex = index /\ burned = RayDiv(paid, index)
      BY <2>2
    <2> HIDE DEF index
    <2>5. RayMul(RayDiv(paid, index), index) <= paid + RayMul(1, index)
      BY <2>1, BurnedIsPaidFor
    <2> QED BY <2>3, <2>4, <2>5
  <1>5. CASE UNCHANGED <<debts, borrowing, crtVars>>
    BY <1>1, <1>5
  <1> QED BY <1>3, <1>4, <1>5, OtherSteps

\* Whatever a repayment takes off a debt has been paid in, up to the value of
\* one scaled unit, for every index and ray.
THEOREM DebtsFallOnlyByPayment == Spec => DebtFallsOnlyByPayment
  <1>1. TypeOK /\ [Next]_vars =>
            [\A r \in Reserve, u \in User :
               debts'[r][u] < debts[r][u] =>
                 RayMul(debts[r][u] - debts'[r][u], reserves'[r].variableBorrowIndex)
                   <= cash'[r] - cash[r] + RayMul(1, reserves'[r].variableBorrowIndex)
            ]_<<debts, cash, reserves>>
    BY PaidStep
  <1> QED BY <1>1, TypeCorrect, PTL DEF Spec, DebtFallsOnlyByPayment

-----------------------------------------------------------------------------
(***************************************************************************)
(* The lock of CRT, and the pause.                                         *)
(***************************************************************************)

LEMMA HoldingsStep == TypeOK /\ CrtHoldingsKept /\ [Next]_vars => CrtHoldingsKept'
  <1> SUFFICES ASSUME TypeOK, CrtHoldingsKept, [Next]_vars, NEW u \in User
               PROVE  crtBalance'[u] + crtLocked'[u] = InitialCrt[u]
    BY DEF CrtHoldingsKept
  <1>1. crtBalance[u] + crtLocked[u] = InitialCrt[u]
    BY DEF CrtHoldingsKept
  <1>2. CASE \E user, onBehalfOf \in User, r \in Reserve, amount \in Amounts :
                \E crtenable \in BOOLEAN : Borrow(user, r, amount, onBehalfOf, crtenable)
    <2>1. \E borrower \in User : \E credit : LockCredit(borrower, credit)
      BY <1>2 DEF Borrow
    <2> QED BY <1>1, <2>1, LockCreditSteps
  <1>3. CASE \E user, onBehalfOf \in User, r \in Reserve, amount \in Amounts :
                 Repay(user, r, amount, onBehalfOf)
    <2>1. \E payer \in User : \E release : ReleaseCredit(payer, release)
      BY <1>3 DEF Repay
    <2> QED BY <1>1, <2>1, ReleaseCreditSteps
  <1>4. CASE UNCHANGED <<debts, borrowing, crtVars>>
    BY <1>1, <1>4 DEF crtVars
  <1> QED BY <1>2, <1>3, <1>4, OtherSteps

\* Free and locked CRT of every user stay what they were, whoever borrows with
\* it and whoever repays.
THEOREM CrtStaysWithItsOwner == Spec => []CrtHoldingsKept
  <1>1. Init => CrtHoldingsKept
    <2>1. InitialCrt \in [User -> Nat]
      BY CounterAssumption
    <2> QED BY <2>1 DEF Init, CrtHoldingsKept
  <1> QED BY <1>1, HoldingsStep, TypeCorrect, PTL DEF Spec

LEMMA PausedStep ==
    [Next]_vars /\ paused => UNCHANGED <<marketVars, flagVars, crtVars>>
  <1> SUFFICES ASSUME [Next]_vars, paused
               PROVE  UNCHANGED <<marketVars, flagVars, crtVars>>
    OBVIOUS
  <1>1. CASE UserCall
    BY <1>1 DEF UserCall, Deposit, Withdraw, Borrow, Repay, PTransfer, FinalizeTransfer
  <1>2. CASE UserSetting
    BY <1>2 DEF UserSetting, SetUserUseReserveAsCollateral, ApproveDelegation
  <1>3. CASE Environment
    BY <1>3 DEF Environment, SetReserveFreeze, SetPause, SetPrice, Tick
  <1>4. CASE UNCHANGED vars
    BY <1>4 DEF vars, marketVars, flagVars, crtVars
  <1> QED BY <1>1, <1>2, <1>3, <1>4 DEF Next

\* While the pool is paused no token, flag or lock moves, by any call on the
\* pool or on its pTokens.
THEOREM PausedPoolStandsStill == Spec => PausedStandsStill
  <1>1. [Next]_vars => [paused => UNCHANGED <<marketVars, flagVars, crtVars>>]_vars
    BY PausedStep
  <1> QED BY <1>1, PTL DEF Spec, PausedStandsStill

=============================================================================
