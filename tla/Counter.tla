------------------------------ MODULE Counter ------------------------------
(***************************************************************************)
(* The lending pool.  One action per entry point; a call that the code     *)
(* reverts is an action that is not enabled.  Every entry point is one     *)
(* transaction, so an action is atomic: the pToken, debt token, CRT and    *)
(* underlying transfers it makes are part of it.                           *)
(*                                                                         *)
(* The underlying assets are external and are taken to be plain ERC20s     *)
(* that revert when the sender has too little.  A borrow, withdrawal or    *)
(* repayment moves underlying; approvals of the pool are not modelled.     *)
(***************************************************************************)
EXTENDS ValidationLogic

CONSTANTS Amounts,           \* amounts callers pass
          DelegatedAmounts,  \* allowances delegators give
          PriceAnswers,      \* per asset, what the oracle may answer
          Freezable,         \* the reserves an admin may freeze
          Pausable,          \* whether the pool may be paused
          MaxTime            \* bound on `now`

ASSUME CounterInputAssumption ==
    /\ Amounts \subseteq Nat
    /\ DelegatedAmounts \subseteq Nat
    /\ \A a \in Asset : PriceAnswers[a] \subseteq Nat \ {0}
    /\ Freezable \subseteq Reserve
    /\ Pausable \in BOOLEAN
    /\ MaxTime \in Nat

\* The CRT ledger the pool locks and unlocks tokens in.
Crt == INSTANCE CrtToken WITH
           NumAccounts <- NumUsers, MaxUint <- MaxAmount, MaxNonce <- 0,
           balances <- crtBalance, locked <- crtLocked,
           totalSupply <- 0, allowances <- 0, nonces <- 0

-----------------------------------------------------------------------------
(***************************************************************************)
(* updateState: bring a reserve up to date and mint the protocol's share   *)
(* of the interest.  The treasury and the CRT vault are each minted all of *)
(* the share.                                                              *)
(***************************************************************************)

Accrued(r) == UpdateIndexes(reserves[r], debtSupply[r], now)

InterestAccrued(r) == DebtAccrued(reserves[r], Accrued(r), debtSupply[r])

AccrualDefined(r) ==
    /\ IndexesFit(Accrued(r))
    /\ ReserveFactor[r] = 0 \/ PercentMulDefined(InterestAccrued(r), ReserveFactor[r])

\* pToken balances of r once the share is minted.
BalancesAfterAccrual(r) ==
    LET share == PercentMul(InterestAccrued(r), ReserveFactor[r])
        minted == RayDiv(share, Accrued(r).liquidityIndex)
    IN  [pBalances[r] EXCEPT ![Treasury] = @ + minted, ![CrtVault] = @ + minted]

\* The end of updateInterestRates: a reserve whose new rates fit is stored.
SetReserve(r, reserve) ==
    /\ RatesFit(reserve)
    /\ reserves' = [reserves EXCEPT ![r] = reserve]

\* updateInterestRates, for a reserve that was brought up to date.
SetRates(r, liquidity, scaledDebt) ==
    /\ RatesDefined(Accrued(r), liquidity, scaledDebt, ReserveFactor[r])
    /\ SetReserve(r, UpdateInterestRates(Accrued(r), liquidity, scaledDebt, ReserveFactor[r]))

-----------------------------------------------------------------------------
(***************************************************************************)
(* Entry points of users.                                                  *)
(***************************************************************************)

Deposit(user, r, amount, onBehalfOf) ==
    LET accrued == Accrued(r)
        minted == RayDiv(amount, accrued.liquidityIndex)
    IN  /\ ~paused
        /\ ValidateDeposit(r, amount)
        /\ AccrualDefined(r)
        /\ wallets[AssetOf(r)][user] >= amount
        /\ minted # 0
        /\ SetRates(r, cash[r] + amount, debtSupply[r])
        /\ wallets' = [wallets EXCEPT ![AssetOf(r)][user] = @ - amount]
        /\ cash' = [cash EXCEPT ![r] = @ + amount]
        /\ pBalances' = [pBalances EXCEPT ![r] =
               [BalancesAfterAccrual(r) EXCEPT ![onBehalfOf] = @ + minted]]
        /\ usingAsCollateral' =
               IF pBalances[r][onBehalfOf] = 0
               THEN [usingAsCollateral EXCEPT ![onBehalfOf] = @ \cup {r}]
               ELSE usingAsCollateral
        /\ UNCHANGED <<now, debts, debtSupply, borrowing, crtVars, borrowAllowances, adminVars>>

Withdraw(user, r, requested, to) ==
    LET balance == BalanceOf(r, user)
        amount == IF requested = MaxAmount THEN balance ELSE requested
        accrued == Accrued(r)
        burned == RayDiv(amount, accrued.liquidityIndex)
    IN  /\ ~paused
        /\ ValidateWithdraw(user, r, amount)
        /\ AccrualDefined(r)
        /\ cash[r] >= amount
        /\ burned # 0
        /\ pBalances[r][user] >= burned
        /\ SetRates(r, cash[r] - amount, debtSupply[r])
        /\ usingAsCollateral' =
               IF amount = balance
               THEN [usingAsCollateral EXCEPT ![user] = @ \ {r}]
               ELSE usingAsCollateral
        /\ pBalances' = [pBalances EXCEPT ![r] =
               [BalancesAfterAccrual(r) EXCEPT ![user] = @ - burned]]
        /\ cash' = [cash EXCEPT ![r] = @ - amount]
        /\ wallets' = [wallets EXCEPT ![AssetOf(r)][to] = @ + amount]
        /\ UNCHANGED <<now, debts, debtSupply, borrowing, crtVars, borrowAllowances, adminVars>>

SetUserUseReserveAsCollateral(user, r, useAsCollateral) ==
    /\ ~paused
    /\ ValidateSetUseReserveAsCollateral(user, r, useAsCollateral)
    /\ usingAsCollateral' = [usingAsCollateral EXCEPT ![user] =
           IF useAsCollateral THEN @ \cup {r} ELSE @ \ {r}]
    /\ UNCHANGED <<now, marketVars, borrowing, crtVars, borrowAllowances, adminVars>>

\* _executeBorrow up to the token movements: the credit the borrower must add.
BorrowCredit(account, r, amount, crtenable) ==
    IF crtenable
    THEN [need |-> CRTNeed(account, Ltv[r], ValueInUSD(r, amount)),
          value |-> AdditionalAmount(account, Ltv[r], ValueInUSD(r, amount))]
    ELSE [need |-> 0, value |-> 0]

\* The CRT is locked on the borrower's side even when a delegatee borrows.
\* Amounts are unsigned: checked arithmetic has made sure of it before.
LockCredit(borrower, credit) ==
    IF credit.need = 0
    THEN UNCHANGED crtVars
    ELSE /\ credit \in [need : Nat, value : Nat]
         /\ Crt!LockCRT(borrower, credit.need)
         /\ crtValue' = [crtValue EXCEPT ![borrower] = @ + credit.value]

\* Variants with one slip each, named by mutants.
UseBorrowAllowanceUnchecked(user, r, amount, onBehalfOf) ==
    IF user = onBehalfOf
    THEN UNCHANGED borrowAllowances
    ELSE borrowAllowances' =
             [borrowAllowances EXCEPT ![r][onBehalfOf][user] = @ - amount]

UseBorrowAllowanceAgain(user, r, amount, onBehalfOf) ==
    /\ user # onBehalfOf => borrowAllowances[r][onBehalfOf][user] >= amount
    /\ UNCHANGED borrowAllowances

UseBorrowAllowance(user, r, amount, onBehalfOf) ==
    IF user = onBehalfOf
    THEN UNCHANGED borrowAllowances
    ELSE /\ borrowAllowances[r][onBehalfOf][user] >= amount
         /\ borrowAllowances' =
                [borrowAllowances EXCEPT ![r][onBehalfOf][user] = @ - amount]

\* _mint of the debt token: the supply and one balance, together.
MintDebt(r, onBehalfOf, minted) ==
    /\ debts' = [debts EXCEPT ![r][onBehalfOf] = @ + minted]
    /\ debtSupply' = [debtSupply EXCEPT ![r] = @ + minted]

Borrow(user, r, amount, onBehalfOf, crtenable) ==
    LET account == AccountData(pBalances, onBehalfOf, TierOf(r))
        credit == BorrowCredit(account, r, amount, crtenable)
        accrued == Accrued(r)
        minted == RayDiv(amount, accrued.variableBorrowIndex)
    IN  /\ ~paused
        /\ cash[r] >= amount
        /\ HealthFactorDefined(account, crtValue[onBehalfOf])
        /\ crtenable => CRTBorrowDefined(account, Ltv[r], ValueInUSD(r, amount))
        /\ ValidateBorrow(r, onBehalfOf, account, amount, credit.need, credit.value)
        /\ AccrualDefined(r)
        /\ minted # 0
        /\ LockCredit(onBehalfOf, credit)
        /\ UseBorrowAllowance(user, r, amount, onBehalfOf)
        /\ MintDebt(r, onBehalfOf, minted)
        /\ borrowing' =
               IF debts[r][onBehalfOf] = 0
               THEN [borrowing EXCEPT ![onBehalfOf] = @ \cup {r}]
               ELSE borrowing
        /\ SetRates(r, cash[r] - amount, debtSupply[r] + minted)
        /\ pBalances' = [pBalances EXCEPT ![r] = BalancesAfterAccrual(r)]
        /\ cash' = [cash EXCEPT ![r] = @ - amount]
        /\ wallets' = [wallets EXCEPT ![AssetOf(r)][user] = @ + amount]
        /\ UNCHANGED <<now, usingAsCollateral, adminVars>>

\* Variants with one slip each, named by mutants.
DebtBurnedAtOldIndex(r, amount) == RayDiv(amount, reserves[r].variableBorrowIndex)

BorrowingClearedByAnyRepay(r, borrower, paid, owed) ==
    [borrowing EXCEPT ![borrower] = @ \ {r}]

\* The scaled debt that `amount` pays off.
DebtBurned(r, amount) == RayDiv(amount, Accrued(r).variableBorrowIndex)

\* The borrowing bits once `paid` of what was `owed` is paid.
BorrowingAfterRepay(r, borrower, paid, owed) ==
    IF paid = owed
    THEN [borrowing EXCEPT ![borrower] = @ \ {r}]
    ELSE borrowing

\* The lock that the borrower's loan no longer needs is released to the payer,
\* and the borrower's new credit becomes the payer's.
ReleaseCredit(payer, release) ==
    IF release.idle = 0
    THEN UNCHANGED crtVars
    ELSE /\ release \in [idle : Nat, value : Nat]
         /\ Crt!UnlockCRT(payer, release.idle)
         /\ crtValue' = [crtValue EXCEPT ![payer] = release.value]

\* The slip of a mutant: the supply loses what was paid, not what it scales to.
BurnDebtUnscaled(r, borrower, burned) ==
    /\ debts[r][borrower] >= burned
    /\ debts' = [debts EXCEPT ![r][borrower] = @ - burned]
    /\ debtSupply' = [debtSupply EXCEPT ![r] =
           @ - RayMul(burned, Accrued(r).variableBorrowIndex)]

\* _burn of the debt token, whose checked subtractions refuse an overdraft.
BurnDebt(r, borrower, burned) ==
    /\ debtSupply[r] >= burned
    /\ debts[r][borrower] >= burned
    /\ debts' = [debts EXCEPT ![r][borrower] = @ - burned]
    /\ debtSupply' = [debtSupply EXCEPT ![r] = @ - burned]

Repay(user, r, requested, onBehalfOf) ==
    LET variableDebt == DebtOf(r, onBehalfOf)
        amount == IF requested < variableDebt THEN requested ELSE variableDebt
        account == AccountData(pBalances, onBehalfOf, TierOf(r))
        accrued == Accrued(r)
        burned == DebtBurned(r, amount)
    IN  /\ ~paused
        /\ ValidateRepay(user, requested, onBehalfOf, variableDebt)
        /\ HealthFactorDefined(account, crtValue[onBehalfOf])
        /\ CRTRepayDefined(onBehalfOf, account, Ltv[r], ValueInUSD(r, amount))
        /\ ReleaseCredit(user, CRTRepay(onBehalfOf, account, Ltv[r],
                                        ValueInUSD(r, amount)))
        /\ AccrualDefined(r)
        /\ burned # 0
        /\ wallets[AssetOf(r)][user] >= amount
        /\ BurnDebt(r, onBehalfOf, burned)
        /\ SetRates(r, cash[r] + amount, debtSupply[r] - burned)
        /\ pBalances' = [pBalances EXCEPT ![r] = BalancesAfterAccrual(r)]
        /\ borrowing' = BorrowingAfterRepay(r, onBehalfOf, amount, variableDebt)
        /\ wallets' = [wallets EXCEPT ![AssetOf(r)][user] = @ - amount]
        /\ cash' = [cash EXCEPT ![r] = @ + amount]
        /\ UNCHANGED <<now, usingAsCollateral, borrowAllowances, adminVars>>

\* Variants with one slip each, named by mutants.
MovedFromOldBalances(r, from, scaled, to) ==
    [pBalances EXCEPT ![r][from] = @ - scaled,
                      ![r][to] = pBalances[r][to] + scaled]

\* The recipient's balance is read after the sender's is written.
Moved(r, from, scaled, to) ==
    LET sent == [pBalances[r] EXCEPT ![from] = @ - scaled]
    IN  [pBalances EXCEPT ![r] = [sent EXCEPT ![to] = @ + scaled]]

\* The collateral bits follow the balances from before the transfer.
UsingAfterTransfer(r, from, to, amount) ==
    LET emptied == from # to /\ BalanceOf(r, from) = amount
        filled == from # to /\ BalanceOf(r, to) = 0 /\ amount # 0
    IN  [u \in User |->
            IF u = from /\ emptied THEN usingAsCollateral[u] \ {r}
            ELSE IF u = to /\ filled THEN usingAsCollateral[u] \cup {r}
            ELSE usingAsCollateral[u]]

\* The slip of a mutant: the pause is not asked.
FinalizeTransferWhilePaused(held, r, from, to, amount) ==
    /\ ValidateTransfer(held, from, r)
    /\ from # to => BalanceOf(r, from) >= amount
    /\ usingAsCollateral' = UsingAfterTransfer(r, from, to, amount)

\* finalizeTransfer, called by the pToken once it has moved the balances to
\* `held`.
FinalizeTransfer(held, r, from, to, amount) ==
    /\ ~paused
    /\ ValidateTransfer(held, from, r)
    /\ from # to => BalanceOf(r, from) >= amount
    /\ usingAsCollateral' = UsingAfterTransfer(r, from, to, amount)

\* transfer of the pToken.  The reserve is not brought up to date.
PTransfer(from, r, amount, to) ==
    LET scaled == RayDiv(amount, NormalizedIncome(reserves[r], now))
        held == Moved(r, from, scaled, to)
    IN  /\ pBalances[r][from] >= scaled
        /\ FinalizeTransfer(held, r, from, to, amount)
        /\ pBalances' = held
        /\ UNCHANGED <<now, reserves, debts, debtSupply, cash, wallets, borrowing, crtVars,
                       borrowAllowances, adminVars>>

ApproveDelegation(user, r, delegatee, amount) ==
    /\ borrowAllowances' = [borrowAllowances EXCEPT ![r][user][delegatee] = amount]
    /\ UNCHANGED <<now, marketVars, flagVars, crtVars, adminVars>>

-----------------------------------------------------------------------------
(***************************************************************************)
(* The configurator's switches, the oracle and the clock.                  *)
(***************************************************************************)

SetReserveFreeze(r, freeze) ==
    /\ frozen' = IF freeze THEN frozen \cup {r} ELSE frozen \ {r}
    /\ UNCHANGED <<now, marketVars, flagVars, crtVars, borrowAllowances, prices, paused>>

SetPause(val) ==
    /\ paused' = val
    /\ UNCHANGED <<now, marketVars, flagVars, crtVars, borrowAllowances, prices, frozen>>

SetPrice(a, price) ==
    /\ prices' = [prices EXCEPT ![a] = price]
    /\ UNCHANGED <<now, marketVars, flagVars, crtVars, borrowAllowances, frozen, paused>>

Tick ==
    /\ now < MaxTime
    /\ now' = now + 1
    /\ UNCHANGED <<marketVars, flagVars, crtVars, borrowAllowances, adminVars>>

UserCall ==
    \E user, other \in User, r \in Reserve, amount \in Amounts :
        \/ Deposit(user, r, amount, other)
        \/ Withdraw(user, r, amount, other)
        \/ \E crtenable \in BOOLEAN : Borrow(user, r, amount, other, crtenable)
        \/ Repay(user, r, amount, other)
        \/ PTransfer(user, r, amount, other)

UserSetting ==
    \E user \in User, r \in Reserve :
        \/ \E use \in BOOLEAN : SetUserUseReserveAsCollateral(user, r, use)
        \/ \E delegatee \in User, amount \in DelegatedAmounts :
               ApproveDelegation(user, r, delegatee, amount)

Environment ==
    \/ \E r \in Freezable, freeze \in BOOLEAN : SetReserveFreeze(r, freeze)
    \/ Pausable /\ \E val \in BOOLEAN : SetPause(val)
    \/ \E a \in Asset : \E price \in PriceAnswers[a] : SetPrice(a, price)
    \/ Tick

Next == UserCall \/ UserSetting \/ Environment

Spec == Init /\ [][Next]_vars

=============================================================================
