-------------------------- MODULE ValidationLogic --------------------------
(***************************************************************************)
(* What the pool checks before it lets a user act.  Every require() of a   *)
(* check is a conjunct; a reserve that is listed is active.                *)
(***************************************************************************)
EXTENDS CRTLogic

\* Variants with one slip each, named by mutants.
ValidateDepositWhenFrozen(r, amount) == amount # 0

ValidateBorrowOfLoanOnly(r, borrower, account, amount, crtNeed, credit) ==
    /\ crtNeed # 0 => ValidateCRTBalance(borrower, crtNeed)
    /\ r \notin frozen
    /\ amount # 0
    /\ account.collateral > 0
    /\ PercentDiv(ValueInUSD(r, amount), account.ltv)
         <= account.collateral + crtValue[borrower] + credit

ValidateDeposit(r, amount) ==
    /\ amount # 0
    /\ r \notin frozen

\* A frozen reserve can still be left.
ValidateWithdraw(user, r, amount) ==
    /\ amount # 0
    /\ amount <= BalanceOf(r, user)
    /\ BalanceDecreaseAllowed(user, r, amount)

\* `account` is the position of the borrower before the loan, over the tier of
\* r and the safer ones; `credit` is what the CRT to be locked adds to it.
ValidateBorrow(r, borrower, account, amount, crtNeed, credit) ==
    /\ crtNeed # 0 => ValidateCRTBalance(borrower, crtNeed)
    /\ r \notin frozen
    /\ amount # 0
    /\ account.collateral > 0
    /\ HealthFactorAboveOne(account, crtValue[borrower])
    /\ PercentDiv(account.debt + ValueInUSD(r, amount), account.ltv)
         <= account.collateral + crtValue[borrower] + credit

ValidateRepay(payer, amount, borrower, variableDebt) ==
    /\ amount > 0
    /\ variableDebt > 0
    /\ amount # MaxAmount \/ payer = borrower

ValidateSetUseReserveAsCollateral(user, r, useAsCollateral) ==
    /\ BalanceOf(r, user) > 0
    /\ useAsCollateral \/ BalanceDecreaseAllowed(user, r, BalanceOf(r, user))

\* Asked after the transfer: `held` are the balances it leaves.
ValidateTransfer(held, from, r) ==
    LET account == AccountData(held, from, TierOf(r))
    IN  /\ HealthFactorDefined(account, crtValue[from])
        /\ HealthFactorAtLeastOne(account, crtValue[from])

=============================================================================
