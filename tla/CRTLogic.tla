------------------------------ MODULE CRTLogic ------------------------------
(***************************************************************************)
(* Credit: how much CRT a borrower must lock to borrow beyond the          *)
(* collateral, and how much of the lock a repayment releases.  One CRT is  *)
(* worth less the higher the loan-to-value it has to stand for.            *)
(***************************************************************************)
EXTENDS GenericLogic

FLOODPRICE == 5700

\* calculateCRTValue: 10000 up to the collateral factor, then falling by half
\* a basis point per basis point, never below the floor.  The discount is a
\* percentMul by HALF_PERCENTAGE_FACTOR, which refuses to halve 1 and 2.
CRTDiscount(ltv, cf) == (ltv - cf) \div 2

CRTValueDefined(ltv, cf) ==
    ltv >= cf => /\ ltv - cf \notin 1..2
                 /\ CRTDiscount(ltv, cf) < PERCENTAGE_FACTOR

CRTValue(ltv, cf) ==
    IF ltv < cf
    THEN PERCENTAGE_FACTOR
    ELSE LET value == PERCENTAGE_FACTOR - CRTDiscount(ltv, cf)
         IN  IF value < FLOODPRICE THEN FLOODPRICE ELSE value

\* calculateCRTBorrow.  `cf` is the collateral factor of the borrowed reserve.
CollateralNotBeMortgage(account, cf) ==
    account.collateral - PercentDiv(account.debt, cf)

CRTBorrowDefined(account, cf, amountInUSD) ==
    LET free == CollateralNotBeMortgage(account, cf)
    IN  /\ free > 0
        /\ CRTValueDefined(RatioInBps(amountInUSD, free), cf)

AdditionalAmount(account, cf, amountInUSD) ==
    LET free == CollateralNotBeMortgage(account, cf)
        needed == PercentDiv(amountInUSD, cf)
    IN  IF free < needed THEN needed - free ELSE 0

CRTNeed(account, cf, amountInUSD) ==
    LET free == CollateralNotBeMortgage(account, cf)
    IN  PercentDiv(AdditionalAmount(account, cf, amountInUSD),
                   CRTValue(RatioInBps(amountInUSD, free), cf))

\* calculateCRTRepay for the borrower `user` after `amountInUSD` is paid.
LtvAfterRepay(user, account, amountInUSD) ==
    RatioInBps(account.debt - amountInUSD, account.collateral + crtValue[user])

CRTRepayDefined(user, account, cf, amountInUSD) ==
    crtLocked[user] # 0 =>
        /\ account.debt >= amountInUSD
        /\ account.collateral + crtValue[user] # 0
        /\ LET ltv == LtvAfterRepay(user, account, amountInUSD)
           IN  ltv > cf => /\ CRTValueDefined(ltv, cf)
                           /\ PercentMulDefined(crtLocked[user], CRTValue(ltv, cf))

\* The CRT that becomes idle and the credit the rest stands for.  Once the
\* loan fits the collateral factor the whole lock is idle, and the credit is
\* reported as PERCENTAGE_FACTOR.
CRTRepay(user, account, cf, amountInUSD) ==
    LET lock == crtLocked[user]
        ltv == LtvAfterRepay(user, account, amountInUSD)
        perValue == CRTValue(ltv, cf)
        newValue == PercentMul(lock, perValue)
    IN  IF lock = 0 THEN [idle |-> 0, value |-> 0]
        ELSE IF ltv <= cf THEN [idle |-> lock, value |-> PERCENTAGE_FACTOR]
        ELSE IF newValue <= crtValue[user] THEN [idle |-> 0, value |-> crtValue[user]]
        ELSE [idle |-> PercentDiv(newValue - crtValue[user], perValue),
              value |-> newValue]

\* validateCRTBalance: what is locked has already left the balance, and is
\* subtracted from it once more.
ValidateCRTBalance(user, amount) ==
    /\ crtBalance[user] >= crtLocked[user]
    /\ crtBalance[user] - crtLocked[user] >= amount

=============================================================================
