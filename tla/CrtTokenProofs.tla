--------------------------- MODULE CrtTokenProofs ---------------------------
(***************************************************************************)
(* Proofs about the credit token, for any number of accounts and any word  *)
(* size.  Types and the supply bound need each other: that an unchecked    *)
(* addition does not wrap follows from the bound, and that the bound is    *)
(* kept from the addition not wrapping.                                    *)
(***************************************************************************)
EXTENDS CrtToken, SumProofs

IInv == TypeOK /\ HoldingsCovered

-----------------------------------------------------------------------------
(***************************************************************************)
(* Totals: how a total follows a change to one entry.                      *)
(***************************************************************************)

LEMMA FiniteAccounts == IsFiniteSet(Account)
BY FS_Interval, NumAccountsAssumption DEF Account

\* No single holder has more than all of them.
LEMMA OneOfAll ==
    ASSUME NEW h \in [Account -> Nat], NEW a \in Account
    PROVE  Total(h) \in Nat /\ h[a] <= Total(h)
BY FiniteAccounts, SumType, SumAtLeastPart DEF Total

LEMMA Credited ==
    ASSUME NEW h \in [Account -> Nat], NEW a \in Account, NEW d \in Nat
    PROVE  Total([h EXCEPT ![a] = @ + d]) = Total(h) + d
<1> DEFINE more == [h EXCEPT ![a] = @ + d]
<1>1. /\ more \in [Account -> Nat] /\ more[a] = h[a] + d /\ h[a] \in Nat
      /\ \A x \in Account \ {a} : h[x] = more[x]
    OBVIOUS
<1> HIDE DEF more
<1>2. Total(more) - Total(h) = more[a] - h[a]
    BY <1>1, FiniteAccounts, SumOneChanged DEF Total
<1>3. Total(more) \in Nat /\ Total(h) \in Nat
    BY <1>1, OneOfAll
<1> QED
    BY <1>1, <1>2, <1>3 DEF more

LEMMA Debited ==
    ASSUME NEW h \in [Account -> Nat], NEW a \in Account, NEW d \in Nat, d <= h[a]
    PROVE  Total([h EXCEPT ![a] = @ - d]) = Total(h) - d
<1> DEFINE less == [h EXCEPT ![a] = @ - d]
<1>1. /\ less \in [Account -> Nat] /\ less[a] = h[a] - d /\ h[a] \in Nat
      /\ \A x \in Account \ {a} : h[x] = less[x]
    OBVIOUS
<1> HIDE DEF less
<1>2. Total(less) - Total(h) = less[a] - h[a]
    BY <1>1, FiniteAccounts, SumOneChanged DEF Total
<1>3. Total(less) \in Nat /\ Total(h) \in Nat
    BY <1>1, OneOfAll
<1> QED
    BY <1>1, <1>2, <1>3 DEF less

-----------------------------------------------------------------------------
(***************************************************************************)
(* Each operation: it keeps IInv and nothing wraps.                        *)
(***************************************************************************)

\* What the type invariant says of the holdings.
LEMMA HoldingsType ==
    ASSUME TypeOK
    PROVE  /\ Holdings \in [Account -> Nat]
           /\ totalSupply \in Nat
           /\ \A a \in Account : Holdings[a] = balances[a] + locked[a]
BY MaxUintAssumption DEF TypeOK, Holdings, Uint

\* A word that fits is left alone.
LEMMA WrapFits == ASSUME NEW n \in Uint PROVE Wrap(n) = n
BY MaxUintAssumption DEF Wrap, Uint

\* One holding changes with the free tokens of its account.
LEMMA OneHolding ==
    ASSUME TypeOK, NEW account \in Account, NEW free \in Int,
           balances' = [balances EXCEPT ![account] = free], locked' = locked
    PROVE  Holdings' = [Holdings EXCEPT ![account] = free + locked[account]]
<1>1. balances \in [Account -> Uint]
    BY DEF TypeOK
<1>2. Holdings' = [a \in Account |-> balances'[a] + locked[a]]
    BY DEF Holdings
<1>3. \A a \in Account : balances'[a] = IF a = account THEN free ELSE balances[a]
    BY <1>1
<1>4. [Holdings EXCEPT ![account] = free + locked[account]]
      = [a \in Account |-> IF a = account THEN free + locked[a]
                                          ELSE balances[a] + locked[a]]
    BY DEF Holdings
<1> QED
    BY <1>2, <1>3, <1>4

\* Minting to `account` credits its holding with what the supply gains.
LEMMA MintStep ==
    ASSUME IInv, NEW account \in Account, NEW amount \in Uint,
           Mint(account, amount)
    PROVE  /\ IInv'
           /\ Total(Holdings') - Total(Holdings) = totalSupply' - totalSupply
<1>1. Holdings \in [Account -> Nat] /\ totalSupply \in Nat /\ amount \in Nat
    BY HoldingsType, MaxUintAssumption DEF IInv, Uint
<1>2. Total(Holdings) \in Nat /\ Holdings[account] <= totalSupply
    BY <1>1, OneOfAll DEF IInv, HoldingsCovered
<1>3. balances[account] + amount \in Uint
    BY <1>1, <1>2, HoldingsType, MaxUintAssumption DEF IInv, TypeOK, Mint, Uint
<1>4. Wrap(balances[account] + amount) = balances[account] + amount
    BY <1>3, WrapFits
<1>5. TypeOK'
    BY <1>3, <1>4, MaxUintAssumption DEF IInv, TypeOK, Mint, Uint
<1>6. Holdings' = [Holdings EXCEPT ![account] = @ + amount]
  <2> DEFINE free == balances[account] + amount
  <2>1. balances' = [balances EXCEPT ![account] = free] /\ locked' = locked
    BY <1>4 DEF Mint
  <2>2. /\ balances[account] \in Nat /\ locked[account] \in Nat
        /\ Holdings[account] = balances[account] + locked[account]
    BY HoldingsType, MaxUintAssumption DEF IInv, TypeOK, Uint
  <2>3. free \in Int /\ free + locked[account] = Holdings[account] + amount
    BY <2>2, <1>1
  <2> HIDE DEF free
  <2>4. Holdings' = [Holdings EXCEPT ![account] = free + locked[account]]
    BY <2>1, <2>3, OneHolding DEF IInv
  <2> QED
    BY <2>3, <2>4
<1>7. Total(Holdings') = Total(Holdings) + amount /\ totalSupply' = totalSupply + amount
    BY <1>1, <1>6, Credited DEF Mint
<1>8. Total(Holdings') <= totalSupply'
    BY <1>1, <1>2, <1>7 DEF IInv, HoldingsCovered
<1>9. HoldingsCovered'
    BY <1>8 DEF HoldingsCovered, Total
<1> QED
    BY <1>1, <1>2, <1>5, <1>7, <1>9 DEF IInv

\* Burning takes from the holding at least what the supply loses: the lock is
\* subtracted from the balance on top of the amount.
LEMMA BurnStep ==
    ASSUME IInv, NEW account \in Account, NEW amount \in Uint,
           Burn(account, amount)
    PROVE  /\ IInv'
           /\ totalSupply' = totalSupply - amount
           /\ Total(Holdings') = Total(Holdings) - locked[account] - amount
<1> DEFINE d == locked[account] + amount
<1>1. Holdings \in [Account -> Nat] /\ totalSupply \in Nat /\ amount \in Nat
    BY HoldingsType, MaxUintAssumption DEF IInv, Uint
<1>2. Total(Holdings) \in Nat /\ Holdings[account] <= totalSupply
    BY <1>1, OneOfAll DEF IInv, HoldingsCovered
<1>3. /\ balances[account] \in Nat /\ locked[account] \in Nat
      /\ Holdings[account] = balances[account] + locked[account]
    BY HoldingsType, MaxUintAssumption DEF IInv, TypeOK, Uint
<1>4. /\ d \in Nat /\ d <= balances[account] /\ d <= Holdings[account]
      /\ amount <= totalSupply
    BY <1>1, <1>2, <1>3 DEF Burn
<1>5. Wrap(totalSupply - amount) = totalSupply - amount
      /\ totalSupply - amount \in Uint
  <2>1. totalSupply - amount \in 0..MaxUint
    BY <1>1, <1>4, MaxUintAssumption DEF Uint, IInv, TypeOK
  <2> QED
    BY <2>1, WrapFits DEF Uint
<1>6. TypeOK'
    BY <1>3, <1>4, <1>5, MaxUintAssumption DEF IInv, TypeOK, Burn, Uint
<1>7. Holdings' = [Holdings EXCEPT ![account] = @ - d]
  <2> DEFINE free == (balances[account] - locked[account]) - amount
  <2>1. balances' = [balances EXCEPT ![account] = free] /\ locked' = locked
    BY DEF Burn
  <2>2. free \in Int /\ free + locked[account] = Holdings[account] - d
    BY <1>1, <1>3
  <2> HIDE DEF free, d
  <2>3. Holdings' = [Holdings EXCEPT ![account] = free + locked[account]]
    BY <2>1, <2>2, OneHolding DEF IInv
  <2> QED
    BY <2>2, <2>3
<1>8. Total(Holdings') = Total(Holdings) - d /\ totalSupply' = totalSupply - amount
  <2>1. Total([Holdings EXCEPT ![account] = @ - d]) = Total(Holdings) - d
    BY <1>1, <1>4, Debited
  <2> QED
    BY <1>5, <1>7, <2>1 DEF Burn
<1>9. Total(Holdings') <= totalSupply'
    BY <1>1, <1>2, <1>3, <1>8 DEF IInv, HoldingsCovered
<1>10. HoldingsCovered'
    BY <1>9 DEF HoldingsCovered, Total
<1> QED
    BY <1>1, <1>2, <1>3, <1>6, <1>8, <1>10 DEF IInv

\* Steps that leave every holding and the supply as they were.
LEMMA SameHoldings ==
    ASSUME IInv, TypeOK', Holdings' = Holdings, totalSupply' = totalSupply
    PROVE  /\ IInv'
           /\ Total(Holdings') - Total(Holdings) = totalSupply' - totalSupply
<1>1. Holdings \in [Account -> Nat] /\ totalSupply \in Nat
    BY HoldingsType DEF IInv
<1>2. Total(Holdings) \in Nat /\ Total(Holdings') = Total(Holdings)
  <2>1. 1 \in Account
    BY NumAccountsAssumption DEF Account
  <2> QED
    BY <1>1, <2>1, OneOfAll
<1>3. HoldingsCovered'
    BY <1>2 DEF IInv, HoldingsCovered, Total
<1> QED
    BY <1>1, <1>2, <1>3 DEF IInv

\* Locking and unlocking leave every holding as it was.
LEMMA LockStep ==
    ASSUME IInv, NEW account \in Account, NEW amount \in Uint,
           LockCRT(account, amount) \/ UnlockCRT(account, amount)
    PROVE  /\ IInv'
           /\ Total(Holdings') - Total(Holdings) = totalSupply' - totalSupply
<1>1. TypeOK'
    BY MaxUintAssumption DEF IInv, TypeOK, LockCRT, UnlockCRT, Uint
<1>2. Holdings' = Holdings
    BY MaxUintAssumption
    DEF IInv, TypeOK, LockCRT, UnlockCRT, Uint, Holdings
<1>3. totalSupply' = totalSupply
    BY DEF LockCRT, UnlockCRT
<1> QED
    BY <1>1, <1>2, <1>3, SameHoldings

\* A transfer debits one holding and credits another (or the same) one; the
\* unchecked credit cannot wrap because both holdings fit below the supply.
LEMMA MoveStep ==
    ASSUME IInv, NEW from \in Account, NEW to \in Account, NEW amount \in Uint,
           MoveTokens(from, to, amount), UNCHANGED nonces,
           allowances' \in [Account -> [Account -> Uint]]
    PROVE  /\ IInv'
           /\ Total(Holdings') - Total(Holdings) = totalSupply' - totalSupply
<1> DEFINE debited == [Holdings EXCEPT ![from] = @ - amount]
           moved == [debited EXCEPT ![to] = @ + amount]
<1>1. Holdings \in [Account -> Nat] /\ totalSupply \in Nat /\ amount \in Nat
    BY HoldingsType, MaxUintAssumption DEF IInv, Uint
<1>2. /\ balances \in [Account -> Uint] /\ locked \in [Account -> Uint]
      /\ totalSupply \in Uint
    BY DEF IInv, TypeOK
<1>3. \A a \in Account : /\ balances[a] \in Nat /\ locked[a] \in Nat
                         /\ Holdings[a] = balances[a] + locked[a]
    BY <1>2, HoldingsType, MaxUintAssumption DEF IInv, Uint
<1>4. amount <= balances[from] /\ amount <= Holdings[from]
    BY <1>1, <1>3 DEF MoveTokens
<1>5. Total(debited) = Total(Holdings) - amount /\ Total(Holdings) \in Nat
    BY <1>1, <1>4, Debited, OneOfAll
<1>6. /\ debited \in [Account -> Nat] /\ totalSupply - amount \in Nat
      /\ \A a \in Account :
            debited[a] = (IF a = from THEN balances[a] - amount ELSE balances[a])
                         + locked[a]
  <2>1. Holdings[from] <= totalSupply
    BY <1>1, <1>3, OneOfAll DEF IInv, HoldingsCovered
  <2> QED
    BY <2>1, <1>1, <1>3, <1>4
<1>7. debited[to] <= totalSupply - amount
  <2>1. Total(Holdings) <= totalSupply
    BY DEF IInv, HoldingsCovered
  <2> HIDE DEF debited
  <2>2. debited[to] <= Total(debited) /\ debited[to] \in Nat
    BY <1>6, OneOfAll
  <2> QED
    BY <1>1, <1>5, <2>1, <2>2
<1>8. Total(moved) = Total(Holdings)
  <2> HIDE DEF debited
  <2>1. Total(moved) = Total(debited) + amount
    BY <1>1, <1>6, Credited
  <2> QED
    BY <1>1, <1>5, <2>1
<1> DEFINE free(a) == IF a = from THEN balances[a] - amount ELSE balances[a]
<1>9. free(to) \in Nat /\ free(to) + amount \in Uint
      /\ Wrap(free(to) + amount) = free(to) + amount
  <2>1. free(to) \in Nat
    BY <1>1, <1>3, <1>4
  <2>2. free(to) + locked[to] <= totalSupply - amount
    BY <1>6, <1>7
  <2>3. free(to) + amount \in Uint
    <3> HIDE DEF free, debited
    <3> QED
      BY <2>1, <2>2, <1>1, <1>2, <1>3, MaxUintAssumption DEF Uint
  <2> QED
    BY <2>1, <2>3, WrapFits
<1>10. \A a \in Account :
          balances'[a] = IF a = to THEN free(to) + amount ELSE free(a)
    BY <1>2, <1>9 DEF MoveTokens, Moved
<1>11. balances' \in [Account -> Uint]
  <2>1. balances' = [a \in Account |-> balances'[a]]
    BY <1>2 DEF MoveTokens, Moved
  <2>2. \A a \in Account : balances'[a] \in Uint
    <3> SUFFICES ASSUME NEW a \in Account PROVE balances'[a] \in Uint
      OBVIOUS
    <3>1. free(a) \in Uint
      BY <1>1, <1>2, <1>3, <1>4, MaxUintAssumption DEF Uint
    <3> HIDE DEF free
    <3> QED
      BY <3>1, <1>9, <1>10
  <2> QED
    BY <2>1, <2>2
<1>12. Holdings' = moved
  <2>1. \A a \in Account : balances'[a] + locked[a] = moved[a]
    <3> SUFFICES ASSUME NEW a \in Account
                 PROVE  balances'[a] + locked[a] = moved[a]
      OBVIOUS
    <3>1. debited[a] = free(a) + locked[a] /\ debited[to] = free(to) + locked[to]
      BY <1>6
    <3>2. moved[a] = IF a = to THEN debited[a] + amount ELSE debited[a]
      BY <1>6
    <3>3. free(a) \in Int /\ free(to) \in Int /\ locked[a] \in Nat
      BY <1>1, <1>3
    <3> HIDE DEF free, debited, moved
    <3> QED
      BY <3>1, <3>2, <3>3, <1>1, <1>10
  <2>2. moved \in [Account -> Nat]
    BY <1>1, <1>6
  <2>3. locked' = locked
    BY DEF MoveTokens
  <2> HIDE DEF moved, debited
  <2> QED
    BY <2>1, <2>2, <2>3 DEF Holdings
<1>13. totalSupply' = totalSupply
    BY DEF MoveTokens
<1> HIDE DEF moved, debited
<1>14. TypeOK'
    BY <1>11 DEF IInv, TypeOK, MoveTokens
<1>15. HoldingsCovered'
    BY <1>8, <1>12, <1>13 DEF IInv, HoldingsCovered, Total
<1> QED
    BY <1>1, <1>5, <1>8, <1>12, <1>13, <1>14, <1>15 DEF IInv

\* Nothing but the types speaks of allowances and nonces.
LEMMA AllowanceStep ==
    ASSUME IInv, UNCHANGED holdingVars,
           allowances' \in [Account -> [Account -> Uint]],
           nonces' \in [Account -> 0..MaxNonce]
    PROVE  /\ IInv'
           /\ Total(Holdings') - Total(Holdings) = totalSupply' - totalSupply
<1>1. Holdings' = Holdings /\ totalSupply' = totalSupply
    BY DEF holdingVars, Holdings
<1>2. TypeOK'
    BY DEF IInv, TypeOK, holdingVars
<1> QED
    BY <1>1, <1>2, SameHoldings

-----------------------------------------------------------------------------
(***************************************************************************)
(* The invariant and what follows from it.                                 *)
(***************************************************************************)

\* Before any token is minted nobody holds any.
LEMMA InitIInv == Init => IInv
<1> SUFFICES ASSUME Init PROVE IInv
    OBVIOUS
<1>1. TypeOK
    BY MaxUintAssumption, MaxNonceAssumption DEF Init, TypeOK, Uint
<1>2. \A a \in Account : Holdings[a] = 0
    BY DEF Init, Holdings
<1>3. Total(Holdings) = 0
    BY <1>2, FiniteAccounts, SumOfZeros DEF Total
<1> QED
    BY <1>1, <1>3 DEF IInv, HoldingsCovered, Init

\* Every operation of the token preserves the invariant and is accounted for.
LEMMA NextStep == IInv /\ [Next]_vars => IInv' /\ Accounted
<1> SUFFICES ASSUME IInv, [Next]_vars PROVE IInv' /\ Accounted
    OBVIOUS
<1>1. ASSUME NEW a \in Account, NEW amount \in Uint, Mint(a, amount)
      PROVE  IInv' /\ Accounted
    BY <1>1, MintStep DEF Accounted
<1>2. ASSUME NEW a \in Account, NEW amount \in Uint, Burn(a, amount)
      PROVE  IInv' /\ Accounted
    BY <1>2, BurnStep DEF Accounted
<1>3. ASSUME NEW a \in Account, NEW amount \in Uint,
             LockCRT(a, amount) \/ UnlockCRT(a, amount)
      PROVE  IInv' /\ Accounted
    BY <1>3, LockStep DEF Accounted
<1>4. ASSUME NEW a \in Account, NEW b \in Account, NEW amount \in Uint,
             Transfer(a, b, amount)
      PROVE  IInv' /\ Accounted
    BY <1>4, MoveStep DEF Transfer, IInv, TypeOK, Accounted
<1>5. ASSUME NEW a \in Account, NEW b \in Account, NEW amount \in Uint,
             NEW spender \in Account, TransferFrom(spender, a, b, amount)
      PROVE  IInv' /\ Accounted
  <2>1. allowances' \in [Account -> [Account -> Uint]]
    <3>1. /\ allowances \in [Account -> [Account -> Uint]]
          /\ allowances[a][spender] \in Uint
      BY DEF IInv, TypeOK
    <3>2. CASE UNCHANGED allowances
      BY <3>1, <3>2
    <3>3. CASE /\ allowances[a][spender] >= amount
               /\ allowances' = [allowances EXCEPT ![a][spender] = @ - amount]
      <4>1. allowances[a][spender] - amount \in Uint
        BY <3>1, <3>3, MaxUintAssumption DEF Uint
      <4> QED
        BY <3>1, <3>3, <4>1
    <3> QED
      BY <1>5, <3>2, <3>3 DEF TransferFrom
  <2> QED
    BY <1>5, <2>1, MoveStep DEF TransferFrom, Accounted
<1>6. ASSUME NEW a \in Account, NEW b \in Account, NEW amount \in Uint,
             \/ Approve(a, b, amount)
             \/ IncreaseAllowance(a, b, amount)
             \/ DecreaseAllowance(a, b, amount)
      PROVE  IInv' /\ Accounted
  <2>1. /\ allowances \in [Account -> [Account -> Uint]]
        /\ nonces \in [Account -> 0..MaxNonce]
        /\ allowances[a][b] \in Uint
    BY DEF IInv, TypeOK
  <2>2. PICK value \in Uint : SetAllowance(a, b, value)
    BY <1>6, <2>1, MaxUintAssumption
    DEF Approve, IncreaseAllowance, DecreaseAllowance, Uint
  <2>3. /\ allowances' = [allowances EXCEPT ![a][b] = value]
        /\ UNCHANGED holdingVars
    BY <2>2 DEF SetAllowance
  <2>4. allowances' \in [Account -> [Account -> Uint]]
    BY <2>1, <2>3
  <2>5. nonces' \in [Account -> 0..MaxNonce]
    BY <1>6, <2>1 DEF Approve, IncreaseAllowance, DecreaseAllowance
  <2> QED
    BY <2>3, <2>4, <2>5, AllowanceStep DEF Accounted
<1>7. ASSUME NEW a \in Account, NEW b \in Account, NEW amount \in Uint,
             NEW nonce \in 0..MaxNonce, Permit(a, b, amount, nonce)
      PROVE  IInv' /\ Accounted
  <2>1. nonces' \in [Account -> 0..MaxNonce]
    BY <1>7, MaxNonceAssumption DEF Permit, IInv, TypeOK
  <2>2. allowances' \in [Account -> [Account -> Uint]]
    BY <1>7 DEF Permit, SetAllowance, IInv, TypeOK
  <2> QED
    BY <1>7, <2>1, <2>2, AllowanceStep
    DEF Permit, SetAllowance, Accounted
<1>8. CASE UNCHANGED vars
  <2>1. UNCHANGED holdingVars /\ UNCHANGED <<allowances, nonces>>
    BY <1>8 DEF vars, holdingVars
  <2> QED
    BY <2>1, AllowanceStep DEF IInv, TypeOK, Accounted
<1> QED
    BY <1>1, <1>2, <1>3, <1>4, <1>5, <1>6, <1>7, <1>8 DEF Next

\* No balance wraps and neither does the supply, whatever sequence of calls is made:
\* no transfer or mint loses tokens, and a burn takes what it says and the lock.
THEOREM CrtNothingWraps == Spec => NothingWraps
<1>1. IInv /\ [Next]_vars => [Accounted]_holdingVars
    BY NextStep
<1> QED
    BY <1>1, InitIInv, NextStep, PTL DEF Spec, NothingWraps

\* The claim the source's comments rest their unchecked arithmetic on: free
\* and locked tokens of all accounts together never exceed the supply.
THEOREM CrtHoldingsCovered == Spec => []HoldingsCovered
<1>1. IInv => HoldingsCovered
    BY DEF IInv
<1> QED
    BY <1>1, InitIInv, NextStep, PTL DEF Spec

=============================================================================
