------------------------------ MODULE CrtToken ------------------------------
(***************************************************************************)
(* The credit token CRT: an ERC20 ledger in which part of a holding can be *)
(* locked as backing for an undercollateralised loan.  A locked token      *)
(* leaves `balances` and is counted in `locked` until it is unlocked.      *)
(*                                                                         *)
(* Every operation either completes or reverts, so a require() is an       *)
(* enabling condition.  Arithmetic is that of an unsigned word 0..MaxUint: *)
(* checked additions are guards, additions inside `unchecked` wrap.        *)
(* The zero address, which every entry point rejects, is no account.       *)
(***************************************************************************)
EXTENDS Integers, Functions

CONSTANTS NumAccounts,  \* number of (non-zero) addresses
          MaxUint,      \* type(uint256).max
          MaxNonce      \* bound on the permits one owner signs

ASSUME NumAccountsAssumption == NumAccounts \in Nat \ {0}
ASSUME MaxUintAssumption == MaxUint \in Nat \ {0}
ASSUME MaxNonceAssumption == MaxNonce \in Nat

Account == 1..NumAccounts
Uint == 0..MaxUint

VARIABLES balances,     \* _balances
          locked,       \* _locked
          allowances,   \* _allowances[owner][spender]
          nonces,       \* _nonces
          totalSupply   \* _totalSupply

holdingVars == <<balances, locked, totalSupply>>
vars == <<balances, locked, totalSupply, allowances, nonces>>

Wrap(n) == n % (MaxUint + 1)

Init ==
    /\ balances = [a \in Account |-> 0]
    /\ locked = [a \in Account |-> 0]
    /\ allowances = [a \in Account |-> [s \in Account |-> 0]]
    /\ nonces = [a \in Account |-> 0]
    /\ totalSupply = 0

-----------------------------------------------------------------------------
(***************************************************************************)
(* Moving tokens.                                                          *)
(***************************************************************************)

\* Variants of the operations below, each with one slip; named by mutants.
LockKeepingBalance(account, amount) ==
    /\ balances[account] >= amount
    /\ locked[account] + amount <= MaxUint
    /\ locked' = [locked EXCEPT ![account] = @ + amount]
    /\ UNCHANGED <<balances, totalSupply, allowances, nonces>>

MintUnchecked(account, amount) ==
    /\ totalSupply' = Wrap(totalSupply + amount)
    /\ balances' = [balances EXCEPT ![account] = Wrap(@ + amount)]
    /\ UNCHANGED <<locked, allowances, nonces>>

\* balances after _transfer; the credit is unchecked and may hit the same slot.
Moved(from, to, amount) ==
    [[balances EXCEPT ![from] = @ - amount] EXCEPT ![to] = Wrap(@ + amount)]

MoveTokens(from, to, amount) ==
    /\ balances[from] >= amount
    /\ balances' = Moved(from, to, amount)
    /\ UNCHANGED <<locked, totalSupply>>

Transfer(owner, to, amount) ==
    /\ MoveTokens(owner, to, amount)
    /\ UNCHANGED <<allowances, nonces>>

\* An allowance of type(uint256).max is unlimited and is not used up.
TransferFrom(spender, from, to, amount) ==
    /\ \/ /\ allowances[from][spender] = MaxUint
          /\ UNCHANGED allowances
       \/ /\ allowances[from][spender] # MaxUint
          /\ allowances[from][spender] >= amount
          /\ allowances' = [allowances EXCEPT ![from][spender] = @ - amount]
    /\ MoveTokens(from, to, amount)
    /\ UNCHANGED nonces

Mint(account, amount) ==
    /\ totalSupply + amount <= MaxUint
    /\ totalSupply' = totalSupply + amount
    /\ balances' = [balances EXCEPT ![account] = Wrap(@ + amount)]
    /\ UNCHANGED <<locked, allowances, nonces>>

\* The checked difference comes first: an account with more locked than free
\* cannot burn at all, and what is locked is taken from the balance again.
Burn(account, amount) ==
    /\ balances[account] >= locked[account]
    /\ balances[account] - locked[account] >= amount
    /\ balances' = [balances EXCEPT ![account] = (@ - locked[account]) - amount]
    /\ totalSupply' = Wrap(totalSupply - amount)
    /\ UNCHANGED <<locked, allowances, nonces>>

LockCRT(account, amount) ==
    /\ balances[account] >= amount
    /\ locked[account] + amount <= MaxUint
    /\ balances' = [balances EXCEPT ![account] = @ - amount]
    /\ locked' = [locked EXCEPT ![account] = @ + amount]
    /\ UNCHANGED <<totalSupply, allowances, nonces>>

UnlockCRT(account, amount) ==
    /\ locked[account] >= amount
    /\ balances[account] + amount <= MaxUint
    /\ locked' = [locked EXCEPT ![account] = @ - amount]
    /\ balances' = [balances EXCEPT ![account] = @ + amount]
    /\ UNCHANGED <<totalSupply, allowances, nonces>>

-----------------------------------------------------------------------------
(***************************************************************************)
(* Allowances.                                                             *)
(***************************************************************************)

SetAllowance(owner, spender, amount) ==
    /\ allowances' = [allowances EXCEPT ![owner][spender] = amount]
    /\ UNCHANGED holdingVars

Approve(owner, spender, amount) ==
    /\ SetAllowance(owner, spender, amount)
    /\ UNCHANGED nonces

IncreaseAllowance(owner, spender, addedValue) ==
    /\ allowances[owner][spender] + addedValue <= MaxUint
    /\ SetAllowance(owner, spender, allowances[owner][spender] + addedValue)
    /\ UNCHANGED nonces

DecreaseAllowance(owner, spender, subtractedValue) ==
    /\ allowances[owner][spender] >= subtractedValue
    /\ SetAllowance(owner, spender, allowances[owner][spender] - subtractedValue)
    /\ UNCHANGED nonces

\* A permit the owner signed for `nonce`, submitted by anyone before its
\* deadline.  The digest holds the current nonce, so any other one recovers a
\* different signer and reverts.
Permit(owner, spender, value, nonce) ==
    /\ nonce = nonces[owner]
    /\ nonce < MaxNonce
    /\ nonces' = [nonces EXCEPT ![owner] = @ + 1]
    /\ SetAllowance(owner, spender, value)

Next ==
    \/ \E a \in Account, amount \in Uint :
          \/ Mint(a, amount)
          \/ Burn(a, amount)
          \/ LockCRT(a, amount)
          \/ UnlockCRT(a, amount)
    \/ \E a, b \in Account, amount \in Uint :
          \/ Transfer(a, b, amount)
          \/ Approve(a, b, amount)
          \/ IncreaseAllowance(a, b, amount)
          \/ DecreaseAllowance(a, b, amount)
          \/ \E nonce \in 0..MaxNonce : Permit(a, b, amount, nonce)
          \/ \E spender \in Account : TransferFrom(spender, a, b, amount)

Spec == Init /\ [][Next]_vars

-----------------------------------------------------------------------------
(***************************************************************************)
(* Properties.                                                             *)
(***************************************************************************)

\* Ledger entries and the supply are machine words.
TypeOK ==
    /\ balances \in [Account -> Uint]
    /\ locked \in [Account -> Uint]
    /\ allowances \in [Account -> [Account -> Uint]]
    /\ nonces \in [Account -> 0..MaxNonce]
    /\ totalSupply \in Uint

Holdings == [a \in Account |-> balances[a] + locked[a]]

\* The sum of h over all accounts, which may be more than a word holds.
Total(h) == SumFunctionOnSet(h, Account)

\* The comments on _transfer, lockCRT and unlockCRT justify their unchecked
\* arithmetic with "the sum of all balances is capped by totalSupply": the
\* free and locked tokens of all accounts together never exceed the supply.
HoldingsCovered == Total(Holdings) <= totalSupply

\* What all accounts hold changes by exactly what the supply does, in a transfer
\* by nothing.  Only a burn takes more, the lock it subtracts a second time.
Accounted ==
    \/ Total(Holdings') - Total(Holdings) = totalSupply' - totalSupply
    \/ \E a \in Account, amount \in Uint :
          /\ Burn(a, amount)
          /\ totalSupply' = totalSupply - amount
          /\ Total(Holdings') = (Total(Holdings) - locked[a]) - amount

\* "Overflow not possible" say _transfer, _mint and _burn of their unchecked
\* arithmetic.  A balance that wrapped would lose a whole word of tokens and a
\* supply that did would gain one, so every step is accounted for to the token.
NothingWraps == [][Accounted]_holdingVars

\* _mint "Creates `amount` tokens" and _burn "Destroys `amount` tokens ...
\* reducing the total supply": the supply is what all accounts hold.
SupplyIsHoldings == Total(Holdings) = totalSupply

=============================================================================
