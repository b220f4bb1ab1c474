# Prestare protocol: TLA+ models, checks and proofs

Prestare is a lending market written in Solidity (`src/contracts`), grown out of
AAVE v2. Users supply assets and receive interest-bearing pTokens; against their
supplies they borrow. Two ideas are Prestare's own: an asset is listed in one or
more *risk tiers* (A = 0, B = 1, C = 2, each with a pool of its own), and a user may
lock the credit token CRT to borrow more than the collateral allows.

Beside the contracts, TypeScript scripts (`src/scripts`, `src/helpers`, `src/markets`)
deploy a market: some seventy transactions, with a JSON file as their only memory.

Paths below are relative to `src/`.

## 1. Inventory

| Component | Source | State | Operations |
|---|---|---|---|
| CRT token | `contracts/CRT/token/CrtToken.sol` | free and locked balances, supply, allowances, nonces | mint, burn, transfer, transferFrom, allowances, permit, lockCRT, unlockCRT |
| Pool ("Counter") | `contracts/protocol/Pool/Counter.sol`, `CounterStorage.sol` | reserves by asset and tier, users' flag bits, users' credit, asset classes, reserve list, pause | deposit, withdraw, borrow, repay, setUserUseReserveAsCollateral, finalizeTransfer, liquidationCall, initReserve, upgrade/degradeAssetClass, setPause, setConfiguration |
| Reserve logic | `contracts/protocol/libraries/logic/ReserveLogic.sol`, `math/MathUtils.sol` | two cumulative indexes, two rates, a time stamp | updateState, updateInterestRates, the normalized views |
| Rate strategy | `contracts/protocol/Pool/InterestRate/DefaultReserveInterestRateStrategy.sol` | constants | calculateInterestRates |
| Risk logic | `contracts/protocol/libraries/logic/GenericLogic.sol` | none | calculateUserAccountData, balanceDecreaseAllowed |
| Credit logic | `contracts/protocol/libraries/logic/CRTLogic.sol` | none | calculateCRTBorrow, calculateCRTRepay, calculateCRTValue, validateCRTBalance |
| Validation | `contracts/protocol/libraries/logic/ValidationLogic.sol` | none | one check per entry point |
| Fixed point | `contracts/protocol/libraries/math/*` | none | percentMul/Div, rayMul/Div, wadDiv |
| Tokens | `contracts/protocol/tokenization/*` | scaled balances, credit delegation | mint, burn, transfer, mintToTreasury, approveDelegation |
| Configuration | `contracts/protocol/libraries/configuration/*`, `CounterConfigurator.sol` | bit words | freeze, pause, parameters, listing |
| Liquidation | `contracts/protocol/Pool/CounterCollateralManager.sol` | (the pool's) | liquidationCall |
| PRS token | `contracts/PRS/PRS.sol` | balances, staking locks | lock, unlock, transfer |
| Gateway | `contracts/misc/WETHGateway.sol` | none | depositETH, withdrawETH, repayETH, borrowETH |
| Oracle | `contracts/misc/PrestareOracle.sol` | price sources, fallback | getAssetPrice |
| Addresses provider | `contracts/protocol/Pool/CounterAddressesProvider.sol` | one address per role | setCounter, setCounterConfigurator, setPriceOracle, ... |
| Market configuration | `markets/mainnet`, `helpers/types.ts`, `helpers/constants.ts` | constants | |
| Deployment scripts | `scripts/deploy/deployOnMainnetFork.ts`, `deployOnGorerli.ts`, `scripts/deploy.ts` | local variables of one run | deployOnMainnet, deployOnGoerli, main |
| Deployment helpers | `helpers/utils.ts`, `contracts-deployments.ts`, `contracts-helpers.ts`, `contracts-getter.ts`, `oracle-helpers.ts` | `deployed-contracts.json` | deploy and register a contract, look one up, initReservesByHelper, upgradeReservesByHelper, configureReservesByHelper |
| Configuration parser | `scripts/configParser.ts` | none | one getter per field of a configuration word |
| Platform-token model | `contracts/protocol/Pool/InterestRate/PlatformTokenInterestRateModel.sol`, `PTokenAAVE.sol` | peer-to-peer and pool indexes | calculateInterestRates |

**How they interact.** A user calls an entry point of the pool. The pool asks
ValidationLogic, which asks GenericLogic for the user's position (this walks the
user's flag bits, the reserve list, the tokens' views and the oracle) and CRTLogic
for the credit; it then brings the reserve up to date (which mints the protocol's
share of the interest as pTokens), mints or burns pTokens or debt tokens, locks
or releases CRT, sets flag bits, sets new rates and moves the underlying. One call
goes the other way: a pToken transfer moves balances first and then calls the
pool's finalizeTransfer. The configurator sets switches and parameters in the
pool's storage; the clock and the oracle change between any two calls.

A deployment script is one `async` function. It deploys a contract, writes its
address to `deployed-contracts.json`, tells the addresses provider, and goes on; the
helpers it calls do not get the contracts handed over but look the provider, the
configurator and the rate model up in that file, which every run on a network
shares, and ask the pool what is there before they list a reserve.

**What is hard here.** In the contracts each call is one transaction, so nothing interleaves
*inside* a call; what is hard is the order of calls of several users, time passing
between them, and the bookkeeping that has to agree across contracts:

- flags against balances (a debt without its bit is never counted);
- two indexes compounded in different ways and two tokens rounded separately,
  whose difference is the protocol's solvency;
- a share of the interest minted to two accounts;
- a position looked at from one tier while it spans several;
- a lock of CRT kept in one contract, its worth in another, both changed by
  calls in which payer and borrower differ;
- credit delegation: the borrower, the receiver and the owner of the CRT differ;
- a supply rate and a borrow rate rounded apart, of which the first decides whether
  the second's interest is stored;
- pauses and freezes checked in different places, one of them a callback;
- arithmetic: unchecked additions, an odd `percentMul`, misplaced parentheses.

In the scripts everything is spread over some two hundred awaits:

- a script is killed halfway and run again, on the same chain or on one that has
  been restarted, while the file remembers what was there before;
- what a helper has asked the pool, or read in the file, is old when it uses it;
- the pool is open while it is being built, so the order of its settings matters;
- importing a script runs it, beside the run the importer asks for;
- the words the scripts parse are packed by setters written elsewhere, in another
  language, with masks of their own.

**What makes each part correct.** CRT: free and locked tokens never exceed the
supply, locking keeps an account's holdings. Reserve: reported indexes never fall,
suppliers are never promised more than the reserve has. Pool: every debt is seen,
falls only by payment and rises only by a loan that was asked for; a loan leaves a
healthy position; a withdrawal does not make it unhealthy; switches do what they
say. Asset classes: ids, list and tokens agree, places in the list are given for
good, a reserve is switched off only when it has no cash and earns nothing. Deployment: a run
uses the contracts it has deployed and no others; no pool lends what it cannot
price, at any moment; a finished run leaves exactly the configured market, under
the names in the file; and what is left over never keeps the next run from
finishing. Words: what a setter stores is what the parser reads.

## 2. Modules

| Module | Models | Notes |
|---|---|---|
| `CrtToken` | CrtToken.sol | the ledger, one action per operation; also the ledger the pool locks in (`Counter` instantiates it) |
| `CrtTokenProofs` | | theorems about it, checked by TLAPS |
| `FixedPoint` | WadRayMath, PercentageMath, MathUtils | pure operators, with a predicate where the code reverts |
| `FixedPointProofs` | | lemmas about them: rounding, compounding, what interest adds to a balance sheet; checked by TLAPS |
| `ReserveLogic` | ReserveLogic, the default rate strategy | pure operators on a reserve record |
| `CounterStorage` | storage of pool and tokens | the variables, `Init`, the token views |
| `GenericLogic` | GenericLogic | a user's position up to a tier, the health factor, whether a balance may fall |
| `CRTLogic` | CRTLogic | credit needed, credit released |
| `ValidationLogic` | ValidationLogic | one predicate per check |
| `Counter` | Counter, PToken, debt tokens, switches | one action per entry point |
| `CounterProperties` | | the properties of the pool |
| `CountedMarket` | | the pool with its calls counted, and its solvency up to rounding |
| `CounterProofs` | | theorems about types, flags, CRT and the pause of the pool, checked by TLAPS |
| `SumProofs` | | lemmas about sums over a finite set, of a function's values or of the elements, checked by TLAPS |
| `MarketProofs` | | theorems about the pool's money: supply, indexes, rates, balance sheets, solvency, freezes, delegation, checked by TLAPS |
| `AssetRegistry` | the configurator's calls, the pool's listing functions | tiers, ids, list and settings of reserves; one action per call |
| `ReserveCatalog` | | what the list promises: an append-only list without repetition; `AssetRegistry` implements it |
| `AssetRegistryProofs` | | theorems about the registry, checked by TLAPS |
| `MainnetMarket` | markets/mainnet, types.ts, constants.ts | the market to deploy: assets, price sources, parameters, names |
| `DeployScripts` | the helpers and the three scripts | each function as the sequence of instructions it awaits |
| `ConfigWord` | ReserveConfiguration.sol | the setters of a configuration word, on sets of bit positions |
| `ConfigParser` | configParser.ts | its getters |
| `Deployment` | what an instruction does: contracts, file, provider, configurator, pool, oracles | one action per kind of instruction, and `Start`, `Finish`, `Throw`, `Crash`, `NodeRestarts` |
| `DeploymentProperties` | the getters tests and scripts use | the properties of a deployment, and its refinement of `AssetRegistry` |
| `ConfigWordProofs`, `DeploymentProofs` | | theorems about them, checked by TLAPS |
| `MCCrtToken`, `MCMarket`, `MCTiers`, `MCAssetRegistry`, `MCDeployment` | | instances for TLC |

The modules extend each other in the order `FixedPoint`, `ReserveLogic`,
`CounterStorage`, `GenericLogic`, `CRTLogic`, `ValidationLogic`, `Counter`,
`CounterProperties`, which is the order in which the libraries use each other.
`AssetRegistry` stands beside them: the pool's modules take the listed reserves and
their parameters as constants, the registry shows how they come to be, and keeps
of users' calls only what the setters and the rates react to (three sets of
reserves: with underlying `available`, `owed` something, `earning` a supply rate).
The list of the code, a mapping of positions, is mapped to a sequence by `Listed`
and compared with the catalog by `Catalog == INSTANCE ReserveCatalog WITH ...`.

The deployment modules extend each other in the order `MainnetMarket`,
`DeployScripts`, `Deployment` (with `ConfigWord` and `ConfigParser`), `DeploymentProperties`.
`Registry == INSTANCE AssetRegistry WITH ...` joins the two halves: the pool of a
deployment, its configuration words read bit by bit, is an asset registry in the
sense of the pool's modules, and each call the scripts make on it is a step
`AssetRegistry` allows.

**From scripts to model.** The code between two awaits is one step. `todo[p]` is what
run `p` has left to do, as a sequence of instructions: a helper that loops over
the configuration is unrolled (`ForEach`), and what depends on the state is
expanded when it is reached (`Prepare` asks the pool whether a reserve is there and
puts the instructions that deploy it in front, `CallForEachInput` those that list
what has been prepared). `locals[p]` are the variables that hold contracts; `db` is
the file. A call that reverts, and a look-up of an entry that is not there, is
`Throw`: the promise is rejected and the run ends as failed, with everything it has
done left in place. Addresses are numbers given out in order, as a node gives
them to one deployer, so the same address names another contract after
`NodeRestarts`, as it does in reality. A configuration word is the set of its one-bits.

**From contracts to model.** A transaction is one action. A `require`, a checked
subtraction that would underflow and a revert of a callee are guards: a reverted
transaction changes nothing, so it is a step that does not happen. A mapping is a
function; the reserve record keeps the names of `ReserveData`; the two bit words of
`UserConfigurationMap` are two sets of reserves per user; balances of pTokens and
debt tokens are the scaled ones, and `BalanceOf`/`DebtOf` are the views; `debtSupply` is
the debt token's own `_totalSupply`, kept by mint and burn beside the balances. `cash[r]` is
what the pToken contract holds of the underlying, `wallets` what users hold. An
action writes the state the whole call leaves: `Borrow`, for instance, validates,
accrues and mints the share (`Accrued`, `BalancesAfterAccrual`), locks CRT
(`Crt!LockCRT`), spends the delegated allowance, mints the debt, sets the
borrowing bit, computes rates and moves underlying.

Two orders in the code matter and are kept: checks of the position read the
indexes *before* `updateState` but through the normalized views, and the token
burn of `Repay` uses the index *after*. `FinalizeTransfer` is asked over the
balances after the move; `UsingAfterTransfer` uses those before.

Definitions named `...Unchecked`, `...Late`, `...WhilePaused` and the like are
deliberate slips. No specification uses them; they are put in place of the real
definition to see that a property notices.

## 3. Runs

`cd tla; tlc -config <cfg> <module>`. All bounds are in the cfg files.

| Run | Module / cfg | Shows |
|---|---|---|
| crt_token | MCCrtToken / MCCrtToken.cfg | free and locked tokens of all accounts stay within the supply (`HoldingsCovered`), so no unchecked addition wraps: no step loses or makes tokens (`NothingWraps`) but for the lock a burn takes twice |
| crt_burn | MCCrtToken / CrtTokenBurn.cfg | *violated*: burn takes what is locked out of the free balance as well |
| market_time | MCMarket / MCMarket.cfg | one reserve over time: debts flagged and summing up to their token's supply (`DebtSupplyIsDebts`), indexes monotone and suppliers earning while the loans are more than dust (`ReportedIndexesNeverFall`, `EarningsFollowDebts`), liquidity index behind borrow index, debts fall only by payment, claims of suppliers and treasury backed, to a unit a call at these sizes (`ClaimsBacked`) and by the bound that is proved for all sizes (`ClaimsBackedUpToRounding`) |
| market_accrual | MCMarket / MarketAccrual.cfg | *violated*: a short time after a borrow, updateState reverts |
| market_vault | MCMarket / MarketVault.cfg | *violated*: with the CRT vault's share counted, pTokens stand for more than there is |
| market_tiers | MCTiers / MCTiers.cfg | one asset in two tiers and one in a third, credit, delegation, repayment for others, price changes, freeze and pause: exact balance, CRT kept, healthy loans, nobody owes unasked, a paused pool stands still, a frozen reserve only shrinks |
| withdraw_health | MCTiers / TiersWithdraw.cfg | *violated*: a withdrawal leaves a position below health factor 1 |
| repay_for_other | MCTiers / TiersRepay.cfg | *violated*: a debt backed by CRT cannot be paid by another user |
| asset_registry | MCAssetRegistry / MCAssetRegistry.cfg | the list names each reserve with tokens at its id (`ListNamesReserves`) and never moves or reuses a place (`ListIsACatalog`, the refinement); a reserve that is off has no cash and earns nothing, which is not to say that no deposit is lent out of it at a rate of 0 (`InactiveIsAtRest`) |
| deployment | DeploymentProperties / MCDeployment.cfg | two runs of the scripts, killed anywhere, the node restarted between them: see below |
| deploy_twice | MCDeployment / DeployTwice.cfg | *violated*: the run that importing the script starts makes the other fail |
| registry_tokens | MCAssetRegistry / RegistryTokens.cfg | *violated*: with the inputs the deployment builds, an upgrade tells the new tokens tier C while the pool lists them in tier B |

*deployment* checks, at every await: `BorrowableIsPriced` (a reserve can be borrowed
only with its collateral set and a price to be had), `ReservesFollowClasses`,
`NoBitOutOfPlace`, `ReadsItsOwn` (deployOnMainnet uses no contract of another run,
although it reads the file), `MarketsDoNotMix` (all of a pool is of one run); when a
run has ended, `RegistryMatchesDb` and `MarketAsConfigured` (the market is the
configured one, parameter by parameter, and its tokens are found under their
names); `MainnetEnds` (liveness: deployOnMainnet finishes or is killed, whatever is
left over); and `PoolIsARegistry` (the refinement, which is also proved).

A violated run states what a comment or a test of the code says and shows a behaviour
that breaks it; the text is quoted in PROJECT.json. They are divergences
between comments and code and say nothing about which of the two is intended.

**The instances and why they are large enough.**

- *crt_token*: two accounts, words small enough that every value of a word
  occurs, so any addition that could wrap does.
- *market* (`MCMarket`): one tier-C reserve, two users, three ticks, five calls, and a
  year of ten ticks, so that a tick is a long time and interest is worth many
  units. A ray is 10000 instead of 1e27: rounding is *coarser* than in the code,
  which is what the solvency properties are about. Five calls allow deposit,
  borrow, a second user's deposit, repayment and withdrawal with time between any
  two. `ClaimsBacked` allows one unit per call, the rounding of one mint or burn.
  `ClaimsBackedUpToRounding` allows seven a call and four a tick (`Rays = 1`: everything
  there is, 1500 and its interest, is less than a ray), of some hundreds that are
  moved; a burn at the index read before `updateState` already breaks it.
  There is no base rate, and `WAD_RAY_RATIO`, 1e9 in the code, is 10, so that rounding
  to 0 happens: 7 units lent of 1000 leave an overall rate, and with it a supply
  rate, of 0, of 500 a supply rate of one ray, and 14 of 500, or any loan of 500, are more
  than dust. A reserve goes from one side of the line to the other by borrowing and
  repaying, depositing and withdrawing.
  No prices, CRT or delegation here: they do not touch the reserve's balance.
- *tiers* (`MCTiers`): time stands still (`MaxTime = 0`, `RAY = 2`), so amounts are exact and
  `ReservesBalance` can be an equality. Dai is in tiers B and C, where B may be
  frozen, and ether in tier A; one user holds 100 of the one, the other 100 of the other, both
  users hold CRT, the price of ether doubles and halves. Amounts are chosen around the LTV of 75% and threshold of 80%:
  60 against 100 fits, a second 60 needs credit, 100000 stands
  for `type(uint256).max` ("everything"). Five calls are the shortest sequences in
  which deposit, delegation, borrow, second borrow with credit and repayment
  meet.
- *deployment*: the real configuration, four assets and ten reserves, and the real
  scripts of 80 to 250 instructions, so nothing of a run is cut. Two runs
  (`NumRuns = 2`) of any two scripts one after the other, the first killed after any
  instruction, the node restarted or not, are what a crash and a rerun need: what
  a third would meet is the file of a run that may have been killed, and a chain
  with older pools, which the second meets as well. In *deploy_twice* the two runs
  of deployOnMainnet share a process and take turns, at most twice
  (`MaxSwitches = 2`), which is enough for the violation.
- *asset_registry*: two assets make six possible reserves for a list of four
  places (the code has 128), so the list fills up and an asset listed first (with
  id 0) is told from one that is not. Seven calls list an asset, upgrade it twice,
  degrade it past each tier and back, or list it, configure it, lend from it, pay
  back and switch it off. Two reserves are configured and used. Settings tried: a
  usual collateral setting and the one that disables collateral; reserve factors
  of 10%, 100%, 200% (at which the rate strategy reverts) and 700% (refused). The
  tokens are told any of two tiers; in *registry_tokens* only the deployment's.

In the pool's instances the calls and the clock are the only unbounded things; `MaxCalls` (counted in the
MC modules) and `MaxTime` bound them. The instances stop there, so deadlock is not
checked. In *deployment* `NumRuns` bounds the runs; it checks deadlock (the node can
always be restarted). TLC's integers have 32 bits, which the bounds respect.

**Fairness and liveness.** Contracts act only when somebody calls them and schedule
nothing, so the pool's specifications have no fairness and no liveness is
claimed of them; that a call *can* succeed is stated as a safety property
(`AnyoneCanRepay`, `AccrualNeverBlocks`). A deployment run does go on by itself: a
resolved promise is continued by the event loop, and the nodes the scripts are
configured for mine each transaction at once. `FairSpec` therefore asks weak
fairness of each run's next step, and of nothing else: nobody has to start a run,
kill one or restart a node. `MainnetEnds` is checked under it. It is not a matter of
course: a run in which any call is refused ends as failed.

## 4. Proofs

`tlapm` on `CrtTokenProofs`, `FixedPointProofs`, `CounterProofs`, `SumProofs`,
`MarketProofs`, `AssetRegistryProofs`, `ConfigWordProofs` and `DeploymentProofs`.
The only assumptions are the named ASSUMEs on constants, which TLC evaluates in
the runs. Where a theorem has a hypothesis of its own it says so in its statement;
these are discussed with it.

*CrtToken.* `CrtHoldingsCovered == Spec => []HoldingsCovered` and
`CrtNothingWraps == Spec => NothingWraps`, for any number of accounts, any word size. The
model wraps every unchecked addition, so a wrapped entry is a word like any other and
`TypeOK` sees nothing of it. What a wrap would do is lose a whole word of tokens, and
that is what `NothingWraps` excludes: the holdings of all accounts change by what the
supply does (`Accounted`), or by the lock as well in a burn. Neither property is
inductive: an addition does not wrap because no holder has more than all (`OneOfAll`) and
all have no more than the supply, which is a word. The inductive invariant is
`TypeOK` with `HoldingsCovered`. `Credited` and `Debited` say how the sum follows one
entry (they rest on `SumOneChanged`, below); a transfer is a debit and a credit, and
its credit fits because the sum has just been lowered by as much, also when sender
and receiver are the same. Locking and unlocking leave every holding alone.

*FixedPoint.* Lemmas for every size of a ray: a product or quotient rounded half up
lies within half a unit of the exact one, it is monotone, it
does not shrink what is multiplied by at least one ray, and both growth factors
are at least one ray. Two are about repayment:
`FullPaymentBurnsAll` (whoever pays all that the debt token's view shows has all of the scaled debt
burned, if the index is at least a ray and the view's is not behind it) and
`BurnedIsPaidFor` (what is burned was paid for, up to one scaled token).

*Counter.* Five theorems, for any users, reserves, parameters, rates and size of a ray:

| Theorem | States | Rests on |
|---|---|---|
| `TypeCorrect` | `Spec => []TypeOK`: nothing goes below zero, no index leaves RAY..MaxIndex, no time stamp is ahead of the clock | `TypeOK` is inductive by itself; what keeps amounts in Nat is the code's checked subtractions, and what keeps indexes and rates in range is the code's check that they fit 128 bits |
| `DebtsFlagged` | `Spec => []DebtIsFlagged` | inductive relative to `TypeOK`; the case of `Repay` that clears the bit is `FullPaymentBurnsAll` |
| `DebtsFallOnlyByPayment` | `Spec => DebtFallsOnlyByPayment` | `TypeOK`; `Repay` is the only action that lowers a debt, and there it is `BurnedIsPaidFor` |
| `CrtStaysWithItsOwner` | `Spec => []CrtHoldingsKept` | inductive relative to `TypeOK` |
| `PausedPoolStandsStill` | `Spec => PausedStandsStill` | one look at every action |

`TypeCorrect` is built from lemmas that describe one reserve once
(`UpdateIndexesSteps`, `UpdateInterestRatesSteps`, `AccruedSteps`, `ShareMinted`,
`StoredReserve`) and have one lemma per action. The lemmas `RepaySteps`,
`BorrowSteps` and `OtherSteps` say what each action can do to debts and flags, and
the two theorems about debts use only them.

*Sums.* What holders have together is the community modules' `SumFunctionOnSet`, a fold
that takes the elements of a set one after the other with CHOOSE. `SumProofs` shows
that this recursion has a solution, that the order does not matter, and what
changing one value does to the sum (`SumOneChanged`). None of it needs an
induction rule: each fact is shown by looking at the smallest subset that refutes it
(`SmallestSubset`, from the well-foundedness of strict inclusion on a finite set).

*The pool's money* (`MarketProofs`), for any users, reserves, parameters, rates and
size of a ray. The lemma `EveryStep` sorts the actions once by what they do to one
reserve (bring it up to date and set new rates, or leave it); the theorems look at
those cases.

| Theorem | States | Rests on |
|---|---|---|
| `SupplyIsOwed` | `Spec => []DebtSupplyIsDebts` | every mint and burn moves one debt and the supply by the same scaled amount (`DebtsAndSupplyMove`), and `SumOneChanged` |
| `SuppliersStayBehind` | `RatesCoverEarnings` gives `Spec => []SuppliersEarnNoMoreThanBorrowersPay` | `EarningsCovered`, below |
| `ReserveFactorCoversRounding` | when `RatesCoverEarnings` holds: at every utilisation the reserve factor holds back the seconds of a year and what the overall rate may gain by rounding, or at most half of the rate is earned at all, or nothing | bounds on `RayMul` and `PercentMul` |
| `IncomeNeverFalls` | what a pToken is worth never falls, unconditionally | an update stores what the view showed |
| `EarningsReachSuppliers` | if no reserve factor is 100%, then `Spec => []EarningsFollowDebts`: suppliers earn while the loans are more than dust | the invariant `RatesAreCurrent`: a reserve that lends has both rates from what it lends now, and `percentMul` did not refuse them; `MoreThanDustEarns` for the two roundings of `calculateInterestRates` |
| `ReportsOfLoansNeverFall` | under the same condition `Spec => ReportedIndexesNeverFall` | the theorem before, and `ReportsNeverFall`: an update by a supply rate above 0 stores what the debt's view showed |
| `FrozenReservesShrink` | `Spec => FrozenOnlyShrinks` | one lemma per action on what it does to the users' sum of pTokens and to the debt supply |
| `BalancesBeforeInterest` | `Spec /\ []NoInterestYet => []ReservesBalance` | the invariant `SheetBalances`: scaled pTokens = cash + scaled debt supply |
| `BalancesWithoutInterest` | strategies that ask for no interest give `Spec => []ReservesBalance` | the invariant `ReservesAtRest` (both indexes at a ray, both rates 0), and the theorem before |
| `SuppliersAreBacked` | `RatesCoverEarnings` gives `CountedSpec /\ []ModestAmounts => []ClaimsBackedUpToRounding` | the invariants `SheetBacked`, `RatesAreSet` and `EarningsCovered`, below |
| `NobodyOwesForOthers` | `Spec => NobodyOwesUnasked`, interest accruing or not | the scaled debt that `Borrow` writes, and `RepaySteps` |

`SuppliersEarnNoMoreThanBorrowersPay` is not inductive: which index is ahead after an update depends on
the rates in force since the last one. `EarningsCovered` adds that the supply rate
is at most what is left of the borrow rate after `calculateCompoundedInterest` has
divided it by the seconds of a year and cut off the rest, and that a reserve with a
supply rate has debt (otherwise an update would move the liquidity index alone).
TLC checked `EarningsCovered` on the market's instance before it was proved.

`SuppliersAreBacked` is the solvency of a reserve: what one call rounds in a
supplier's favour, and what the treasury is minted, add up to no more than a few
units a call, over every history. `ClaimsBackedUpToRounding` speaks of the views,
at the present time; the invariant, of what is stored:

- `SheetBacked`: scaled pTokens times the liquidity index are at most cash times a
  ray plus the scaled debt supply times the borrow index, plus `Roundings(calls, time
  of the last update)` times the borrow index. Everything is a product, nothing is
  rounded, so that the error of a call can be counted in units of the debt index. It
  is an index's worth because that is what one scaled token lost by `rayDiv` is worth.
- `RatesAreSet`: the supply rate in force is the one the strategy computes from the
  sheet as it is; whatever moves underlying or debt sets the rates anew. Without it
  nothing relates what suppliers earn to what borrowers owe.
- `EarningsCovered`, as above.

An accrual moves all three parts of the sheet. Suppliers earn the supply rate on
what they hold, that is utilization times borrow rate times what is left by the
reserve factor; borrowers owe at least the borrow rate on their debt, because
compounding is never less than the linear growth (`CompoundedAtLeastLinear`), and
the rounded utilization times the sheet is the debt up to half a unit per ray of
the sheet (`RateOnSheet`). The difference, at least the reserve factor's
part, pays for what `_mintToTreasury` mints (`ShareOnSheet`); `GrowthOnSheet` puts the
three together, for any numbers. Then the call enters what it moves on both sides
of the sheet, at the index it has just stored (`EntersBoth`). The vault's share is not counted: the
strategy sets aside one share and the code mints two, which is what market_vault
shows. TLC checked `SheetBacked` and `RatesAreSet` on the instance of market_time
before they were proved.

The hypotheses, and why they are not more than the code gives:

- `RatesCoverEarnings` is about constants only. No contract checks it: a strategy
  may be deployed with rates so low that a year's worth of a rate disappears in
  the division by seconds while suppliers are still credited for it, and then the
  liquidity index does get ahead, by dust. The markets have it by
  `ReserveFactorCoversRounding`: the three mainnet strategies ask for at least 0%, 5%
  and 10% of 1e27 a year and hold back 10% of it, far more than the 3.2e7 of a year's
  seconds and the 5e17 (half of 1e27 / 1e9) that `_getOverallBorrowRate` may gain by
  rounding; where the first strategy asks for less than they do, so little is lent
  that most of the rate is not earned. A market without a reserve factor (that of PRS
  in the unused `markets/prestare`) is not covered. TLC evaluates it on the instance of
  market_time (`MCMarketRates`).
- A reserve factor below 100% is what `EarningsReachSuppliers` asks of the parameters; the
  mainnet's are 10%. The rest is in the property: `EarningsFollowDebts` speaks of loans
  that are more than dust (`LoansAreDust`), which the code does not enforce. A loan is
  dust where a year's interest on all the debt is less than 1 / 1e9 of a unit
  (`_getOverallBorrowRate` then has a product below one ray) or the rate times the
  utilisation is below two rays. Then `updateState` may leave the borrow index alone
  although the debt view goes on accruing, and the next update shows less debt than the
  view did: TLC finds it in the instance
  of market_time if `~LoansAreDust` is left out: deposit 500, borrow 7, deposit 500, let a tick
  pass, repay 7. Of the mainnet strategies the one without a base
  rate, which asks for a twentieth of the utilisation, meets it with small amounts: the
  loans `D` of a reserve of `T` smallest units are dust when `D * D` is below `T * 2e-8`,
  that is 1 unit lent of 100 USDC, or up to 141 units, a hundredth of a cent, of a million. At a
  base rate of 5% or 10% it takes one part in 1e25. `LoansAreDust` is on the safe side:
  between half a ray and one the products round up and suppliers may still earn.
- `ModestAmounts` limits the sizes the rounding errors grow with: no reserve comes to
  more than `Rays` rays of the smallest unit, for a constant that may be any number, and
  there are fewer roundings than two rays. With `Rays = 1`, a ray of Dai being a
  billion Dai, it leaves room for 1e26 calls over as many seconds. The error allowed
  grows with `Rays`, as it must: an index has 27 digits, and half a unit in
  the last of them is worth half a unit of the currency for every ray that is
  supplied. On the instance of market_time `ModestAmounts` holds in every state (1500
  units against a ray of 10000, at most five calls and three ticks).
- `NoInterestYet` limits the balance to the time before interest, where amounts are
  exact; `NoInterest` is the same as a condition on the strategies, and is how the
  instance of market_tiers has it (`MCTiersRates`).

*AssetRegistry.* Four theorems, for any assets, settings and up to 128 places.
`ListNamesTheReserves` is `Spec => []ListNamesReserves`. The property is not
inductive: `_addReserveToList` decides whether a reserve is new from its id and the
first slot, so the invariant `IInv` adds that reserves without tokens have id 0 and
that slots past the end are empty. With it a reserve whose tokens are new is new
to the list (`NewIsNotAdded`), hence a listing always appends. `RegistryTypeCorrect`
is the type part of `IInv`. `ListImplementsCatalog` is `Spec => ListIsACatalog`: a
listing is a `Catalog!Add` step, everything else leaves `Listed` alone. `InactiveRests`
is `Spec => []InactiveIsAtRest`, inductive relative to `TypeOK`: only
`DeactivateReserve` clears a set active bit (`InactiveStep` looks at every setter), and
users' calls touch active reserves only (`UseSteps`).

*ConfigWord and ConfigParser.* `NumbersReadBack` and `FlagsReadBack`: for every word and
every number that fits, the parser's getter returns what the pool's setter has
stored; `SettersKeepApart`: no setter changes what another getter reads. They rest
on two lemmas about any field: what is stored at `first..last` is read there
(`FieldRead`), and a word is left as it was elsewhere (`FieldKept`). Setters and masks
come from two files in two languages, so the theorems compare them position by
position.

*Deployment: the pools.* Two theorems, for any number of runs, any of the scripts, one
process or many: `AssetsRiseTierByTier` is `Spec => []ReservesFollowClasses`,
`AbsentFeaturesStayOff` is `Spec => []NoBitOutOfPlace`. The invariant `IInv` says of every
pool (`IsPool`) that its reserves are those of its classes and up, that the list
names each once, and that every word is made of known bits (`IsReserve`); it holds
of the empty pool, is kept by a listing (`WithReserve`, where the new tier must be
the one below the class, or C for an asset the pool does not know: the guard
that the reserve is new gives this together with the invariant) and by each
setting, and everything else leaves the pools alone or deletes them all. Neither
property says anything about runs, and the proof needs nothing about them: the
contracts protect the pool from every script.

*Deployment: the runs.* Six theorems about what the scripts, not the contracts,
keep right: `RunsReadTheirOwn` is `Spec => []ReadsItsOwn`, `MarketsAreOfOneRun` is
`Spec => []MarketsDoNotMix`, `LoansCanBeJudged` is `Spec => []BorrowableIsPriced`,
`ProviderMatchesFile` is `Spec => []RegistryMatchesDb`, `ScriptsKeepToTheRegistry` is
`Spec => PoolIsARegistry` (below) and `DeploymentTyped` is `Spec => []TypeOK`. They hold
for any number of runs, of any of the scripts, killed and started again anywhere, with
the chain lost in between. They are about the scripts as they are written, so the
proof reads every plan, in four parts (the fourth for `ProviderMatchesFile` alone):

1. *The scripts are in order.* Every instruction has needs and gifts (`Needs`, `Gives`),
   which are tokens: a variable, an entry of the file, a rate strategy, an oracle, the
   fact that reserves are prepared. `Ready(K, s)` says that each instruction of `s` has
   what it needs from `K` or from an earlier one; `Leads(admin, K, s, L)` that `s` is
   made of instructions the scripts have, is ready when `K` is given, and gives `L`.
   `Leads` is closed under concatenation (`LeadsConcat`) and under loops
   (`LeadsForEach`), so it is shown of each helper once, with no induction over the
   plan, and `PlanOpens` puts the helpers together to the three scripts. Beside
   it goes that `enableBorrowingOnReserve` always follows
   `configureReserveAsCollateral` of the same reserve (`CollateralFirst`) and that a
   provider is deployed first and once.
2. *What is left stays in order* (`Todo`). A run has what its tokens say (`Has`), and every
   instruction really gives what `Gives` says (`DoneTodo`). The loops that are unrolled as
   they go, over the configuration and over the inputs gathered, keep the order
   (`ExpandTodo`): a listing in them finds its input because there are no more listings
   left than inputs.
3. *The state between two instructions* (`DInv`). Of the chain: every contract is of
   one run, and what a provider, a configurator or a pool names is of the
   same run (`RegistryInv`); a reserve is listed by deployOnMainnet only, from that
   run's contracts, and is open for borrowing only when it is a collateral and the
   provider has an oracle (`ReservesInv`), which prices every asset (`OraclesInv`). Of the
   run that is running: what its variables, strategies and inputs name is its own
   (`LocalsInv`, `HelperInv`), and what it has left is in order and rests on what it has
   (`TodoInv`). Of the file it says only that its entries are addresses: an entry counts
   when this run has written it, which is what `HasEntryOf` says, and part 1 shows
   that deployOnMainnet reads no other.
4. *Nothing is left out* (`GoalsInv`). A script has eleven goals (`Goal`): each contract of
   the market saved in the file, each slot of the provider naming what it should. A
   goal compares two pieces of state, so later instructions can undo it: a contract
   deployed again into the same variable, an entry written over, a new provider whose
   slots are empty. Of each instruction the proof says what it reaches and what it may
   undo (`Reaches`, `Undoes`); of a sequence, what it reaches in all and what it
   undoes and does not reach again (`Reached`, `Owed`), which `ReachedConcat` computes for a
   concatenation. `PlanPays` goes through the helpers once more: no script owes
   anything, and each reaches every goal. Then what a run has achieved so far
   (`Achieved`, read off the state) and what it has yet to reach are together all goals,
   after every step of it: `GoalsNext`, with one case per action. A run that ends has
   nothing left, so it has achieved them all (`DoneMatches`), and nothing changes until
   the next run starts or the chain is lost (`NextMatches`).

`DInv` and `IInv` together are inductive: `NextDInv` has one case per action; `GoalsInv` and
`RegistryMatchesDb` are so beside them. The theorems suppose `~SameProcess`, that runs
follow each other: two runs that share a process do read each other's entries, which is
what the run deploy_twice shows. They also use `NamesAssumption`, which TLC evaluates
in the runs: a name put together from parts, such as `pDAI-A`, is never that of a
contract or of a script's variable. Strings are
atoms to the provers.

*Deployment: the refinement.* `ScriptsKeepToTheRegistry` joins the two halves of the
project for every number of runs: what the theorems about `AssetRegistry` say of a
registry they say of the pool the scripts build. The registry's variables are functions of
the first pool (`RegistryTiers`, `RegistryIds`, `RegistryConfigurations`, `RegistryClasses`,
`RegistryList`), so each step of a script is a step of the registry, or changes nothing
it sees:

- *The numbers.* The scripts write a parameter as bits into a word, the registry has it as
  a number. `BitsKeepValue`, in `ConfigWordProofs`, says that a number below 65536 is read
  from its bits as it was written: the fold that sums them adds one bit at a time
  (`SumSetAdd`), and after each bit the sum is the number's remainder by the next power
  of two (`BitsAddUp`). An empty field is 0 (`NoBits`).
- *The setters.* By `SettersKeepApart` of `ConfigWordProofs` each setter changes its own
  field. So the four words a script writes, a new one (`OpenedSettings`), collateral
  (`CollateralSettings`), borrowing (`BorrowingSettings`) and the factor (`FactorSettings`),
  change the registry's record in the fields its action changes; the values are those of
  the configuration, which keeps `liquidationThreshold` at the LTV or above as the
  configurator demands.
- *The list.* A listed reserve is put behind the others, with its tier told and its class
  set (`ListingIsRegistered`), at the place the registry gives it (`ListedPlace`). The
  contracts ask for a free place and an uninitialized reserve before they list it
  (`ListingIsNew`). The code's own test for a reserve that is in the list already
  (`AlreadyAdded`: a place above 0, or the first place taken by it) then finds none,
  because the list has the initialized reserves and no others, which is part of
  `IInv`; otherwise the registry would leave its list and class as they are.
- *The rest.* The pool has fields the registry has not: what they get is not seen
  (`FieldsAreUnseen`), a pool deployed first has nothing in it (`FirstPoolIsNew`), and only a
  restart of the node takes the pool away (`NothingIsLost`), which is `ChainIsLost`.

Only model-checked, and why:

- `ClaimsBacked` allows one unit of rounding a call, which is right for the sizes of
  market_time and sharper than `ClaimsBackedUpToRounding`. It does not hold of all
  sizes: the error of a call grows with the balance times the error of an index.
- `BorrowLeavesHealthy` holds for the amounts of market_tiers, not for dust: with a
  collateral of 1 the truncations of the LTV check and of the health factor differ,
  and a loan of 1 is let through that leaves a factor below 1.
- `AnyoneCanRepay` speaks of `ENABLED`, `MainnetEnds` of liveness: both are out of the
  prover's reach.
- Of the deployment, `MarketAsConfigured`: that the market of a finished run is the
  configured one, nothing left out and nothing else, needs goals for every reserve,
  parameter and registered name, which `GoalsInv` has for contracts and slots only.
  What a call sets is proved (`ScriptsKeepToTheRegistry`), that every call is made is not.

## 5. Abstractions

- Amounts are far below 2^256 and the reverts of 256-bit overflow are left out;
  the 128-bit bound on indexes is kept (`MaxIndex`). CRT keeps its width.
- Health factor and LTV are compared in basis points; the code goes through wads,
  which are finer, and only the truncation to bps shows.
- The refusal of tiny products by `percentMul` is modelled wherever the code calls it:
  for interest shares, health factors, credit and the strategy's supply rate (`RatesDefined`).
- The underlying tokens are outside the repository: plain ERC20s that revert when
  the sender has too little. Approvals of the pool are left out.
- In the pool's modules LTV, liquidation threshold, reserve factor and strategy are
  constants of an instance and the tokens know their own tier; how the setters
  change them, and that the tier may be told wrong, is `AssetRegistry`.
- In `AssetRegistry` amounts are gone: after a call a reserve with debt may or may
  not earn a supply rate (rounding decides), but earns one when everything is
  lent out, unless the reserve factor is 100%. That supposes a positive borrow rate at
  full utilisation that does not round to 0. Underlying
  sent to a pToken contract past the pool is left out. So are the
  address of the rate strategy, decimals and the stable-rate flag.
- In the deployment the branches for the tokens of AAVE (names that begin with `a`:
  PTokenAAVE, createMarket), for an asset without an address, for an LTV of `-1` and
  for a liquidation threshold of 0 are left out: the configuration has none of them.
  So are setEthUsdPrice and setPool of the rate model, whose values nothing
  deployed reads, the names and symbols given to tokens, and prices as numbers: an
  asset has a price or not.
- The file is written synchronously and whole, as lowdb's FileSync does; a crash
  in the middle of a write is left out. Transactions are mined in order, at once.
- pToken allowances, permit and transferFrom, events, errors, referral codes,
  initialisation and role checks are left out. Logging is left out.

## 6. Not modelled

- *Liquidation* (`CounterCollateralManager`). The pool's liquidationCall encodes a
  signature that no function of the manager has, so every liquidation reverts; the
  model of the pool therefore has no such action.
- *PRS token*: no other contract calls it.
- *WETH gateway*: the calls that wrap ether around the pool's; authorizeCounter is
  part of the deployment.
- *Platform-token model and PTokenAAVE*: unfinished, and dependent on an external
  pool; no reserve of the configuration uses them.
- *The generation of helpers before* (`utils/*.ts`, `markets/prestare`): inherited for
  an earlier layout; none of the scripts uses it.
- *Task scripts* that send one transaction and print, tests, vendored libraries,
  ABIs, mocks other than those the scripts deploy.

`deploy.ts` and `deployOnGorerli.ts` are modelled with the call they make, which leaves out an
argument of initReservesByHelper (`scripts/deploy.ts:108`,
`scripts/deploy/deployOnGorerli.ts:127`): the treasury's address stands where a
signer is expected, and both runs end as failed with an open pool that has no
reserves. `deploy.ts` also hands the price pairs a number where a currency is
expected (line 85), so WETH has only its fallback price.

Within reach and left: a credit module that relates what is locked to what is
borrowed on it over several tiers; an abstract vault that one reserve at constant
time implements; goals for the reserves, as for the registry, from which `MarketAsConfigured` would
follow.
