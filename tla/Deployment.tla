----------------------------- MODULE Deployment -----------------------------
(***************************************************************************)
(* Runs of the deployment scripts against one chain and one                *)
(* deployed-contracts.json.  A run does the instructions of its script one *)
(* by one; between two of them it may crash, and another run may start     *)
(* over on what it left.  A call that reverts, or reads an entry that is   *)
(* not there, ends the run with an error.  The file outlives the chain: a  *)
(* node that forks a public chain has only that chain's contracts when it  *)
(* is restarted.                                                           *)
(*                                                                         *)
(* The nodes the scripts are configured for mine every transaction at      *)
(* once, so an instruction that awaits a call awaits its effect.           *)
(***************************************************************************)
EXTENDS DeployScripts, ConfigWord, ConfigParser

CONSTANTS NumRuns,       \* bound on the runs of a script
          Scripts,       \* the scripts that are run
          SameProcess    \* do the runs share an operating system process?

ASSUME RunsAssumption == NumRuns \in Nat \ {0}
ASSUME ScriptsAssumption == Scripts \subseteq Script
ASSUME ProcessAssumption == SameProcess \in BOOLEAN

Run == 1..NumRuns

VARIABLES
    started,       \* how many runs there have been
    status,        \* of each run
    script,        \* the script it runs
    todo,          \* the instructions it has left
    locals,        \* its variables that hold contracts
    inputs,        \* initInputParams or upgradeInputParams of a helper
    strategies,    \* strategyAddresses of a helper
    db,            \* deployed-contracts.json: key to address
    code,          \* contracts on the chain: what each is and whose
    nextAddress,   \* of the next contract
    slots,         \* _addresses of each addresses provider
    configurator,  \* state of each configurator
    pool,          \* state of each Counter
    source,        \* assetsSources of each PrestareOracle
    priced,        \* assets with a price in a PriceOracle
    authorized     \* pools that may draw WETH from a gateway

runVars == <<started, status, script>>
localVars == <<locals, inputs, strategies>>
providerVars == <<slots, configurator>>
oracleVars == <<source, priced>>
chainVars == <<code, nextAddress, providerVars, pool, oracleVars, authorized>>
vars == <<runVars, todo, localVars, db, chainVars>>

-----------------------------------------------------------------------------

\* f with the entry v at k.
Put(f, k, v) == [x \in DOMAIN f \cup {k} |-> IF x = k THEN v ELSE f[x]]

Slot == {"PoolAdmin", "EmergencyAdmin", "Counter", "CounterConfigurator",
         "PriceOracle", "CounterCollateralManager"}

UnsetSlots == [slot \in Slot |-> ZERO_ADDRESS]

\* A reserve is a pair of an asset and a tier.
NewPool ==
    [provider |-> ZERO_ADDRESS, reserves |-> << >>, list |-> << >>,
     assetClass |-> << >>, paused |-> FALSE, crt |-> ZERO_ADDRESS]

External == 1..Deployer - 1

\* The chain before any script has run.
Forked == [a \in External |-> [contract |-> "external", by |-> 0]]

Init ==
    /\ started = 0
    /\ status = [p \in Run |-> "waiting"]
    /\ script = [p \in Run |-> "none"]
    /\ todo = [p \in Run |-> << >>]
    /\ locals = [p \in Run |-> << >>]
    /\ inputs = [p \in Run |-> << >>]
    /\ strategies = [p \in Run |-> << >>]
    /\ db = << >>
    /\ code = Forked
    /\ nextAddress = Deployer + 1
    /\ slots = << >>
    /\ configurator = << >>
    /\ pool = << >>
    /\ source = << >>
    /\ priced = {}
    /\ authorized = {}

-----------------------------------------------------------------------------
(***************************************************************************)
(* The course of a run.                                                    *)
(***************************************************************************)

Running(p) == status[p] = "running"
Doing(p, op) == Running(p) /\ todo[p] # << >> /\ Head(todo[p]).op = op
Instruction(p) == Head(todo[p])

Done(p) == todo' = [todo EXCEPT ![p] = Tail(@)]
Expand(p, instructions) == todo' = [todo EXCEPT ![p] = instructions \o Tail(@)]

Get(p, as) == IF as = "admin" THEN Deployer ELSE locals[p][as]
Assign(p, as, a) == locals' = [locals EXCEPT ![p] = Put(@, as, a)]

\* The memory of a run ends with it.
Forget ==
    LET Kept(f) == [p \in Run |-> IF status'[p] = "running" THEN f[p] ELSE << >>]
    IN  /\ todo' = Kept(todo)
        /\ locals' = Kept(locals)
        /\ inputs' = Kept(inputs)
        /\ strategies' = Kept(strategies)

\* A test file that imports a script runs its main() and then calls it again in
\* the same process; process.exit at the end of main() ends both.
RunsMain(p) == SameProcess => p = 1
End(p, how) ==
    /\ status' = [q \in Run |-> IF q = p THEN how
                                ELSE IF RunsMain(p) /\ Running(q) THEN "killed"
                                ELSE status[q]]
    /\ Forget
    /\ UNCHANGED <<started, script, db, chainVars>>

Start(p, s) ==
    /\ p = started + 1
    /\ SameProcess => \A q \in Run : RunsMain(q) => status[q] \in {"waiting", "running"}
    /\ ~SameProcess => \A q \in Run : ~Running(q)
    /\ started' = p
    /\ status' = [status EXCEPT ![p] = "running"]
    /\ script' = [script EXCEPT ![p] = s]
    /\ todo' = [todo EXCEPT ![p] = Plan(s)]
    /\ UNCHANGED <<localVars, db, chainVars>>

Finish(p) ==
    /\ Running(p)
    /\ todo[p] = << >>
    /\ End(p, "finished")

\* The process is killed, or the connection to the node is lost.
Crash ==
    /\ \E p \in Run : Running(p)
    /\ status' = [p \in Run |-> IF Running(p) THEN "killed" ELSE status[p]]
    /\ Forget
    /\ UNCHANGED <<started, script, db, chainVars>>

NodeRestarts ==
    /\ \A p \in Run : ~Running(p)
    /\ code' = Forked
    /\ nextAddress' = Deployer + 1
    /\ slots' = << >>
    /\ configurator' = << >>
    /\ pool' = << >>
    /\ source' = << >>
    /\ priced' = {}
    /\ authorized' = {}
    /\ UNCHANGED <<runVars, todo, localVars, db>>

-----------------------------------------------------------------------------
(***************************************************************************)
(* Contracts and the file.                                                 *)
(***************************************************************************)

\* The script's `allTokenAddresses' and price sources.
TokenAddresses(p) ==
    CASE script[p] = "mainnet" -> ReserveAssetsAddress.Mainnet
      [] script[p] = "goerli" -> ReserveAssetsAddress.Goerli
      [] script[p] = "mocks" -> [symbol \in Symbol |-> locals[p][symbol]]

Aggregators(p) ==
    CASE script[p] = "mainnet" -> ChainlinkAggregator.Mainnet
      [] script[p] = "goerli" -> ChainlinkAggregator.Goerli
      [] script[p] = "mocks" ->
             [symbol \in Symbol |-> locals[p]["MockAggregator-" \o symbol]]

QuoteCurrency(p) ==
    IF script[p] = "mocks" THEN OracleQuoteUnit ELSE oracleQuoteCurrency

Pairs(p) == getPairsTokenAggregator(TokenAddresses(p), Aggregators(p), QuoteCurrency(p))

\* What a constructor stores.
NewState(f, contract, kind, state) ==
    IF contract = kind THEN Put(f, nextAddress, state) ELSE f

Deploy(p) ==
    /\ Doing(p, "deploy")
    /\ LET contract == Instruction(p).contract
       IN  /\ code' = Put(code, nextAddress, [contract |-> contract, by |-> p])
           /\ slots' = NewState(slots, contract, "CounterAddressesProvider", UnsetSlots)
           /\ pool' = NewState(pool, contract, "Counter", NewPool)
           /\ source' = NewState(source, contract, "PrestareOracle",
                            IF contract = "PrestareOracle"
                            THEN [fallback |-> locals[p]["PriceOracle"], pairs |-> Pairs(p)]
                            ELSE << >>)
    /\ nextAddress' = nextAddress + 1
    /\ Assign(p, Instruction(p).as, nextAddress)
    /\ Done(p)
    /\ UNCHANGED <<runVars, inputs, strategies, db, configurator, priced, authorized>>

HasVariable(p) == Instruction(p).as \in DOMAIN locals[p]

\* A slip: an entry that is there is left.
RegisterOnce(p) ==
    /\ Doing(p, "register")
    /\ HasVariable(p)
    /\ db' = IF Instruction(p).key \in DOMAIN db THEN db
             ELSE Put(db, Instruction(p).key, locals[p][Instruction(p).as])
    /\ Done(p)
    /\ UNCHANGED <<runVars, localVars, chainVars>>

Register(p) ==
    /\ Doing(p, "register")
    /\ HasVariable(p)
    /\ db' = Put(db, Instruction(p).key, locals[p][Instruction(p).as])
    /\ Done(p)
    /\ UNCHANGED <<runVars, localVars, chainVars>>

RawInsert(p) ==
    /\ Doing(p, "rawInsert")
    /\ db' = Put(db, Instruction(p).key, Instruction(p).address)
    /\ Done(p)
    /\ UNCHANGED <<runVars, localVars, chainVars>>

\* `undefined' has no address.
HasEntry(key) == key \in DOMAIN db

Attach(p) ==
    /\ Doing(p, "attach")
    /\ HasEntry(Instruction(p).key)
    /\ Assign(p, Instruction(p).as, db[Instruction(p).key])
    /\ Done(p)
    /\ UNCHANGED <<runVars, inputs, strategies, db, chainVars>>

-----------------------------------------------------------------------------
(***************************************************************************)
(* The addresses provider, the price oracle and initialisation.            *)
(***************************************************************************)

Set(p) ==
    /\ Doing(p, "set")
    /\ slots' = [slots EXCEPT ![locals[p]["CounterAddressesProvider"]] =
                    [@ EXCEPT ![Instruction(p).slot] = Get(p, Instruction(p).as)]]
    /\ Done(p)
    /\ UNCHANGED <<runVars, localVars, db, code, nextAddress, configurator, pool,
                   oracleVars, authorized>>

InitializeCounter(p) ==
    /\ Doing(p, "initialize")
    /\ Instruction(p).as = "Counter"
    /\ pool' = [pool EXCEPT ![locals[p]["Counter"]] =
                   [@ EXCEPT !.provider = locals[p]["CounterAddressesProvider"]]]
    /\ Done(p)
    /\ UNCHANGED <<runVars, localVars, db, code, nextAddress, providerVars,
                   oracleVars, authorized>>

InitializeConfigurator(p) ==
    /\ Doing(p, "initialize")
    /\ Instruction(p).as = "CounterConfigurator"
    /\ LET provider == locals[p]["CounterAddressesProvider"]
       IN  configurator' = Put(configurator, locals[p]["CounterConfigurator"],
               [addressesProvider |-> provider, counter |-> slots[provider]["Counter"]])
    /\ Done(p)
    /\ UNCHANGED <<runVars, localVars, db, code, nextAddress, slots, pool,
                   oracleVars, authorized>>

SetAssetPrice(p) ==
    /\ Doing(p, "setAssetPrice")
    /\ priced' = priced \cup
           {[oracle |-> locals[p]["PriceOracle"],
             asset |-> TokenAddresses(p)[Instruction(p).symbol]]}
    /\ Done(p)
    /\ UNCHANGED <<runVars, localVars, db, code, nextAddress, providerVars, pool,
                   source, authorized>>

AuthorizeCounter(p) ==
    /\ Doing(p, "authorizeCounter")
    /\ authorized' = authorized \cup
           {[gateway |-> locals[p]["WETHGateway"], counter |-> locals[p]["Counter"]]}
    /\ Done(p)
    /\ UNCHANGED <<runVars, localVars, db, code, nextAddress, providerVars, pool,
                   oracleVars>>

-----------------------------------------------------------------------------
(***************************************************************************)
(* The helpers that list reserves.                                         *)
(***************************************************************************)

EnterHelper(p) ==
    /\ Doing(p, "enterHelper")
    /\ HasEntry("CounterAddressesProvider")
    /\ Assign(p, "addressProvider", db["CounterAddressesProvider"])
    /\ inputs' = [inputs EXCEPT ![p] = << >>]
    /\ strategies' = [strategies EXCEPT ![p] = << >>]
    /\ Done(p)
    /\ UNCHANGED <<runVars, db, chainVars>>

Letter(tier) == CASE tier = 0 -> "-A" [] tier = 1 -> "-B" [] tier = 2 -> "-C"

InitAssetTier == 2

ClassOf(c, asset) ==
    IF asset \in DOMAIN pool[c].assetClass THEN pool[c].assetClass[asset] ELSE 0

\* The pool a helper works on is the one the provider in the file names.
HelperPool(p) == slots[locals[p]["addressProvider"]]["Counter"]

TokenAddress(p) == TokenAddresses(p)[Instruction(p).symbol]

TargetTier(p) ==
    IF Instruction(p).call = "initReserve" THEN InitAssetTier
    ELSE ClassOf(HelperPool(p), TokenAddress(p)) - 1

\* A pool is connected to with a signer; there is a contract to ask; and it is
\* asked about a tier that is not below 0.
PoolAnswers(p) ==
    /\ Instruction(p).admin = "signer"
    /\ HelperPool(p) \in DOMAIN pool
    /\ Instruction(p).call = "upgradeAssetClass" => ClassOf(HelperPool(p), TokenAddress(p)) > 0

Prepare(p) ==
    /\ Doing(p, "prepare")
    /\ PoolAnswers(p)
    /\ LET name == Instruction(p).params.strategy.name
           isInitialized == <<TokenAddress(p), TargetTier(p)>> \in DOMAIN pool[HelperPool(p)].reserves
       IN  Expand(p, IF isInitialized THEN << >>
                     ELSE reserveContracts(Instruction(p), Letter(TargetTier(p)),
                                           name \in DOMAIN strategies[p]))
    /\ UNCHANGED <<runVars, localVars, db, chainVars>>

KeepStrategy(p) ==
    /\ Doing(p, "keepStrategy")
    /\ LET name == Instruction(p).name
           strategy == locals[p]["strategy"]
       IN  /\ strategies' = [strategies EXCEPT ![p] = Put(@, name, strategy)]
           /\ db' = Put(db, name, strategy)
    /\ Done(p)
    /\ UNCHANGED <<runVars, locals, inputs, chainVars>>

\* Both helpers tell the tokens that they are of tier 2.
PushInput(p) ==
    /\ Doing(p, "pushInput")
    /\ LET config == Instruction(p).config
       IN  inputs' = [inputs EXCEPT ![p] = Append(@,
               [underlyingAsset |-> TokenAddresses(p)[config.symbol],
                pToken |-> locals[p]["pToken"],
                variableDebtToken |-> locals[p]["variableDebtToken"],
                interestRateStrategy |-> strategies[p][config.params.strategy.name],
                underlyingAssetDecimals |-> config.params.reserveDecimals,
                assetRiskTier |-> 2])]
    /\ Done(p)
    /\ UNCHANGED <<runVars, locals, strategies, db, chainVars>>

CallForEachInput(p) ==
    /\ Doing(p, "callForEachInput")
    /\ Expand(p, [n \in 1..Len(inputs[p]) |-> [op |-> Instruction(p).call]])
    /\ UNCHANGED <<runVars, localVars, db, chainVars>>

-----------------------------------------------------------------------------
(***************************************************************************)
(* Calls of the configurator at address f, and the pool behind it.         *)
(***************************************************************************)

_maxNumberOfReserves == 128

\* The pool obeys the configurator its own provider names.
ConfiguratorIsObeyed(f) ==
    /\ f \in DOMAIN configurator
    /\ configurator[f].counter \in DOMAIN pool
    /\ LET provider == pool[configurator[f].counter].provider
       IN  provider # ZERO_ADDRESS /\ slots[provider]["CounterConfigurator"] = f

\* The configurator of the file, and the pool it works on.
HelperCounter(p) == configurator[locals[p]["configurator"]].counter

OnlyPoolAdmin(f) == slots[configurator[f].addressesProvider]["PoolAdmin"] = Deployer
OnlyEmergencyAdmin(f) ==
    slots[configurator[f].addressesProvider]["EmergencyAdmin"] = Deployer

\* A slip: what is listed is not switched on.
OpenedInactive(input) ==
    setFrozen(setDecimals({}, Bits(input.underlyingAssetDecimals, 8)), FALSE)

Opened(input) ==
    setFrozen(setActive(setDecimals({}, Bits(input.underlyingAssetDecimals, 8)), TRUE), FALSE)

InitData(input) ==
    [pToken |-> input.pToken,
     variableDebtToken |-> input.variableDebtToken,
     interestRateStrategy |-> input.interestRateStrategy,
     toldTier |-> input.assetRiskTier,
     configuration |-> Opened(input)]

\* Slips: the class is one too high; an upgrade leaves it.
ClassTooHigh(classes, r) == Put(classes, r[1], r[2] + 1)
ClassLeft(classes, r) == IF r[1] \in DOMAIN classes THEN classes ELSE Put(classes, r[1], r[2])

SetAssetClass(classes, r) == Put(classes, r[1], r[2])

\* A pool with one reserve more.
WithReserve(P, r, reserve) ==
    [P EXCEPT !.reserves = Put(@, r, reserve),
              !.list = Append(@, r),
              !.assetClass = SetAssetClass(@, r)]

List(c, input, tier) ==
    pool' = [pool EXCEPT ![c] =
                WithReserve(@, <<input.underlyingAsset, tier>>, InitData(input))]

CanList(f, asset, tier) ==
    /\ ConfiguratorIsObeyed(f)
    /\ LET c == configurator[f].counter
       IN  /\ <<asset, tier>> \notin DOMAIN pool[c].reserves
           /\ Len(pool[c].list) < _maxNumberOfReserves

CanInitReserve(p) ==
    LET input == Head(inputs[p])
    IN  /\ input.assetRiskTier = InitAssetTier
        /\ CanList(locals[p]["configurator"], input.underlyingAsset, InitAssetTier)

InitReserve(p) ==
    /\ Doing(p, "initReserve")
    /\ CanInitReserve(p)
    /\ List(HelperCounter(p), Head(inputs[p]), InitAssetTier)
    /\ inputs' = [inputs EXCEPT ![p] = Tail(@)]
    /\ Done(p)
    /\ UNCHANGED <<runVars, locals, strategies, db, code, nextAddress, providerVars,
                   oracleVars, authorized>>

CanUpgradeAssetClass(p) ==
    LET f == locals[p]["configurator"]
        asset == Head(inputs[p]).underlyingAsset
        class == ClassOf(HelperCounter(p), asset)
    IN  /\ ConfiguratorIsObeyed(f)
        /\ OnlyPoolAdmin(f)
        /\ class > 0
        /\ CanList(f, asset, class - 1)

UpgradeAssetClass(p) ==
    /\ Doing(p, "upgradeAssetClass")
    /\ CanUpgradeAssetClass(p)
    /\ LET input == Head(inputs[p])
       IN  List(HelperCounter(p), input, ClassOf(HelperCounter(p), input.underlyingAsset) - 1)
    /\ inputs' = [inputs EXCEPT ![p] = Tail(@)]
    /\ Done(p)
    /\ UNCHANGED <<runVars, locals, strategies, db, code, nextAddress, providerVars,
                   oracleVars, authorized>>

ConfiguredReserve(p) == <<TokenAddress(p), Instruction(p).tier>>

\* A setting of a reserve that is not listed would be kept as well; but the first
\* call for a reserve is configureReserveAsCollateral, which wants it active.
CanConfigure(p) ==
    LET f == locals[p]["configurator"]
    IN  /\ ConfiguratorIsObeyed(f)
        /\ OnlyPoolAdmin(f)
        /\ ConfiguredReserve(p) \in DOMAIN pool[HelperCounter(p)].reserves

CollateralIsValid(params) ==
    /\ params.baseLTVAsCollateral <= params.liquidationThreshold
    /\ params.liquidationBonus > 10000
    /\ (params.liquidationThreshold * params.liquidationBonus + 5000) \div 10000 <= 10000

ConfiguredWord(p) == pool[HelperCounter(p)].reserves[ConfiguredReserve(p)].configuration

\* setConfiguration.
WithWord(P, r, word) ==
    LET reserve == [P.reserves[r] EXCEPT !.configuration = word]
    IN  [P EXCEPT !.reserves = [@ EXCEPT ![r] = reserve]]

Configure(p, word) ==
    /\ pool' = [pool EXCEPT ![HelperCounter(p)] = WithWord(@, ConfiguredReserve(p), word)]
    /\ Done(p)
    /\ UNCHANGED <<runVars, localVars, db, code, nextAddress, providerVars,
                   oracleVars, authorized>>

ConfigureReserveAsCollateral(p) ==
    /\ Doing(p, "configureReserveAsCollateral")
    /\ CanConfigure(p)
    /\ getActive(ConfiguredWord(p))
    /\ CollateralIsValid(Instruction(p).params)
    /\ LET params == Instruction(p).params
           ltv == setLtv(ConfiguredWord(p), Bits(params.baseLTVAsCollateral, 16))
           threshold == setLiquidationThreshold(ltv, Bits(params.liquidationThreshold, 16))
       IN  Configure(p, setLiquidationBonus(threshold, Bits(params.liquidationBonus, 16)))

EnableBorrowingOnReserve(p) ==
    /\ Doing(p, "enableBorrowingOnReserve")
    /\ CanConfigure(p)
    /\ LET enabled == setBorrowingEnabled(ConfiguredWord(p), TRUE)
       IN  Configure(p, setStableRateBorrowingEnabled(enabled, FALSE))

SetReserveFactor(p) ==
    /\ Doing(p, "setReserveFactor")
    /\ CanConfigure(p)
    /\ Configure(p, setReserveFactor(ConfiguredWord(p),
                                    Bits(Instruction(p).params.reserveFactor, 16)))

\* These two go through the configurator the script has deployed itself.
OwnConfigurator(p) == locals[p]["CounterConfigurator"]

CanGovern(p) ==
    /\ ConfiguratorIsObeyed(OwnConfigurator(p))
    /\ OnlyEmergencyAdmin(OwnConfigurator(p))

SetCRT(p) ==
    /\ Doing(p, "setCRT")
    /\ CanGovern(p)
    /\ pool' = [pool EXCEPT ![configurator[OwnConfigurator(p)].counter] =
                   [@ EXCEPT !.crt = locals[p]["CRT"]]]
    /\ Done(p)
    /\ UNCHANGED <<runVars, localVars, db, code, nextAddress, providerVars,
                   oracleVars, authorized>>

SetPoolPause(p) ==
    /\ Doing(p, "setPoolPause")
    /\ CanGovern(p)
    /\ pool' = [pool EXCEPT ![configurator[OwnConfigurator(p)].counter] =
                   [@ EXCEPT !.paused = Instruction(p).paused]]
    /\ Done(p)
    /\ UNCHANGED <<runVars, localVars, db, code, nextAddress, providerVars,
                   oracleVars, authorized>>

-----------------------------------------------------------------------------

\* Does the next instruction succeed?
Succeeds(p) ==
    LET op == Instruction(p).op
    IN  CASE op = "register" -> HasVariable(p)
          [] op = "attach" -> HasEntry(Instruction(p).key)
          [] op = "enterHelper" -> HasEntry("CounterAddressesProvider")
          [] op = "prepare" -> PoolAnswers(p)
          [] op = "initReserve" -> CanInitReserve(p)
          [] op = "upgradeAssetClass" -> CanUpgradeAssetClass(p)
          [] op = "configureReserveAsCollateral" ->
                 /\ CanConfigure(p)
                 /\ getActive(ConfiguredWord(p))
                 /\ CollateralIsValid(Instruction(p).params)
          [] op \in {"enableBorrowingOnReserve", "setReserveFactor"} -> CanConfigure(p)
          [] op \in {"setCRT", "setPoolPause"} -> CanGovern(p)
          [] OTHER -> TRUE

\* The promise of the script is rejected.
Throw(p) ==
    /\ Running(p)
    /\ todo[p] # << >>
    /\ ~Succeeds(p)
    /\ End(p, "failed")

Step(p) ==
    \/ Deploy(p) \/ Register(p) \/ RawInsert(p) \/ Attach(p)
    \/ Set(p) \/ InitializeCounter(p) \/ InitializeConfigurator(p)
    \/ SetAssetPrice(p) \/ AuthorizeCounter(p)
    \/ EnterHelper(p) \/ Prepare(p) \/ KeepStrategy(p) \/ PushInput(p)
    \/ CallForEachInput(p) \/ InitReserve(p) \/ UpgradeAssetClass(p)
    \/ ConfigureReserveAsCollateral(p) \/ EnableBorrowingOnReserve(p)
    \/ SetReserveFactor(p) \/ SetCRT(p) \/ SetPoolPause(p)
    \/ Finish(p) \/ Throw(p)

Next ==
    \/ \E p \in Run : Step(p)
    \/ \E p \in Run, s \in Scripts : Start(p, s)
    \/ Crash
    \/ NodeRestarts

\* A run that is neither killed nor waiting goes on.
FairSpec == Init /\ [][Next]_vars /\ \A p \in Run : WF_vars(Step(p))

Spec == Init /\ [][Next]_vars

=============================================================================
