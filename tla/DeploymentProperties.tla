------------------------ MODULE DeploymentProperties ------------------------
(***************************************************************************)
(* What the deployment scripts leave on the chain and in the file, and     *)
(* what they may leave when they are interrupted, run again, or run twice  *)
(* at once.                                                                *)
(***************************************************************************)
EXTENDS Deployment

Address == Nat
Tier == 0..2

\* The scripts' state has its type.  Of the chain: a reserve is in one of three
\* tiers, an asset's class is one of them, and a word has 256 bits.
TypeOK ==
    /\ started \in 0..NumRuns
    /\ status \in [Run -> {"waiting", "running", "finished", "failed", "killed"}]
    /\ script \in [Run -> Script \cup {"none"}]
    /\ \A key \in DOMAIN db : db[key] \in Address
    /\ \A p \in Run : \A name \in DOMAIN locals[p] : locals[p][name] \in Address
    /\ nextAddress \in Address
    /\ slots \in [DOMAIN slots -> [Slot -> Address]]
    /\ \A c \in DOMAIN pool :
           /\ pool[c].provider \in Address
           /\ DOMAIN pool[c].reserves \subseteq Address \X Tier
           /\ pool[c].assetClass \in [DOMAIN pool[c].assetClass -> Tier]
           /\ \A r \in DOMAIN pool[c].reserves :
                  pool[c].reserves[r].configuration \in Word
           /\ pool[c].paused \in BOOLEAN

-----------------------------------------------------------------------------
(***************************************************************************)
(* At every moment of every run.                                           *)
(***************************************************************************)

\* A pool is never paused while it is built, so what it lends before the script
\* has ended it lends for good: a reserve can be borrowed only when a loan can
\* be judged, with its collateral parameters set and a price to be had from the
\* oracle of the pool's provider.
Prices(provider, asset) ==
    LET oracle == slots[provider]["PriceOracle"]
    IN  /\ oracle \in DOMAIN source
        /\ \/ \E pair \in source[oracle].pairs : pair.asset = asset
           \/ [oracle |-> source[oracle].fallback, asset |-> asset] \in priced

BorrowableIsPriced ==
    \A c \in DOMAIN pool : \A r \in DOMAIN pool[c].reserves :
        LET word == pool[c].reserves[r].configuration
        IN  getBorrowingEnabled(word) =>
                /\ getLtv(word) # {}
                /\ getLiquidationBonus(word) # {}
                /\ Prices(pool[c].provider, r[1])

\* The word keeps the layout of its AAVE ancestor, whose caps, isolation and
\* efficiency modes the scripts still parse but this pool has no setter for: no
\* setter may spill into them.
NoBitOutOfPlace ==
    \A c \in DOMAIN pool : \A r \in DOMAIN pool[c].reserves :
        Unset(pool[c].reserves[r].configuration)

\* Whatever runs, crashes and reruns meet on a pool: an asset has reserves in
\* its class and every tier above it, up to C, and in no other; each is in the
\* list once.  The helpers choose names, and the reserve to ask for, by class.
ReservesFollowClasses ==
    \A c \in DOMAIN pool :
        /\ DOMAIN pool[c].reserves \subseteq (DOMAIN pool[c].assetClass) \X Tier
        /\ \A a \in DOMAIN pool[c].assetClass, tier \in Tier :
               <<a, tier>> \in DOMAIN pool[c].reserves <=> tier >= pool[c].assetClass[a]
        /\ IsInjective(pool[c].list)
        /\ Range(pool[c].list) = DOMAIN pool[c].reserves

\* The file outlives crashes and the chain, and may name contracts of another
\* run or of nobody.  A run of deployOnMainnet uses none it has not written.
ReadBack ==
    {[as |-> "addressProvider", contract |-> "CounterAddressesProvider"],
     [as |-> "configurator", contract |-> "CounterConfigurator"],
     [as |-> "aTokenIRModel", contract |-> "PlatformTokenInterestRateModel"]}

ReadsItsOwn ==
    \A p \in Run : Running(p) /\ script[p] = "mainnet" =>
        \A read \in ReadBack : read.as \in DOMAIN locals[p] =>
            /\ locals[p][read.as] \in DOMAIN code
            /\ code[locals[p][read.as]] = [contract |-> read.contract, by |-> p]

\* Where the pool of one run is completed by the next, its reserves would have
\* tokens and rates that are registered nowhere: all of a pool is of one run.
MarketsDoNotMix ==
    \A c \in DOMAIN pool : \A r \in DOMAIN pool[c].reserves :
        LET reserve == pool[c].reserves[r]
        IN  \A a \in {reserve.pToken, reserve.variableDebtToken,
                      reserve.interestRateStrategy} :
                code[a].by = code[c].by

-----------------------------------------------------------------------------
(***************************************************************************)
(* When a run has ended, and nothing has run or been lost since.           *)
(***************************************************************************)

Standing(p) == p = started /\ status[p] = "finished" /\ nextAddress > Deployer + 1

\* helpers/contracts-helpers.ts and helpers/contracts-getter.ts: the contract a
\* getter connects to.
getCounterAddress == slots[db["CounterAddressesProvider"]]["Counter"]
getCounter == db["Counter"]
getCounterCollateralManager == db["CounterCollateralManager"]
getPrestareOracle == db["PrestareOracle"]
getCRT == db["CRT"]
getWETHGateway == db["WETHGateway"]
getPToken(name) == db["p" \o name]
getVariableDebtToken(name) == db["variable Debt p" \o name]
getStrategyAddress(params) == db[params.strategy.name]
getCounterAssetInfo(asset, tier) == pool[getCounterAddress].reserves[<<asset, tier>>]

\* test/deploy/counterAddressProvider.ts: after deployOnMainnet, the provider in
\* the file names the contracts in the file, and the deployer as both admins.
RegistryMatchesDb ==
    (\E p \in Run : Standing(p)) =>
        LET registry == slots[db["CounterAddressesProvider"]]
        IN  /\ registry["Counter"] = getCounter
            /\ registry["CounterConfigurator"] = db["CounterConfigurator"]
            /\ registry["CounterCollateralManager"] = getCounterCollateralManager
            /\ registry["PriceOracle"] = getPrestareOracle
            /\ registry["PoolAdmin"] = Deployer
            /\ registry["EmergencyAdmin"] = Deployer

\* The reserve an entry of the configuration is for, and whether what the pool
\* keeps for it is what the entry says, read the way the scripts read it.
ReserveAsConfigured(reserve, params) ==
    LET word == reserve.configuration
    IN  /\ Value(getLtv(word)) = params.baseLTVAsCollateral
        /\ Value(getLiquidationThreshold(word)) = params.liquidationThreshold
        /\ Value(getLiquidationBonus(word)) = params.liquidationBonus
        /\ Value(getDecimals(word)) = params.reserveDecimals
        /\ Value(getReserveFactor(word)) = params.reserveFactor
        /\ getActive(word)
        /\ ~getFrozen(word)
        /\ getBorrowingEnabled(word) = params.borrowingEnabled
        /\ ~getStableRateBorrowingEnabled(word)
        /\ reserve.interestRateStrategy = getStrategyAddress(params)

TokensAsNamed(reserve, symbol, tier) ==
    LET pName == symbol \o Letter(tier)
        debtName == IF tier = 2 THEN symbol ELSE pName
    IN  /\ {"p" \o pName, "variable Debt p" \o debtName} \subseteq DOMAIN db
        /\ reserve.pToken = getPToken(pName)
        /\ reserve.variableDebtToken = getVariableDebtToken(debtName)

ConfigOfTier(tier) ==
    CASE tier = 2 -> ReservesConfig
      [] tier = 1 -> assetBClassConfig
      [] tier = 0 -> assetAClassConfig

\* When deployOnMainnet has ended, whatever crashed before it: the pool in the
\* file is open and has every reserve of the configuration, with its parameters,
\* its rates and the tokens registered under its name, and each asset is in the
\* class the configuration gives it.
MarketAsConfigured ==
    (\E p \in Run : Standing(p) /\ script[p] = "mainnet") =>
        LET market == pool[getCounterAddress]
            tokens == ReserveAssetsAddress.Mainnet
        IN  /\ \A tier \in Tier : \A i \in 1..Len(ConfigOfTier(tier)) :
                   LET config == ConfigOfTier(tier)[i]
                       asset == tokens[config.symbol]
                   IN  /\ <<asset, tier>> \in DOMAIN market.reserves
                       /\ ReserveAsConfigured(getCounterAssetInfo(asset, tier), config.params)
                       /\ TokensAsNamed(getCounterAssetInfo(asset, tier), config.symbol, tier)
            /\ market.assetClass = [a \in {tokens[symbol] : symbol \in Symbol} |->
                   CHOOSE class \in Tier :
                       \E symbol \in Symbol :
                           tokens[symbol] = a /\ AssetTier[symbol] = class]
            /\ market.crt = getCRT
            /\ ~market.paused
            /\ [gateway |-> getWETHGateway, counter |-> getCounterAddress] \in authorized

-----------------------------------------------------------------------------
(***************************************************************************)
(* Steps.                                                                  *)
(***************************************************************************)

\* deployOnMainnet is never refused by what an earlier run has left: it ends,
\* or its process is killed.
MainnetEnds ==
    \A p \in Run :
        (Running(p) /\ script[p] = "mainnet") ~> (status[p] \in {"finished", "killed"})

\* test/deploy/counterAddressProvider.ts, line 24: no call of the deployment a
\* test waits for is refused.
NothingIsRefused == \A p \in Run : script[p] = "mainnet" => status[p] # "failed"

\* What the scripts do with the first pool on the chain are configurator calls
\* the registry of AssetRegistry describes, until the chain itself is lost.
FirstPool == Deployer + 6
Fresh == FirstPool \notin DOMAIN pool
RegistryPool == IF Fresh THEN NewPool ELSE pool[FirstPool]

Place(r) == CHOOSE i \in 1..Len(RegistryPool.list) : RegistryPool.list[i] = r

MainnetAsset == {ReserveAssetsAddress.Mainnet[symbol] : symbol \in Symbol}
MainnetReserve == MainnetAsset \X Tier

Listing(r) ==
    IF r \in DOMAIN RegistryPool.reserves THEN RegistryPool.reserves[r]
    ELSE [toldTier |-> 0, configuration |-> {}]

RegistryConfiguration(word) ==
    [active |-> getActive(word), frozen |-> getFrozen(word),
     borrowingEnabled |-> getBorrowingEnabled(word),
     ltv |-> Value(getLtv(word)),
     liquidationThreshold |-> Value(getLiquidationThreshold(word)),
     liquidationBonus |-> Value(getLiquidationBonus(word)),
     reserveFactor |-> Value(getReserveFactor(word))]

CollateralOf(params) ==
    [ltv |-> params.baseLTVAsCollateral, threshold |-> params.liquidationThreshold,
     bonus |-> params.liquidationBonus]

\* An empty slot of the list: no asset has tier 3.
NoReserve == <<ZERO_ADDRESS, 3>>

\* The registry's variables, read from the pool.
RegistryTiers == [r \in MainnetReserve |-> Listing(r).toldTier]
RegistryIds ==
    [r \in MainnetReserve |-> IF r \in DOMAIN RegistryPool.reserves THEN Place(r) - 1 ELSE 0]
RegistryConfigurations ==
    [r \in MainnetReserve |-> RegistryConfiguration(Listing(r).configuration)]
RegistryClasses ==
    [a \in MainnetAsset |->
        IF a \in DOMAIN RegistryPool.assetClass THEN RegistryPool.assetClass[a] ELSE 0]
RegistryList ==
    [i \in 0.._maxNumberOfReserves - 1 |->
        IF i < Len(RegistryPool.list) THEN RegistryPool.list[i + 1] ELSE NoReserve]

Registry ==
    INSTANCE AssetRegistry
        WITH RAY <- 1, SECONDS_PER_YEAR <- 1,
             Asset <- MainnetAsset, NoReserve <- NoReserve,
             MaxNumberOfReserves <- _maxNumberOfReserves,
             ToldTiers <- {2}, Observed <- MainnetReserve,
             CollateralParameters <-
                 {CollateralOf(config.params) :
                      config \in UNION {Range(ConfigOfTier(tier)) : tier \in Tier}},
             ReserveFactors <- {1000},
             initialized <- DOMAIN RegistryPool.reserves, tokenTier <- RegistryTiers,
             id <- RegistryIds, configuration <- RegistryConfigurations,
             assetClass <- RegistryClasses, reservesList <- RegistryList,
             reservesCount <- Len(RegistryPool.list),
             available <- {}, owed <- {}, earning <- {}

ChainIsLost == nextAddress' < nextAddress

PoolIsARegistry ==
    /\ Registry!Init
    /\ [][RegistryPool' # RegistryPool /\ ~ChainIsLost =>
              [Registry!Next]_(Registry!vars)]_vars

=============================================================================
