--------------------------- MODULE DeployScripts ---------------------------
(***************************************************************************)
(* The deployment scripts as sequences of instructions, one for every      *)
(* point where the code awaits: a contract sent to the chain, an entry     *)
(* written to or read from deployed-contracts.json, a call of a contract.  *)
(* Each function of helpers/ is the sequence it stands for; the module     *)
(* Deployment says what an instruction does.                               *)
(*                                                                         *)
(* `as' names the local variable that holds a contract.                    *)
(***************************************************************************)
EXTENDS MainnetMarket, SequencesExt

deploy(contract, as) == [op |-> "deploy", contract |-> contract, as |-> as]
registerContractInJsonDb(key, as) == [op |-> "register", key |-> key, as |-> as]
rawInsertContractAddressInDb(key, address) ==
    [op |-> "rawInsert", key |-> key, address |-> address]
attach(key, as) == [op |-> "attach", key |-> key, as |-> as]

ForEach(Body(_), seq) == FlattenSeq([i \in 1..Len(seq) |-> Body(seq[i])])

-----------------------------------------------------------------------------
(***************************************************************************)
(* helpers/contracts-deployments.ts                                        *)
(***************************************************************************)

deployAndSave(contract, key, as) ==
    <<deploy(contract, as), registerContractInJsonDb(key, as)>>

deployNamed(name) == deployAndSave(name, name, name)

deployCounterAddressesProvider == deployNamed("CounterAddressesProvider")
deployReserveLogic == deployNamed("ReserveLogic")
deployGenericLogic == deployNamed("GenericLogic")
deployCRTLogic == deployNamed("CRTLogic")
deployValidationLogic == deployNamed("ValidationLogic")
deployPrestareLib ==
    deployReserveLogic \o deployGenericLogic \o deployCRTLogic \o deployValidationLogic
deployCounter == deployPrestareLib \o deployNamed("Counter")
deployCounterConfigurator == deployNamed("CounterConfigurator")
deployPriceOracle == deployNamed("PriceOracle")
deployPrestareOracle == deployNamed("PrestareOracle")
deployCounterCollateralManager == deployNamed("CounterCollateralManager")
deployPlatformTokenInterestRateModel == deployNamed("PlatformTokenInterestRateModel")
deployWETHGateway == deployNamed("WETHGateway")
deployCRT == deployAndSave("MockCRT", "CRT", "CRT")

deployMintableERC20(symbol) == deployAndSave("MintableERC20", "MintableERC20", symbol)
deployAllMockTokens ==
    ForEach(LAMBDA symbol :
        Append(deployMintableERC20(symbol), registerContractInJsonDb(symbol, symbol)),
        TokenContractName)

deployMockAggregator(symbol) ==
    LET name == "MockAggregator-" \o symbol
    IN  deployAndSave("MockAggregator", name, name)
deployAllMockAggregators == ForEach(deployMockAggregator, MockPriceOrder)

deployPToken(symbol) == deployAndSave("PToken", "p" \o symbol, "pToken")
deployVariableDebtToken(symbol) ==
    deployAndSave("VariableDebtToken", "variable Debt p" \o symbol, "variableDebtToken")
deployDefaultReserveInterestRateStrategy ==
    deployAndSave("DefaultReserveInterestRateStrategy",
                  "DefaultReserveInterestRateStrategy", "strategy")
deployRateStrategy == deployDefaultReserveInterestRateStrategy
deployStrategy(strategy) ==
    Append(deployRateStrategy,
           registerContractInJsonDb(strategy.name, "strategy"))

-----------------------------------------------------------------------------
(***************************************************************************)
(* helpers/contracts-helpers.ts, helpers/contracts-getter.ts and           *)
(* helpers/oracle-helpers.ts                                               *)
(***************************************************************************)

insertAllAssetToken(network) ==
    ForEach(LAMBDA symbol :
        <<rawInsertContractAddressInDb(symbol, ReserveAssetsAddress[network][symbol])>>,
        TokenContractName)
getAllMockedTokens == ForEach(LAMBDA symbol : <<attach(symbol, symbol)>>, TokenContractName)

getCounterAddressesProvider == attach("CounterAddressesProvider", "addressProvider")
getPlatformInterestRateModel == attach("PlatformTokenInterestRateModel", "aTokenIRModel")
getCounterConfigurator == attach("CounterConfigurator", "configurator")

\* setPool on the model, whose state nothing here reads.
setPlatformTokenIRModel == <<getPlatformInterestRateModel>>

setInitialAssetPricesInOracle ==
    ForEach(LAMBDA symbol : <<[op |-> "setAssetPrice", symbol |-> symbol]>>, MockPriceOrder)

authorizeWETHGateway == [op |-> "authorizeCounter"]

getQuoteCurrencies(oracleQuoteCurrency_) ==
    IF oracleQuoteCurrency_ = "USD" THEN {"USD"} ELSE {"ETH", "WETH"}

omit(obj, keys) == [key \in DOMAIN obj \ keys |-> obj[key]]

\* The pairs of an asset and its price source: an asset without one has none.
getPairsTokenAggregator(allAssetsAddresses, aggregatorsAddresses, oracleQuoteCurrency_) ==
    LET assets == omit(allAssetsAddresses, getQuoteCurrencies(oracleQuoteCurrency_))
    IN  {[asset |-> assets[symbol], source |-> aggregatorsAddresses[symbol]] :
             symbol \in DOMAIN assets \cap DOMAIN aggregatorsAddresses}

-----------------------------------------------------------------------------
(***************************************************************************)
(* helpers/utils.ts                                                        *)
(***************************************************************************)

\* Which of the two loops over reserves a helper runs, and whether its
\* argument `admin' is a signer: two scripts leave out an argument, which puts
\* an address in its place.
prepare(call, config, admin) ==
    [op |-> "prepare", call |-> call, symbol |-> config.symbol,
     params |-> config.params, admin |-> admin]

ReservesByHelper(call, reservesParams, admin) ==
    <<[op |-> "enterHelper"], getPlatformInterestRateModel>>
    \o ForEach(LAMBDA config : <<prepare(call, config, admin)>>, reservesParams)
    \o <<getCounterConfigurator, [op |-> "callForEachInput", call |-> call]>>

initReservesByHelper(reservesParams, admin) ==
    ReservesByHelper("initReserve", reservesParams, admin)
upgradeReservesByHelper(reservesParams, admin) ==
    ReservesByHelper("upgradeAssetClass", reservesParams, admin)

\* A slip: the debt token of an upgrade is registered over the one before it.
plainDebtSymbol(config, letter) == config.symbol

debtSymbol(config, letter) ==
    IF config.call = "initReserve" THEN config.symbol ELSE config.symbol \o letter

\* What one turn of the loop deploys for a reserve, after it has found that the
\* pool has none.  The strategy is deployed by the first reserve that needs it.
reserveContracts(config, letter, strategyIsKnown) ==
    LET name == config.params.strategy.name
        riskSymbol == config.symbol \o letter
    IN  (IF strategyIsKnown THEN << >>
         ELSE Append(deployStrategy(config.params.strategy),
                     [op |-> "keepStrategy", name |-> name]))
        \o deployPToken(riskSymbol)
        \o deployVariableDebtToken(debtSymbol(config, letter))
        \o <<[op |-> "pushInput", config |-> config]>>

\* A slip: borrowing first.
configureReserveLate(config, tier) ==
    LET call(op) == [op |-> op, symbol |-> config.symbol, tier |-> tier,
                     params |-> config.params]
    IN  <<call("enableBorrowingOnReserve"), call("configureReserveAsCollateral"),
          call("setReserveFactor")>>

configureReserve(config, tier) ==
    LET call(op) == [op |-> op, symbol |-> config.symbol, tier |-> tier,
                     params |-> config.params]
    IN  <<call("configureReserveAsCollateral")>>
        \o (IF config.params.borrowingEnabled
            THEN <<call("enableBorrowingOnReserve")>> ELSE << >>)
        \o <<call("setReserveFactor")>>

configureReservesByHelper(reservesParams, tier) ==
    <<getCounterAddressesProvider, getCounterConfigurator>>
    \o ForEach(LAMBDA config : configureReserve(config, tier), reservesParams)

-----------------------------------------------------------------------------
(***************************************************************************)
(* scripts/deploy/deployOnMainnetFork.ts, scripts/deploy/deployOnGorerli.ts*)
(* and scripts/deploy.ts                                                   *)
(***************************************************************************)

set(slot, as) == [op |-> "set", slot |-> slot, as |-> as]
initialize(as) == [op |-> "initialize", as |-> as]

\* A slip: the configurator asks for the pool before the provider names it.
deployPoolOutOfOrder ==
    deployCounterAddressesProvider
    \o <<set("PoolAdmin", "admin"), set("EmergencyAdmin", "admin")>>
    \o deployCounterConfigurator
    \o <<initialize("CounterConfigurator"),
         set("CounterConfigurator", "CounterConfigurator")>>
    \o deployCounter
    \o <<set("Counter", "Counter"), initialize("Counter")>>

\* What the three have in common, up to the addresses of the assets.
deployPool ==
    deployCounterAddressesProvider
    \o <<set("PoolAdmin", "admin"), set("EmergencyAdmin", "admin")>>
    \o deployCounter
    \o <<set("Counter", "Counter"), initialize("Counter")>>
    \o deployCounterConfigurator
    \o <<initialize("CounterConfigurator"),
         set("CounterConfigurator", "CounterConfigurator")>>

deployFallbackOracle == deployPriceOracle \o setInitialAssetPricesInOracle

\* A slip: the manager is not made known.
deployManagerUnset ==
    deployPrestareOracle
    \o <<set("PriceOracle", "PrestareOracle")>>
    \o deployCounterCollateralManager

deployOracleAndManager ==
    deployPrestareOracle
    \o <<set("PriceOracle", "PrestareOracle")>>
    \o deployCounterCollateralManager
    \o <<set("CounterCollateralManager", "CounterCollateralManager")>>

finishDeployment ==
    deployWETHGateway
    \o <<authorizeWETHGateway>>
    \o deployCRT
    \o <<[op |-> "setCRT"], [op |-> "setPoolPause", paused |-> FALSE]>>

deployOnMainnet ==
    deployPool
    \o insertAllAssetToken("Mainnet")
    \o deployFallbackOracle
    \o deployOracleAndManager
    \o deployPlatformTokenInterestRateModel
    \o setPlatformTokenIRModel
    \o initReservesByHelper(ReservesConfig, "signer")
    \o configureReservesByHelper(ReservesConfig, 2)
    \o upgradeReservesByHelper(assetBClassConfig, "signer")
    \o configureReservesByHelper(assetBClassConfig, 1)
    \o upgradeReservesByHelper(assetAClassConfig, "signer")
    \o configureReservesByHelper(assetAClassConfig, 0)
    \o finishDeployment

deployOnGoerli ==
    deployPool
    \o insertAllAssetToken("Goerli")
    \o deployFallbackOracle
    \o deployOracleAndManager
    \o deployPlatformTokenInterestRateModel
    \o setPlatformTokenIRModel
    \o initReservesByHelper(ReservesConfig, "address")
    \o configureReservesByHelper(ReservesConfig, "admin")
    \o finishDeployment

deployWithMocks ==
    deployPool
    \o deployAllMockTokens
    \o getAllMockedTokens
    \o deployFallbackOracle
    \o deployAllMockAggregators
    \o deployOracleAndManager
    \o initReservesByHelper(ReservesConfig, "address")
    \o configureReservesByHelper(ReservesConfig, "admin")
    \o finishDeployment

\* Names the helpers put together, and names written out: contracts in the file,
\* and the variables of a run.
Letters == {"-A", "-B", "-C"}
RiskSymbol == {symbol \o letter : symbol \in Symbol, letter \in Letters}
MockAggregatorName == {"MockAggregator-" \o symbol : symbol \in Symbol}
PTokenName == {"p" \o symbol : symbol \in RiskSymbol}
DebtTokenName == {"variable Debt p" \o symbol : symbol \in RiskSymbol \cup Symbol}
ComputedName == MockAggregatorName \cup PTokenName \cup DebtTokenName
LocalName ==
    {"addressProvider", "configurator", "aTokenIRModel", "pToken", "variableDebtToken",
     "strategy"}
ASSUME NamesAssumption == ComputedName \cap (ContractName \cup LocalName) = {}

Script == {"mainnet", "goerli", "mocks"}

Plan(script) ==
    CASE script = "mainnet" -> deployOnMainnet
      [] script = "goerli" -> deployOnGoerli
      [] script = "mocks" -> deployWithMocks

=============================================================================
