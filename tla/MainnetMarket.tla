--------------------------- MODULE MainnetMarket ---------------------------
(***************************************************************************)
(* The market the scripts deploy: names, assets, price sources and the     *)
(* parameters of every reserve (markets/mainnet, helpers/types.ts,         *)
(* helpers/constants.ts).  An address is a number.  Contracts that are on  *)
(* the chain before any script runs have the numbers up to Deployer, the   *)
(* account that signs; a script's contracts have the numbers after it.     *)
(***************************************************************************)
EXTENDS Naturals, Sequences

ZERO_ADDRESS == 0
Deployer == 17

\* Keys of deployed-contracts.json.
ContractName ==
    {"CounterAddressesProvider", "ReserveLogic", "GenericLogic", "CRTLogic",
     "ValidationLogic", "Counter", "CounterConfigurator", "MintableERC20",
     "PriceOracle", "MockAggregator", "PrestareOracle", "CounterCollateralManager",
     "WETHGateway", "DefaultReserveInterestRateStrategy",
     "PlatformTokenInterestRateModel", "CRT"}

TokenContractName == <<"DAI", "WETH", "USDC", "USDT">>
Symbol == {TokenContractName[i] : i \in 1..Len(TokenContractName)}

MockPriceOrder == <<"USDT", "USDC", "DAI", "WETH">>

EthereumNetwork == {"Mainnet", "Goerli"}

ReserveAssetsAddress ==
    [Mainnet |-> [USD |-> ZERO_ADDRESS, DAI |-> 1, WETH |-> 2, USDC |-> 3, USDT |-> 4],
     Goerli  |-> [USD |-> ZERO_ADDRESS, DAI |-> 5, WETH |-> 6, USDC |-> 7, USDT |-> 8]]

ChainlinkAggregator ==
    [Mainnet |-> [DAI |-> 9, WETH |-> 10, USDC |-> 11, USDT |-> 12],
     Goerli  |-> [USD |-> ZERO_ADDRESS, DAI |-> 13, WETH |-> 14, USDC |-> 15, USDT |-> 16]]

oracleQuoteCurrency == "USD"
OracleQuoteUnit == "100000000"     \* oneUSD, a number where a currency is expected

-----------------------------------------------------------------------------
(***************************************************************************)
(* Reserve parameters.  Rates are percentages.                             *)
(***************************************************************************)

rateStrategyAClass ==
    [name |-> "rateStrategyAClass", optimalUtilizationRate |-> 80,
     baseVariableBorrowRate |-> 0, variableRateSlope1 |-> 4, variableRateSlope2 |-> 100]
rateStrategyBClass ==
    [name |-> "rateStrategyBClass", optimalUtilizationRate |-> 80,
     baseVariableBorrowRate |-> 5, variableRateSlope1 |-> 4, variableRateSlope2 |-> 100]
rateStrategyCClass ==
    [name |-> "rateStrategyCClass", optimalUtilizationRate |-> 80,
     baseVariableBorrowRate |-> 10, variableRateSlope1 |-> 4, variableRateSlope2 |-> 100]

ReserveParams(ltv, threshold, decimals, strategy) ==
    [strategy |-> strategy, baseLTVAsCollateral |-> ltv,
     liquidationThreshold |-> threshold, liquidationBonus |-> 10500,
     borrowingEnabled |-> TRUE, reserveDecimals |-> decimals, reserveFactor |-> 1000]

strategyDAI_B  == ReserveParams(7500, 8000, 18, rateStrategyBClass)
strategyDAI_C  == ReserveParams(7500, 8000, 18, rateStrategyCClass)
strategyUSDC_A == ReserveParams(8000, 8500, 6, rateStrategyAClass)
strategyUSDC_B == ReserveParams(8000, 8500, 6, rateStrategyBClass)
strategyUSDC_C == ReserveParams(8000, 8500, 6, rateStrategyCClass)
strategyUSDT_A == ReserveParams(8000, 8500, 6, rateStrategyAClass)
strategyUSDT_B == ReserveParams(8000, 8500, 6, rateStrategyBClass)
strategyUSDT_C == ReserveParams(8000, 8500, 6, rateStrategyCClass)
strategyWETH_B == ReserveParams(8000, 8250, 18, rateStrategyBClass)
strategyWETH_C == ReserveParams(8000, 8250, 18, rateStrategyCClass)

Config(symbol, params) == [symbol |-> symbol, params |-> params]

ReservesConfig ==
    <<Config("DAI", strategyDAI_C), Config("WETH", strategyWETH_C),
      Config("USDC", strategyUSDC_C), Config("USDT", strategyUSDT_C)>>
assetBClassConfig ==
    <<Config("DAI", strategyDAI_B), Config("WETH", strategyWETH_B),
      Config("USDC", strategyUSDC_B), Config("USDT", strategyUSDT_B)>>
assetAClassConfig == <<Config("USDC", strategyUSDC_A), Config("USDT", strategyUSDT_A)>>

\* The lowest tier of each asset: 0 is A, 1 is B, 2 is C.
AssetTier == [DAI |-> 1, WETH |-> 1, USDC |-> 0, USDT |-> 0]

=============================================================================
