--------------------------- MODULE AssetRegistry ---------------------------
(***************************************************************************)
(* Which reserves the pool has and how they are set up: the configurator's *)
(* calls and the pool functions behind them.  An asset enters in tier C,   *)
(* is upgraded tier by tier, each with tokens of its own, and degraded by  *)
(* freezing the tier in force.  A configurator call is one transaction     *)
(* over both contracts.                                                    *)
(*                                                                         *)
(* What users do to a reserve through the pool matters here for three      *)
(* facts: whether its pToken holds underlying, whether somebody owes it    *)
(* and whether its supply rate is above 0.                                 *)
(***************************************************************************)
EXTENDS FixedPoint

CONSTANTS Asset,                 \* contracts that can be listed
          NoReserve,             \* an empty slot of the list
          MaxNumberOfReserves,
          ToldTiers,             \* assetRiskTier of the inputs that are tried
          Observed,              \* the reserves that are configured and used
          CollateralParameters,  \* collateral settings an admin tries
          ReserveFactors         \* reserve factors an admin tries

Tier == 0..2           \* A, B, C
InitAssetTier == 2
MaxAssetClass == 3
MAX_VALID_BPS == 65535 \* each setting has 16 bits
Reserve == Asset \X Tier

\* Ids are kept in a uint8 and users' words have two bits for each of 128.
ASSUME SizeAssumption == MaxNumberOfReserves \in 1..128
ASSUME RegistryAssumption ==
    /\ NoReserve \notin Reserve
    /\ ToldTiers \subseteq Tier
    /\ Observed \subseteq Reserve
ASSUME CollateralAssumption ==
    CollateralParameters \subseteq [ltv : Nat, threshold : Nat, bonus : Nat]
ASSUME FactorAssumption == ReserveFactors \subseteq Nat

VARIABLES
    initialized,     \* reserves whose pTokenAddress is set
    tokenTier,       \* the risk tier a reserve's tokens were told
    id,              \* ReserveData.id
    configuration,   \* ReserveData.configuration
    assetClass,      \* _assetClass
    reservesList,    \* _reservesList
    reservesCount,   \* _reservesCount
    available,       \* reserves whose pToken holds underlying
    owed,            \* reserves with debt outstanding
    earning          \* reserves with currentLiquidityRate > 0

listVars == <<initialized, tokenTier, id, assetClass, reservesList, reservesCount>>
poolVars == <<available, owed, earning>>
vars == <<initialized, tokenTier, id, configuration, assetClass, reservesList,
          reservesCount, available, owed, earning>>

Unconfigured ==
    [active |-> FALSE, frozen |-> FALSE, borrowingEnabled |-> FALSE,
     ltv |-> 0, liquidationThreshold |-> 0, liquidationBonus |-> 0,
     reserveFactor |-> 0]

Init ==
    /\ initialized = {}
    /\ tokenTier = [r \in Reserve |-> 0]
    /\ id = [r \in Reserve |-> 0]
    /\ configuration = [r \in Reserve |-> Unconfigured]
    /\ assetClass = [a \in Asset |-> 0]
    /\ reservesList = [i \in 0..MaxNumberOfReserves - 1 |-> NoReserve]
    /\ reservesCount = 0
    /\ available = {}
    /\ owed = {}
    /\ earning = {}

-----------------------------------------------------------------------------
(***************************************************************************)
(* Listing.                                                                *)
(***************************************************************************)

InitData(r, toldTier) ==
    /\ r \notin initialized
    /\ initialized' = initialized \cup {r}
    /\ tokenTier' = [tokenTier EXCEPT ![r] = toldTier]

\* Id 0 is also the id of a reserve that has none: the first slot decides.
AlreadyAdded(r) == id[r] # 0 \/ reservesList[0] = r

\* Slips: the id is taken after the count has moved on; an upgrade takes over
\* the place of the tier it comes from.
AddReserveWithNextId(r) ==
    /\ reservesCount < MaxNumberOfReserves - 1
    /\ assetClass' = [assetClass EXCEPT ![r[1]] = r[2]]
    /\ id' = [id EXCEPT ![r] = reservesCount + 1]
    /\ reservesList' = [reservesList EXCEPT ![reservesCount] = r]
    /\ reservesCount' = reservesCount + 1

AddReserveInPlace(r) ==
    LET from == <<r[1], r[2] + 1>>
        place == IF from \in initialized THEN id[from] ELSE reservesCount
    IN  /\ reservesCount < MaxNumberOfReserves
        /\ assetClass' = [assetClass EXCEPT ![r[1]] = r[2]]
        /\ id' = [id EXCEPT ![r] = place]
        /\ reservesList' = [reservesList EXCEPT ![place] = r]
        /\ reservesCount' = IF place = reservesCount THEN place + 1 ELSE reservesCount

AddReserveToList(r) ==
    /\ reservesCount < MaxNumberOfReserves
    /\ \/ /\ AlreadyAdded(r)
          /\ UNCHANGED <<assetClass, id, reservesList, reservesCount>>
       \/ /\ ~AlreadyAdded(r)
          /\ assetClass' = [assetClass EXCEPT ![r[1]] = r[2]]
          /\ id' = [id EXCEPT ![r] = reservesCount]
          /\ reservesList' = [reservesList EXCEPT ![reservesCount] = r]
          /\ reservesCount' = reservesCount + 1

\* The configurator opens what the pool has listed.
Open(r) ==
    configuration' = [configuration EXCEPT ![r].active = TRUE, ![r].frozen = FALSE]

InitReserve(a, toldTier) ==
    /\ toldTier = InitAssetTier
    /\ InitData(<<a, InitAssetTier>>, toldTier)
    /\ AddReserveToList(<<a, InitAssetTier>>)
    /\ Open(<<a, InitAssetTier>>)
    /\ UNCHANGED poolVars

\* The tokens are told the tier of the input, the pool takes the next safer one.
UpgradeAssetClass(a, toldTier) ==
    /\ assetClass[a] > 0
    /\ InitData(<<a, assetClass[a] - 1>>, toldTier)
    /\ AddReserveToList(<<a, assetClass[a] - 1>>)
    /\ Open(<<a, assetClass'[a]>>)
    /\ UNCHANGED poolVars

\* A slip: nothing stops an asset at the last class.
DegradePastTheLast(a) ==
    /\ configuration' = [configuration EXCEPT ![<<a, assetClass[a]>>].frozen = TRUE]
    /\ assetClass' = [assetClass EXCEPT ![a] = assetClass[a] + 1]
    /\ UNCHANGED <<initialized, tokenTier, id, reservesList, reservesCount>>
    /\ UNCHANGED poolVars

DegradeAssetClass(a) ==
    /\ assetClass[a] < MaxAssetClass
    /\ configuration' = [configuration EXCEPT ![<<a, assetClass[a]>>].frozen = TRUE]
    /\ assetClass' = [assetClass EXCEPT ![a] = assetClass[a] + 1]
    /\ UNCHANGED <<initialized, tokenTier, id, reservesList, reservesCount>>
    /\ UNCHANGED poolVars

-----------------------------------------------------------------------------
(***************************************************************************)
(* Settings.                                                               *)
(***************************************************************************)

SetConfiguration(r, configured) ==
    /\ configuration' = [configuration EXCEPT ![r] = configured]
    /\ UNCHANGED <<listVars, poolVars>>

\* A slip: an empty rate is taken for an empty reserve.
NoLiquidityByRate(r) == r \notin earning

NoLiquidity(r) == r \notin available /\ r \notin earning

ConfigureReserveAsCollateral(r, ltv, threshold, bonus) ==
    /\ configuration[r].active
    /\ ltv <= threshold
    /\ \/ /\ threshold # 0
          /\ bonus > PERCENTAGE_FACTOR
          /\ bonus <= MAX_VALID_BPS
          /\ PercentMulDefined(threshold, bonus)
          /\ PercentMul(threshold, bonus) <= PERCENTAGE_FACTOR
       \/ /\ threshold = 0
          /\ bonus = 0
          /\ NoLiquidity(r)
    /\ SetConfiguration(r, [configuration[r] EXCEPT !.ltv = ltv,
                                !.liquidationThreshold = threshold,
                                !.liquidationBonus = bonus])

ActivateReserve(r) ==
    SetConfiguration(r, [configuration[r] EXCEPT !.active = TRUE])

DeactivateReserve(r) ==
    /\ NoLiquidity(r)
    /\ SetConfiguration(r, [configuration[r] EXCEPT !.active = FALSE])

SetReserveFreeze(r, isFrozen) ==
    SetConfiguration(r, [configuration[r] EXCEPT !.frozen = isFrozen])

SetBorrowing(r, enabled) ==
    SetConfiguration(r, [configuration[r] EXCEPT !.borrowingEnabled = enabled])

SetReserveFactor(r, factor) ==
    /\ factor <= MAX_VALID_BPS
    /\ SetConfiguration(r, [configuration[r] EXCEPT !.reserveFactor = factor])

-----------------------------------------------------------------------------
(***************************************************************************)
(* Use.  A call to a reserve without tokens reverts, and so does the rate  *)
(* strategy when the reserve factor is above 100%.                         *)
(***************************************************************************)

\* Debt earns suppliers a rate, unless the factor leaves them nothing or so
\* little is lent that the rate is rounded to 0.
UpdateRate(r) ==
    LET factor == configuration[r].reserveFactor
    IN  /\ factor <= PERCENTAGE_FACTOR
        /\ \/ /\ r \in owed' /\ factor < PERCENTAGE_FACTOR
              /\ earning' = earning \cup {r}
           \/ /\ r \in owed' /\ factor < PERCENTAGE_FACTOR => r \in available'
              /\ earning' = earning \ {r}

InUse(r) ==
    /\ r \in initialized
    /\ configuration[r].active
    /\ UNCHANGED <<listVars, configuration>>

Deposit(r) ==
    /\ InUse(r)
    /\ ~configuration[r].frozen
    /\ available' = available \cup {r}
    /\ UNCHANGED owed
    /\ UpdateRate(r)

Withdraw(r) ==
    /\ InUse(r)
    /\ r \in available
    /\ available' \in {available, available \ {r}}
    /\ UNCHANGED owed
    /\ UpdateRate(r)

Borrow(r) ==
    /\ InUse(r)
    /\ ~configuration[r].frozen
    /\ configuration[r].borrowingEnabled
    /\ r \in available
    /\ available' \in {available, available \ {r}}
    /\ owed' = owed \cup {r}
    /\ UpdateRate(r)

Repay(r) ==
    /\ InUse(r)
    /\ r \in owed
    /\ available' = available \cup {r}
    /\ owed' \in {owed, owed \ {r}}
    /\ UpdateRate(r)

-----------------------------------------------------------------------------

Listing(a) ==
    \/ \E toldTier \in ToldTiers : InitReserve(a, toldTier) \/ UpgradeAssetClass(a, toldTier)
    \/ DegradeAssetClass(a)

Setting(r) ==
    \/ \E p \in CollateralParameters :
           ConfigureReserveAsCollateral(r, p.ltv, p.threshold, p.bonus)
    \/ ActivateReserve(r)
    \/ DeactivateReserve(r)
    \/ \E on \in BOOLEAN : SetReserveFreeze(r, on) \/ SetBorrowing(r, on)
    \/ \E factor \in ReserveFactors : SetReserveFactor(r, factor)

Use(r) == Deposit(r) \/ Withdraw(r) \/ Borrow(r) \/ Repay(r)

Next ==
    \/ \E a \in Asset : Listing(a)
    \/ \E r \in Observed : Setting(r) \/ Use(r)

Spec == Init /\ [][Next]_vars

-----------------------------------------------------------------------------
(***************************************************************************)
(* What the registry guarantees.                                           *)
(***************************************************************************)

ReserveConfiguration ==
    [active : BOOLEAN, frozen : BOOLEAN, borrowingEnabled : BOOLEAN,
     ltv : Nat, liquidationThreshold : Nat, liquidationBonus : Nat,
     reserveFactor : Nat]

\* The registry's state has its type: no class beyond the last, no id and no
\* slot beyond what users' configuration words have bits for.
TypeOK ==
    /\ initialized \subseteq Reserve
    /\ tokenTier \in [Reserve -> Tier]
    /\ id \in [Reserve -> 0..MaxNumberOfReserves - 1]
    /\ configuration \in [Reserve -> ReserveConfiguration]
    /\ assetClass \in [Asset -> 0..MaxAssetClass]
    /\ reservesList \in [0..MaxNumberOfReserves - 1 -> Reserve \cup {NoReserve}]
    /\ reservesCount \in 0..MaxNumberOfReserves
    /\ available \subseteq Observed
    /\ owed \subseteq Observed
    /\ earning \subseteq Observed

\* The flag bits are set by a reserve's id and read by its place in the list.
\* _addReserveToList tells listed from new by an id that is also the id of the
\* unlisted, and upgrades and degradations move an asset's class both ways: the
\* list has to name exactly the reserves with tokens, each at its id.
ListNamesReserves ==
    /\ \A i \in 0..reservesCount - 1 :
           /\ reservesList[i] \in initialized
           /\ id[reservesList[i]] = i
    /\ \A r \in initialized :
           /\ id[r] < reservesCount
           /\ reservesList[id[r]] = r

\* The list as users see it, and the promise it keeps: places are never moved,
\* reused or given twice, so a bit set years ago still means the same reserve.
Listed == [i \in 1..reservesCount |-> reservesList[i - 1]]

Catalog ==
    INSTANCE ReserveCatalog
        WITH catalog <- Listed, Entry <- Reserve, Capacity <- MaxNumberOfReserves

ListIsACatalog == Catalog!Spec

\* Users' calls are refused on an inactive reserve, the ones that would take
\* underlying out included: no underlying may be left in a reserve that is
\* switched off, and nothing may earn there, whatever the order of loans, rates
\* and settings.  (A deposit lent out whole at a supply rate of 0 meets both.)
InactiveIsAtRest ==
    \A r \in Observed :
        ~configuration[r].active => r \notin available /\ r \notin earning

\* A token is initialised with "the risk tier of this pToken" and asks the pool
\* for the index of that tier: it has to be the tier the pool keeps it for.
TokensKnowTheirTier == \A r \in initialized : tokenTier[r] = r[2]

=============================================================================
