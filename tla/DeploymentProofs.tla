-------------------------- MODULE DeploymentProofs --------------------------
(***************************************************************************)
(* What holds of every pool the scripts work on, for any number of runs of *)
(* any of the scripts, in one process or in several, with crashes and lost *)
(* chains in between.                                                      *)
(***************************************************************************)
EXTENDS DeploymentProperties, ConfigWordProofs, SumProofs, SequenceTheorems

IsReserve(reserve) ==
    /\ reserve = [pToken |-> reserve.pToken,
                  variableDebtToken |-> reserve.variableDebtToken,
                  interestRateStrategy |-> reserve.interestRateStrategy,
                  toldTier |-> reserve.toldTier,
                  configuration |-> reserve.configuration]
    /\ reserve.configuration \subseteq KnownBit

\* That reserves follow classes says nothing of an asset without a class, so an
\* asset's first reserve is in tier C; a reserve is listed before it is
\* configured, so its word starts with no bit out of place.
IsPool(P) ==
    /\ P = [provider |-> P.provider, reserves |-> P.reserves, list |-> P.list,
            assetClass |-> P.assetClass, paused |-> P.paused, crt |-> P.crt]
    /\ P.assetClass \in [DOMAIN P.assetClass -> Tier]
    /\ DOMAIN P.reserves \subseteq (DOMAIN P.assetClass) \X Tier
    /\ \A a \in DOMAIN P.assetClass, tier \in Tier :
           <<a, tier>> \in DOMAIN P.reserves <=> tier >= P.assetClass[a]
    /\ P.list \in Seq(DOMAIN P.reserves)
    /\ \A r \in DOMAIN P.reserves : \E i \in 1..Len(P.list) : P.list[i] = r
    /\ \A i, j \in 1..Len(P.list) : P.list[i] = P.list[j] => i = j
    /\ \A r \in DOMAIN P.reserves : IsReserve(P.reserves[r])

IInv == \A c \in DOMAIN pool : IsPool(pool[c])

-----------------------------------------------------------------------------
(***************************************************************************)
(* What calls do to one pool.                                              *)
(***************************************************************************)

LEMMA NewPoolIsPool == IsPool(NewPool)
<1>1. /\ DOMAIN NewPool.reserves = {} /\ DOMAIN NewPool.assetClass = {}
      /\ NewPool.list = << >>
  BY DEF NewPool
<1>2. NewPool.assetClass \in [DOMAIN NewPool.assetClass -> Tier]
  BY <1>1 DEF NewPool
<1>3. NewPool.list \in Seq(DOMAIN NewPool.reserves) /\ Len(NewPool.list) = 0
  BY <1>1
<1> QED  BY <1>1, <1>2, <1>3 DEF NewPool, IsPool

\* The fields reserves do not depend on.
LEMMA OtherFields ==
    ASSUME NEW P, IsPool(P), NEW v
    PROVE  /\ IsPool([P EXCEPT !.provider = v])
           /\ IsPool([P EXCEPT !.crt = v])
           /\ IsPool([P EXCEPT !.paused = v])
<1> DEFINE Q(provider, paused, crt) ==
      [provider |-> provider, reserves |-> P.reserves, list |-> P.list,
       assetClass |-> P.assetClass, paused |-> paused, crt |-> crt]
<1>1. P = Q(P.provider, P.paused, P.crt)
  BY DEF IsPool
<1>2. ASSUME NEW provider, NEW paused, NEW crt PROVE IsPool(Q(provider, paused, crt))
  BY DEF IsPool
<1>3. /\ [P EXCEPT !.provider = v] = Q(v, P.paused, P.crt)
      /\ [P EXCEPT !.crt = v] = Q(P.provider, P.paused, v)
      /\ [P EXCEPT !.paused = v] = Q(P.provider, v, P.crt)
  BY <1>1
<1> HIDE DEF Q
<1> QED  BY <1>2, <1>3

LEMMA RecordUpdate ==
    ASSUME NEW P, NEW provider, NEW paused, NEW crt, NEW reserves, NEW list, NEW class,
           NEW reserves0, NEW list0, NEW class0,
           P = [provider |-> provider, reserves |-> reserves0, list |-> list0,
                assetClass |-> class0, paused |-> paused, crt |-> crt]
    PROVE  /\ [P EXCEPT !.reserves = reserves, !.list = list, !.assetClass = class] =
              [provider |-> provider, reserves |-> reserves, list |-> list,
               assetClass |-> class, paused |-> paused, crt |-> crt]
           /\ [P EXCEPT !.reserves = reserves] =
              [provider |-> provider, reserves |-> reserves, list |-> list0,
               assetClass |-> class0, paused |-> paused, crt |-> crt]
<1> DEFINE Q(x, y, z) == [provider |-> provider, reserves |-> x, list |-> y,
                          assetClass |-> z, paused |-> paused, crt |-> crt]
<1>1. [P EXCEPT !.reserves = reserves] = Q(reserves, list0, class0)
  OBVIOUS
<1>2. [Q(reserves, list0, class0) EXCEPT !.list = list] = Q(reserves, list, class0)
  OBVIOUS
<1>3. [Q(reserves, list, class0) EXCEPT !.assetClass = class] = Q(reserves, list, class)
  OBVIOUS
<1>4. [P EXCEPT !.reserves = reserves, !.list = list, !.assetClass = class] =
          [[[P EXCEPT !.reserves = reserves] EXCEPT !.list = list] EXCEPT !.assetClass = class]
  OBVIOUS
<1> HIDE DEF Q
<1>5. [P EXCEPT !.reserves = reserves, !.list = list, !.assetClass = class] =
          Q(reserves, list, class)
  BY <1>1, <1>2, <1>3, <1>4, Zenon
<1> QED  BY <1>1, <1>5, Zenon DEF Q

LEMMA WordUpdate ==
    ASSUME NEW reserve, IsReserve(reserve), NEW word \in SUBSET KnownBit
    PROVE  IsReserve([reserve EXCEPT !.configuration = word])
BY DEF IsReserve

LEMMA WithWordIsPool ==
    ASSUME NEW P, IsPool(P), NEW r \in DOMAIN P.reserves, NEW word \in SUBSET KnownBit
    PROVE  IsPool(WithWord(P, r, word))
<1> DEFINE reserve == [P.reserves[r] EXCEPT !.configuration = word]
           reserves == [P.reserves EXCEPT ![r] = reserve]
           Q == [provider |-> P.provider, reserves |-> reserves, list |-> P.list,
                 assetClass |-> P.assetClass, paused |-> P.paused, crt |-> P.crt]
<1>1. WithWord(P, r, word) = Q
  <2>1. P = [provider |-> P.provider, reserves |-> P.reserves, list |-> P.list,
             assetClass |-> P.assetClass, paused |-> P.paused, crt |-> P.crt]
    BY Zenon DEF IsPool
  <2>2. WithWord(P, r, word) = [P EXCEPT !.reserves = reserves]
    BY Zenon DEF WithWord
  <2> HIDE DEF reserves
  <2> QED  BY <2>1, <2>2, RecordUpdate
<1>2. DOMAIN reserves = DOMAIN P.reserves
  OBVIOUS
<1>3. IsReserve(reserve)
  <2>1. IsReserve(P.reserves[r])
    BY DEF IsPool
  <2> QED  BY <2>1, WordUpdate
<1>4. ASSUME NEW s \in DOMAIN reserves PROVE IsReserve(reserves[s])
  <2> HIDE DEF reserve
  <2> QED  BY <1>2, <1>3, <1>4 DEF IsPool
<1> HIDE DEF reserves
<1>5. IsPool(Q)
  BY <1>2, <1>4 DEF IsPool
<1> QED  BY <1>1, <1>5

LEMMA InitDataIsReserve == ASSUME NEW input PROVE IsReserve(InitData(input))
<1>1. {} \in SUBSET KnownBit
  OBVIOUS
<1>2. setDecimals({}, Bits(input.underlyingAssetDecimals, 8)) \subseteq KnownBit
  BY <1>1, SettersKnown
<1>3. setActive(setDecimals({}, Bits(input.underlyingAssetDecimals, 8)), TRUE) \subseteq KnownBit
  BY <1>2, SettersKnown
<1>4. Opened(input) \subseteq KnownBit
  BY <1>3, SettersKnown DEF Opened
<1> QED  BY <1>4 DEF InitData, IsReserve

\* A reserve is listed below the class its asset is in, or in C if it is in none.
LEMMA WithReserveIsPool ==
    ASSUME NEW P, IsPool(P), NEW reserve, IsReserve(reserve), NEW a, NEW tier \in Tier,
           <<a, tier>> \notin DOMAIN P.reserves,
           IF a \in DOMAIN P.assetClass THEN tier = P.assetClass[a] - 1 ELSE tier = 2
    PROVE  IsPool(WithReserve(P, <<a, tier>>, reserve))
<1> DEFINE r == <<a, tier>>
           reserves == Put(P.reserves, r, reserve)
           list == Append(P.list, r)
           class == Put(P.assetClass, a, tier)
           Q == [provider |-> P.provider, reserves |-> reserves, list |-> list,
                 assetClass |-> class, paused |-> P.paused, crt |-> P.crt]
<1>1. WithReserve(P, r, reserve) = Q
  <2>1. r[1] = a /\ r[2] = tier
    OBVIOUS
  <2>2. SetAssetClass(P.assetClass, r) = class
    BY <2>1 DEF SetAssetClass
  <2>3. P = [provider |-> P.provider, reserves |-> P.reserves, list |-> P.list,
             assetClass |-> P.assetClass, paused |-> P.paused, crt |-> P.crt]
    BY Zenon DEF IsPool
  <2>4. WithReserve(P, r, reserve) =
            [P EXCEPT !.reserves = reserves, !.list = list, !.assetClass = class]
    <3> HIDE DEF class
    <3> QED  BY <2>2, Zenon DEF WithReserve
  <2> HIDE DEF reserves, list, class
  <2> QED  BY <2>3, <2>4, RecordUpdate
<1>2. /\ DOMAIN reserves = DOMAIN P.reserves \cup {r}
      /\ DOMAIN class = DOMAIN P.assetClass \cup {a}
      /\ \A s \in DOMAIN P.reserves : s # r => reserves[s] = P.reserves[s]
      /\ reserves[r] = reserve
      /\ \A b \in DOMAIN P.assetClass : b # a => class[b] = P.assetClass[b]
      /\ class[a] = tier
  BY DEF Put
<1>3. class \in [DOMAIN class -> Tier]
  <2>1. class = [x \in DOMAIN class |-> class[x]]
    BY DEF Put
  <2> HIDE DEF class
  <2> QED  BY <1>2, <2>1 DEF IsPool
<1>4. DOMAIN reserves \subseteq (DOMAIN class) \X Tier
  <2>1. r \in (DOMAIN class) \X Tier
    BY <1>2
  <2>2. (DOMAIN P.assetClass) \X Tier \subseteq (DOMAIN class) \X Tier
    BY <1>2
  <2> HIDE DEF reserves, class, r
  <2> QED  BY <1>2, <2>1, <2>2 DEF IsPool
<1>5. ASSUME NEW b \in DOMAIN class, NEW t \in Tier
      PROVE  <<b, t>> \in DOMAIN reserves <=> t >= class[b]
  <2> HIDE DEF reserves, class
  <2>1. CASE b # a
    <3>1. <<b, t>> # r
      BY <2>1
    <3>2. b \in DOMAIN P.assetClass /\ class[b] = P.assetClass[b]
      BY <1>2, <1>5, <2>1
    <3>3. <<b, t>> \in DOMAIN reserves <=> <<b, t>> \in DOMAIN P.reserves
      BY <1>2, <3>1
    <3> QED  BY <3>2, <3>3 DEF IsPool
  <2>2. CASE b = a /\ a \in DOMAIN P.assetClass
    <3>1. <<a, t>> \in DOMAIN P.reserves <=> t >= P.assetClass[a]
      BY <2>2 DEF IsPool
    <3>2. tier = P.assetClass[a] - 1 /\ P.assetClass[a] \in Tier
      BY <2>2 DEF IsPool
    <3>3. <<a, t>> = r <=> t = tier
      OBVIOUS
    <3>4. t = tier \/ t >= P.assetClass[a] <=> t >= tier
      BY <3>2 DEF Tier
    <3> HIDE DEF r
    <3> QED  BY <1>2, <2>2, <3>1, <3>3, <3>4
  <2>3. CASE b = a /\ a \notin DOMAIN P.assetClass
    <3>1. tier = 2
      BY <2>3
    <3>2. <<a, t>> \notin DOMAIN P.reserves
      BY <2>3 DEF IsPool
    <3>3. <<a, t>> = r <=> t = tier
      OBVIOUS
    <3>4. t = tier <=> t >= tier
      BY <3>1 DEF Tier
    <3> HIDE DEF r
    <3> QED  BY <1>2, <2>3, <3>2, <3>3, <3>4
  <2> QED  BY <2>1, <2>2, <2>3
<1>6. /\ list \in Seq(DOMAIN reserves)
      /\ Len(list) = Len(P.list) + 1
      /\ \A i \in 1..Len(P.list) : list[i] = P.list[i]
      /\ list[Len(P.list) + 1] = r
      /\ Len(P.list) \in Nat
  <2> HIDE DEF r, reserves
  <2>1. P.list \in Seq(DOMAIN reserves) /\ Len(P.list) \in Nat
    BY <1>2 DEF IsPool
  <2>2. r \in DOMAIN reserves
    BY <1>2
  <2> QED  BY <2>1, <2>2, AppendProperties
<1>7. \A i \in 1..Len(P.list) : P.list[i] # r
  BY DEF IsPool
<1> HIDE DEF r, reserves, list, class
<1>8. ASSUME NEW s \in DOMAIN reserves PROVE \E i \in 1..Len(list) : list[i] = s
  <2>1. CASE s = r
    BY <1>6, <2>1
  <2>2. CASE s \in DOMAIN P.reserves
    <3>1. PICK i \in 1..Len(P.list) : P.list[i] = s
      BY <2>2 DEF IsPool
    <3>2. i \in 1..Len(list)
      BY <1>6
    <3>3. list[i] = s
      BY <1>6, <3>1
    <3> QED  BY <3>2, <3>3, Zenon
  <2> QED  BY <1>2, <2>1, <2>2
<1>9. ASSUME NEW i \in 1..Len(list), NEW j \in 1..Len(list), list[i] = list[j]
      PROVE  i = j
  <2>1. /\ i \in 1..Len(P.list) \/ i = Len(P.list) + 1
        /\ j \in 1..Len(P.list) \/ j = Len(P.list) + 1
    BY <1>6
  <2>2. CASE i \in 1..Len(P.list) /\ j \in 1..Len(P.list)
    <3>1. P.list[i] = P.list[j]
      BY <1>6, <1>9, <2>2
    <3> QED  BY <2>2, <3>1 DEF IsPool
  <2> QED  BY <1>6, <1>7, <1>9, <2>1, <2>2
<1>10. \A s \in DOMAIN reserves : IsReserve(reserves[s])
  BY <1>2 DEF IsPool
<1>11. IsPool(Q)
  BY <1>3, <1>4, <1>5, <1>6, <1>8, <1>9, <1>10 DEF IsPool
<1> QED  BY <1>1, <1>11 DEF r

-----------------------------------------------------------------------------
(***************************************************************************)
(* Steps.                                                                  *)
(***************************************************************************)

LEMMA PoolChanged ==
    ASSUME IInv, NEW c, NEW P, c \in DOMAIN pool => IsPool(P),
           pool' = [pool EXCEPT ![c] = P]
    PROVE  IInv'
<1>1. DOMAIN pool' = DOMAIN pool
  OBVIOUS
<1>2. ASSUME NEW d \in DOMAIN pool PROVE pool'[d] = IF d = c THEN P ELSE pool[d]
  OBVIOUS
<1> QED  BY <1>1, <1>2 DEF IInv

LEMMA DeploySteps == ASSUME IInv, NEW p \in Run, Deploy(p) PROVE IInv'
<1>1. pool' = pool \/ pool' = Put(pool, nextAddress, NewPool)
  BY DEF Deploy, NewState
<1> QED  BY <1>1, NewPoolIsPool DEF IInv, Put

LEMMA InitializeSteps == ASSUME IInv, NEW p \in Run, InitializeCounter(p) PROVE IInv'
<1> DEFINE c == locals[p]["Counter"]
           P == [pool[c] EXCEPT !.provider = locals[p]["CounterAddressesProvider"]]
<1>1. pool' = [pool EXCEPT ![c] = P]
  BY DEF InitializeCounter
<1>2. c \in DOMAIN pool => IsPool(P)
  BY OtherFields DEF IInv
<1> HIDE DEF c, P
<1> QED  BY <1>1, <1>2, PoolChanged

LEMMA InitReserveSteps == ASSUME IInv, NEW p \in Run, InitReserve(p) PROVE IInv'
<1> DEFINE c == HelperCounter(p)
           input == Head(inputs[p])
           a == input.underlyingAsset
           P == WithReserve(pool[c], <<a, 2>>, InitData(input))
<1>1. pool' = [pool EXCEPT ![c] = P]
  BY DEF InitReserve, List, InitAssetTier
<1>2. ASSUME c \in DOMAIN pool PROVE IsPool(P)
  <2>1. <<a, 2>> \notin DOMAIN pool[c].reserves
    BY DEF InitReserve, CanInitReserve, CanList, HelperCounter, InitAssetTier
  <2>2. IsPool(pool[c]) /\ 2 \in Tier
    BY <1>2 DEF IInv, Tier
  <2>3. a \notin DOMAIN pool[c].assetClass
    <3>1. ASSUME a \in DOMAIN pool[c].assetClass PROVE FALSE
      <4>1. pool[c].assetClass[a] \in Tier
        BY <2>2, <3>1 DEF IsPool
      <4>2. 2 >= pool[c].assetClass[a]
        BY <4>1 DEF Tier
      <4> QED  BY <2>1, <2>2, <3>1, <4>2 DEF IsPool
    <3> QED  BY <3>1
  <2> HIDE DEF c, input, a
  <2> QED  BY <2>1, <2>2, <2>3, InitDataIsReserve, WithReserveIsPool
<1> HIDE DEF c, P
<1> QED  BY <1>1, <1>2, PoolChanged

LEMMA UpgradeSteps == ASSUME IInv, NEW p \in Run, UpgradeAssetClass(p) PROVE IInv'
<1> DEFINE c == HelperCounter(p)
           input == Head(inputs[p])
           a == input.underlyingAsset
           class == ClassOf(c, a)
           P == WithReserve(pool[c], <<a, class - 1>>, InitData(input))
<1>1. pool' = [pool EXCEPT ![c] = P]
  BY DEF UpgradeAssetClass, List
<1>2. ASSUME c \in DOMAIN pool PROVE IsPool(P)
  <2>1. class > 0 /\ <<a, class - 1>> \notin DOMAIN pool[c].reserves
    BY DEF UpgradeAssetClass, CanUpgradeAssetClass, CanList, HelperCounter
  <2>2. IsPool(pool[c])
    BY <1>2 DEF IInv
  <2>3. a \in DOMAIN pool[c].assetClass /\ class = pool[c].assetClass[a]
    BY <2>1 DEF ClassOf
  <2>4. class \in Tier
    BY <2>2, <2>3 DEF IsPool
  <2>5. class - 1 \in Tier
    BY <2>1, <2>4 DEF Tier
  <2> HIDE DEF c, input, a, class
  <2> QED  BY <2>1, <2>2, <2>3, <2>5, InitDataIsReserve, WithReserveIsPool
<1> HIDE DEF c, P
<1> QED  BY <1>1, <1>2, PoolChanged

LEMMA ConfigureSteps ==
    ASSUME IInv, NEW p \in Run, CanConfigure(p),
           NEW word, ConfiguredWord(p) \subseteq KnownBit => word \subseteq KnownBit,
           Configure(p, word)
    PROVE  IInv'
<1> DEFINE c == HelperCounter(p)
           r == ConfiguredReserve(p)
           P == WithWord(pool[c], r, word)
<1>1. pool' = [pool EXCEPT ![c] = P]
  BY DEF Configure
<1>2. ASSUME c \in DOMAIN pool PROVE IsPool(P)
  <2>1. r \in DOMAIN pool[c].reserves /\ IsPool(pool[c])
    BY <1>2 DEF CanConfigure, IInv
  <2>2. ConfiguredWord(p) \subseteq KnownBit
    BY <2>1 DEF ConfiguredWord, IsPool, IsReserve
  <2> HIDE DEF c, r
  <2> QED  BY <2>1, <2>2, WithWordIsPool
<1> HIDE DEF c, P
<1> QED  BY <1>1, <1>2, PoolChanged

LEMMA CollateralSteps == ASSUME IInv, NEW p \in Run, ConfigureReserveAsCollateral(p) PROVE IInv'
<1> DEFINE params == Instruction(p).params
           ltv == setLtv(ConfiguredWord(p), Bits(params.baseLTVAsCollateral, 16))
           threshold == setLiquidationThreshold(ltv, Bits(params.liquidationThreshold, 16))
           bonus == setLiquidationBonus(threshold, Bits(params.liquidationBonus, 16))
<1>1. CanConfigure(p) /\ Configure(p, bonus)
  BY DEF ConfigureReserveAsCollateral
<1>2. ConfiguredWord(p) \subseteq KnownBit => ltv \subseteq KnownBit
  BY SettersKnown
<1>3. ltv \subseteq KnownBit => threshold \subseteq KnownBit
  <2> HIDE DEF ltv
  <2> QED  BY SettersKnown
<1>4. threshold \subseteq KnownBit => bonus \subseteq KnownBit
  <2> HIDE DEF threshold
  <2> QED  BY SettersKnown
<1> HIDE DEF ltv, threshold, bonus
<1> QED  BY <1>1, <1>2, <1>3, <1>4, ConfigureSteps

LEMMA BorrowingSteps == ASSUME IInv, NEW p \in Run, EnableBorrowingOnReserve(p) PROVE IInv'
<1> DEFINE enabled == setBorrowingEnabled(ConfiguredWord(p), TRUE)
           stable == setStableRateBorrowingEnabled(enabled, FALSE)
<1>1. CanConfigure(p) /\ Configure(p, stable)
  BY DEF EnableBorrowingOnReserve
<1>2. ConfiguredWord(p) \subseteq KnownBit => enabled \subseteq KnownBit
  BY SettersKnown
<1>3. enabled \subseteq KnownBit => stable \subseteq KnownBit
  <2> HIDE DEF enabled
  <2> QED  BY SettersKnown
<1> HIDE DEF enabled, stable
<1> QED  BY <1>1, <1>2, <1>3, ConfigureSteps

LEMMA FactorSteps == ASSUME IInv, NEW p \in Run, SetReserveFactor(p) PROVE IInv'
<1> DEFINE word == setReserveFactor(ConfiguredWord(p), Bits(Instruction(p).params.reserveFactor, 16))
<1>1. CanConfigure(p) /\ Configure(p, word)
  BY DEF SetReserveFactor
<1>2. ConfiguredWord(p) \subseteq KnownBit => word \subseteq KnownBit
  BY SettersKnown
<1> HIDE DEF word
<1> QED  BY <1>1, <1>2, ConfigureSteps

LEMMA GovernSteps == ASSUME IInv, NEW p \in Run, SetCRT(p) \/ SetPoolPause(p) PROVE IInv'
<1> DEFINE c == configurator[OwnConfigurator(p)].counter
           P == [pool[c] EXCEPT !.crt = locals[p]["CRT"]]
           Q == [pool[c] EXCEPT !.paused = Instruction(p).paused]
<1>1. pool' = [pool EXCEPT ![c] = P] \/ pool' = [pool EXCEPT ![c] = Q]
  BY DEF SetCRT, SetPoolPause
<1>2. c \in DOMAIN pool => IsPool(P) /\ IsPool(Q)
  BY OtherFields DEF IInv
<1> HIDE DEF c, P, Q
<1> QED  BY <1>1, <1>2, PoolChanged

LEMMA OtherSteps ==
    ASSUME NEW p \in Run,
           \/ Register(p) \/ RawInsert(p) \/ Attach(p) \/ Set(p)
           \/ InitializeConfigurator(p) \/ SetAssetPrice(p) \/ AuthorizeCounter(p)
           \/ EnterHelper(p) \/ Prepare(p) \/ KeepStrategy(p) \/ PushInput(p)
           \/ CallForEachInput(p) \/ Finish(p) \/ Throw(p) \/ Crash
           \/ \E s \in Scripts : Start(p, s)
    PROVE  pool' = pool
BY DEF Register, RawInsert, Attach, Set, InitializeConfigurator, SetAssetPrice,
       AuthorizeCounter, EnterHelper, Prepare, KeepStrategy, PushInput,
       CallForEachInput, Finish, Throw, Crash, Start, End, chainVars

LEMMA InitIInv == Init => IInv
BY DEF Init, IInv

LEMMA NextIInv == IInv /\ [Next]_vars => IInv'
<1> SUFFICES ASSUME IInv, [Next]_vars PROVE IInv'
  OBVIOUS
<1>1. ASSUME NEW p \in Run, Step(p) PROVE IInv'
  <2>1. CASE pool' = pool
    BY <2>1 DEF IInv
  <2> QED  BY <1>1, <2>1, OtherSteps, DeploySteps, InitializeSteps, InitReserveSteps,
              UpgradeSteps, CollateralSteps, BorrowingSteps, FactorSteps, GovernSteps
           DEF Step
<1>2. CASE (\E p \in Run, s \in Scripts : Start(p, s)) \/ Crash \/ UNCHANGED vars
  <2>1. pool' = pool
    BY <1>2, Zenon DEF Start, Crash, vars, chainVars
  <2> QED  BY <2>1 DEF IInv
<1>3. CASE NodeRestarts
  BY <1>3 DEF NodeRestarts, IInv
<1> QED  BY <1>1, <1>2, <1>3 DEF Next

\* Every pool is one whose reserves are as in IsPool.
LEMMA Invariance == Spec => []IInv
BY InitIInv, NextIInv, PTL DEF Spec

\* In every pool the scripts have touched, however they were interrupted or
\* interleaved: an asset has reserves in its class and every tier above it, and
\* the list has each once.
THEOREM AssetsRiseTierByTier == Spec => []ReservesFollowClasses
<1>1. IInv => ReservesFollowClasses
  <2> SUFFICES ASSUME IInv, NEW c \in DOMAIN pool
               PROVE  /\ DOMAIN pool[c].reserves \subseteq (DOMAIN pool[c].assetClass) \X Tier
                      /\ \A a \in DOMAIN pool[c].assetClass, tier \in Tier :
                             <<a, tier>> \in DOMAIN pool[c].reserves <=>
                                 tier >= pool[c].assetClass[a]
                      /\ IsInjective(pool[c].list)
                      /\ Range(pool[c].list) = DOMAIN pool[c].reserves
    BY DEF ReservesFollowClasses
  <2>1. IsPool(pool[c])
    BY DEF IInv
  <2>2. DOMAIN pool[c].list = 1..Len(pool[c].list)
    BY <2>1 DEF IsPool
  <2>3. IsInjective(pool[c].list)
    BY <2>1, <2>2 DEF IsPool, IsInjective
  <2>4. Range(pool[c].list) = DOMAIN pool[c].reserves
    <3>1. \A i \in 1..Len(pool[c].list) : pool[c].list[i] \in DOMAIN pool[c].reserves
      BY <2>1, ElementOfSeq DEF IsPool
    <3>2. \A r \in DOMAIN pool[c].reserves :
              \E i \in 1..Len(pool[c].list) : pool[c].list[i] = r
      BY <2>1 DEF IsPool
    <3>3. Range(pool[c].list) = {pool[c].list[i] : i \in 1..Len(pool[c].list)}
      BY <2>2 DEF Range
    <3> QED  BY <3>1, <3>2, <3>3, Zenon
  <2> QED  BY <2>1, <2>3, <2>4 DEF IsPool
<1> QED  BY <1>1, Invariance, PTL

\* No setter reaches a bit that has no setter, in any order of configuration
\* calls: the features the pool does not have stay off.
THEOREM AbsentFeaturesStayOff == Spec => []NoBitOutOfPlace
<1>1. IInv => NoBitOutOfPlace
  BY KnownIsUnset DEF IInv, IsPool, IsReserve, NoBitOutOfPlace
<1> QED  BY <1>1, Invariance, PTL

\* What is closed under concatenation holds of what ForEach puts together.
LEMMA FlattenClosed ==
    ASSUME NEW X, \A s, t \in X : s \o t \in X, NEW seqs \in Seq(X), Len(seqs) # 0
    PROVE  FlattenSeq(seqs) \in X
<1> DEFINE n == Len(seqs)
           Flat(m, f) == f = [i \in 1..m |-> IF i = 1 THEN seqs[i] ELSE f[i - 1] \o seqs[i]]
           Good(m) == \E f \in [1..m -> X] : Flat(m, f)
           Bad == {m \in 1..n : ~Good(m)}
<1>1. n \in Nat \ {0} /\ \A i \in 1..n : seqs[i] \in X
  BY ElementOfSeq
<1>2. Good(1)
  <2> DEFINE f == [i \in 1..1 |-> seqs[1]]
  <2>1. f \in [1..1 -> X] /\ f = [i \in 1..1 |-> IF i = 1 THEN seqs[i] ELSE f[i - 1] \o seqs[i]]
    BY <1>1
  <2> QED BY <2>1, Zenon
<1>3. ASSUME NEW m \in 1..n, m < n, Good(m) PROVE Good(m + 1)
  <2>1. PICK f \in [1..m -> X] : Flat(m, f)
    BY <1>3
  <2>2. \A i \in 1..m : f[i] = IF i = 1 THEN seqs[i] ELSE f[i - 1] \o seqs[i]
    BY <2>1
  <2> DEFINE last == f[m] \o seqs[m + 1]
             g == [i \in 1..m + 1 |-> IF i <= m THEN f[i] ELSE last]
  <2>3. last \in X
    <3>1. f[m] \in X /\ m + 1 \in 1..n
      BY <1>1, <1>3
    <3>2. seqs[m + 1] \in X
      BY <1>1, <3>1
    <3> QED BY <3>1, <3>2
  <2>4. g \in [1..m + 1 -> X]
    <3>1. \A i \in 1..m + 1 : i \in 1..m \/ ~ (i <= m)
      OBVIOUS
    <3> HIDE DEF last
    <3> QED BY <2>3, <3>1
  <2>5. /\ \A i \in 1..m : g[i] = f[i]
        /\ g[m + 1] = f[m] \o seqs[m + 1]
    OBVIOUS
  <2>6. g = [i \in 1..m + 1 |-> g[i]]
    OBVIOUS
  <2> HIDE DEF g, last
  <2>7. \A i \in 1..m : g[i] = IF i = 1 THEN seqs[i] ELSE g[i - 1] \o seqs[i]
    <3>1. \A i \in 1..m : i # 1 => i - 1 \in 1..m
      OBVIOUS
    <3> QED BY <2>2, <2>5, <3>1
  <2>8. m + 1 # 1 /\ g[m + 1] = g[(m + 1) - 1] \o seqs[m + 1]
    <3>1. (m + 1) - 1 = m /\ m \in 1..m /\ m + 1 # 1
      OBVIOUS
    <3>2. g[m] = f[m]
      BY <2>5, <3>1
    <3> QED BY <2>5, <3>1, <3>2, Zenon
  <2>9. \A i \in 1..m + 1 : i \in 1..m \/ i = m + 1
    OBVIOUS
  <2>10. \A i \in 1..m + 1 : g[i] = IF i = 1 THEN seqs[i] ELSE g[i - 1] \o seqs[i]
    BY <2>7, <2>8, <2>9
  <2>11. Flat(m + 1, g)
    BY <2>6, <2>10
  <2> QED BY <2>4, <2>11
<1> HIDE DEF Good
<1>4. Good(n)
  <2> SUFFICES ASSUME ~Good(n) PROVE FALSE
    OBVIOUS
  <2>1. Bad \subseteq 1..n /\ Bad # {}
    BY <1>1
  <2>2. PICK m \in Bad : \A k \in Bad : m <= k
    <3> HIDE DEF Bad, n
    <3> QED BY <1>1, <2>1, LeastNumber
  <2>3. m # 1 /\ m - 1 \in 1..n /\ m \in 1..n
    BY <1>2
  <2>4. Good(m - 1)
    BY <2>2, <2>3
  <2>5. (m - 1) + 1 = m /\ m - 1 < n
    BY <2>3
  <2> QED BY <1>3, <2>3, <2>4, <2>5
<1> DEFINE flatten == CHOOSE f : Flat(n, f)
<1>5. Flat(n, flatten)
  BY <1>4 DEF Good
<1>6. FlattenSeq(seqs) = flatten[n]
  BY Zenon DEF FlattenSeq
<1>7. ASSUME NEW m \in 1..n PROVE flatten[m] = IF m = 1 THEN seqs[m] ELSE flatten[m - 1] \o seqs[m]
  <2> HIDE DEF flatten
  <2> QED BY <1>5
<1> HIDE DEF flatten
<1> DEFINE Odd == {m \in 1..n : flatten[m] \notin X}
<1>8. flatten[n] \in X
  <2> SUFFICES ASSUME flatten[n] \notin X PROVE FALSE
    OBVIOUS
  <2>1. Odd \subseteq 1..n /\ Odd # {}
    BY <1>1
  <2>2. PICK m \in Odd : \A k \in Odd : m <= k
    <3> HIDE DEF Odd, n
    <3> QED BY <1>1, <2>1, LeastNumber
  <2>3. m # 1 /\ m - 1 \in 1..n /\ m \in 1..n
    BY <1>1, <1>7
  <2>4. flatten[m - 1] \in X
    BY <2>2, <2>3
  <2> QED BY <1>1, <1>7, <2>3, <2>4
<1> QED BY <1>6, <1>8

-----------------------------------------------------------------------------
(***************************************************************************)
(* The instructions of the scripts.                                        *)
(***************************************************************************)

ReadKey == {"CounterAddressesProvider", "CounterConfigurator", "PlatformTokenInterestRateModel"}

\* The variables of a script's own contracts, and those named for the contract.
OwnVariable == ContractName \cup {"pToken", "variableDebtToken", "strategy"}
NamedForItsKind == ReadKey \cup {"Counter", "PrestareOracle"}

StrategyName == {"rateStrategyAClass", "rateStrategyBClass", "rateStrategyCClass"}
Enabled == {TRUE}
Loans == {<<7500, 8000>>, <<8000, 8250>>, <<8000, 8500>>}  \* LTV, liquidation threshold
Params ==
    {params \in
        [strategy : [name : StrategyName, optimalUtilizationRate : {80},
                     baseVariableBorrowRate : {0, 5, 10}, variableRateSlope1 : {4},
                     variableRateSlope2 : {100}],
         baseLTVAsCollateral : {7500, 8000}, liquidationThreshold : {8000, 8250, 8500},
         liquidationBonus : {10500}, borrowingEnabled : Enabled, reserveDecimals : {6, 18},
         reserveFactor : {1000}] :
        <<params.baseLTVAsCollateral, params.liquidationThreshold>> \in Loans}

ListOp == {"initReserve", "upgradeAssetClass"}
ConfigureOp == {"configureReserveAsCollateral", "enableBorrowingOnReserve", "setReserveFactor"}

DeployInstruction ==
    {x \in [op : {"deploy"},
            contract : ContractName \cup {"MockCRT", "PToken", "VariableDebtToken"},
            as : OwnVariable \cup Symbol \cup ComputedName] :
        x.as \in NamedForItsKind \/ x.contract \in NamedForItsKind => x.contract = x.as}

RegisterInstruction ==
    {x \in [op : {"register"}, key : ContractName \cup Symbol \cup StrategyName \cup ComputedName,
            as : OwnVariable \cup Symbol \cup ComputedName] :
        x.key \in ReadKey => x.as = x.key}

SetInstruction ==
    {set("PoolAdmin", "admin"), set("EmergencyAdmin", "admin"), set("Counter", "Counter"),
     set("CounterConfigurator", "CounterConfigurator"), set("PriceOracle", "PrestareOracle"),
     set("CounterCollateralManager", "CounterCollateralManager")}

PrepareInstruction(admin) ==
    [op : {"prepare"}, call : ListOp, symbol : Symbol, params : Params, admin : {admin}]

AttachInstruction ==
    {attach(read.contract, read.as) : read \in ReadBack}
    \cup {attach(symbol, symbol) : symbol \in Symbol}

\* What a plan holds, and what only the turn of a loop over reserves adds.
PlanInstruction(admin) ==
    DeployInstruction \cup RegisterInstruction \cup SetInstruction
    \cup PrepareInstruction(admin) \cup AttachInstruction
    \cup [op : {"rawInsert"}, key : Symbol, address : Nat]
    \cup {initialize("Counter"), initialize("CounterConfigurator")}
    \cup [op : {"setAssetPrice"}, symbol : Symbol]
    \cup [op : {"authorizeCounter", "enterHelper", "setCRT"}]
    \cup [op : {"callForEachInput"}, call : ListOp]
    \cup [op : ConfigureOp, symbol : Symbol, tier : Tier \cup {"admin"}, params : Params]
    \cup [op : {"setPoolPause"}, paused : {FALSE}]

LoopInstruction(admin) ==
    [op : {"keepStrategy"}, name : StrategyName]
    \cup [op : {"pushInput"}, config : PrepareInstruction(admin)]
    \cup [op : ListOp]

AnyInstruction(admin) == PlanInstruction(admin) \cup LoopInstruction(admin)

-----------------------------------------------------------------------------
(***************************************************************************)
(* What an instruction rests on, and what later ones may rest on when it   *)
(* has been done.                                                          *)
(***************************************************************************)

Variable(name) == <<"variable", name>>
Entry(key) == <<"entry", key>>
Strategy(name) == <<"strategy", name>>
Oracle == <<"oracle", "">>
Prepared == <<"prepared", "">>

Needs(x) ==
    CASE x.op = "set" -> {Variable("CounterAddressesProvider")}
                         \cup (IF x.as = "admin" THEN {} ELSE {Variable(x.as)})
      [] x.op = "initialize" -> {Variable("CounterAddressesProvider"), Variable(x.as)}
      [] x.op = "attach" -> IF x.key \in ReadKey THEN {Entry(x.key)} ELSE {}
      [] x.op = "enterHelper" -> {Entry("CounterAddressesProvider")}
      [] x.op = "keepStrategy" -> {Variable("strategy")}
      [] x.op = "pushInput" -> {Variable("pToken"), Variable("variableDebtToken"),
                                Strategy(x.config.params.strategy.name), Prepared}
      [] x.op = "callForEachInput" -> {Variable("configurator"), Prepared}
      [] x.op \in ConfigureOp -> {Variable("configurator"), Oracle, Prepared}
      [] x.op \in ListOp -> {Variable("configurator"), Prepared}
      [] OTHER -> {}

Gives(x) ==
    CASE x.op \in {"deploy", "attach"} -> {Variable(x.as)}
      [] x.op = "register" -> IF x.key \in ReadKey THEN {Entry(x.key)} ELSE {}
      [] x.op = "set" -> IF x.slot = "PriceOracle" THEN {Oracle} ELSE {}
      [] x.op = "enterHelper" -> {Variable("addressProvider")}
      [] x.op = "prepare" -> {Prepared}
      [] x.op = "keepStrategy" -> {Strategy(x.name)}
      [] OTHER -> {}

Ready(K, s) ==
    \A i \in 1..Len(s) : \A t \in Needs(s[i]) :
        t \in K \/ \E j \in 1..i - 1 : t \in Gives(s[j])

Given(s) == UNION {Gives(s[i]) : i \in 1..Len(s)}

\* Borrowing is enabled by the instruction after the one that makes the reserve a
\* collateral.
ThenBorrowing(x, y) ==
    /\ x.op = "configureReserveAsCollateral"
    /\ x.symbol = y.symbol /\ x.tier = y.tier
CollateralFirst(s) ==
    \A i \in 2..Len(s) : s[i].op = "enableBorrowingOnReserve" => ThenBorrowing(s[i - 1], s[i])

deployProvider == deploy("CounterAddressesProvider", "CounterAddressesProvider")

\* A part of a plan after its first instruction, when K is given.
Part(admin, K, s) ==
    /\ s \in Seq(PlanInstruction(admin) \ {deployProvider})
    /\ s # << >> /\ s[1].op # "enableBorrowingOnReserve"
    /\ Ready(K, s)
    /\ CollateralFirst(s)

\* What the first part gives, the second may rest on.
LEMMA ReadyConcat ==
    ASSUME NEW I, NEW s \in Seq(I), NEW t \in Seq(I), NEW K, NEW L,
           Ready(K, s), Ready(L, t), L \subseteq K \cup Given(s)
    PROVE  Ready(K, s \o t)
<1> DEFINE st == s \o t
<1>1. /\ Len(st) = Len(s) + Len(t) /\ Len(s) \in Nat /\ Len(t) \in Nat
      /\ \A i \in 1..Len(s) : st[i] = s[i]
      /\ \A i \in 1..Len(t) : st[Len(s) + i] = t[i]
  BY ConcatProperties
<1> HIDE DEF st
<1> SUFFICES ASSUME NEW i \in 1..Len(st), NEW x \in Needs(st[i])
             PROVE  x \in K \/ \E j \in 1..i - 1 : x \in Gives(st[j])
  BY DEF Ready, st
<1>2. CASE i \in 1..Len(s)
  <2>1. x \in K \/ \E j \in 1..i - 1 : x \in Gives(s[j])
    BY <1>1, <1>2 DEF Ready
  <2> QED BY <1>1, <1>2, <2>1
<1>3. CASE i \notin 1..Len(s)
  <2> DEFINE m == i - Len(s)
  <2>1. m \in 1..Len(t) /\ i = Len(s) + m
    BY <1>1, <1>3
  <2> HIDE DEF m
  <2>2. x \in L \/ \E j \in 1..m - 1 : x \in Gives(t[j])
    BY <1>1, <2>1 DEF Ready
  <2>3. CASE x \in L
    <3>1. x \in K \/ \E j \in 1..Len(s) : x \in Gives(s[j])
      BY <2>3 DEF Given
    <3>2. \A j \in 1..Len(s) : j \in 1..i - 1 /\ st[j] = s[j]
      BY <1>1, <2>1
    <3> QED BY <3>1, <3>2
  <2>4. CASE \E j \in 1..m - 1 : x \in Gives(t[j])
    <3>1. PICK j \in 1..m - 1 : x \in Gives(t[j])
      BY <2>4
    <3>2. Len(s) + j \in 1..i - 1 /\ j \in 1..Len(t)
      BY <1>1, <2>1
    <3> QED BY <1>1, <3>1, <3>2
  <2> QED BY <2>2, <2>3, <2>4
<1> QED BY <1>2, <1>3

\* Two parts give what each gives.
LEMMA GivenConcat ==
    ASSUME NEW I, NEW s \in Seq(I), NEW t \in Seq(I)
    PROVE  Given(s \o t) = Given(s) \cup Given(t)
<1> DEFINE st == s \o t
<1>1. /\ Len(st) = Len(s) + Len(t) /\ Len(s) \in Nat /\ Len(t) \in Nat
      /\ \A i \in 1..Len(s) : st[i] = s[i]
      /\ \A i \in 1..Len(t) : st[Len(s) + i] = t[i]
  BY ConcatProperties
<1> HIDE DEF st
<1>2. \A i \in 1..Len(st) : i \in 1..Len(s) \/ i - Len(s) \in 1..Len(t)
  BY <1>1
<1>3. \A i \in 1..Len(t) : Len(s) + i \in 1..Len(st)
  BY <1>1
<1>4. \A i \in 1..Len(s) : i \in 1..Len(st)
  BY <1>1
<1>5. \A i \in 1..Len(st) : i - Len(s) \in 1..Len(t) => st[i] = t[i - Len(s)]
  <2>1. \A i \in 1..Len(st) : Len(s) + (i - Len(s)) = i
    BY <1>1
  <2> QED BY <1>1, <2>1
<1>6. Given(st) \subseteq Given(s) \cup Given(t)
  BY <1>1, <1>2, <1>5 DEF Given
<1>7. Given(s) \subseteq Given(st) /\ Given(t) \subseteq Given(st)
  BY <1>1, <1>3, <1>4 DEF Given
<1> QED BY <1>6, <1>7 DEF st

LEMMA CollateralFirstConcat ==
    ASSUME NEW I, NEW s \in Seq(I), NEW t \in Seq(I), CollateralFirst(s), CollateralFirst(t),
           t # << >> => t[1].op # "enableBorrowingOnReserve"
    PROVE  CollateralFirst(s \o t)
<1> DEFINE st == s \o t
<1>1. /\ Len(st) = Len(s) + Len(t) /\ Len(s) \in Nat /\ Len(t) \in Nat
      /\ \A i \in 1..Len(s) : st[i] = s[i]
      /\ \A i \in 1..Len(t) : st[Len(s) + i] = t[i]
  BY ConcatProperties
<1>2. Len(t) # 0 => t[1].op # "enableBorrowingOnReserve"
  OBVIOUS
<1> HIDE DEF st
<1> SUFFICES ASSUME NEW i \in 2..Len(st), st[i].op = "enableBorrowingOnReserve"
             PROVE  ThenBorrowing(st[i - 1], st[i])
  BY DEF CollateralFirst, st
<1>3. CASE i \in 2..Len(s)
  <2>1. i \in 1..Len(s) /\ i - 1 \in 1..Len(s)
    BY <1>1, <1>3
  <2>2. st[i] = s[i] /\ st[i - 1] = s[i - 1]
    BY <1>1, <2>1
  <2> QED BY <1>3, <2>2 DEF CollateralFirst
<1>4. CASE i \notin 2..Len(s)
  <2> DEFINE m == i - Len(s)
  <2>1. m \in 1..Len(t) /\ i = Len(s) + m
    BY <1>1, <1>4
  <2>2. st[i] = t[m]
    BY <1>1, <2>1
  <2>3. m # 1
    BY <1>1, <1>2, <2>1, <2>2
  <2>4. m - 1 \in 1..Len(t) /\ i - 1 = Len(s) + (m - 1) /\ m \in 2..Len(t)
    BY <1>1, <2>1, <2>3
  <2>5. st[i - 1] = t[m - 1]
    BY <1>1, <2>4
  <2> HIDE DEF m
  <2> QED BY <2>2, <2>4, <2>5 DEF CollateralFirst
<1> QED BY <1>3, <1>4

\* Two parts of which the second rests on what the first gives.
LEMMA PartConcat ==
    ASSUME NEW admin, NEW K, NEW L, NEW s, NEW t,
           Part(admin, K, s), Part(admin, L, t), L \subseteq K \cup Given(s)
    PROVE  Part(admin, K, s \o t)
<1> DEFINE I == PlanInstruction(admin) \ {deployProvider}
<1>1. s \in Seq(I) /\ t \in Seq(I) /\ s # << >> /\ t # << >>
  BY DEF Part
<1>2. s \o t \in Seq(I) /\ s \o t # << >> /\ (s \o t)[1] = s[1]
  <2> HIDE DEF I
  <2> QED BY <1>1
<1>3. Ready(K, s \o t) /\ CollateralFirst(s \o t)
  <2>1. Ready(K, s) /\ Ready(L, t) /\ CollateralFirst(s) /\ CollateralFirst(t)
        /\ t[1].op # "enableBorrowingOnReserve"
    BY DEF Part
  <2> HIDE DEF I
  <2> QED BY <1>1, <2>1, ReadyConcat, CollateralFirstConcat
<1> QED BY <1>2, <1>3 DEF Part

\* A part that leads from what K gives to what L gives.
Leads(admin, K, s, L) == Part(admin, K, s) /\ L \subseteq K \cup Given(s)

LEMMA PartGiven ==
    ASSUME NEW admin, NEW K, NEW L, NEW s, NEW t, Part(admin, K, s), Part(admin, L, t)
    PROVE  Given(s \o t) = Given(s) \cup Given(t)
<1>1. /\ s \in Seq(PlanInstruction(admin) \ {deployProvider})
      /\ t \in Seq(PlanInstruction(admin) \ {deployProvider})
  BY DEF Part
<1> QED BY <1>1, GivenConcat

LEMMA LeadsConcat ==
    ASSUME NEW admin, NEW K, NEW L, NEW M, NEW s, NEW t,
           Leads(admin, K, s, L), Leads(admin, L, t, M)
    PROVE  Leads(admin, K, s \o t, M)
<1>1. /\ Part(admin, K, s) /\ Part(admin, L, t)
      /\ L \subseteq K \cup Given(s) /\ M \subseteq L \cup Given(t)
  BY DEF Leads
<1>2. Part(admin, K, s \o t)
  BY <1>1, PartConcat
<1>3. Given(s \o t) = Given(s) \cup Given(t)
  BY <1>1, PartGiven
<1> QED BY <1>1, <1>2, <1>3 DEF Leads

\* With more given, a part leads to whatever it led to.
LEMMA LeadsMore ==
    ASSUME NEW admin, NEW K, NEW L, NEW s, Leads(admin, K, s, L),
           NEW M, NEW N, K \subseteq M, N \subseteq M \cup L
    PROVE  Leads(admin, M, s, N)
BY DEF Leads, Part, Ready

\* A loop: turns that each lead from what is given to L.
LEMMA LeadsForEach ==
    ASSUME NEW admin, NEW K, NEW L, K \subseteq L,
           NEW seqs \in Seq({s \in Seq(PlanInstruction(admin)) : Leads(admin, K, s, L)}),
           Len(seqs) # 0
    PROVE  Leads(admin, K, FlattenSeq(seqs), L)
<1> DEFINE X == {s \in Seq(PlanInstruction(admin)) : Leads(admin, K, s, L)}
<1>1. ASSUME NEW s \in X, NEW t \in X PROVE s \o t \in X
  <2>1. Leads(admin, K, s, L) /\ Leads(admin, L, t, L)
    BY LeadsMore
  <2> QED BY <2>1, LeadsConcat
<1> HIDE DEF X
<1>2. FlattenSeq(seqs) \in X
  BY <1>1, FlattenClosed DEF X
<1> QED BY <1>2 DEF X

LEMMA NotTheProvider ==
    ASSUME NEW x, x = deployProvider
    PROVE  x.op = "deploy" /\ x.contract = "CounterAddressesProvider"
BY DEF deployProvider, deploy

\* A part of one instruction.
LEMMA LeadsOne ==
    ASSUME NEW admin, NEW K, NEW L, NEW x \in PlanInstruction(admin), x # deployProvider,
           Needs(x) \subseteq K, L \subseteq K \cup Gives(x), x.op # "enableBorrowingOnReserve"
    PROVE  Leads(admin, K, <<x>>, L)
<1>1. Len(<<x>>) = 1 /\ <<x>>[1] = x /\ <<x>> # << >>
  OBVIOUS
<1>2. Ready(K, <<x>>) /\ CollateralFirst(<<x>>)
  BY <1>1 DEF Ready, CollateralFirst
<1>3. Given(<<x>>) = Gives(x)
  <2>1. 1..1 = {1}
    OBVIOUS
  <2> QED BY <1>1, <2>1 DEF Given
<1> QED BY <1>1, <1>2, <1>3 DEF Part, Leads

LEMMA PairIsConcat == ASSUME NEW x, NEW y PROVE <<x, y>> = <<x>> \o <<y>>
<1> DEFINE S == {x, y}
           one == <<x>>
           two == <<y>>
<1>1. one \in Seq(S) /\ two \in Seq(S) /\ Len(one) = 1 /\ Len(two) = 1 /\ one[1] = x /\ two[1] = y
  OBVIOUS
<1>2. <<x, y>> \in Seq(S) /\ Len(<<x, y>>) = 2 /\ <<x, y>>[1] = x /\ <<x, y>>[2] = y
  OBVIOUS
<1> HIDE DEF one, two
<1>3. one \o two \in Seq(S) /\ Len(one \o two) = 2 /\ (one \o two)[1] = x /\ (one \o two)[2] = y
  <2>1. /\ one \o two \in Seq(S) /\ Len(one \o two) = 1 + 1
        /\ \A i \in 1..1 + 1 : (one \o two)[i] = IF i <= 1 THEN one[i] ELSE two[i - 1]
    BY <1>1, ConcatProperties
  <2> QED BY <1>1, <2>1
<1>4. \A i \in 1..2 : i = 1 \/ i = 2
  OBVIOUS
<1>5. <<x, y>> = one \o two
  BY <1>2, <1>3, <1>4, SeqEqual
<1> QED BY <1>5 DEF one, two

\* Two instructions, of which neither deploys a provider or enables borrowing.
LEMMA LeadsTwo ==
    ASSUME NEW admin, NEW K, NEW L,
           NEW x \in PlanInstruction(admin), NEW y \in PlanInstruction(admin),
           x # deployProvider, y # deployProvider,
           Needs(x) \subseteq K, Needs(y) \subseteq K \cup Gives(x),
           L \subseteq K \cup Gives(x) \cup Gives(y),
           x.op # "enableBorrowingOnReserve", y.op # "enableBorrowingOnReserve"
    PROVE  Leads(admin, K, <<x, y>>, L)
<1>1. <<x, y>> = <<x>> \o <<y>>
  BY PairIsConcat
<1>2. Leads(admin, K, <<x>>, K \cup Gives(x))
  BY LeadsOne
<1>3. Leads(admin, K \cup Gives(x), <<y>>, L)
  BY LeadsOne
<1>4. Leads(admin, K, <<x>> \o <<y>>, L)
  BY <1>2, <1>3, LeadsConcat
<1> QED BY <1>1, <1>4

LEMMA SaveTokens ==
    ASSUME NEW contract, NEW key, NEW as
    PROVE  /\ Needs(deploy(contract, as)) = {} /\ Gives(deploy(contract, as)) = {Variable(as)}
           /\ Needs(registerContractInJsonDb(key, as)) = {}
           /\ Gives(registerContractInJsonDb(key, as)) =
                  IF key \in ReadKey THEN {Entry(key)} ELSE {}
BY DEF deploy, registerContractInJsonDb, Needs, Gives, ConfigureOp, ListOp

\* What deployAndSave may be called with.
Saves(contract, key, as) ==
    /\ contract \in ContractName \cup {"MockCRT", "PToken", "VariableDebtToken"}
    /\ key \in ContractName \cup Symbol \cup StrategyName \cup ComputedName
    /\ as \in OwnVariable \cup Symbol \cup ComputedName
    /\ as \in NamedForItsKind \/ contract \in NamedForItsKind => contract = as
    /\ key \in ReadKey => as = key

LEMMA SaveKinds ==
    ASSUME NEW contract, NEW key, NEW as, Saves(contract, key, as)
    PROVE  /\ deploy(contract, as) \in DeployInstruction
           /\ registerContractInJsonDb(key, as) \in RegisterInstruction
BY DEF deploy, registerContractInJsonDb, DeployInstruction, RegisterInstruction, Saves

\* Deploying a contract and saving it in the file gives its variable, and its entry
\* when it is one the scripts read back.
LEMMA SaveLeads ==
    ASSUME NEW admin, NEW K, NEW L, NEW contract, NEW key, NEW as, Saves(contract, key, as),
           contract # "CounterAddressesProvider",
           L \subseteq K \cup {Variable(as)} \cup (IF key \in ReadKey THEN {Entry(key)} ELSE {})
    PROVE  Leads(admin, K, deployAndSave(contract, key, as), L)
<1> DEFINE x == deploy(contract, as)
           y == registerContractInJsonDb(key, as)
<1>1. x \in DeployInstruction /\ y \in RegisterInstruction
  BY SaveKinds
<1>2. x.contract = contract /\ x.op = "deploy" /\ y.op = "register"
  BY DEF deploy, registerContractInJsonDb
<1>3. /\ Needs(x) = {} /\ Needs(y) = {} /\ Gives(x) = {Variable(as)}
      /\ Gives(y) = IF key \in ReadKey THEN {Entry(key)} ELSE {}
  BY SaveTokens
<1>4. x \in PlanInstruction(admin) /\ y \in PlanInstruction(admin)
  BY <1>1 DEF PlanInstruction
<1>5. deployAndSave(contract, key, as) = <<x, y>>
  BY DEF deployAndSave
<1> HIDE DEF x, y
<1>6. x # deployProvider /\ y # deployProvider
  BY <1>2, NotTheProvider
<1>7. Leads(admin, K, <<x, y>>, L)
  BY <1>2, <1>3, <1>4, <1>6, LeadsTwo
<1> QED BY <1>5, <1>7

LEMMA NamedLeads ==
    ASSUME NEW admin, NEW K, NEW L, NEW name \in ContractName \ {"CounterAddressesProvider"},
           L \subseteq K \cup {Variable(name)} \cup (IF name \in ReadKey THEN {Entry(name)} ELSE {})
    PROVE  Leads(admin, K, deployNamed(name), L)
<1>1. Saves(name, name, name)
  BY DEF Saves, OwnVariable
<1> QED BY <1>1, SaveLeads DEF deployNamed

LEMMA CallTokens ==
    /\ \A slot, as : /\ Needs(set(slot, as)) = {Variable("CounterAddressesProvider")}
                            \cup (IF as = "admin" THEN {} ELSE {Variable(as)})
                     /\ Gives(set(slot, as)) = IF slot = "PriceOracle" THEN {Oracle} ELSE {}
                     /\ set(slot, as).op = "set"
    /\ \A as : /\ Needs(initialize(as)) = {Variable("CounterAddressesProvider"), Variable(as)}
               /\ Gives(initialize(as)) = {}
               /\ initialize(as).op = "initialize"
    /\ \A key, as : /\ Needs(attach(key, as)) = IF key \in ReadKey THEN {Entry(key)} ELSE {}
                    /\ Gives(attach(key, as)) = {Variable(as)}
                    /\ attach(key, as).op = "attach"
BY DEF set, initialize, attach, Needs, Gives, ConfigureOp, ListOp

\* The calls of deployPool and deployOracleAndManager.
LEMMA SetsLead ==
    ASSUME NEW admin, NEW K, NEW L, Variable("CounterAddressesProvider") \in K
    PROVE  /\ L \subseteq K =>
                  Leads(admin, K, <<set("PoolAdmin", "admin"), set("EmergencyAdmin", "admin")>>, L)
           /\ Variable("Counter") \in K /\ L \subseteq K =>
                  Leads(admin, K, <<set("Counter", "Counter"), initialize("Counter")>>, L)
           /\ Variable("CounterConfigurator") \in K /\ L \subseteq K =>
                  Leads(admin, K, <<initialize("CounterConfigurator"),
                                    set("CounterConfigurator", "CounterConfigurator")>>, L)
           /\ Variable("PrestareOracle") \in K /\ L \subseteq K \cup {Oracle} =>
                  Leads(admin, K, <<set("PriceOracle", "PrestareOracle")>>, L)
           /\ Variable("CounterCollateralManager") \in K /\ L \subseteq K =>
                  Leads(admin, K, <<set("CounterCollateralManager",
                                        "CounterCollateralManager")>>, L)
<1> DEFINE I == {set("PoolAdmin", "admin"), set("EmergencyAdmin", "admin"), set("Counter", "Counter"),
                 set("CounterConfigurator", "CounterConfigurator"), set("PriceOracle", "PrestareOracle"),
                 set("CounterCollateralManager", "CounterCollateralManager"),
                 initialize("Counter"), initialize("CounterConfigurator")}
<1>1. \A x \in I : x \in PlanInstruction(admin)
  BY DEF PlanInstruction, SetInstruction
<1>2. \A x \in I : x.op \in {"set", "initialize"}
  BY CallTokens
<1>3. \A x \in I : x # deployProvider /\ x.op # "enableBorrowingOnReserve"
  <2> HIDE DEF I
  <2> QED BY <1>2, NotTheProvider
<1>4. L \subseteq K =>
        Leads(admin, K, <<set("PoolAdmin", "admin"), set("EmergencyAdmin", "admin")>>, L)
  <2> DEFINE x == set("PoolAdmin", "admin")
             y == set("EmergencyAdmin", "admin")
  <2>1. x \in I /\ y \in I /\ Needs(x) \subseteq K /\ Needs(y) \subseteq K
    BY CallTokens
  <2> HIDE DEF I, x, y
  <2>2. L \subseteq K => Leads(admin, K, <<x, y>>, L)
    BY <1>1, <1>3, <2>1, LeadsTwo
  <2> QED BY <2>2 DEF x, y
<1>5. Variable("Counter") \in K /\ L \subseteq K =>
        Leads(admin, K, <<set("Counter", "Counter"), initialize("Counter")>>, L)
  <2> DEFINE x == set("Counter", "Counter")
             y == initialize("Counter")
  <2>1. x \in I /\ y \in I /\ (Variable("Counter") \in K => Needs(x) \subseteq K /\ Needs(y) \subseteq K)
    BY CallTokens
  <2> HIDE DEF I, x, y
  <2>2. Variable("Counter") \in K /\ L \subseteq K => Leads(admin, K, <<x, y>>, L)
    BY <1>1, <1>3, <2>1, LeadsTwo
  <2> QED BY <2>2 DEF x, y
<1>6. Variable("CounterConfigurator") \in K /\ L \subseteq K =>
        Leads(admin, K, <<initialize("CounterConfigurator"),
                          set("CounterConfigurator", "CounterConfigurator")>>, L)
  <2> DEFINE x == initialize("CounterConfigurator")
             y == set("CounterConfigurator", "CounterConfigurator")
  <2>1. /\ x \in I /\ y \in I
        /\ Variable("CounterConfigurator") \in K => Needs(x) \subseteq K /\ Needs(y) \subseteq K
    BY CallTokens
  <2> HIDE DEF I, x, y
  <2>2. Variable("CounterConfigurator") \in K /\ L \subseteq K => Leads(admin, K, <<x, y>>, L)
    BY <1>1, <1>3, <2>1, LeadsTwo
  <2> QED BY <2>2 DEF x, y
<1>7. Variable("PrestareOracle") \in K /\ L \subseteq K \cup {Oracle} =>
        Leads(admin, K, <<set("PriceOracle", "PrestareOracle")>>, L)
  <2> DEFINE x == set("PriceOracle", "PrestareOracle")
  <2>1. x \in I /\ Gives(x) = {Oracle} /\ (Variable("PrestareOracle") \in K => Needs(x) \subseteq K)
    BY CallTokens
  <2> HIDE DEF I, x
  <2>2. Variable("PrestareOracle") \in K /\ L \subseteq K \cup {Oracle} => Leads(admin, K, <<x>>, L)
    BY <1>1, <1>3, <2>1, LeadsOne
  <2> QED BY <2>2 DEF x
<1>8. Variable("CounterCollateralManager") \in K /\ L \subseteq K =>
        Leads(admin, K, <<set("CounterCollateralManager", "CounterCollateralManager")>>, L)
  <2> DEFINE x == set("CounterCollateralManager", "CounterCollateralManager")
  <2>1. x \in I /\ (Variable("CounterCollateralManager") \in K => Needs(x) \subseteq K)
    BY CallTokens
  <2> HIDE DEF I, x
  <2>2. Variable("CounterCollateralManager") \in K /\ L \subseteq K => Leads(admin, K, <<x>>, L)
    BY <1>1, <1>3, <2>1, LeadsOne
  <2> QED BY <2>2 DEF x
<1> QED BY <1>4, <1>5, <1>6, <1>7, <1>8

\* The parts the three scripts are put together from, in the order they run.
LEMMA LibraryLeads ==
    ASSUME NEW admin, NEW K
    PROVE  Leads(admin, K, deployPrestareLib, K)
<1>1. /\ Leads(admin, K, deployReserveLogic, K) /\ Leads(admin, K, deployGenericLogic, K)
      /\ Leads(admin, K, deployCRTLogic, K) /\ Leads(admin, K, deployValidationLogic, K)
  <2>1. {"ReserveLogic", "GenericLogic", "CRTLogic", "ValidationLogic"} \subseteq
            ContractName \ {"CounterAddressesProvider"}
    BY DEF ContractName
  <2> QED BY <2>1, NamedLeads
          DEF deployReserveLogic, deployGenericLogic, deployCRTLogic, deployValidationLogic
<1>2. Leads(admin, K, deployReserveLogic \o deployGenericLogic, K)
  BY <1>1, LeadsConcat
<1>3. Leads(admin, K, (deployReserveLogic \o deployGenericLogic) \o deployCRTLogic, K)
  BY <1>1, <1>2, LeadsConcat
<1>4. Leads(admin, K, ((deployReserveLogic \o deployGenericLogic) \o deployCRTLogic)
                          \o deployValidationLogic, K)
  BY <1>1, <1>3, LeadsConcat
<1> QED BY <1>4 DEF deployPrestareLib

LEMMA CounterLeads ==
    ASSUME NEW admin, NEW K
    PROVE  Leads(admin, K, deployCounter, K \cup {Variable("Counter")})
<1>1. "Counter" \in ContractName \ {"CounterAddressesProvider"}
  BY DEF ContractName
<1>2. Leads(admin, K, deployNamed("Counter"), K \cup {Variable("Counter")})
  BY <1>1, NamedLeads
<1> QED BY <1>2, LibraryLeads, LeadsConcat DEF deployCounter

\* A plan that starts with the provider.
Opening(admin, K, s, L) ==
    \E r : /\ s = <<deployProvider>> \o r
           /\ Leads(admin, K \cup {Variable("CounterAddressesProvider")}, r, L)

\* A script is the deployment of the provider and what leads on from there.
LEMMA OpeningConcat ==
    ASSUME NEW admin, NEW K, NEW L, NEW M, NEW s, NEW t,
           Opening(admin, K, s, L), Leads(admin, L, t, M)
    PROVE  Opening(admin, K, s \o t, M)
<1> DEFINE N == K \cup {Variable("CounterAddressesProvider")}
           one == <<deployProvider>>
<1>1. PICK r : s = one \o r /\ Leads(admin, N, r, L)
  BY DEF Opening
<1>2. Leads(admin, N, r \o t, M)
  <2> HIDE DEF N
  <2> QED BY <1>1, LeadsConcat
<1>3. s \o t = one \o (r \o t)
  <2> DEFINE I == PlanInstruction(admin) \cup {deployProvider}
  <2>1. one \in Seq(I)
    OBVIOUS
  <2>2. r \in Seq(PlanInstruction(admin) \ {deployProvider})
    BY <1>1 DEF Leads, Part
  <2>3. t \in Seq(PlanInstruction(admin) \ {deployProvider})
    BY DEF Leads, Part
  <2>4. r \in Seq(I) /\ t \in Seq(I)
    BY <2>2, <2>3
  <2> HIDE DEF one, I
  <2>5. (one \o r) \o t = one \o (r \o t)
    BY <2>1, <2>4, ConcatAssociative
  <2> QED BY <1>1, <2>5
<1> QED BY <1>2, <1>3 DEF Opening

LEMMA ProviderOpens ==
    ASSUME NEW admin, NEW K
    PROVE  Opening(admin, K, deployCounterAddressesProvider,
                   K \cup {Variable("CounterAddressesProvider"), Entry("CounterAddressesProvider")})
<1> DEFINE name == "CounterAddressesProvider"
           y == registerContractInJsonDb(name, name)
           L == K \cup {Variable(name)}
           M == K \cup {Variable(name), Entry(name)}
<1>1. y \in RegisterInstruction /\ y.op = "register"
  BY DEF registerContractInJsonDb, RegisterInstruction, OwnVariable, ContractName
<1>2. y \in PlanInstruction(admin)
  BY <1>1 DEF PlanInstruction
<1>3. Needs(y) = {} /\ Gives(y) = {Entry(name)}
  BY SaveTokens DEF ReadKey
<1>4. deployCounterAddressesProvider = <<deployProvider, y>>
  BY DEF deployCounterAddressesProvider, deployNamed, deployAndSave, deployProvider
<1>5. M \subseteq L \cup {Entry(name)}
  OBVIOUS
<1> HIDE DEF y, L, M
<1>6. y # deployProvider
  BY <1>1, NotTheProvider
<1>7. Leads(admin, L, <<y>>, M)
  BY <1>1, <1>2, <1>3, <1>5, <1>6, LeadsOne
<1>8. deployCounterAddressesProvider = <<deployProvider>> \o <<y>>
  BY <1>4, PairIsConcat
<1> QED BY <1>7, <1>8 DEF Opening, L, M

LEMMA PoolOpens ==
    ASSUME NEW admin, NEW K, NEW L,
           L \subseteq K \cup {Variable("CounterAddressesProvider"),
                               Entry("CounterAddressesProvider"), Entry("CounterConfigurator")}
    PROVE  Opening(admin, K, deployPool, L)
<1> DEFINE A == K \cup {Variable("CounterAddressesProvider"), Entry("CounterAddressesProvider")}
           B == A \cup {Variable("Counter")}
           C == B \cup {Variable("CounterConfigurator"), Entry("CounterConfigurator")}
           s1 == deployCounterAddressesProvider
           s2 == <<set("PoolAdmin", "admin"), set("EmergencyAdmin", "admin")>>
           s3 == deployCounter
           s4 == <<set("Counter", "Counter"), initialize("Counter")>>
           s5 == deployCounterConfigurator
           s6 == <<initialize("CounterConfigurator"), set("CounterConfigurator", "CounterConfigurator")>>
<1>1. Opening(admin, K, s1, A)
  BY ProviderOpens
<1>2. /\ Variable("CounterAddressesProvider") \in A /\ Variable("CounterAddressesProvider") \in B
      /\ Variable("CounterAddressesProvider") \in C
      /\ Variable("Counter") \in B /\ Variable("CounterConfigurator") \in C /\ L \subseteq C
  OBVIOUS
<1>3. Leads(admin, A, s3, B)
  BY CounterLeads
<1>4. Leads(admin, B, s5, C)
  <2>1. "CounterConfigurator" \in ContractName \ {"CounterAddressesProvider"} /\ "CounterConfigurator" \in ReadKey
    BY DEF ContractName, ReadKey
  <2> QED BY <2>1, NamedLeads DEF deployCounterConfigurator
<1>5. deployPool = ((((s1 \o s2) \o s3) \o s4) \o s5) \o s6
  BY DEF deployPool
<1> HIDE DEF A, B, C, s1, s3, s5
<1>6. Leads(admin, A, s2, A) /\ Leads(admin, B, s4, B) /\ Leads(admin, C, s6, L)
  BY <1>2, SetsLead
<1> HIDE DEF s2, s4, s6
<1>7. Opening(admin, K, s1 \o s2, A)
  BY <1>1, <1>6, OpeningConcat
<1>8. Opening(admin, K, (s1 \o s2) \o s3, B)
  BY <1>3, <1>7, OpeningConcat
<1>9. Opening(admin, K, ((s1 \o s2) \o s3) \o s4, B)
  BY <1>6, <1>8, OpeningConcat
<1>10. Opening(admin, K, (((s1 \o s2) \o s3) \o s4) \o s5, C)
  BY <1>4, <1>9, OpeningConcat
<1>11. Opening(admin, K, ((((s1 \o s2) \o s3) \o s4) \o s5) \o s6, L)
  BY <1>6, <1>10, OpeningConcat
<1> QED BY <1>5, <1>11

LEMMA OracleLeads ==
    ASSUME NEW admin, NEW K, Variable("CounterAddressesProvider") \in K
    PROVE  Leads(admin, K, deployOracleAndManager, K \cup {Oracle})
<1> DEFINE A == K \cup {Variable("PrestareOracle")}
           B == K \cup {Oracle}
           C == B \cup {Variable("CounterCollateralManager")}
           s1 == deployPrestareOracle
           s2 == <<set("PriceOracle", "PrestareOracle")>>
           s3 == deployCounterCollateralManager
           s4 == <<set("CounterCollateralManager", "CounterCollateralManager")>>
<1>1. /\ "PrestareOracle" \in ContractName \ {"CounterAddressesProvider"}
      /\ "CounterCollateralManager" \in ContractName \ {"CounterAddressesProvider"}
  BY DEF ContractName
<1>2. Leads(admin, K, s1, A)
  BY <1>1, NamedLeads DEF deployPrestareOracle
<1>3. Leads(admin, B, s3, C)
  BY <1>1, NamedLeads DEF deployCounterCollateralManager
<1>4. /\ Variable("CounterAddressesProvider") \in A /\ Variable("PrestareOracle") \in A
      /\ Variable("CounterAddressesProvider") \in C /\ Variable("CounterCollateralManager") \in C
      /\ B \subseteq A \cup {Oracle} /\ B \subseteq C
  OBVIOUS
<1>5. deployOracleAndManager = ((s1 \o s2) \o s3) \o s4
  BY DEF deployOracleAndManager
<1> HIDE DEF A, B, C, s1, s3
<1>6. Leads(admin, A, s2, B) /\ Leads(admin, C, s4, B)
  BY <1>4, SetsLead
<1> HIDE DEF s2, s4
<1>7. Leads(admin, K, s1 \o s2, B)
  BY <1>2, <1>6, LeadsConcat
<1>8. Leads(admin, K, (s1 \o s2) \o s3, C)
  BY <1>3, <1>7, LeadsConcat
<1>9. Leads(admin, K, ((s1 \o s2) \o s3) \o s4, B)
  BY <1>6, <1>8, LeadsConcat
<1> QED BY <1>5, <1>9 DEF B

\* A loop whose turns each lead from K to L.
LEMMA LoopLeads ==
    ASSUME NEW admin, NEW K, NEW L, K \subseteq L, NEW n \in Nat \ {0}, NEW f,
           f = [i \in 1..n |-> f[i]], \A i \in 1..n : Leads(admin, K, f[i], L)
    PROVE  Leads(admin, K, FlattenSeq(f), L)
<1> DEFINE X == {s \in Seq(PlanInstruction(admin)) : Leads(admin, K, s, L)}
<1>1. \A i \in 1..n : f[i] \in X
  <2>1. \A i \in 1..n : f[i] \in Seq(PlanInstruction(admin) \ {deployProvider})
    BY DEF Leads, Part
  <2>2. Seq(PlanInstruction(admin) \ {deployProvider}) \subseteq Seq(PlanInstruction(admin))
    OBVIOUS
  <2> QED BY <2>1, <2>2
<1> HIDE DEF X
<1>2. f \in Seq(X) /\ Len(f) = n
  <2>1. f \in [1..n -> X]
    BY <1>1
  <2> QED BY <2>1
<1> QED BY <1>2, LeadsForEach DEF X

LEMMA Orders ==
    /\ Len(TokenContractName) = 4 /\ \A i \in 1..4 : TokenContractName[i] \in Symbol
    /\ Len(MockPriceOrder) = 4 /\ \A i \in 1..4 : MockPriceOrder[i] \in Symbol
    /\ Symbol = {"DAI", "WETH", "USDC", "USDT"}
<1>1. Len(TokenContractName) = 4 /\ Len(MockPriceOrder) = 4
  BY DEF TokenContractName, MockPriceOrder
<1>2. \A i \in 1..4 : i = 1 \/ i = 2 \/ i = 3 \/ i = 4
  OBVIOUS
<1>3. Symbol = {"DAI", "WETH", "USDC", "USDT"}
  <2>1. Symbol = {TokenContractName[i] : i \in 1..4}
    BY <1>1 DEF Symbol
  <2>2. /\ TokenContractName[1] = "DAI" /\ TokenContractName[2] = "WETH"
        /\ TokenContractName[3] = "USDC" /\ TokenContractName[4] = "USDT"
    BY DEF TokenContractName
  <2>3. 1 \in 1..4 /\ 2 \in 1..4 /\ 3 \in 1..4 /\ 4 \in 1..4
    OBVIOUS
  <2> QED BY <1>2, <2>1, <2>2, <2>3
<1>4. \A i \in 1..4 : TokenContractName[i] \in Symbol
  BY <1>1 DEF Symbol
<1>5. \A i \in 1..4 : MockPriceOrder[i] \in Symbol
  <2>1. /\ MockPriceOrder[1] \in Symbol /\ MockPriceOrder[2] \in Symbol
        /\ MockPriceOrder[3] \in Symbol /\ MockPriceOrder[4] \in Symbol
    BY <1>3 DEF MockPriceOrder
  <2> QED BY <1>2, <2>1
<1> QED BY <1>1, <1>3, <1>4, <1>5

LEMMA InsertLeads ==
    ASSUME NEW admin, NEW K, NEW network \in EthereumNetwork
    PROVE  Leads(admin, K, insertAllAssetToken(network), K)
<1> DEFINE turn(symbol) == rawInsertContractAddressInDb(symbol, ReserveAssetsAddress[network][symbol])
           f == [i \in 1..4 |-> <<turn(TokenContractName[i])>>]
<1>1. insertAllAssetToken(network) = FlattenSeq(f)
  BY Orders DEF insertAllAssetToken, ForEach
<1>2. ASSUME NEW symbol \in Symbol
      PROVE  ReserveAssetsAddress[network][symbol] \in Nat
  BY Orders DEF ReserveAssetsAddress, EthereumNetwork, ZERO_ADDRESS
<1>3. ASSUME NEW symbol \in Symbol
      PROVE  turn(symbol) \in [op : {"rawInsert"}, key : Symbol, address : Nat]
  BY <1>2 DEF rawInsertContractAddressInDb
<1>4. ASSUME NEW symbol \in Symbol PROVE Leads(admin, K, <<turn(symbol)>>, K)
  <2> DEFINE x == turn(symbol)
  <2>1. x \in PlanInstruction(admin)
    BY <1>3 DEF PlanInstruction
  <2>2. x.op = "rawInsert"
    BY DEF rawInsertContractAddressInDb
  <2> HIDE DEF x
  <2>3. Needs(x) = {} /\ x # deployProvider
    BY <2>2, NotTheProvider DEF Needs, ConfigureOp, ListOp
  <2>4. Leads(admin, K, <<x>>, K)
    BY <2>1, <2>2, <2>3, LeadsOne
  <2> QED BY <2>4 DEF x
<1>5. \A i \in 1..4 : f[i] = <<turn(TokenContractName[i])>>
  OBVIOUS
<1>6. f = [i \in 1..4 |-> f[i]]
  OBVIOUS
<1> HIDE DEF turn, f
<1>7. \A i \in 1..4 : Leads(admin, K, f[i], K)
  BY <1>4, <1>5, Orders
<1>8. Leads(admin, K, FlattenSeq(f), K)
  <2>1. 4 \in Nat \ {0} /\ K \subseteq K
    OBVIOUS
  <2> QED BY <1>6, <1>7, <2>1, LoopLeads
<1> QED BY <1>1, <1>8

\* A loop of one instruction for each element.
LEMMA CallsLead ==
    ASSUME NEW admin, NEW K, NEW L, K \subseteq L, NEW n \in Nat \ {0}, NEW x,
           \A i \in 1..n : /\ x[i] \in PlanInstruction(admin)
                           /\ x[i].op \notin {"deploy", "enableBorrowingOnReserve"}
                           /\ Needs(x[i]) \subseteq K
                           /\ L \subseteq K \cup Gives(x[i])
    PROVE  Leads(admin, K, FlattenSeq([i \in 1..n |-> <<x[i]>>]), L)
<1> DEFINE f == [i \in 1..n |-> <<x[i]>>]
<1>1. \A i \in 1..n : Leads(admin, K, <<x[i]>>, L)
  BY NotTheProvider, LeadsOne
<1>2. \A i \in 1..n : Leads(admin, K, f[i], L)
  BY <1>1
<1>3. f = [i \in 1..n |-> f[i]]
  OBVIOUS
<1> HIDE DEF f
<1>4. Leads(admin, K, FlattenSeq(f), L)
  BY <1>2, <1>3, LoopLeads
<1> QED BY <1>4 DEF f

LEMMA FallbackLeads ==
    ASSUME NEW admin, NEW K
    PROVE  Leads(admin, K, deployFallbackOracle, K)
<1>1. "PriceOracle" \in ContractName \ {"CounterAddressesProvider"}
  BY DEF ContractName
<1>2. Leads(admin, K, deployPriceOracle, K)
  BY <1>1, NamedLeads DEF deployPriceOracle
<1> DEFINE x == [i \in 1..4 |-> [op |-> "setAssetPrice", symbol |-> MockPriceOrder[i]]]
<1>3. \A i \in 1..4 : x[i] = [op |-> "setAssetPrice", symbol |-> MockPriceOrder[i]]
  OBVIOUS
<1>4. setInitialAssetPricesInOracle = FlattenSeq([i \in 1..4 |-> <<x[i]>>])
  BY Orders DEF setInitialAssetPricesInOracle, ForEach
<1> HIDE DEF x
<1>5. \A i \in 1..4 : x[i] \in PlanInstruction(admin) /\ x[i].op = "setAssetPrice"
  <2>1. \A i \in 1..4 : x[i] \in [op : {"setAssetPrice"}, symbol : Symbol]
    BY <1>3, Orders
  <2>2. [op : {"setAssetPrice"}, symbol : Symbol] \subseteq PlanInstruction(admin)
    BY DEF PlanInstruction
  <2> QED BY <2>1, <2>2
<1>6. \A i \in 1..4 : Needs(x[i]) = {}
  BY <1>5 DEF Needs, ConfigureOp, ListOp
<1>7. Leads(admin, K, setInitialAssetPricesInOracle, K)
  <2>1. 4 \in Nat \ {0} /\ K \subseteq K
    OBVIOUS
  <2> QED BY <1>4, <1>5, <1>6, <2>1, CallsLead
<1> QED BY <1>2, <1>7, LeadsConcat DEF deployFallbackOracle

LEMMA PlatformLeads ==
    ASSUME NEW admin, NEW K
    PROVE  Leads(admin, K, deployPlatformTokenInterestRateModel,
                 K \cup {Entry("PlatformTokenInterestRateModel")})
<1>1. "PlatformTokenInterestRateModel" \in ContractName \ {"CounterAddressesProvider"}
  BY DEF ContractName
<1> QED BY <1>1, NamedLeads DEF deployPlatformTokenInterestRateModel, ReadKey

LEMMA GettersAreCalls ==
    ASSUME NEW admin
    PROVE  /\ getCounterAddressesProvider \in PlanInstruction(admin)
           /\ getPlatformInterestRateModel \in PlanInstruction(admin)
           /\ getCounterConfigurator \in PlanInstruction(admin)
           /\ getCounterAddressesProvider.op = "attach"
           /\ getPlatformInterestRateModel.op = "attach"
           /\ getCounterConfigurator.op = "attach"
           /\ Needs(getCounterAddressesProvider) = {Entry("CounterAddressesProvider")}
           /\ Needs(getPlatformInterestRateModel) = {Entry("PlatformTokenInterestRateModel")}
           /\ Needs(getCounterConfigurator) = {Entry("CounterConfigurator")}
           /\ Gives(getCounterConfigurator) = {Variable("configurator")}
<1> DEFINE I == {getCounterAddressesProvider, getPlatformInterestRateModel, getCounterConfigurator}
<1>1. \A x \in I : x \in AttachInstruction
  <2>1. /\ [as |-> "addressProvider", contract |-> "CounterAddressesProvider"] \in ReadBack
        /\ [as |-> "configurator", contract |-> "CounterConfigurator"] \in ReadBack
        /\ [as |-> "aTokenIRModel", contract |-> "PlatformTokenInterestRateModel"] \in ReadBack
    BY DEF ReadBack
  <2>2. \A read \in ReadBack : attach(read.contract, read.as) \in AttachInstruction
    BY DEF AttachInstruction
  <2>3. /\ attach("CounterAddressesProvider", "addressProvider") \in AttachInstruction
        /\ attach("CounterConfigurator", "configurator") \in AttachInstruction
        /\ attach("PlatformTokenInterestRateModel", "aTokenIRModel") \in AttachInstruction
    BY <2>1, <2>2
  <2> QED BY <2>3 DEF getCounterAddressesProvider, getPlatformInterestRateModel, getCounterConfigurator
<1>2. \A x \in I : x \in PlanInstruction(admin)
  <2> HIDE DEF I
  <2> QED BY <1>1 DEF PlanInstruction
<1> QED BY <1>2, CallTokens
        DEF getCounterAddressesProvider, getPlatformInterestRateModel, getCounterConfigurator, ReadKey

LEMMA ModelLeads ==
    ASSUME NEW admin, NEW K, Entry("PlatformTokenInterestRateModel") \in K
    PROVE  Leads(admin, K, setPlatformTokenIRModel, K)
<1>1. getPlatformInterestRateModel # deployProvider
  BY GettersAreCalls, NotTheProvider
<1> QED BY <1>1, GettersAreCalls, LeadsOne DEF setPlatformTokenIRModel

\* The entries of the configuration.
Entries == [symbol : Symbol, params : Params]

\* The configurations the helpers loop over are never empty.
LEMMA ReadsConfiguration ==
    ASSUME NEW config, config \in {ReservesConfig, assetBClassConfig, assetAClassConfig}
    PROVE  /\ config \in Seq(Entries) /\ Len(config) \in Nat \ {0}
           /\ \A i \in 1..Len(config) : config[i] \in Entries
<1>1. {rateStrategyAClass, rateStrategyBClass, rateStrategyCClass} \subseteq
          [name : StrategyName, optimalUtilizationRate : {80},
           baseVariableBorrowRate : {0, 5, 10}, variableRateSlope1 : {4},
           variableRateSlope2 : {100}]
  BY DEF rateStrategyAClass, rateStrategyBClass, rateStrategyCClass, StrategyName
<1>2. ASSUME NEW ltv \in {7500, 8000}, NEW threshold \in {8000, 8250, 8500},
             <<ltv, threshold>> \in Loans, NEW decimals \in {6, 18},
             NEW strategy \in {rateStrategyAClass, rateStrategyBClass, rateStrategyCClass}
      PROVE  ReserveParams(ltv, threshold, decimals, strategy) \in Params
  BY <1>1, <1>2 DEF ReserveParams, Params, Enabled
<1>3. {strategyDAI_B, strategyDAI_C, strategyUSDC_A, strategyUSDC_B, strategyUSDC_C,
       strategyUSDT_A, strategyUSDT_B, strategyUSDT_C, strategyWETH_B, strategyWETH_C}
          \subseteq Params
  BY <1>2 DEF Loans, strategyDAI_B, strategyDAI_C, strategyUSDC_A, strategyUSDC_B, strategyUSDC_C,
       strategyUSDT_A, strategyUSDT_B, strategyUSDT_C, strategyWETH_B, strategyWETH_C
<1>4. \A symbol \in Symbol, params \in Params : Config(symbol, params) \in Entries
  BY DEF Config, Entries
<1>5. ReservesConfig \in Seq(Entries) /\ Len(ReservesConfig) = 4
  BY <1>3, <1>4, Orders DEF ReservesConfig
<1>6. assetBClassConfig \in Seq(Entries) /\ Len(assetBClassConfig) = 4
  BY <1>3, <1>4, Orders DEF assetBClassConfig
<1>7. assetAClassConfig \in Seq(Entries) /\ Len(assetAClassConfig) = 2
  BY <1>3, <1>4, Orders DEF assetAClassConfig
<1>8. config \in Seq(Entries) /\ Len(config) \in Nat \ {0}
  <2>1. 4 \in Nat \ {0} /\ 2 \in Nat \ {0}
    OBVIOUS
  <2> QED BY <1>5, <1>6, <1>7, <2>1, Zenon
<1> QED BY <1>8, ElementOfSeq

\* A helper that lists or upgrades reserves rests on three entries of the file.
LEMMA HelperLeads ==
    ASSUME NEW admin, NEW K, NEW config, NEW call \in ListOp,
           config \in {ReservesConfig, assetBClassConfig, assetAClassConfig},
           {Entry("CounterAddressesProvider"), Entry("CounterConfigurator"),
            Entry("PlatformTokenInterestRateModel")} \subseteq K
    PROVE  Leads(admin, K, ReservesByHelper(call, config, admin),
                 K \cup {Prepared, Variable("configurator")})
<1> DEFINE n == Len(config)
           L == K \cup {Prepared}
           M == K \cup {Prepared, Variable("configurator")}
           x == [i \in 1..n |-> prepare(call, config[i], admin)]
           enter == [op |-> "enterHelper"]
           callEach == [op |-> "callForEachInput", call |-> call]
           s1 == <<enter, getPlatformInterestRateModel>>
           s2 == FlattenSeq([i \in 1..n |-> <<x[i]>>])
           s3 == <<getCounterConfigurator, callEach>>
<1>1. n \in Nat \ {0} /\ \A i \in 1..n : config[i] \in Entries
  BY ReadsConfiguration
<1>2. ReservesByHelper(call, config, admin) = (s1 \o s2) \o s3
  <2>1. [i \in 1..n |-> <<x[i]>>] = [i \in 1..n |-> <<prepare(call, config[i], admin)>>]
    OBVIOUS
  <2> QED BY <2>1 DEF ReservesByHelper, ForEach
<1>3. \A i \in 1..n : /\ x[i] \in PrepareInstruction(admin) /\ x[i].op = "prepare"
  <2>1. \A c \in Entries : /\ prepare(call, c, admin) \in PrepareInstruction(admin)
                           /\ prepare(call, c, admin).op = "prepare"
    BY DEF prepare, PrepareInstruction, Entries
  <2>2. \A i \in 1..n : x[i] = prepare(call, config[i], admin)
    OBVIOUS
  <2> QED BY <1>1, <2>1, <2>2
<1>4. /\ enter \in PlanInstruction(admin) /\ callEach \in PlanInstruction(admin)
      /\ \A i \in 1..n : x[i] \in PlanInstruction(admin)
  <2>1. \A i \in 1..n : x[i] \in PlanInstruction(admin)
    <3> HIDE DEF x, n
    <3> QED BY <1>3 DEF PlanInstruction
  <2> QED BY <2>1 DEF PlanInstruction
<1>5. enter.op = "enterHelper" /\ callEach.op = "callForEachInput"
  OBVIOUS
<1>6. L = K \cup {Prepared} /\ M = K \cup {Prepared, Variable("configurator")}
  OBVIOUS
<1> HIDE DEF x, n, enter, callEach, L, M
<1>7. /\ Needs(enter) = {Entry("CounterAddressesProvider")}
      /\ Needs(callEach) = {Variable("configurator"), Prepared}
      /\ \A i \in 1..n : Needs(x[i]) = {} /\ Gives(x[i]) = {Prepared}
  BY <1>3, <1>5 DEF Needs, Gives, ConfigureOp, ListOp
<1>8. Leads(admin, K, s1, K)
  BY <1>4, <1>5, <1>7, GettersAreCalls, NotTheProvider, LeadsTwo
<1>9. Leads(admin, K, s2, L)
  <2>1. K \subseteq L
    BY <1>6
  <2>2. \A i \in 1..n : /\ x[i] \in PlanInstruction(admin)
                        /\ x[i].op \notin {"deploy", "enableBorrowingOnReserve"}
                        /\ Needs(x[i]) \subseteq K
                        /\ L \subseteq K \cup Gives(x[i])
    BY <1>3, <1>4, <1>6, <1>7
  <2> QED BY <1>1, <2>1, <2>2, CallsLead
<1>10. Leads(admin, L, s3, M)
  <2>1. Needs(getCounterConfigurator) \subseteq L /\ Needs(callEach) \subseteq L \cup Gives(getCounterConfigurator)
        /\ M \subseteq L \cup Gives(getCounterConfigurator) \cup Gives(callEach)
    BY <1>6, <1>7, GettersAreCalls
  <2>2. getCounterConfigurator # deployProvider /\ callEach # deployProvider
    BY <1>5, GettersAreCalls, NotTheProvider
  <2> QED BY <1>4, <1>5, <2>1, <2>2, GettersAreCalls, LeadsTwo
<1> HIDE DEF s1, s2, s3
<1>11. Leads(admin, K, s1 \o s2, L)
  BY <1>8, <1>9, LeadsConcat
<1>12. Leads(admin, K, (s1 \o s2) \o s3, M)
  BY <1>10, <1>11, LeadsConcat
<1> QED BY <1>2, <1>12 DEF M

\* One reserve is configured: what makes it a collateral comes before borrowing.
LEMMA ReserveLeads ==
    ASSUME NEW admin, NEW K, NEW config \in Entries, NEW tier \in Tier \cup {"admin"},
           {Variable("configurator"), Oracle, Prepared} \subseteq K
    PROVE  Leads(admin, K, configureReserve(config, tier), K)
<1> DEFINE call(op) == [op |-> op, symbol |-> config.symbol, tier |-> tier, params |-> config.params]
           x == call("configureReserveAsCollateral")
           y == call("enableBorrowingOnReserve")
           z == call("setReserveFactor")
<1>1. config.symbol \in Symbol /\ config.params \in Params /\ config.params.borrowingEnabled
  <2>1. config.symbol \in Symbol /\ config.params \in Params
    BY DEF Entries
  <2>2. \A params \in Params : params.borrowingEnabled \in Enabled
    BY DEF Params
  <2>3. config.params.borrowingEnabled \in Enabled
    BY <2>1, <2>2, Zenon
  <2>4. config.params.borrowingEnabled
    BY <2>3, Zenon DEF Enabled
  <2> QED BY <2>1, <2>4
<1>2. configureReserve(config, tier) = (<<x>> \o <<y>>) \o <<z>>
  <2>1. configureReserve(config, tier) =
            <<x>> \o (IF config.params.borrowingEnabled THEN <<y>> ELSE << >>) \o <<z>>
    BY Zenon DEF configureReserve
  <2>2. (IF config.params.borrowingEnabled THEN <<y>> ELSE << >>) = <<y>>
    <3> DEFINE b == config.params.borrowingEnabled
               other == << >>
               pair == <<y>>
    <3>1. b
      BY <1>1
    <3> HIDE DEF b, other, pair
    <3>2. (IF b THEN pair ELSE other) = pair
      BY <3>1
    <3> QED BY <3>2 DEF b, other, pair
  <2> HIDE DEF x, y, z
  <2> QED BY <2>1, <2>2, Zenon
<1>3. \A op \in ConfigureOp :
          call(op) \in [op : ConfigureOp, symbol : Symbol, tier : Tier \cup {"admin"}, params : Params]
  BY <1>1
<1>4. \A op \in ConfigureOp : call(op) \in PlanInstruction(admin)
  BY <1>3 DEF PlanInstruction
<1>5. x \in PlanInstruction(admin) /\ y \in PlanInstruction(admin) /\ z \in PlanInstruction(admin)
  <2> HIDE DEF call
  <2> QED BY <1>4 DEF ConfigureOp
<1>6. /\ x.op = "configureReserveAsCollateral" /\ y.op = "enableBorrowingOnReserve"
      /\ z.op = "setReserveFactor" /\ ThenBorrowing(x, y)
  BY DEF ThenBorrowing
<1> HIDE DEF x, y, z
<1>7. Needs(x) \subseteq K /\ Needs(y) \subseteq K /\ Needs(z) \subseteq K
  BY <1>6 DEF Needs, ConfigureOp
<1>8. x # deployProvider /\ y # deployProvider /\ z # deployProvider
  BY <1>6, NotTheProvider
<1>9. Leads(admin, K, <<x, y>>, K)
  <2> DEFINE s == <<x, y>>
  <2>1. s \in Seq(PlanInstruction(admin) \ {deployProvider}) /\ Len(s) = 2 /\ s[1] = x /\ s[2] = y
    BY <1>5, <1>8
  <2>2. s # << >>
    BY <2>1
  <2>3. \A i \in 1..2 : i = 1 \/ i = 2
    OBVIOUS
  <2>4. \A i \in 2..2 : i = 2 /\ i - 1 = 1
    OBVIOUS
  <2> HIDE DEF s
  <2>5. Ready(K, s)
    BY <1>7, <2>1, <2>3 DEF Ready
  <2>6. CollateralFirst(s)
    BY <1>6, <2>1, <2>4 DEF CollateralFirst
  <2>7. Leads(admin, K, s, K)
    BY <1>6, <2>1, <2>2, <2>5, <2>6 DEF Leads, Part
  <2> QED BY <2>7 DEF s
<1>10. Leads(admin, K, <<x>> \o <<y>>, K)
  BY <1>9, PairIsConcat
<1>11. Leads(admin, K, <<z>>, K)
  BY <1>5, <1>6, <1>7, <1>8, LeadsOne
<1>12. Leads(admin, K, (<<x>> \o <<y>>) \o <<z>>, K)
  <2> DEFINE one == <<x>> \o <<y>>
  <2> HIDE DEF one
  <2>1. Leads(admin, K, one \o <<z>>, K)
    BY <1>10, <1>11, LeadsConcat DEF one
  <2> QED BY <2>1 DEF one
<1> QED BY <1>2, <1>12

\* Configuring reserves rests on an oracle and on reserves prepared before.
LEMMA ConfigureLeads ==
    ASSUME NEW admin, NEW K, NEW config, NEW tier \in Tier \cup {"admin"},
           config \in {ReservesConfig, assetBClassConfig, assetAClassConfig},
           {Entry("CounterAddressesProvider"), Entry("CounterConfigurator"), Oracle, Prepared} \subseteq K
    PROVE  Leads(admin, K, configureReservesByHelper(config, tier), K)
<1> DEFINE n == Len(config)
           L == K \cup {Variable("configurator")}
           f == [i \in 1..n |-> configureReserve(config[i], tier)]
           s1 == <<getCounterAddressesProvider, getCounterConfigurator>>
<1>1. n \in Nat \ {0} /\ \A i \in 1..n : config[i] \in Entries
  BY ReadsConfiguration
<1>2. configureReservesByHelper(config, tier) = s1 \o FlattenSeq(f)
  BY DEF configureReservesByHelper, ForEach
<1>3. \A i \in 1..n : f[i] = configureReserve(config[i], tier)
  OBVIOUS
<1>4. f = [i \in 1..n |-> f[i]]
  OBVIOUS
<1>5. {Variable("configurator"), Oracle, Prepared} \subseteq L /\ K \subseteq L
      /\ L = K \cup {Variable("configurator")}
  OBVIOUS
<1> HIDE DEF f, n, L
<1>6. \A i \in 1..n : Leads(admin, L, f[i], L)
  BY <1>1, <1>3, <1>5, ReserveLeads
<1>7. Leads(admin, L, FlattenSeq(f), L)
  <2>1. L \subseteq L
    OBVIOUS
  <2> QED BY <1>1, <1>4, <1>6, <2>1, LoopLeads
<1>8. Leads(admin, L, FlattenSeq(f), K)
  <2>1. L \subseteq L /\ K \subseteq L \cup L
    BY <1>5
  <2> QED BY <1>7, <2>1, LeadsMore
<1>9. Leads(admin, K, s1, L)
  BY <1>5, GettersAreCalls, NotTheProvider, LeadsTwo
<1> HIDE DEF s1
<1>10. Leads(admin, K, s1 \o FlattenSeq(f), K)
  BY <1>8, <1>9, LeadsConcat
<1> QED BY <1>2, <1>10

LEMMA FinishLeads ==
    ASSUME NEW admin, NEW K
    PROVE  Leads(admin, K, finishDeployment, K)
<1> DEFINE s1 == deployWETHGateway
           y == authorizeWETHGateway
           s2 == <<y>>
           s3 == deployCRT
           u == [op |-> "setCRT"]
           v == [op |-> "setPoolPause", paused |-> FALSE]
           s4 == <<u, v>>
<1>1. finishDeployment = ((s1 \o s2) \o s3) \o s4
  BY DEF finishDeployment
<1>2. Leads(admin, K, s1, K)
  <2>1. "WETHGateway" \in ContractName \ {"CounterAddressesProvider"}
    BY DEF ContractName
  <2> QED BY <2>1, NamedLeads DEF deployWETHGateway
<1>3. Leads(admin, K, s3, K)
  <2>1. Saves("MockCRT", "CRT", "CRT")
    BY DEF Saves, OwnVariable, ContractName, NamedForItsKind, ReadKey
  <2> QED BY <2>1, SaveLeads DEF deployCRT
<1>4. y \in PlanInstruction(admin) /\ u \in PlanInstruction(admin) /\ v \in PlanInstruction(admin)
  BY DEF PlanInstruction, authorizeWETHGateway
<1>5. y.op = "authorizeCounter" /\ u.op = "setCRT" /\ v.op = "setPoolPause"
  BY DEF authorizeWETHGateway
<1> HIDE DEF y, u, v
<1>6. Needs(y) = {} /\ Needs(u) = {} /\ Needs(v) = {}
  BY <1>5 DEF Needs, ConfigureOp, ListOp
<1>7. y # deployProvider /\ u # deployProvider /\ v # deployProvider
  BY <1>5, NotTheProvider
<1>8. Leads(admin, K, s2, K)
  BY <1>4, <1>5, <1>6, <1>7, LeadsOne
<1>9. Leads(admin, K, s4, K)
  BY <1>4, <1>5, <1>6, <1>7, LeadsTwo
<1> HIDE DEF s1, s2, s3, s4
<1>10. Leads(admin, K, s1 \o s2, K)
  BY <1>2, <1>8, LeadsConcat
<1>11. Leads(admin, K, (s1 \o s2) \o s3, K)
  BY <1>3, <1>10, LeadsConcat
<1>12. Leads(admin, K, ((s1 \o s2) \o s3) \o s4, K)
  BY <1>9, <1>11, LeadsConcat
<1> QED BY <1>1, <1>12

LEMMA SymbolsAreNames ==
    /\ Symbol \cap (ReadKey \cup NamedForItsKind \cup OwnVariable) = {}
    /\ ComputedName \cap (ReadKey \cup NamedForItsKind) = {}
    /\ {read.as : read \in ReadBack} \cap (Symbol \cup ComputedName \cup OwnVariable) = {}
<1>1. Symbol \cap (ReadKey \cup NamedForItsKind \cup OwnVariable) = {}
  BY Orders DEF ReadKey, NamedForItsKind, OwnVariable, ContractName
<1>2. ReadKey \cup NamedForItsKind \subseteq ContractName
  BY DEF ReadKey, NamedForItsKind, ContractName
<1>3. {read.as : read \in ReadBack} = {"addressProvider", "configurator", "aTokenIRModel"}
  BY DEF ReadBack
<1>4. {"addressProvider", "configurator", "aTokenIRModel"} \cap (Symbol \cup OwnVariable) = {}
  BY Orders DEF OwnVariable, ContractName
<1>5. {"addressProvider", "configurator", "aTokenIRModel"} \subseteq LocalName
  BY DEF LocalName
<1> QED BY <1>1, <1>2, <1>3, <1>4, <1>5, NamesAssumption

LEMMA TokensLead ==
    ASSUME NEW admin, NEW K
    PROVE  Leads(admin, K, deployAllMockTokens, K)
<1> DEFINE turn(symbol) == Append(deployMintableERC20(symbol), registerContractInJsonDb(symbol, symbol))
           f == [i \in 1..4 |-> turn(TokenContractName[i])]
<1>1. deployAllMockTokens = FlattenSeq(f)
  BY Orders DEF deployAllMockTokens, ForEach
<1>2. ASSUME NEW symbol \in Symbol PROVE Leads(admin, K, turn(symbol), K)
  <2> DEFINE s == deployMintableERC20(symbol)
             y == registerContractInJsonDb(symbol, symbol)
  <2>1. Saves("MintableERC20", "MintableERC20", symbol)
    <3>1. symbol \notin NamedForItsKind
      BY SymbolsAreNames
    <3> QED BY <3>1 DEF Saves, ContractName, NamedForItsKind, ReadKey
  <2>2. Leads(admin, K, s, K)
    BY <2>1, SaveLeads DEF deployMintableERC20
  <2>3. y \in RegisterInstruction /\ y.op = "register"
    BY DEF registerContractInJsonDb, RegisterInstruction
  <2>4. y \in PlanInstruction(admin)
    BY <2>3 DEF PlanInstruction
  <2>5. Needs(y) = {}
    BY SaveTokens
  <2> HIDE DEF y
  <2>6. Leads(admin, K, <<y>>, K)
    BY <2>3, <2>4, <2>5, NotTheProvider, LeadsOne
  <2>7. Append(s, y) = s \o <<y>>
    <3>1. s \in Seq(PlanInstruction(admin) \cup {y})
      BY <2>2 DEF Leads, Part
    <3> HIDE DEF s
    <3> QED BY <3>1
  <2> HIDE DEF s
  <2>8. Leads(admin, K, s \o <<y>>, K)
    BY <2>2, <2>6, LeadsConcat
  <2> QED BY <2>7, <2>8 DEF s, y
<1>3. \A i \in 1..4 : f[i] = turn(TokenContractName[i])
  OBVIOUS
<1>4. f = [i \in 1..4 |-> f[i]]
  OBVIOUS
<1> HIDE DEF f, turn
<1>5. \A i \in 1..4 : Leads(admin, K, f[i], K)
  BY <1>2, <1>3, Orders
<1>6. Leads(admin, K, FlattenSeq(f), K)
  <2>1. 4 \in Nat \ {0} /\ K \subseteq K
    OBVIOUS
  <2> QED BY <1>4, <1>5, <2>1, LoopLeads
<1> QED BY <1>1, <1>6

LEMMA MockedTokensLead ==
    ASSUME NEW admin, NEW K
    PROVE  Leads(admin, K, getAllMockedTokens, K)
<1> DEFINE x == [i \in 1..4 |-> attach(TokenContractName[i], TokenContractName[i])]
<1>1. getAllMockedTokens = FlattenSeq([i \in 1..4 |-> <<x[i]>>])
  <2>1. [i \in 1..4 |-> <<x[i]>>] = [i \in 1..4 |-> <<attach(TokenContractName[i], TokenContractName[i])>>]
    OBVIOUS
  <2> QED BY <2>1, Orders DEF getAllMockedTokens, ForEach
<1>2. \A i \in 1..4 : x[i] = attach(TokenContractName[i], TokenContractName[i])
  OBVIOUS
<1> HIDE DEF x
<1>3. ASSUME NEW symbol \in Symbol
      PROVE  /\ attach(symbol, symbol) \in AttachInstruction
             /\ attach(symbol, symbol).op = "attach" /\ Needs(attach(symbol, symbol)) = {}
  BY CallTokens, SymbolsAreNames DEF AttachInstruction
<1>4. \A i \in 1..4 : /\ x[i] \in AttachInstruction /\ x[i].op = "attach" /\ Needs(x[i]) = {}
  BY <1>2, <1>3, Orders
<1>5. AttachInstruction \subseteq PlanInstruction(admin)
  BY DEF PlanInstruction
<1> QED
  <2>1. 4 \in Nat \ {0} /\ K \subseteq K
    OBVIOUS
  <2>2. \A i \in 1..4 : /\ x[i] \in PlanInstruction(admin)
                        /\ x[i].op \notin {"deploy", "enableBorrowingOnReserve"}
                        /\ Needs(x[i]) \subseteq K
                        /\ K \subseteq K \cup Gives(x[i])
    BY <1>4, <1>5
  <2> QED BY <1>1, <2>1, <2>2, CallsLead

LEMMA AggregatorsLead ==
    ASSUME NEW admin, NEW K
    PROVE  Leads(admin, K, deployAllMockAggregators, K)
<1> DEFINE f == [i \in 1..4 |-> deployMockAggregator(MockPriceOrder[i])]
<1>1. deployAllMockAggregators = FlattenSeq(f)
  BY Orders DEF deployAllMockAggregators, ForEach
<1>2. ASSUME NEW symbol \in Symbol PROVE Leads(admin, K, deployMockAggregator(symbol), K)
  <2> DEFINE name == "MockAggregator-" \o symbol
  <2>1. name \in ComputedName
    BY Zenon DEF ComputedName, MockAggregatorName
  <2>2. deployMockAggregator(symbol) = deployAndSave("MockAggregator", name, name)
    BY DEF deployMockAggregator
  <2> HIDE DEF name
  <2>3. Saves("MockAggregator", name, name)
    <3>1. name \notin NamedForItsKind /\ name \notin ReadKey
      BY <2>1, SymbolsAreNames
    <3> QED BY <2>1, <3>1 DEF Saves, ContractName, NamedForItsKind, ReadKey
  <2> QED BY <2>2, <2>3, SaveLeads
<1>3. \A i \in 1..4 : f[i] = deployMockAggregator(MockPriceOrder[i])
  OBVIOUS
<1>4. f = [i \in 1..4 |-> f[i]]
  OBVIOUS
<1> HIDE DEF f
<1>5. \A i \in 1..4 : Leads(admin, K, f[i], K)
  BY <1>2, <1>3, Orders
<1>6. Leads(admin, K, FlattenSeq(f), K)
  <2>1. 4 \in Nat \ {0} /\ K \subseteq K
    OBVIOUS
  <2> QED BY <1>4, <1>5, <2>1, LoopLeads
<1> QED BY <1>1, <1>6

\* Whether a script prepares reserves with a signer.
Admin(s) == IF s = "mainnet" THEN "signer" ELSE "address"

\* A run of deployOnMainnet writes every entry it reads; the others may read one
\* that is not there, which ends them.
Before(s) == IF s = "mainnet" THEN {} ELSE {Entry(key) : key \in ReadKey}

LEMMA HelperSteps ==
    ASSUME NEW admin, NEW A, NEW D, NEW config,
           config \in {ReservesConfig, assetBClassConfig, assetAClassConfig},
           {Entry("CounterAddressesProvider"), Entry("CounterConfigurator"),
            Entry("PlatformTokenInterestRateModel"), Oracle} \subseteq A,
           D = A \cup {Prepared}, NEW tier \in Tier \cup {"admin"}
    PROVE  /\ Leads(admin, A, initReservesByHelper(config, admin), D)
           /\ Leads(admin, D, upgradeReservesByHelper(config, admin), D)
           /\ Leads(admin, D, configureReservesByHelper(config, tier), D)
<1>1. "initReserve" \in ListOp /\ "upgradeAssetClass" \in ListOp
  BY DEF ListOp
<1>2. /\ Leads(admin, A, initReservesByHelper(config, admin), A \cup {Prepared, Variable("configurator")})
      /\ Leads(admin, D, upgradeReservesByHelper(config, admin), D \cup {Prepared, Variable("configurator")})
  BY <1>1, HelperLeads DEF initReservesByHelper, upgradeReservesByHelper
<1>3. /\ A \subseteq A /\ D \subseteq D
      /\ D \subseteq A \cup (A \cup {Prepared, Variable("configurator")})
      /\ D \subseteq D \cup (D \cup {Prepared, Variable("configurator")})
  OBVIOUS
<1>4. Leads(admin, A, initReservesByHelper(config, admin), D)
  BY <1>2, <1>3, LeadsMore
<1>5. Leads(admin, D, upgradeReservesByHelper(config, admin), D)
  BY <1>2, <1>3, LeadsMore
<1> QED BY <1>4, <1>5, ConfigureLeads

LEMMA MainnetOpens == \E L : Opening("signer", {}, deployOnMainnet, L)
<1> DEFINE admin == "signer"
           A == {Variable("CounterAddressesProvider"), Entry("CounterAddressesProvider"),
                 Entry("CounterConfigurator")}
           B == A \cup {Oracle}
           C == B \cup {Entry("PlatformTokenInterestRateModel")}
           D == C \cup {Prepared}
           s1 == deployPool
           s2 == insertAllAssetToken("Mainnet")
           s3 == deployFallbackOracle
           s4 == deployOracleAndManager
           s5 == deployPlatformTokenInterestRateModel
           s6 == setPlatformTokenIRModel
           s7 == initReservesByHelper(ReservesConfig, "signer")
           s8 == configureReservesByHelper(ReservesConfig, 2)
           s9 == upgradeReservesByHelper(assetBClassConfig, "signer")
           s10 == configureReservesByHelper(assetBClassConfig, 1)
           s11 == upgradeReservesByHelper(assetAClassConfig, "signer")
           s12 == configureReservesByHelper(assetAClassConfig, 0)
           s13 == finishDeployment
<1>1. deployOnMainnet = ((((((((((((s1 \o s2) \o s3) \o s4) \o s5) \o s6) \o s7) \o s8)
                              \o s9) \o s10) \o s11) \o s12) \o s13)
  BY DEF deployOnMainnet
<1>2. Opening(admin, {}, s1, A)
  BY PoolOpens
<1>3. "Mainnet" \in EthereumNetwork /\ 0 \in Tier /\ 1 \in Tier /\ 2 \in Tier
  BY DEF EthereumNetwork, Tier
<1>4. Leads(admin, A, s2, A) /\ Leads(admin, A, s3, A) /\ Leads(admin, D, s13, D)
  BY <1>3, InsertLeads, FallbackLeads, FinishLeads
<1>5. Leads(admin, A, s4, B) /\ Leads(admin, B, s5, C) /\ Leads(admin, C, s6, C)
  BY OracleLeads, PlatformLeads, ModelLeads
<1>6. {Entry("CounterAddressesProvider"), Entry("CounterConfigurator"),
       Entry("PlatformTokenInterestRateModel"), Oracle} \subseteq C /\ D = C \cup {Prepared}
  OBVIOUS
<1> HIDE DEF A, B, C, D
<1>7. /\ Leads(admin, C, s7, D) /\ Leads(admin, D, s8, D) /\ Leads(admin, D, s9, D)
      /\ Leads(admin, D, s10, D) /\ Leads(admin, D, s11, D) /\ Leads(admin, D, s12, D)
  BY <1>3, <1>6, HelperSteps
<1> HIDE DEF admin, s1, s2, s3, s4, s5, s6, s7, s8, s9, s10, s11, s12, s13
<1>8. Opening(admin, {}, (s1 \o s2) \o s3, A)
  BY <1>2, <1>4, OpeningConcat
<1> DEFINE t3 == (s1 \o s2) \o s3
<1> HIDE DEF t3
<1>9. Opening(admin, {}, (t3 \o s4) \o s5, C)
  <2>1. Opening(admin, {}, t3 \o s4, B)
    BY <1>5, <1>8, OpeningConcat DEF t3
  <2> QED BY <1>5, <2>1, OpeningConcat
<1> DEFINE t5 == (t3 \o s4) \o s5
<1> HIDE DEF t5
<1>10. Opening(admin, {}, (t5 \o s6) \o s7, D)
  <2>1. Opening(admin, {}, t5 \o s6, C)
    BY <1>5, <1>9, OpeningConcat DEF t5
  <2> QED BY <1>7, <2>1, OpeningConcat
<1> DEFINE t7 == (t5 \o s6) \o s7
<1> HIDE DEF t7
<1>11. Opening(admin, {}, (t7 \o s8) \o s9, D)
  <2>1. Opening(admin, {}, t7 \o s8, D)
    BY <1>7, <1>10, OpeningConcat DEF t7
  <2> QED BY <1>7, <2>1, OpeningConcat
<1> DEFINE t9 == (t7 \o s8) \o s9
<1> HIDE DEF t9
<1>12. Opening(admin, {}, (t9 \o s10) \o s11, D)
  <2>1. Opening(admin, {}, t9 \o s10, D)
    BY <1>7, <1>11, OpeningConcat DEF t9
  <2> QED BY <1>7, <2>1, OpeningConcat
<1> DEFINE t11 == (t9 \o s10) \o s11
<1> HIDE DEF t11
<1>13. Opening(admin, {}, (t11 \o s12) \o s13, D)
  <2>1. Opening(admin, {}, t11 \o s12, D)
    BY <1>7, <1>12, OpeningConcat DEF t11
  <2> QED BY <1>4, <2>1, OpeningConcat
<1>14. Opening(admin, {}, deployOnMainnet, D)
  BY <1>1, <1>13 DEF t3, t5, t7, t9, t11
<1> QED BY <1>14 DEF admin

\* The other scripts, resting on entries they do not write.
LEMMA OthersOpen ==
    /\ \E L : Opening("address", Before("goerli"), deployOnGoerli, L)
    /\ \E L : Opening("address", Before("mocks"), deployWithMocks, L)
<1> DEFINE admin == "address"
           Z == {Entry(key) : key \in ReadKey}
           A == Z \cup {Variable("CounterAddressesProvider")}
           B == A \cup {Oracle}
           D == B \cup {Prepared}
           s1 == deployPool
           s2 == insertAllAssetToken("Goerli")
           s3 == deployFallbackOracle
           s4 == deployOracleAndManager
           s5 == deployPlatformTokenInterestRateModel
           s6 == setPlatformTokenIRModel
           s7 == initReservesByHelper(ReservesConfig, "address")
           s8 == configureReservesByHelper(ReservesConfig, "admin")
           s9 == finishDeployment
           m2 == deployAllMockTokens
           m3 == getAllMockedTokens
           m5 == deployAllMockAggregators
<1>1. deployOnGoerli = (((((((s1 \o s2) \o s3) \o s4) \o s5) \o s6) \o s7) \o s8) \o s9
  BY DEF deployOnGoerli
<1>2. deployWithMocks = (((((((s1 \o m2) \o m3) \o s3) \o m5) \o s4) \o s7) \o s8) \o s9
  BY DEF deployWithMocks
<1>3. Before("goerli") = Z /\ Before("mocks") = Z
  BY DEF Before
<1>4. Opening(admin, Z, s1, A)
  BY PoolOpens
<1>5. /\ Leads(admin, A, s2, A) /\ Leads(admin, A, s3, A) /\ Leads(admin, D, s9, D)
      /\ Leads(admin, A, m2, A) /\ Leads(admin, A, m3, A) /\ Leads(admin, A, m5, A)
  <2>1. "Goerli" \in EthereumNetwork
    BY DEF EthereumNetwork
  <2> QED BY <2>1, InsertLeads, FallbackLeads, FinishLeads, TokensLead, MockedTokensLead, AggregatorsLead
<1>6. Entry("PlatformTokenInterestRateModel") \in B
  BY DEF ReadKey
<1>7. {Entry("CounterAddressesProvider"), Entry("CounterConfigurator"),
       Entry("PlatformTokenInterestRateModel"), Oracle} \subseteq B /\ D = B \cup {Prepared}
  BY DEF ReadKey
<1>8. Leads(admin, A, s4, B) /\ Leads(admin, B, s6, B)
  <2>1. Variable("CounterAddressesProvider") \in A
    OBVIOUS
  <2> HIDE DEF A, Z
  <2>2. Leads(admin, A, s4, A \cup {Oracle})
    BY <2>1, OracleLeads
  <2> QED BY <1>6, <2>2, ModelLeads
<1> HIDE DEF A, B, D, Z
<1>9. Leads(admin, B, s5, B)
  <2>1. Leads(admin, B, s5, B \cup {Entry("PlatformTokenInterestRateModel")})
    BY PlatformLeads
  <2>2. B \subseteq B /\ B \subseteq B \cup (B \cup {Entry("PlatformTokenInterestRateModel")})
    OBVIOUS
  <2> QED BY <2>1, <2>2, LeadsMore
<1>10. Leads(admin, B, s7, D) /\ Leads(admin, D, s8, D)
  BY <1>7, HelperSteps
<1> HIDE DEF admin, s1, s2, s3, s4, s5, s6, s7, s8, s9, m2, m3, m5
<1>11. Opening(admin, Z, (s1 \o s2) \o s3, A) /\ Opening(admin, Z, (s1 \o m2) \o m3, A)
  <2>1. Opening(admin, Z, s1 \o s2, A) /\ Opening(admin, Z, s1 \o m2, A)
    BY <1>4, <1>5, OpeningConcat
  <2> QED BY <1>5, <2>1, OpeningConcat
<1> DEFINE t3 == (s1 \o s2) \o s3
           u3 == (s1 \o m2) \o m3
<1> HIDE DEF t3, u3
<1>12. Opening(admin, Z, (t3 \o s4) \o s5, B)
  <2>1. Opening(admin, Z, t3 \o s4, B)
    BY <1>8, <1>11, OpeningConcat DEF t3
  <2> QED BY <1>9, <2>1, OpeningConcat
<1>13. Opening(admin, Z, ((u3 \o s3) \o m5) \o s4, B)
  <2>1. Opening(admin, Z, u3 \o s3, A)
    BY <1>5, <1>11, OpeningConcat DEF u3
  <2>2. Opening(admin, Z, (u3 \o s3) \o m5, A)
    BY <1>5, <2>1, OpeningConcat
  <2> QED BY <1>8, <2>2, OpeningConcat
<1> DEFINE t5 == (t3 \o s4) \o s5
           u5 == ((u3 \o s3) \o m5) \o s4
<1> HIDE DEF t5, u5
<1>14. ASSUME NEW t, Opening(admin, Z, t, B) PROVE Opening(admin, Z, ((t \o s7) \o s8) \o s9, D)
  <2>1. Opening(admin, Z, t \o s7, D)
    BY <1>10, <1>14, OpeningConcat
  <2>2. Opening(admin, Z, (t \o s7) \o s8, D)
    BY <1>10, <2>1, OpeningConcat
  <2> QED BY <1>5, <2>2, OpeningConcat
<1>15. Opening(admin, Z, deployOnGoerli, D)
  <2>1. Opening(admin, Z, t5 \o s6, B)
    BY <1>8, <1>12, OpeningConcat DEF t5
  <2>2. Opening(admin, Z, (((t5 \o s6) \o s7) \o s8) \o s9, D)
    BY <1>14, <2>1
  <2> QED BY <1>1, <2>2 DEF t3, t5
<1>16. Opening(admin, Z, deployWithMocks, D)
  <2>1. Opening(admin, Z, ((u5 \o s7) \o s8) \o s9, D)
    BY <1>13, <1>14 DEF u5
  <2> QED BY <1>2, <2>1 DEF u3, u5
<1> QED BY <1>3, <1>15, <1>16 DEF admin

\* What every script is.
LEMMA PlanOpens ==
    ASSUME NEW s \in Script
    PROVE  \E r, L : /\ Plan(s) = <<deployProvider>> \o r
                     /\ Leads(Admin(s), Before(s) \cup {Variable("CounterAddressesProvider")}, r, L)
<1>1. \E L : Opening(Admin(s), Before(s), Plan(s), L)
  <2>1. CASE s = "mainnet"
    BY <2>1, MainnetOpens DEF Plan, Admin, Before
  <2>2. CASE s = "goerli"
    BY <2>2, OthersOpen DEF Plan, Admin
  <2>3. CASE s = "mocks"
    BY <2>3, OthersOpen DEF Plan, Admin
  <2> QED BY <2>1, <2>2, <2>3 DEF Script
<1> QED BY <1>1 DEF Opening

-----------------------------------------------------------------------------
(***************************************************************************)
(* What a run has left to do.                                              *)
(***************************************************************************)

LoopOp == {"keepStrategy", "pushInput"} \cup ListOp
HelperOp == {"enterHelper", "prepare", "callForEachInput"}

\* Instructions that are ready when K is given; those a loop has put in come before
\* any that starts a loop, and each call for an input has one of n inputs.
Todo(admin, K, s, n) ==
    /\ s \in Seq(AnyInstruction(admin))
    /\ Ready(K, s)
    /\ CollateralFirst(s)
    /\ \A i \in 2..Len(s) : s[i] # deployProvider
    /\ \A i \in 1..Len(s) : s[i].op \in LoopOp =>
           \A j \in 1..i : s[j].op \notin HelperOp
    /\ \A i \in 1..Len(s) : s[i].op \in ListOp => i <= n

LEMMA PlanOps ==
    ASSUME NEW admin, NEW x \in PlanInstruction(admin)
    PROVE  x.op \notin LoopOp
<1>1. CASE x \in DeployInstruction \cup RegisterInstruction
  BY <1>1 DEF DeployInstruction, RegisterInstruction, LoopOp, ListOp
<1>2. CASE x \in SetInstruction
  <2>1. x.op = "set"
    BY <1>2, CallTokens DEF SetInstruction
  <2> QED BY <2>1 DEF LoopOp, ListOp
<1>3. CASE x \in PrepareInstruction(admin)
  BY <1>3 DEF PrepareInstruction, LoopOp, ListOp
<1>4. CASE x \in AttachInstruction \cup {initialize("Counter"), initialize("CounterConfigurator")}
  <2>1. x.op \in {"attach", "initialize"}
    BY <1>4, CallTokens DEF AttachInstruction
  <2> QED BY <2>1 DEF LoopOp, ListOp
<1>5. CASE x \in [op : {"rawInsert"}, key : Symbol, address : Nat]
                \cup [op : {"setAssetPrice"}, symbol : Symbol]
                \cup [op : {"authorizeCounter", "enterHelper", "setCRT"}]
                \cup [op : {"callForEachInput"}, call : ListOp]
                \cup [op : {"setPoolPause"}, paused : {FALSE}]
  BY <1>5 DEF LoopOp, ListOp
<1>6. CASE x \in [op : ConfigureOp, symbol : Symbol, tier : Tier \cup {"admin"}, params : Params]
  BY <1>6 DEF LoopOp, ListOp, ConfigureOp
<1> QED BY <1>1, <1>2, <1>3, <1>4, <1>5, <1>6 DEF PlanInstruction

\* What a script starts with is in order.
LEMMA PlanTodo ==
    ASSUME NEW s \in Script
    PROVE  /\ Todo(Admin(s), Before(s), Plan(s), 0)
           /\ Plan(s) # << >> /\ Head(Plan(s)) = deployProvider
<1> DEFINE admin == Admin(s)
           K == Before(s)
           N == K \cup {Variable("CounterAddressesProvider")}
           one == <<deployProvider>>
           I == PlanInstruction(admin)
<1>1. PICK r, L : Plan(s) = one \o r /\ Leads(admin, N, r, L)
  BY PlanOpens
<1>2. /\ r \in Seq(I \ {deployProvider}) /\ r # << >> /\ r[1].op # "enableBorrowingOnReserve"
      /\ Ready(N, r) /\ CollateralFirst(r)
  BY <1>1 DEF Leads, Part
<1>3. deployProvider \in I /\ deployProvider.op = "deploy" /\ Needs(deployProvider) = {}
      /\ Gives(deployProvider) = {Variable("CounterAddressesProvider")}
  <2>1. deployProvider \in DeployInstruction
    BY DEF deployProvider, deploy, DeployInstruction, OwnVariable, ContractName
  <2>2. Needs(deployProvider) = {} /\ Gives(deployProvider) = {Variable("CounterAddressesProvider")}
    BY SaveTokens DEF deployProvider
  <2>3. deployProvider.op = "deploy"
    BY DEF deployProvider, deploy
  <2> QED BY <2>1, <2>2, <2>3 DEF PlanInstruction
<1>4. one \in Seq(I) /\ Len(one) = 1 /\ one[1] = deployProvider
  BY <1>3
<1>5. Ready(K, one) /\ CollateralFirst(one) /\ Given(one) = {Variable("CounterAddressesProvider")}
  <2>1. 1..1 = {1}
    OBVIOUS
  <2> HIDE DEF one
  <2> QED BY <1>3, <1>4, <2>1 DEF Ready, CollateralFirst, Given
<1>6. N \subseteq K \cup Given(one)
  BY <1>5
<1>7. r \in Seq(I) /\ \A i \in 1..Len(r) : r[i] # deployProvider /\ r[i] \in I
  <2>1. \A i \in 1..Len(r) : r[i] \in I \ {deployProvider}
    <3> HIDE DEF I
    <3> QED BY <1>2, ElementOfSeq
  <2> QED BY <1>2, <2>1
<1> DEFINE t == one \o r
<1> HIDE DEF one, I, N, K
<1>8. t \in Seq(I) /\ Ready(K, t) /\ CollateralFirst(t)
  BY <1>2, <1>4, <1>5, <1>6, <1>7, ReadyConcat, CollateralFirstConcat
<1>9. /\ Len(t) = 1 + Len(r) /\ Len(r) \in Nat /\ t[1] = deployProvider
      /\ \A i \in 1..Len(r) : t[1 + i] = r[i]
  BY <1>4, <1>7, ConcatProperties
<1> HIDE DEF t
<1>10. \A i \in 2..Len(t) : t[i] # deployProvider
  <2> TAKE i \in 2..Len(t)
  <2>1. i - 1 \in 1..Len(r) /\ 1 + (i - 1) = i
    BY <1>9
  <2> QED BY <1>7, <1>9, <2>1
<1>11. \A i \in 1..Len(t) : t[i].op \notin LoopOp
  <2>1. \A i \in 1..Len(t) : t[i] \in I
    BY <1>8, ElementOfSeq
  <2> QED BY <2>1, PlanOps DEF I
<1>12. t # << >> /\ Head(t) = deployProvider
  BY <1>8, <1>9
<1>13. t \in Seq(AnyInstruction(admin))
  <2>1. I \subseteq AnyInstruction(admin)
    BY DEF I, AnyInstruction
  <2> QED BY <1>8, <2>1
<1>14. ListOp \subseteq LoopOp
  BY DEF LoopOp
<1> QED BY <1>1, <1>8, <1>10, <1>11, <1>12, <1>13, <1>14 DEF t, K, Todo

LEMMA TailFacts ==
    ASSUME NEW I, NEW s \in Seq(I), s # << >>
    PROVE  /\ Len(s) \in Nat \ {0} /\ Head(s) = s[1] /\ s[1] \in I
           /\ Tail(s) \in Seq(I) /\ Len(Tail(s)) = Len(s) - 1
           /\ \A i \in 1..Len(s) - 1 : Tail(s)[i] = s[i + 1] /\ i + 1 \in 2..Len(s)
OBVIOUS

LEMMA ReadyTail ==
    ASSUME NEW I, NEW s \in Seq(I), s # << >>, NEW K, NEW L, Ready(K, s),
           K \cup Gives(Head(s)) \subseteq L
    PROVE  Ready(L, Tail(s)) /\ Needs(Head(s)) \subseteq K
<1> DEFINE t == Tail(s)
<1>1. /\ Len(s) \in Nat \ {0} /\ Head(s) = s[1] /\ Len(t) = Len(s) - 1
      /\ \A i \in 1..Len(s) - 1 : t[i] = s[i + 1] /\ i + 1 \in 2..Len(s)
  BY TailFacts
<1> HIDE DEF t
<1>2. Needs(Head(s)) \subseteq K
  BY <1>1 DEF Ready
<1>3. ASSUME NEW i \in 1..Len(t), NEW x \in Needs(t[i])
      PROVE  x \in L \/ \E j \in 1..i - 1 : x \in Gives(t[j])
  <2>1. i + 1 \in 1..Len(s) /\ t[i] = s[i + 1]
    BY <1>1
  <2>2. x \in K \/ \E j \in 1..(i + 1) - 1 : x \in Gives(s[j])
    BY <1>3, <2>1 DEF Ready
  <2>3. CASE \E j \in 1..(i + 1) - 1 : x \in Gives(s[j])
    <3>1. PICK j \in 1..i : x \in Gives(s[j])
      BY <2>3
    <3>2. CASE j = 1
      BY <1>1, <3>1, <3>2
    <3>3. CASE j # 1
      <4>1. j - 1 \in 1..i - 1 /\ j - 1 \in 1..Len(s) - 1 /\ (j - 1) + 1 = j
        BY <1>1, <3>3
      <4>2. t[j - 1] = s[j]
        BY <1>1, <4>1
      <4> QED BY <3>1, <4>1, <4>2
    <3> QED BY <3>2, <3>3
  <2> QED BY <2>2, <2>3
<1> QED BY <1>2, <1>3 DEF Ready, t

\* What is left after the first instruction is in order when it gives what it should.
LEMMA TodoTail ==
    ASSUME NEW admin, NEW K, NEW L, NEW s, NEW n \in Nat, NEW m \in Nat,
           Todo(admin, K, s, n), s # << >>, K \cup Gives(Head(s)) \subseteq L, n <= m + 1
    PROVE  Todo(admin, L, Tail(s), m)
<1> DEFINE t == Tail(s)
           I == AnyInstruction(admin)
<1>1. s \in Seq(I)
  BY DEF Todo
<1>2. /\ Len(s) \in Nat \ {0} /\ Head(s) = s[1] /\ Len(t) = Len(s) - 1 /\ t \in Seq(I)
      /\ \A i \in 1..Len(s) - 1 : t[i] = s[i + 1] /\ i + 1 \in 2..Len(s)
  <2> HIDE DEF I
  <2> QED BY <1>1, TailFacts
<1>3. Ready(L, t)
  <2> HIDE DEF I
  <2>1. Ready(K, s)
    BY DEF Todo
  <2> QED BY <1>1, <2>1, ReadyTail
<1> HIDE DEF t, I
<1>4. CollateralFirst(t)
  <2> SUFFICES ASSUME NEW i \in 2..Len(t), t[i].op = "enableBorrowingOnReserve"
               PROVE  ThenBorrowing(t[i - 1], t[i])
    BY DEF CollateralFirst
  <2>1. /\ i + 1 \in 2..Len(s) /\ t[i] = s[i + 1]
        /\ i - 1 \in 1..Len(s) - 1 /\ (i - 1) + 1 = i /\ (i + 1) - 1 = i
    BY <1>2
  <2>2. t[i - 1] = s[i]
    BY <1>2, <2>1
  <2>3. CollateralFirst(s)
    BY DEF Todo
  <2> QED BY <2>1, <2>2, <2>3 DEF CollateralFirst
<1>5. \A i \in 2..Len(t) : t[i] # deployProvider
  BY <1>2 DEF Todo
<1>6. ASSUME NEW i \in 1..Len(t), t[i].op \in LoopOp, NEW j \in 1..i PROVE t[j].op \notin HelperOp
  <2>1. /\ i + 1 \in 1..Len(s) /\ t[i] = s[i + 1] /\ j \in 1..Len(s) - 1
        /\ t[j] = s[j + 1] /\ j + 1 \in 1..i + 1
    BY <1>2
  <2> QED BY <1>6, <2>1 DEF Todo
<1>7. ASSUME NEW i \in 1..Len(t), t[i].op \in ListOp PROVE i <= m
  <2>1. i + 1 \in 1..Len(s) /\ t[i] = s[i + 1]
    BY <1>2
  <2>2. i + 1 <= n
    BY <1>7, <2>1 DEF Todo
  <2> QED BY <2>2
<1> QED BY <1>2, <1>3, <1>4, <1>5, <1>6, <1>7 DEF Todo, t, I

\* The first instruction left has what it needs.
LEMMA TodoHead ==
    ASSUME NEW admin, NEW K, NEW s, NEW n, Todo(admin, K, s, n), s # << >>
    PROVE  /\ Needs(Head(s)) \subseteq K /\ Head(s) \in AnyInstruction(admin)
           /\ Tail(s) # << >> =>
                  /\ Head(Tail(s)) # deployProvider
                  /\ Head(Tail(s)).op = "enableBorrowingOnReserve" =>
                         ThenBorrowing(Head(s), Head(Tail(s)))
           /\ Head(s).op \in ListOp => 1 <= n
<1> DEFINE t == Tail(s)
           I == AnyInstruction(admin)
<1>1. s \in Seq(I)
  BY DEF Todo
<1>2. /\ Len(s) \in Nat \ {0} /\ Head(s) = s[1] /\ s[1] \in I /\ Len(t) = Len(s) - 1 /\ t \in Seq(I)
      /\ \A i \in 1..Len(s) - 1 : t[i] = s[i + 1] /\ i + 1 \in 2..Len(s)
  <2> HIDE DEF I
  <2> QED BY <1>1, TailFacts
<1> HIDE DEF I
<1>3. Needs(Head(s)) \subseteq K
  BY <1>2 DEF Todo, Ready
<1>4. ASSUME t # << >>
      PROVE  Head(t) # deployProvider /\ (Head(t).op = "enableBorrowingOnReserve" => ThenBorrowing(Head(s), Head(t)))
  <2>1. Head(t) = t[1] /\ Len(t) \in Nat \ {0}
    BY <1>2, <1>4, TailFacts
  <2>2. t[1] = s[1 + 1] /\ 1 + 1 \in 2..Len(s)
    BY <1>2, <2>1
  <2>3. 1 + 1 = 2 /\ 2 - 1 = 1
    OBVIOUS
  <2> QED BY <1>2, <2>1, <2>2, <2>3 DEF Todo, CollateralFirst
<1>5. Head(s).op \in ListOp => 1 <= n
  BY <1>2 DEF Todo
<1> QED BY <1>2, <1>3, <1>4, <1>5 DEF I

\* What an instruction that starts a loop leaves has nothing of a loop in it.
LEMMA AfterHelper ==
    ASSUME NEW admin, NEW K, NEW s, NEW n, Todo(admin, K, s, n), s # << >>,
           Head(s).op \in HelperOp
    PROVE  /\ Tail(s) \in Seq(AnyInstruction(admin)) /\ Len(Tail(s)) \in Nat
           /\ \A i \in 1..Len(Tail(s)) : Tail(s)[i].op \notin LoopOp
<1> DEFINE t == Tail(s)
           I == AnyInstruction(admin)
<1>1. s \in Seq(I)
  BY DEF Todo
<1>2. /\ Len(s) \in Nat \ {0} /\ Head(s) = s[1] /\ Len(t) = Len(s) - 1 /\ t \in Seq(I)
      /\ \A i \in 1..Len(s) - 1 : t[i] = s[i + 1] /\ i + 1 \in 2..Len(s)
  <2> HIDE DEF I
  <2> QED BY <1>1, TailFacts
<1> HIDE DEF I, t
<1>3. ASSUME NEW i \in 1..Len(t), t[i].op \in LoopOp PROVE FALSE
  <2>1. i + 1 \in 1..Len(s) /\ 1 \in 1..i + 1 /\ t[i] = s[i + 1]
    BY <1>2
  <2> QED BY <1>2, <1>3, <2>1 DEF Todo
<1> QED BY <1>2, <1>3 DEF I, t

\* enterHelper forgets the strategies of an earlier helper: nothing left rests on them.
LEMMA EnterTodo ==
    ASSUME NEW admin, NEW K, NEW L, NEW s, NEW n \in Nat, NEW m \in Nat,
           Todo(admin, K, s, n), s # << >>, Head(s).op = "enterHelper",
           \A x \in K \cup Gives(Head(s)) : x \in L \/ \E name : x = Strategy(name)
    PROVE  Todo(admin, L, Tail(s), m)
<1> DEFINE t == Tail(s)
           M == K \cup Gives(Head(s))
<1>1. /\ t \in Seq(AnyInstruction(admin)) /\ Len(t) \in Nat
      /\ \A i \in 1..Len(t) : t[i].op \notin LoopOp
  BY AfterHelper DEF HelperOp
<1>2. Todo(admin, M, t, n)
  BY TodoTail
<1> HIDE DEF t
<1>3. ASSUME NEW x, x.op \notin LoopOp, NEW name PROVE Strategy(name) \notin Needs(x)
  <2>1. Strategy(name) \notin {Variable(v) : v \in {"CounterAddressesProvider", x.as, "strategy", "configurator"}}
                              \cup {Entry(x.key), Entry("CounterAddressesProvider"), Oracle, Prepared}
    BY DEF Strategy, Variable, Entry, Oracle, Prepared
  <2>2. x.op # "pushInput"
    BY <1>3 DEF LoopOp
  <2>3. Needs(x) \subseteq {Variable(v) : v \in {"CounterAddressesProvider", x.as, "strategy", "configurator"}}
                              \cup {Entry(x.key), Entry("CounterAddressesProvider"), Oracle, Prepared}
    BY <2>2 DEF Needs
  <2> QED BY <2>1, <2>3
<1>4. Ready(L, t)
  <2> SUFFICES ASSUME NEW i \in 1..Len(t), NEW x \in Needs(t[i])
               PROVE  x \in L \/ \E j \in 1..i - 1 : x \in Gives(t[j])
    BY DEF Ready
  <2>1. x \in M \/ \E j \in 1..i - 1 : x \in Gives(t[j])
    BY <1>2 DEF Todo, Ready
  <2>2. \A name : x # Strategy(name)
    BY <1>1, <1>3
  <2> QED BY <2>1, <2>2
<1>5. ListOp \subseteq LoopOp
  BY DEF LoopOp
<1> QED BY <1>1, <1>2, <1>4, <1>5 DEF Todo, t

\* A loop unrolled in front of what is left keeps it in order.
LEMMA ExpandTodo ==
    ASSUME NEW admin, NEW K, NEW s, NEW n \in Nat, NEW r \in Seq(AnyInstruction(admin)),
           Todo(admin, K, s, n), s # << >>,
           Head(s).op \in {"prepare", "callForEachInput"}, Gives(Head(s)) \subseteq K,
           Ready(K, r),
           \A i \in 1..Len(r) : /\ r[i] # deployProvider
                                /\ r[i].op \notin HelperOp \cup {"enableBorrowingOnReserve"}
                                /\ r[i].op \in ListOp => i <= n
    PROVE  /\ Todo(admin, K, r \o Tail(s), n)
           /\ r \o Tail(s) # << >> =>
                  /\ Head(r \o Tail(s)) # deployProvider
                  /\ Head(r \o Tail(s)).op # "enableBorrowingOnReserve"
<1> DEFINE t == Tail(s)
           rt == r \o t
           I == AnyInstruction(admin)
<1>1. /\ t \in Seq(I) /\ Len(t) \in Nat /\ \A i \in 1..Len(t) : t[i].op \notin LoopOp
  BY AfterHelper DEF HelperOp
<1>2. Todo(admin, K, t, n)
  <2>1. K \cup Gives(Head(s)) \subseteq K /\ n <= n + 1
    OBVIOUS
  <2> QED BY <2>1, TodoTail
<1>3. t # << >> => /\ Head(t) # deployProvider
                   /\ Head(t).op # "enableBorrowingOnReserve"
  <2>1. t # << >> => /\ Head(t) # deployProvider
                     /\ Head(t).op = "enableBorrowingOnReserve" => ThenBorrowing(Head(s), Head(t))
    BY TodoHead
  <2>2. ~ThenBorrowing(Head(s), Head(t))
    BY DEF ThenBorrowing
  <2> QED BY <2>1, <2>2
<1> HIDE DEF t, I, rt
<1>4. Head(t) = t[1]
  BY <1>1
<1>5. /\ rt \in Seq(I) /\ Len(rt) = Len(r) + Len(t) /\ Len(r) \in Nat
      /\ \A i \in 1..Len(r) : rt[i] = r[i]
      /\ \A i \in 1..Len(t) : rt[Len(r) + i] = t[i]
  <2>1. r \in Seq(I)
    BY DEF I
  <2> QED BY <1>1, <2>1, ConcatProperties DEF rt
<1>6. \A i \in 1..Len(rt) : i \in 1..Len(r) \/ (i - Len(r) \in 1..Len(t) /\ Len(r) + (i - Len(r)) = i)
  BY <1>1, <1>5
<1>7. \A i \in 1..Len(rt) : \/ i \in 1..Len(r) /\ rt[i] = r[i]
                            \/ i - Len(r) \in 1..Len(t) /\ rt[i] = t[i - Len(r)] /\ i > Len(r)
  <2>1. \A i \in 1..Len(rt) : i - Len(r) \in 1..Len(t) => i > Len(r)
    BY <1>5
  <2>2. \A i \in 1..Len(rt) : i - Len(r) \in 1..Len(t) /\ Len(r) + (i - Len(r)) = i => rt[i] = t[i - Len(r)]
    BY <1>5
  <2> QED BY <1>5, <1>6, <2>1, <2>2
<1>8. Ready(K, rt)
  <2>1. r \in Seq(I) /\ Ready(K, t) /\ K \subseteq K \cup Given(r)
    BY <1>2 DEF I, Todo
  <2> QED BY <1>1, <2>1, ReadyConcat DEF rt
<1>9. CollateralFirst(rt)
  <2>1. r \in Seq(I) /\ CollateralFirst(t)
    BY <1>2 DEF I, Todo
  <2>2. CollateralFirst(r)
    <3>1. \A i \in 2..Len(r) : i \in 1..Len(r)
      BY <1>5
    <3> QED BY <3>1 DEF CollateralFirst
  <2> QED BY <1>1, <1>3, <1>4, <2>1, <2>2, CollateralFirstConcat DEF rt
<1>10. ASSUME NEW i \in 1..Len(rt) PROVE i \in 1..Len(r) \/ (rt[i].op \notin LoopOp)
  BY <1>1, <1>7
<1>11. \A i \in 1..Len(t) : t[i] # deployProvider
  <2>1. \A i \in 1..Len(t) : i = 1 \/ i \in 2..Len(t)
    BY <1>1
  <2>2. \A i \in 2..Len(t) : t[i] # deployProvider
    BY <1>2 DEF Todo
  <2>3. 1 \in 1..Len(t) => t # << >>
    BY <1>1
  <2> QED BY <1>3, <1>4, <2>1, <2>2, <2>3
<1>12. \A i \in 1..Len(rt) : rt[i] # deployProvider
  BY <1>7, <1>11
<1>13. ASSUME NEW i \in 1..Len(rt), rt[i].op \in LoopOp, NEW j \in 1..i PROVE rt[j].op \notin HelperOp
  <2>1. i \in 1..Len(r)
    BY <1>10, <1>13
  <2>2. j \in 1..Len(r)
    BY <1>5, <2>1
  <2> QED BY <1>5, <2>2
<1>14. ASSUME NEW i \in 1..Len(rt), rt[i].op \in ListOp PROVE i <= n
  <2>1. i \in 1..Len(r)
    BY <1>10, <1>14 DEF LoopOp
  <2> QED BY <1>5, <1>14, <2>1
<1>15. Todo(admin, K, rt, n)
  <2>1. \A i \in 2..Len(rt) : i \in 1..Len(rt)
    BY <1>1, <1>5
  <2> QED BY <1>5, <1>8, <1>9, <1>12, <1>13, <1>14, <2>1 DEF Todo, I
<1>16. ASSUME rt # << >> PROVE Head(rt) # deployProvider /\ Head(rt).op # "enableBorrowingOnReserve"
  <2>1. Head(rt) = rt[1] /\ 1 \in 1..Len(rt)
    BY <1>5, <1>16
  <2>2. CASE 1 \in 1..Len(r)
    BY <1>5, <2>1, <2>2
  <2>3. CASE 1 \notin 1..Len(r)
    <3>1. Len(r) = 0 /\ 1 \in 1..Len(t)
      BY <1>5, <2>1, <2>3
    <3>2. rt[1] = t[1] /\ t # << >>
      BY <1>1, <1>5, <3>1
    <3> QED BY <1>3, <1>4, <2>1, <3>2
  <2> QED BY <2>2, <2>3
<1> QED BY <1>15, <1>16 DEF rt, t

\* The turn of a loop over reserves.
TurnInstruction(admin) ==
    (DeployInstruction \ {deployProvider}) \cup RegisterInstruction
    \cup [op : {"keepStrategy"}, name : StrategyName]
    \cup [op : {"pushInput"}, config : PrepareInstruction(admin)]

TurnLeads(admin, K, s, L) ==
    s \in Seq(TurnInstruction(admin)) /\ Ready(K, s) /\ L \subseteq K \cup Given(s)

LEMMA TurnConcat ==
    ASSUME NEW admin, NEW K, NEW L, NEW M, NEW s, NEW t,
           TurnLeads(admin, K, s, L), TurnLeads(admin, L, t, M)
    PROVE  TurnLeads(admin, K, s \o t, M)
<1> DEFINE I == TurnInstruction(admin)
<1>1. /\ s \in Seq(I) /\ t \in Seq(I) /\ Ready(K, s) /\ Ready(L, t)
      /\ L \subseteq K \cup Given(s) /\ M \subseteq L \cup Given(t)
  BY DEF TurnLeads
<1> HIDE DEF I
<1>2. s \o t \in Seq(I) /\ Ready(K, s \o t) /\ Given(s \o t) = Given(s) \cup Given(t)
  BY <1>1, ReadyConcat, GivenConcat
<1> QED BY <1>1, <1>2 DEF I, TurnLeads

LEMMA TurnOne ==
    ASSUME NEW admin, NEW K, NEW L, NEW x \in TurnInstruction(admin),
           Needs(x) \subseteq K, L \subseteq K \cup Gives(x)
    PROVE  TurnLeads(admin, K, <<x>>, L)
<1> DEFINE s == <<x>>
<1>1. s \in Seq(TurnInstruction(admin)) /\ Len(s) = 1 /\ s[1] = x
  OBVIOUS
<1>2. 1..1 = {1}
  OBVIOUS
<1> HIDE DEF s
<1>3. Ready(K, s) /\ Given(s) = Gives(x)
  BY <1>1, <1>2 DEF Ready, Given
<1>4. TurnLeads(admin, K, s, L)
  BY <1>1, <1>3 DEF TurnLeads
<1> QED BY <1>4 DEF s

LEMMA TurnSave ==
    ASSUME NEW admin, NEW K, NEW contract, NEW key, NEW as, Saves(contract, key, as),
           contract # "CounterAddressesProvider"
    PROVE  TurnLeads(admin, K, deployAndSave(contract, key, as), K \cup {Variable(as)})
<1> DEFINE x == deploy(contract, as)
           y == registerContractInJsonDb(key, as)
           L == K \cup {Variable(as)}
<1>1. x \in DeployInstruction /\ y \in RegisterInstruction
  BY SaveKinds
<1>2. x.contract = contract
  BY DEF deploy
<1>3. /\ Needs(x) = {} /\ Needs(y) = {} /\ Gives(x) = {Variable(as)}
  BY SaveTokens
<1>4. deployAndSave(contract, key, as) = <<x, y>>
  BY DEF deployAndSave
<1>5. L = K \cup {Variable(as)}
  OBVIOUS
<1> HIDE DEF x, y, L
<1>6. x \in TurnInstruction(admin) /\ y \in TurnInstruction(admin)
  BY <1>1, <1>2, NotTheProvider DEF TurnInstruction
<1>7. TurnLeads(admin, K, <<x>>, L) /\ TurnLeads(admin, L, <<y>>, L)
  BY <1>3, <1>5, <1>6, TurnOne
<1>8. TurnLeads(admin, K, <<x>> \o <<y>>, L)
  BY <1>7, TurnConcat
<1> QED BY <1>4, <1>5, <1>8, PairIsConcat

LEMMA TurnKinds ==
    ASSUME NEW admin, NEW x \in TurnInstruction(admin)
    PROVE  /\ x \in AnyInstruction(admin) /\ x # deployProvider
           /\ x.op \in {"deploy", "register", "keepStrategy", "pushInput"}
<1>1. CASE x \in (DeployInstruction \ {deployProvider}) \cup RegisterInstruction
  <2>1. x.op \in {"deploy", "register"}
    BY <1>1 DEF DeployInstruction, RegisterInstruction
  <2>2. x # deployProvider
    BY <1>1, NotTheProvider DEF RegisterInstruction
  <2> QED BY <1>1, <2>1, <2>2 DEF AnyInstruction, PlanInstruction
<1>2. CASE x \in [op : {"keepStrategy"}, name : StrategyName]
  <2>1. x.op = "keepStrategy"
    BY <1>2
  <2>2. x # deployProvider
    BY <2>1, NotTheProvider
  <2> QED BY <1>2, <2>1, <2>2 DEF AnyInstruction, LoopInstruction
<1>3. CASE x \in [op : {"pushInput"}, config : PrepareInstruction(admin)]
  <2>1. x.op = "pushInput"
    BY <1>3
  <2>2. x # deployProvider
    BY <2>1, NotTheProvider
  <2> QED BY <1>3, <2>1, <2>2 DEF AnyInstruction, LoopInstruction
<1>4. \/ x \in (DeployInstruction \ {deployProvider}) \cup RegisterInstruction
      \/ x \in [op : {"keepStrategy"}, name : StrategyName]
      \/ x \in [op : {"pushInput"}, config : PrepareInstruction(admin)]
  <2> DEFINE A == DeployInstruction \ {deployProvider}
             C == [op : {"keepStrategy"}, name : StrategyName]
             D == [op : {"pushInput"}, config : PrepareInstruction(admin)]
  <2>1. x \in A \cup RegisterInstruction \cup C \cup D
    BY Zenon DEF TurnInstruction
  <2> HIDE DEF A, C, D
  <2>2. x \in A \cup RegisterInstruction \/ x \in C \/ x \in D
    BY <2>1
  <2> QED BY <2>2 DEF A, C, D
<1> QED BY <1>1, <1>2, <1>3, <1>4, Zenon

LEMMA StrategyTurn ==
    ASSUME NEW admin, NEW K, NEW strategy, strategy.name \in StrategyName
    PROVE  TurnLeads(admin, K,
               Append(deployStrategy(strategy), [op |-> "keepStrategy", name |-> strategy.name]),
               K \cup {Strategy(strategy.name)})
<1> DEFINE contract == "DefaultReserveInterestRateStrategy"
           s == deployAndSave(contract, contract, "strategy")
           y == registerContractInJsonDb(strategy.name, "strategy")
           z == [op |-> "keepStrategy", name |-> strategy.name]
           L == K \cup {Variable("strategy")}
           M == K \cup {Strategy(strategy.name)}
<1>1. TurnLeads(admin, K, s, L)
  <2>1. Saves(contract, contract, "strategy")
    BY DEF Saves, OwnVariable, ContractName, NamedForItsKind, ReadKey
  <2> QED BY <2>1, TurnSave
<1>2. y \in TurnInstruction(admin) /\ Needs(y) = {}
  <2>1. y \in RegisterInstruction
    BY DEF registerContractInJsonDb, RegisterInstruction, OwnVariable, StrategyName, ReadKey
  <2>2. Needs(y) = {}
    BY SaveTokens
  <2> QED BY <2>1, <2>2 DEF TurnInstruction
<1>3. z \in TurnInstruction(admin) /\ z.op = "keepStrategy" /\ z.name = strategy.name
  BY DEF TurnInstruction
<1>4. Append(deployStrategy(strategy), z) = Append(Append(s, y), z)
  BY DEF deployStrategy, deployRateStrategy, deployDefaultReserveInterestRateStrategy
<1>5. Variable("strategy") \in L /\ M \subseteq L \cup {Strategy(strategy.name)}
  OBVIOUS
<1> HIDE DEF s, y, z, L, M, contract
<1>6. Needs(z) = {Variable("strategy")} /\ Gives(z) = {Strategy(strategy.name)}
  BY <1>3 DEF Needs, Gives, ConfigureOp, ListOp
<1>7. TurnLeads(admin, L, <<y>>, L) /\ TurnLeads(admin, L, <<z>>, M)
  BY <1>2, <1>3, <1>5, <1>6, TurnOne
<1>8. TurnLeads(admin, K, s \o <<y>>, L)
  BY <1>1, <1>7, TurnConcat
<1>9. TurnLeads(admin, K, (s \o <<y>>) \o <<z>>, M)
  BY <1>7, <1>8, TurnConcat
<1>10. Append(Append(s, y), z) = (s \o <<y>>) \o <<z>>
  <2> DEFINE I == TurnInstruction(admin)
  <2>1. s \in Seq(I) /\ y \in I /\ z \in I
    BY <1>1, <1>2, <1>3 DEF TurnLeads
  <2> HIDE DEF I
  <2>2. Append(s, y) = s \o <<y>> /\ s \o <<y>> \in Seq(I)
    BY <2>1
  <2> DEFINE t == s \o <<y>>
  <2>3. t \in Seq(I)
    BY <2>2
  <2> HIDE DEF t
  <2>4. Append(t, z) = t \o <<z>>
    BY <2>1, <2>3
  <2> QED BY <2>2, <2>4 DEF t
<1> QED BY <1>4, <1>9, <1>10 DEF z, M

\* The names that a turn of the loop over reserves puts together are no contract's.
LEMMA ReserveNames ==
    ASSUME NEW admin, NEW config \in PrepareInstruction(admin), NEW letter \in Letters
    PROVE  LET pName == "p" \o (config.symbol \o letter)
               debtName == "variable Debt p" \o debtSymbol(config, letter)
           IN  /\ config.params.strategy.name \in StrategyName
               /\ pName \in ComputedName /\ debtName \in ComputedName
               /\ Saves("PToken", pName, "pToken")
               /\ Saves("VariableDebtToken", debtName, "variableDebtToken")
<1> DEFINE symbol == config.symbol \o letter
           pName == "p" \o symbol
           debtName == "variable Debt p" \o debtSymbol(config, letter)
<1>1. config.symbol \in Symbol /\ config.params.strategy.name \in StrategyName
  <2>1. config.params \in Params /\ config.symbol \in Symbol
    BY DEF PrepareInstruction
  <2>2. config.params.strategy \in
            [name : StrategyName, optimalUtilizationRate : {80},
             baseVariableBorrowRate : {0, 5, 10}, variableRateSlope1 : {4},
             variableRateSlope2 : {100}]
    BY <2>1 DEF Params
  <2> QED BY <2>1, <2>2
<1>2. symbol \in RiskSymbol
  <2> DEFINE base == config.symbol
  <2>1. base \in Symbol
    BY <1>1
  <2> HIDE DEF base
  <2>2. base \o letter \in RiskSymbol
    BY <2>1 DEF RiskSymbol
  <2> QED BY <2>2 DEF base
<1>3. debtSymbol(config, letter) \in RiskSymbol \cup Symbol
  BY <1>1, <1>2 DEF debtSymbol
<1>4. pName \in ComputedName /\ debtName \in ComputedName
  <2> HIDE DEF symbol
  <2>1. pName \in PTokenName
    BY <1>2, Zenon DEF PTokenName
  <2>2. debtName \in DebtTokenName
    BY <1>3, Zenon DEF DebtTokenName
  <2> HIDE DEF pName, debtName
  <2> QED BY <2>1, <2>2, Zenon DEF ComputedName
<1> HIDE DEF pName, debtName
<1>5. Saves("PToken", pName, "pToken") /\ Saves("VariableDebtToken", debtName, "variableDebtToken")
  <2>1. pName \notin ReadKey /\ debtName \notin ReadKey
    BY <1>4, SymbolsAreNames
  <2>2. {"pToken", "variableDebtToken", "PToken", "VariableDebtToken"} \cap NamedForItsKind = {}
    BY DEF NamedForItsKind, ReadKey
  <2>3. {"pToken", "variableDebtToken"} \subseteq OwnVariable
    BY DEF OwnVariable
  <2> QED BY <1>4, <2>1, <2>2, <2>3 DEF Saves
<1> QED BY <1>1, <1>4, <1>5, Zenon DEF pName, debtName, symbol

\* One turn of the loop over reserves.
LEMMA ReserveTurn ==
    ASSUME NEW admin, NEW K, NEW config \in PrepareInstruction(admin), NEW letter \in Letters,
           NEW known \in BOOLEAN, Prepared \in K,
           known => Strategy(config.params.strategy.name) \in K
    PROVE  TurnLeads(admin, K, reserveContracts(config, letter, known), K)
<1> DEFINE name == config.params.strategy.name
           symbol == config.symbol \o letter
           pName == "p" \o symbol
           debtName == "variable Debt p" \o debtSymbol(config, letter)
           push == [op |-> "pushInput", config |-> config]
           keep == [op |-> "keepStrategy", name |-> name]
           t0 == Append(deployStrategy(config.params.strategy), keep)
           s0 == IF known THEN << >> ELSE t0
           s1 == deployAndSave("PToken", pName, "pToken")
           s2 == deployAndSave("VariableDebtToken", debtName, "variableDebtToken")
           A == K \cup {Strategy(name)}
           B == A \cup {Variable("pToken")}
           C == B \cup {Variable("variableDebtToken")}
<1>1. /\ name \in StrategyName /\ pName \in ComputedName /\ debtName \in ComputedName
      /\ Saves("PToken", pName, "pToken") /\ Saves("VariableDebtToken", debtName, "variableDebtToken")
  BY ReserveNames, Zenon
<1>2. reserveContracts(config, letter, known) = ((s0 \o s1) \o s2) \o <<push>>
  BY DEF reserveContracts, deployPToken, deployVariableDebtToken
<1> HIDE DEF pName, debtName
<1>7. TurnLeads(admin, A, s1, B) /\ TurnLeads(admin, B, s2, C)
  BY <1>1, TurnSave
<1>8. TurnLeads(admin, K, s0, A)
  <2>1. CASE known
    <3> DEFINE e == << >>
    <3>1. e \in Seq(TurnInstruction(admin)) /\ Len(e) = 0
      OBVIOUS
    <3>2. A \subseteq K
      BY <2>1
    <3>3. s0 = e
      BY <2>1
    <3> HIDE DEF e, A, s0
    <3>4. Ready(K, e)
      BY <3>1 DEF Ready
    <3> QED BY <3>1, <3>2, <3>3, <3>4 DEF TurnLeads
  <2>2. CASE ~known
    <3>1. s0 = t0
      BY <2>2
    <3>2. TurnLeads(admin, K, t0, A)
      BY <1>1, StrategyTurn
    <3> QED BY <3>1, <3>2
  <2> QED BY <2>1, <2>2
<1>9. TurnLeads(admin, C, <<push>>, K)
  <2>1. push \in TurnInstruction(admin) /\ push.op = "pushInput" /\ push.config = config
    BY DEF TurnInstruction
  <2>2. {Variable("pToken"), Variable("variableDebtToken"), Strategy(name), Prepared} \subseteq C
        /\ K \subseteq C
    OBVIOUS
  <2> HIDE DEF push, C
  <2>3. Needs(push) = {Variable("pToken"), Variable("variableDebtToken"), Strategy(name), Prepared}
    BY <2>1 DEF Needs, ConfigureOp, ListOp
  <2> QED BY <2>1, <2>2, <2>3, TurnOne
<1> HIDE DEF s0, s1, s2, push, A, B, C
<1>10. TurnLeads(admin, K, s0 \o s1, B)
  BY <1>7, <1>8, TurnConcat
<1>11. TurnLeads(admin, K, (s0 \o s1) \o s2, C)
  BY <1>7, <1>10, TurnConcat
<1>12. TurnLeads(admin, K, ((s0 \o s1) \o s2) \o <<push>>, K)
  BY <1>9, <1>11, TurnConcat
<1> QED BY <1>2, <1>12

-----------------------------------------------------------------------------
(***************************************************************************)
(* The state between two instructions.                                     *)
(***************************************************************************)

Is(a, contract, p) == a \in DOMAIN code /\ code[a] = [contract |-> contract, by |-> p]
OfRun(p, a) == a \in DOMAIN code /\ code[a].by = p

IsProvider(a, p) == Is(a, "CounterAddressesProvider", p)

\* One run at a time; a run that is not running remembers nothing.
RunsInv ==
    /\ started \in 0..NumRuns
    /\ status \in [Run -> {"waiting", "running", "finished", "failed", "killed"}]
    /\ script \in [Run -> Script \cup {"none"}]
    /\ DOMAIN todo = Run /\ DOMAIN locals = Run
    /\ DOMAIN inputs = Run /\ DOMAIN strategies = Run
    /\ \A p \in Run : p > started => status[p] = "waiting"
    /\ \A p \in Run : p <= started => script[p] \in Script
    /\ \A p, q \in Run : Running(p) /\ Running(q) => p = q
    /\ \A p \in Run : ~Running(p) =>
           locals[p] = << >> /\ inputs[p] = << >> /\ strategies[p] = << >>

FileInv == \A key \in DOMAIN db : db[key] \in Nat

Deployed(contract) == {a \in DOMAIN code : code[a].contract = contract}

CodeInv ==
    /\ nextAddress \in Nat /\ nextAddress > Deployer
    /\ \A a \in DOMAIN code :
           /\ a \in 1..nextAddress - 1
           /\ code[a] = [contract |-> code[a].contract, by |-> code[a].by]
           /\ code[a].by \in 0..started
           /\ code[a].by = 0 => code[a].contract = "external"
    /\ DOMAIN slots = Deployed("CounterAddressesProvider")
    /\ DOMAIN pool = Deployed("Counter")
    /\ DOMAIN source = Deployed("PrestareOracle")
    /\ DOMAIN configurator \subseteq Deployed("CounterConfigurator")

\* What a provider names, and whom a pool and its configurator belong to, is of
\* the run that has deployed them.
SlotKind == [Counter |-> "Counter", CounterConfigurator |-> "CounterConfigurator",
             PriceOracle |-> "PrestareOracle"]
SlotsInv ==
    /\ slots = [v \in DOMAIN slots |-> slots[v]]
    /\ \A v \in DOMAIN slots :
           /\ slots[v] \in [Slot -> Nat]
           /\ \A slot \in DOMAIN SlotKind :
                  slots[v][slot] # ZERO_ADDRESS => Is(slots[v][slot], SlotKind[slot], code[v].by)
ConfiguratorsInv ==
    \A f \in DOMAIN configurator : configurator[f].counter # ZERO_ADDRESS =>
        Is(configurator[f].counter, "Counter", code[f].by)
PoolsInv ==
    \A c \in DOMAIN pool :
        /\ pool[c].provider \in Nat
        /\ pool[c].provider # ZERO_ADDRESS => IsProvider(pool[c].provider, code[c].by)
        /\ pool[c].paused \in BOOLEAN
RegistryInv == SlotsInv /\ ConfiguratorsInv /\ PoolsInv

\* Only deployOnMainnet lists reserves.
CollateralIsSet(word) == getLtv(word) # {} /\ getLiquidationBonus(word) # {}
ReserveInv(p, P, r) ==
    /\ script[p] = "mainnet"
    /\ r[1] \in MainnetAsset
    /\ LET reserve == P.reserves[r]
       IN  /\ \A a \in {reserve.pToken, reserve.variableDebtToken, reserve.interestRateStrategy} :
                  OfRun(p, a)
           /\ getBorrowingEnabled(reserve.configuration) =>
                  /\ CollateralIsSet(reserve.configuration)
                  /\ P.provider # ZERO_ADDRESS
                  /\ slots[P.provider]["PriceOracle"] # ZERO_ADDRESS
ReservesInv ==
    \A c \in DOMAIN pool : \A r \in DOMAIN pool[c].reserves :
        ReserveInv(code[c].by, pool[c], r)

OraclesInv ==
    \A o \in DOMAIN source : script[code[o].by] = "mainnet" =>
        \A a \in MainnetAsset : \E pair \in source[o].pairs : pair.asset = a

ChainInv == CodeInv /\ RegistryInv /\ ReservesInv /\ OraclesInv

\* What the instructions a run has done have given it.
HasOracle(p) ==
    /\ "CounterAddressesProvider" \in DOMAIN locals[p]
    /\ slots[locals[p]["CounterAddressesProvider"]]["PriceOracle"] # ZERO_ADDRESS
HasEntryOf(p, key) ==
    script[p] = "mainnet" => key \in DOMAIN db /\ Is(db[key], key, p)
Has(p) ==
    {Variable(name) : name \in DOMAIN locals[p]}
    \cup {Entry(key) : key \in {key \in ReadKey : HasEntryOf(p, key)}}
    \cup {Strategy(name) : name \in DOMAIN strategies[p]}
    \cup (IF HasOracle(p) THEN {Oracle} ELSE {})
    \cup (IF script[p] = "mainnet" THEN {Prepared} ELSE {})

Inputs ==
    [underlyingAsset : MainnetAsset, pToken : Nat, variableDebtToken : Nat,
     interestRateStrategy : Nat, underlyingAssetDecimals : {6, 18}, assetRiskTier : {2}]

LocalsInv(p) ==
    /\ \A name \in DOMAIN locals[p] :
           /\ locals[p][name] \in Nat
           /\ name \in OwnVariable => OfRun(p, locals[p][name])
           /\ name \in NamedForItsKind => Is(locals[p][name], name, p)
    /\ script[p] = "mainnet" => \A read \in ReadBack :
           read.as \in DOMAIN locals[p] => Is(locals[p][read.as], read.contract, p)
    /\ \A a \in DOMAIN code : IsProvider(a, p) =>
           /\ "CounterAddressesProvider" \in DOMAIN locals[p]
           /\ locals[p]["CounterAddressesProvider"] = a

HelperInv(p) ==
    /\ \A name \in DOMAIN strategies[p] : OfRun(p, strategies[p][name])
    /\ inputs[p] \in Seq(Inputs)
    /\ \A i \in 1..Len(inputs[p]) :
           LET input == inputs[p][i]
           IN  \A a \in {input.pToken, input.variableDebtToken, input.interestRateStrategy} :
                   OfRun(p, a)
    /\ inputs[p] # << >> => script[p] = "mainnet"

TodoInv(p) ==
    /\ Todo(Admin(script[p]), Has(p), todo[p], Len(inputs[p]))
    /\ todo[p] # << >> =>
           /\ Head(todo[p]) = deployProvider => \A a \in DOMAIN code : code[a].by # p
           /\ Head(todo[p]).op = "enableBorrowingOnReserve" => CollateralIsSet(ConfiguredWord(p))

Memory(p) == LocalsInv(p) /\ HelperInv(p) /\ TodoInv(p)

DInv == RunsInv /\ FileInv /\ ChainInv /\ \A p \in Run : Running(p) => Memory(p)

\* What an instruction is, by what it does.
Kinds(admin, x) ==
    /\ x.op = "deploy" => x \in DeployInstruction
    /\ x.op = "register" => x \in RegisterInstruction
    /\ x.op = "set" => x \in SetInstruction
    /\ x.op = "prepare" => x \in PrepareInstruction(admin)
    /\ x.op = "attach" => x \in AttachInstruction
    /\ x.op = "rawInsert" => x.key \in Symbol /\ x.address \in Nat
    /\ x.op = "keepStrategy" => x.name \in StrategyName
    /\ x.op = "pushInput" => x.config \in PrepareInstruction(admin)
    /\ x.op = "callForEachInput" => x.call \in ListOp
    /\ x.op \in ConfigureOp => x.params \in Params
    /\ x.op = "setPoolPause" => x.paused \in BOOLEAN

\* What an instruction may be, by its operation.
LEMMA InstructionKinds ==
    ASSUME NEW admin, NEW x \in AnyInstruction(admin)
    PROVE  Kinds(admin, x)
<1> DEFINE T(op) == /\ op = "deploy" => x \in DeployInstruction
                    /\ op = "register" => x \in RegisterInstruction
                    /\ op = "set" => x \in SetInstruction
                    /\ op = "prepare" => x \in PrepareInstruction(admin)
                    /\ op = "attach" => x \in AttachInstruction
                    /\ op = "rawInsert" => x.key \in Symbol /\ x.address \in Nat
                    /\ op = "keepStrategy" => x.name \in StrategyName
                    /\ op = "pushInput" => x.config \in PrepareInstruction(admin)
                    /\ op = "callForEachInput" => x.call \in ListOp
                    /\ op \in ConfigureOp => x.params \in Params
                    /\ op = "setPoolPause" => x.paused \in BOOLEAN
<1>0. T(x.op) => Kinds(admin, x)
  BY Zenon DEF Kinds
<1>1. CASE x \in DeployInstruction
  <2>1. x.op = "deploy"
    BY <1>1 DEF DeployInstruction
  <2>2. T("deploy")
    BY <1>1 DEF ConfigureOp
  <2> QED BY <1>0, <2>1, <2>2
<1>2. CASE x \in RegisterInstruction
  <2>1. x.op = "register"
    BY <1>2 DEF RegisterInstruction
  <2>2. T("register")
    BY <1>2 DEF ConfigureOp
  <2> QED BY <1>0, <2>1, <2>2
<1>3. CASE x \in SetInstruction
  <2>1. x.op = "set"
    BY <1>3, CallTokens DEF SetInstruction
  <2>2. T("set")
    BY <1>3 DEF ConfigureOp
  <2> QED BY <1>0, <2>1, <2>2
<1>4. CASE x \in PrepareInstruction(admin)
  <2>1. x.op = "prepare"
    BY <1>4 DEF PrepareInstruction
  <2>2. T("prepare")
    BY <1>4 DEF ConfigureOp
  <2> QED BY <1>0, <2>1, <2>2
<1>5. CASE x \in AttachInstruction
  <2>1. x.op = "attach"
    BY <1>5, CallTokens DEF AttachInstruction
  <2>2. T("attach")
    BY <1>5 DEF ConfigureOp
  <2> QED BY <1>0, <2>1, <2>2
<1>6. CASE x \in [op : {"rawInsert"}, key : Symbol, address : Nat]
  <2>1. x.op = "rawInsert" /\ x.key \in Symbol /\ x.address \in Nat
    BY <1>6
  <2>2. T("rawInsert")
    BY <2>1 DEF ConfigureOp
  <2> QED BY <1>0, <2>1, <2>2
<1>7. CASE x \in {initialize("Counter"), initialize("CounterConfigurator")}
  <2>1. x.op = "initialize"
    BY <1>7, CallTokens
  <2>2. T("initialize")
    BY DEF ConfigureOp
  <2> QED BY <1>0, <2>1, <2>2
<1>8. CASE x \in [op : {"setAssetPrice"}, symbol : Symbol]
  <2>1. x.op = "setAssetPrice"
    BY <1>8
  <2>2. T("setAssetPrice")
    BY DEF ConfigureOp
  <2> QED BY <1>0, <2>1, <2>2
<1>9. CASE x \in [op : {"authorizeCounter", "enterHelper", "setCRT"}]
  <2>1. x.op \in {"authorizeCounter", "enterHelper", "setCRT"}
    BY <1>9
  <2>2. T("authorizeCounter") /\ T("enterHelper") /\ T("setCRT")
    BY DEF ConfigureOp
  <2> HIDE DEF T
  <2> QED BY <1>0, <2>1, <2>2
<1>10. CASE x \in [op : {"callForEachInput"}, call : ListOp]
  <2>1. x.op = "callForEachInput" /\ x.call \in ListOp
    BY <1>10
  <2>2. T("callForEachInput")
    BY <2>1 DEF ConfigureOp
  <2> QED BY <1>0, <2>1, <2>2
<1>11. CASE x \in [op : ConfigureOp, symbol : Symbol, tier : Tier \cup {"admin"}, params : Params]
  <2>1. x.op \in ConfigureOp /\ x.params \in Params
    BY <1>11
  <2>2. \A op \in ConfigureOp : T(op)
    BY <2>1 DEF ConfigureOp
  <2> HIDE DEF T
  <2> QED BY <1>0, <2>1, <2>2
<1>12. CASE x \in [op : {"setPoolPause"}, paused : {FALSE}]
  <2>1. x.op = "setPoolPause"
    BY <1>12
  <2> DEFINE off == {FALSE}
  <2>2. x \in [op : {"setPoolPause"}, paused : off]
    BY <1>12, Zenon
  <2>3. off \subseteq BOOLEAN
    OBVIOUS
  <2> HIDE DEF off
  <2>4. x.paused \in BOOLEAN
    BY <2>2, <2>3
  <2>5. T("setPoolPause")
    BY <2>4 DEF ConfigureOp
  <2> QED BY <1>0, <2>1, <2>5
<1>13. CASE x \in [op : {"keepStrategy"}, name : StrategyName]
  <2>1. x.op = "keepStrategy" /\ x.name \in StrategyName
    BY <1>13
  <2>2. T("keepStrategy")
    BY <2>1 DEF ConfigureOp
  <2> QED BY <1>0, <2>1, <2>2
<1>14. CASE x \in [op : {"pushInput"}, config : PrepareInstruction(admin)]
  <2>1. x.op = "pushInput" /\ x.config \in PrepareInstruction(admin)
    BY <1>14
  <2>2. T("pushInput")
    BY <2>1 DEF ConfigureOp
  <2> QED BY <1>0, <2>1, <2>2
<1>15. CASE x \in [op : ListOp]
  <2>1. x.op \in ListOp
    BY <1>15
  <2>2. \A op \in ListOp : T(op)
    BY DEF ConfigureOp, ListOp
  <2> HIDE DEF T
  <2> QED BY <1>0, <2>1, <2>2
<1>16. x \in PlanInstruction(admin) \/ x \in LoopInstruction(admin)
  BY DEF AnyInstruction
<1>17. CASE x \in LoopInstruction(admin)
  <2> DEFINE A == [op : {"keepStrategy"}, name : StrategyName]
             B == [op : {"pushInput"}, config : PrepareInstruction(admin)]
             C == [op : ListOp]
  <2>1. x \in A \cup B \cup C
    BY <1>17, Zenon DEF LoopInstruction
  <2> HIDE DEF A, B, C
  <2>2. x \in A \/ x \in B \/ x \in C
    BY <2>1
  <2> QED BY <2>2, <1>13, <1>14, <1>15 DEF A, B, C
<1>18. CASE x \in PlanInstruction(admin)
  <2> DEFINE A == [op : {"rawInsert"}, key : Symbol, address : Nat]
             B == {initialize("Counter"), initialize("CounterConfigurator")}
             C == [op : {"setAssetPrice"}, symbol : Symbol]
             D == [op : {"authorizeCounter", "enterHelper", "setCRT"}]
             E == [op : {"callForEachInput"}, call : ListOp]
             F == [op : ConfigureOp, symbol : Symbol, tier : Tier \cup {"admin"}, params : Params]
             G == [op : {"setPoolPause"}, paused : {FALSE}]
  <2>1. x \in DeployInstruction \cup RegisterInstruction \cup SetInstruction
              \cup PrepareInstruction(admin) \cup AttachInstruction
              \cup A \cup B \cup C \cup D \cup E \cup F \cup G
    BY <1>18, Zenon DEF PlanInstruction
  <2> HIDE DEF A, B, C, D, E, F, G
  <2>2. \/ x \in DeployInstruction \/ x \in RegisterInstruction \/ x \in SetInstruction
        \/ x \in PrepareInstruction(admin) \/ x \in AttachInstruction
        \/ x \in A \/ x \in B \/ x \in C \/ x \in D \/ x \in E \/ x \in F \/ x \in G
    BY <2>1
  <2>3. /\ x \in A => Kinds(admin, x)
        /\ x \in B => Kinds(admin, x)
        /\ x \in C => Kinds(admin, x)
        /\ x \in D => Kinds(admin, x)
    BY <1>6, <1>7, <1>8, <1>9, Zenon DEF A, B, C, D
  <2>4. /\ x \in E => Kinds(admin, x)
        /\ x \in F => Kinds(admin, x)
        /\ x \in G => Kinds(admin, x)
    BY <1>10, <1>11, <1>12, Zenon DEF E, F, G
  <2> QED BY <2>2, <2>3, <2>4, <1>1, <1>2, <1>3, <1>4, <1>5, Zenon
<1> QED BY <1>16, <1>17, <1>18

\* A run about to do an instruction.
LEMMA AboutTo ==
    ASSUME NEW p \in Run, TodoInv(p), todo[p] # << >>
    PROVE  /\ Kinds(Admin(script[p]), Instruction(p))
           /\ Needs(Instruction(p)) \subseteq Has(p)
           /\ Instruction(p).op \in ListOp => 1 <= Len(inputs[p])
           /\ Tail(todo[p]) # << >> =>
                  /\ Head(Tail(todo[p])) # deployProvider
                  /\ Head(Tail(todo[p])).op = "enableBorrowingOnReserve" =>
                         ThenBorrowing(Instruction(p), Head(Tail(todo[p])))
BY TodoHead, InstructionKinds DEF TodoInv, Instruction

\* What it takes for a token to be there.
LEMMA TokensOf ==
    ASSUME NEW p
    PROVE  /\ \A name : Variable(name) \in Has(p) <=> name \in DOMAIN locals[p]
           /\ \A key : Entry(key) \in Has(p) <=> key \in ReadKey /\ HasEntryOf(p, key)
           /\ \A name : Strategy(name) \in Has(p) <=> name \in DOMAIN strategies[p]
           /\ Oracle \in Has(p) <=> HasOracle(p)
           /\ Prepared \in Has(p) <=> script[p] = "mainnet"
BY DEF Has, Variable, Entry, Strategy, Oracle, Prepared

\* A run never loses what earlier instructions have given it.
LEMMA HasGrows ==
    ASSUME NEW p, DOMAIN locals[p] \subseteq DOMAIN locals'[p],
           DOMAIN strategies[p] \subseteq DOMAIN strategies'[p],
           \A key \in ReadKey : HasEntryOf(p, key) => HasEntryOf(p, key)',
           HasOracle(p) => HasOracle(p)', script' = script
    PROVE  Has(p) \subseteq Has(p)'
<1>1. {Variable(name) : name \in DOMAIN locals[p]} \subseteq {Variable(name) : name \in DOMAIN locals'[p]}
  OBVIOUS
<1>2. {Strategy(name) : name \in DOMAIN strategies[p]} \subseteq {Strategy(name) : name \in DOMAIN strategies'[p]}
  OBVIOUS
<1>3. {Entry(key) : key \in {key \in ReadKey : HasEntryOf(p, key)}} \subseteq
      {Entry(key) : key \in {key \in ReadKey : HasEntryOf(p, key)'}}
  OBVIOUS
<1>4. (IF HasOracle(p) THEN {Oracle} ELSE {}) \subseteq (IF HasOracle(p)' THEN {Oracle} ELSE {})
  OBVIOUS
<1> QED BY <1>1, <1>2, <1>3, <1>4 DEF Has

-----------------------------------------------------------------------------
(***************************************************************************)
(* What a step leaves alone.                                               *)
(***************************************************************************)

\* Only the memory of p changes.
OnlyOf(p) ==
    /\ UNCHANGED runVars
    /\ DOMAIN todo' = Run /\ DOMAIN locals' = Run
    /\ DOMAIN inputs' = Run /\ DOMAIN strategies' = Run
    /\ \A q \in Run : q # p => /\ locals'[q] = locals[q]
                               /\ inputs'[q] = inputs[q]
                               /\ strategies'[q] = strategies[q]

StepsOfRun(p) ==
    \/ Deploy(p) \/ Register(p) \/ RawInsert(p) \/ Attach(p)
    \/ Set(p) \/ InitializeCounter(p) \/ InitializeConfigurator(p)
    \/ SetAssetPrice(p) \/ AuthorizeCounter(p)
    \/ EnterHelper(p) \/ Prepare(p) \/ KeepStrategy(p) \/ PushInput(p)
    \/ CallForEachInput(p) \/ InitReserve(p) \/ UpgradeAssetClass(p)
    \/ ConfigureReserveAsCollateral(p) \/ EnableBorrowingOnReserve(p)
    \/ SetReserveFactor(p) \/ SetCRT(p) \/ SetPoolPause(p)

LEMMA TodoDomain ==
    ASSUME RunsInv, NEW p \in Run, StepsOfRun(p)
    PROVE  DOMAIN todo' = Run
<1>1. (\E s : todo' = [todo EXCEPT ![p] = s])
  BY DEF StepsOfRun, Deploy, Register, RawInsert, Attach, Set, InitializeCounter,
         InitializeConfigurator, SetAssetPrice, AuthorizeCounter, EnterHelper, Prepare,
         KeepStrategy, PushInput, CallForEachInput, InitReserve, UpgradeAssetClass,
         ConfigureReserveAsCollateral, EnableBorrowingOnReserve, SetReserveFactor, SetCRT,
         SetPoolPause, Configure, Done, Expand
<1> QED BY <1>1 DEF RunsInv

LEMMA StepsAreOfRun ==
    ASSUME RunsInv, NEW p \in Run, StepsOfRun(p)
    PROVE  OnlyOf(p) /\ Running(p) /\ todo[p] # << >>
<1>1. Running(p) /\ todo[p] # << >>
  BY DEF StepsOfRun, Deploy, Register, RawInsert, Attach, Set, InitializeCounter,
         InitializeConfigurator, SetAssetPrice, AuthorizeCounter, EnterHelper, Prepare,
         KeepStrategy, PushInput, CallForEachInput, InitReserve, UpgradeAssetClass,
         ConfigureReserveAsCollateral, EnableBorrowingOnReserve, SetReserveFactor, SetCRT,
         SetPoolPause, Doing
<1>2. UNCHANGED runVars
  BY DEF StepsOfRun, Deploy, Register, RawInsert, Attach, Set, InitializeCounter,
         InitializeConfigurator, SetAssetPrice, AuthorizeCounter, EnterHelper, Prepare,
         KeepStrategy, PushInput, CallForEachInput, InitReserve, UpgradeAssetClass,
         ConfigureReserveAsCollateral, EnableBorrowingOnReserve, SetReserveFactor, SetCRT,
         SetPoolPause, Configure
<1>3. DOMAIN locals = Run /\ DOMAIN inputs = Run /\ DOMAIN strategies = Run
  BY DEF RunsInv
<1>4. locals' = locals \/ \E v : locals' = [locals EXCEPT ![p] = v]
  BY DEF StepsOfRun, Deploy, Register, RawInsert, Attach, Set, InitializeCounter,
         InitializeConfigurator, SetAssetPrice, AuthorizeCounter, EnterHelper, Prepare,
         KeepStrategy, PushInput, CallForEachInput, InitReserve, UpgradeAssetClass,
         ConfigureReserveAsCollateral, EnableBorrowingOnReserve, SetReserveFactor, SetCRT,
         SetPoolPause, Configure, localVars, Assign
<1>5. inputs' = inputs \/ \E v : inputs' = [inputs EXCEPT ![p] = v]
  BY DEF StepsOfRun, Deploy, Register, RawInsert, Attach, Set, InitializeCounter,
         InitializeConfigurator, SetAssetPrice, AuthorizeCounter, EnterHelper, Prepare,
         KeepStrategy, PushInput, CallForEachInput, InitReserve, UpgradeAssetClass,
         ConfigureReserveAsCollateral, EnableBorrowingOnReserve, SetReserveFactor, SetCRT,
         SetPoolPause, Configure, localVars
<1>6. strategies' = strategies \/ \E v : strategies' = [strategies EXCEPT ![p] = v]
  BY DEF StepsOfRun, Deploy, Register, RawInsert, Attach, Set, InitializeCounter,
         InitializeConfigurator, SetAssetPrice, AuthorizeCounter, EnterHelper, Prepare,
         KeepStrategy, PushInput, CallForEachInput, InitReserve, UpgradeAssetClass,
         ConfigureReserveAsCollateral, EnableBorrowingOnReserve, SetReserveFactor, SetCRT,
         SetPoolPause, Configure, localVars
<1>7. DOMAIN locals' = Run /\ \A q \in Run : q # p => locals'[q] = locals[q]
  BY <1>3, <1>4
<1>8. DOMAIN inputs' = Run /\ \A q \in Run : q # p => inputs'[q] = inputs[q]
  BY <1>3, <1>5
<1>9. DOMAIN strategies' = Run /\ \A q \in Run : q # p => strategies'[q] = strategies[q]
  BY <1>3, <1>6
<1> QED BY <1>1, <1>2, <1>7, <1>8, <1>9, TodoDomain DEF OnlyOf

LEMMA RunsKept ==
    ASSUME RunsInv, NEW p \in Run, Running(p), OnlyOf(p)
    PROVE  RunsInv'
<1>1. status' = status /\ script' = script /\ started' = started
  BY DEF OnlyOf, runVars
<1>2. \A q \in Run : ~Running(q) => q # p
  OBVIOUS
<1>3. \A q \in Run : Running(q)' <=> Running(q)
  BY <1>1 DEF Running
<1>4. \A q \in Run : ~Running(q)' =>
          locals'[q] = << >> /\ inputs'[q] = << >> /\ strategies'[q] = << >>
  BY <1>2, <1>3 DEF RunsInv, OnlyOf
<1> QED BY <1>1, <1>3, <1>4 DEF RunsInv, OnlyOf

\* A step of one run leaves the memory of the others alone.
LEMMA InvariantKept ==
    ASSUME DInv, NEW p \in Run, Running(p), OnlyOf(p), FileInv', ChainInv', Memory(p)'
    PROVE  DInv'
<1>1. RunsInv'
  BY RunsKept DEF DInv
<1>2. \A q \in Run : Running(q)' => q = p
  BY DEF DInv, RunsInv, OnlyOf, runVars, Running
<1> QED BY <1>1, <1>2 DEF DInv

LEMMA ChainKept ==
    ASSUME ChainInv, UNCHANGED chainVars, UNCHANGED <<started, script>>
    PROVE  ChainInv'
BY DEF ChainInv, CodeInv, RegistryInv, SlotsInv, ConfiguratorsInv, PoolsInv, ReservesInv, OraclesInv, chainVars, providerVars,
       oracleVars, Deployed, Is, OfRun, IsProvider, ReserveInv

\* What has a price and who may draw WETH is none of it.
LEMMA ChainSame ==
    ASSUME ChainInv, UNCHANGED <<code, nextAddress, slots, configurator, pool, source>>,
           UNCHANGED <<started, script>>
    PROVE  ChainInv'
<1>1. CodeInv'
  BY DEF ChainInv, CodeInv, Deployed
<1>2. RegistryInv'
  BY DEF ChainInv, RegistryInv, SlotsInv, ConfiguratorsInv, PoolsInv, Is, IsProvider
<1>3. ReservesInv'
  BY DEF ChainInv, ReservesInv, ReserveInv, OfRun
<1>4. OraclesInv'
  BY DEF ChainInv, OraclesInv
<1> QED BY <1>1, <1>2, <1>3, <1>4 DEF ChainInv

\* Contracts are never lost but with the chain.
CodeGrows == DOMAIN code \subseteq DOMAIN code' /\ \A a \in DOMAIN code : code'[a] = code[a]

LEMMA KindKept ==
    ASSUME CodeGrows, NEW a, NEW contract, NEW p
    PROVE  /\ Is(a, contract, p) => Is(a, contract, p)'
           /\ IsProvider(a, p) => IsProvider(a, p)'
           /\ OfRun(p, a) => OfRun(p, a)'
BY DEF CodeGrows, Is, IsProvider, OfRun

-----------------------------------------------------------------------------
(***************************************************************************)
(* The instructions left after one is done.                                *)
(***************************************************************************)

\* After an instruction that gives what it should, what is left is in order.
LEMMA DoneTodo ==
    ASSUME RunsInv, NEW p \in Run, inputs[p] \in Seq(Inputs), inputs'[p] \in Seq(Inputs),
           TodoInv(p), todo[p] # << >>, Done(p), script' = script,
           Len(inputs[p]) <= Len(inputs'[p]) + 1,
           (Has(p) \cup Gives(Instruction(p))) \subseteq Has(p)',
           ThenBorrowing(Instruction(p), Head(todo'[p])) => CollateralIsSet(ConfiguredWord(p))'
    PROVE  TodoInv(p)'
<1> DEFINE s == todo[p]
           admin == Admin(script[p])
           K == Has(p)
           L == Has(p)'
           n == Len(inputs[p])
           m == Len(inputs'[p])
<1>1. todo'[p] = Tail(s)
  BY DEF Done, RunsInv
<1>2. n \in Nat /\ m \in Nat /\ n <= m + 1
  OBVIOUS
<1>3. Todo(admin, K, s, n) /\ s # << >> /\ K \cup Gives(Head(s)) \subseteq L
  BY DEF TodoInv, Instruction
<1> HIDE DEF s, admin, K, L, n, m
<1>4. Todo(admin, L, Tail(s), m)
  BY <1>2, <1>3, TodoTail
<1>5. Tail(s) # << >> =>
          /\ Head(Tail(s)) # deployProvider
          /\ Head(Tail(s)).op = "enableBorrowingOnReserve" => ThenBorrowing(Head(s), Head(Tail(s)))
  BY <1>3, TodoHead
<1>6. Todo(Admin(script'[p]), Has(p)', todo'[p], Len(inputs'[p]))
  BY <1>1, <1>4 DEF admin, L, m
<1>7. todo'[p] # << >> => /\ Head(todo'[p]) # deployProvider
                          /\ Head(todo'[p]).op = "enableBorrowingOnReserve" =>
                                 CollateralIsSet(ConfiguredWord(p))'
  BY <1>1, <1>5 DEF s, Instruction
<1> QED BY <1>6, <1>7 DEF TodoInv

\* The same for an instruction that leaves the inputs and makes no collateral.
LEMMA PlainTodo ==
    ASSUME DInv, NEW p \in Run, Running(p), todo[p] # << >>, Done(p), script' = script,
           inputs' = inputs, Instruction(p).op # "configureReserveAsCollateral",
           (Has(p) \cup Gives(Instruction(p))) \subseteq Has(p)'
    PROVE  TodoInv(p)'
<1>1. /\ RunsInv /\ TodoInv(p) /\ inputs[p] \in Seq(Inputs)
      /\ inputs'[p] \in Seq(Inputs) /\ Len(inputs[p]) <= Len(inputs'[p]) + 1
  BY DEF DInv, Memory, HelperInv
<1>2. ~ThenBorrowing(Instruction(p), Head(todo'[p]))
  BY DEF ThenBorrowing
<1> QED BY <1>1, <1>2, DoneTodo

-----------------------------------------------------------------------------
(***************************************************************************)
(* Calls of contracts.                                                     *)
(***************************************************************************)

\* What a running run knows, unpacked.
LEMMA Remembers ==
    ASSUME DInv, NEW p \in Run, StepsOfRun(p)
    PROVE  /\ LocalsInv(p) /\ HelperInv(p) /\ TodoInv(p) /\ OnlyOf(p) /\ Running(p)
           /\ todo[p] # << >> /\ script' = script /\ started' = started
           /\ Kinds(Admin(script[p]), Instruction(p))
           /\ Needs(Instruction(p)) \subseteq Has(p)
<1>1. RunsInv
  BY DEF DInv
<1>2. OnlyOf(p) /\ Running(p) /\ todo[p] # << >>
  BY <1>1, StepsAreOfRun
<1>3. LocalsInv(p) /\ HelperInv(p) /\ TodoInv(p)
  BY <1>2 DEF DInv, Memory
<1>4. Kinds(Admin(script[p]), Instruction(p)) /\ Needs(Instruction(p)) \subseteq Has(p)
  BY <1>2, <1>3, AboutTo
<1> QED BY <1>2, <1>3, <1>4 DEF OnlyOf, runVars

LEMMA LocalsKept ==
    ASSUME NEW p, LocalsInv(p), locals' = locals, code' = code, script' = script
    PROVE  LocalsInv(p)'
BY DEF LocalsInv, Is, OfRun, IsProvider

LEMMA HelperKept ==
    ASSUME NEW p, HelperInv(p), inputs' = inputs, strategies' = strategies, script' = script,
           CodeGrows
    PROVE  HelperInv(p)'
BY KindKept DEF HelperInv

LEMMA EntriesKept ==
    ASSUME NEW p, db' = db, CodeGrows, script' = script, NEW key, HasEntryOf(p, key)
    PROVE  HasEntryOf(p, key)'
BY KindKept DEF HasEntryOf

\* A call changes nothing but the chain.
LEMMA CallKeeps ==
    ASSUME DInv, NEW p \in Run, StepsOfRun(p), Done(p),
           UNCHANGED <<locals, inputs, strategies, db, code>>, ChainInv',
           Instruction(p).op # "configureReserveAsCollateral",
           HasOracle(p) => HasOracle(p)', Gives(Instruction(p)) \subseteq Has(p)'
    PROVE  DInv'
<1>1. /\ LocalsInv(p) /\ HelperInv(p) /\ TodoInv(p) /\ OnlyOf(p) /\ Running(p)
      /\ todo[p] # << >> /\ script' = script
  BY Remembers
<1>2. CodeGrows
  BY DEF CodeGrows
<1>3. LocalsInv(p)' /\ HelperInv(p)'
  BY <1>1, <1>2, LocalsKept, HelperKept
<1>4. Has(p) \subseteq Has(p)'
  <2>1. \A key \in ReadKey : HasEntryOf(p, key) => HasEntryOf(p, key)'
    BY <1>1, <1>2, EntriesKept
  <2> QED BY <1>1, <2>1, HasGrows
<1>5. TodoInv(p)'
  BY <1>1, <1>4, PlainTodo
<1>6. FileInv'
  BY DEF DInv, FileInv
<1> QED BY <1>1, <1>3, <1>5, <1>6, InvariantKept DEF Memory

LEMMA PricesSteps ==
    ASSUME DInv, NEW p \in Run, SetAssetPrice(p) \/ AuthorizeCounter(p)
    PROVE  DInv'
<1>1. StepsOfRun(p)
  BY DEF StepsOfRun
<1>2. /\ Done(p) /\ UNCHANGED <<locals, inputs, strategies, db, code>>
      /\ Instruction(p).op \in {"setAssetPrice", "authorizeCounter"}
      /\ UNCHANGED <<nextAddress, slots, configurator, pool, source>>
  BY DEF SetAssetPrice, AuthorizeCounter, localVars, providerVars, oracleVars, Doing, Instruction
<1>3. ChainInv'
  <2>1. script' = script /\ started' = started
    BY <1>1, Remembers
  <2> QED BY <1>2, <2>1, ChainSame DEF DInv
<1>4. Gives(Instruction(p)) = {}
  BY <1>2 DEF Gives
<1>5. HasOracle(p) => HasOracle(p)'
  BY <1>2 DEF HasOracle
<1> QED BY <1>1, <1>2, <1>3, <1>4, <1>5, CallKeeps

\* The run's own contracts, by the variables that name them.
LEMMA OwnContracts ==
    ASSUME DInv, NEW p, LocalsInv(p), NEW name \in NamedForItsKind, name \in DOMAIN locals[p]
    PROVE  /\ Is(locals[p][name], name, p) /\ locals[p][name] \in DOMAIN code
           /\ code[locals[p][name]].contract = name /\ code[locals[p][name]].by = p
           /\ locals[p][name] \in Nat /\ locals[p][name] # ZERO_ADDRESS
<1>1. Is(locals[p][name], name, p) /\ locals[p][name] \in Nat
  BY DEF LocalsInv
<1>2. locals[p][name] \in DOMAIN code => locals[p][name] # 0
  BY DEF DInv, ChainInv, CodeInv
<1> QED BY <1>1, <1>2 DEF Is, ZERO_ADDRESS

\* Setting one address of a provider to a contract of the provider's run.
LEMMA SlotChanged ==
    ASSUME ChainInv, NEW v \in DOMAIN slots, NEW slot \in Slot, NEW a \in Nat,
           slot \in DOMAIN SlotKind => Is(a, SlotKind[slot], code[v].by),
           slot = "PriceOracle" => a # ZERO_ADDRESS,
           slots' = [slots EXCEPT ![v] = [@ EXCEPT ![slot] = a]],
           UNCHANGED <<started, script, code, nextAddress, configurator, pool, source>>
    PROVE  ChainInv'
<1>1. DOMAIN slots' = DOMAIN slots
  OBVIOUS
<1>2. ASSUME NEW w \in DOMAIN slots
      PROVE  /\ slots'[w] \in [Slot -> Nat]
             /\ \A t \in DOMAIN SlotKind :
                    slots'[w][t] # ZERO_ADDRESS => Is(slots'[w][t], SlotKind[t], code[w].by)
             /\ slots[w]["PriceOracle"] # ZERO_ADDRESS => slots'[w]["PriceOracle"] # ZERO_ADDRESS
  <2>1. /\ slots[w] \in [Slot -> Nat]
        /\ \A t \in DOMAIN SlotKind :
               slots[w][t] # ZERO_ADDRESS => Is(slots[w][t], SlotKind[t], code[w].by)
    BY DEF ChainInv, RegistryInv, SlotsInv
  <2>2. CASE w # v
    BY <2>1, <2>2
  <2>3. CASE w = v
    <3>1. slots'[w] = [slots[w] EXCEPT ![slot] = a]
      BY <2>3
    <3>2. slots'[w] \in [Slot -> Nat]
      BY <2>1, <3>1
    <3>3. \A t \in Slot : slots'[w][t] = IF t = slot THEN a ELSE slots[w][t]
      BY <2>1, <3>1
    <3>4. DOMAIN SlotKind \subseteq Slot /\ "PriceOracle" \in Slot
      BY DEF SlotKind, Slot
    <3> QED BY <2>1, <2>3, <3>2, <3>3, <3>4
  <2> QED BY <2>2, <2>3
<1>3. CodeInv'
  BY <1>1 DEF ChainInv, CodeInv, Deployed
<1>4. RegistryInv'
  <2>1. SlotsInv'
    <3>1. \A w \in DOMAIN slots' :
             /\ slots'[w] \in [Slot -> Nat]
             /\ \A t \in DOMAIN SlotKind :
                    slots'[w][t] # ZERO_ADDRESS => Is(slots'[w][t], SlotKind[t], code[w].by)
      BY <1>1, <1>2
    <3>2. slots' = [w \in DOMAIN slots' |-> slots'[w]]
      OBVIOUS
    <3> QED BY <3>1, <3>2 DEF SlotsInv, Is
  <2>2. ConfiguratorsInv' /\ PoolsInv'
    BY DEF ChainInv, RegistryInv, ConfiguratorsInv, PoolsInv, Is, IsProvider
  <2> QED BY <2>1, <2>2 DEF RegistryInv
<1>5. ReservesInv'
  <2> SUFFICES ASSUME NEW c \in DOMAIN pool, NEW r \in DOMAIN pool[c].reserves
               PROVE  ReserveInv(code[c].by, pool[c], r)'
    BY DEF ReservesInv
  <2>1. ReserveInv(code[c].by, pool[c], r)
    BY DEF ChainInv, ReservesInv
  <2>2. pool[c].provider # ZERO_ADDRESS => pool[c].provider \in DOMAIN slots
    <3>1. pool[c].provider # ZERO_ADDRESS => IsProvider(pool[c].provider, code[c].by)
      BY DEF ChainInv, RegistryInv, PoolsInv
    <3>2. DOMAIN slots = Deployed("CounterAddressesProvider")
      BY DEF ChainInv, CodeInv
    <3> QED BY <3>1, <3>2 DEF Deployed, IsProvider, Is
  <2> QED BY <1>2, <2>1, <2>2 DEF ReserveInv, OfRun
<1>6. OraclesInv'
  BY DEF ChainInv, OraclesInv
<1> QED BY <1>3, <1>4, <1>5, <1>6 DEF ChainInv

LEMMA SetSteps == ASSUME DInv, NEW p \in Run, Set(p) PROVE DInv'
<1> DEFINE v == locals[p]["CounterAddressesProvider"]
           slot == Instruction(p).slot
           as == Instruction(p).as
           a == Get(p, as)
<1>1. StepsOfRun(p)
  BY DEF StepsOfRun
<1>2. /\ LocalsInv(p) /\ Needs(Instruction(p)) \subseteq Has(p) /\ script' = script
      /\ started' = started /\ Kinds(Admin(script[p]), Instruction(p))
  BY <1>1, Remembers
<1>3. /\ Done(p) /\ UNCHANGED <<locals, inputs, strategies, db, code>>
      /\ Instruction(p).op = "set"
      /\ UNCHANGED <<nextAddress, configurator, pool, source>>
      /\ slots' = [slots EXCEPT ![v] = [@ EXCEPT ![slot] = a]]
  BY DEF Set, localVars, providerVars, oracleVars, Doing, Instruction
<1>4. Instruction(p) \in SetInstruction
  BY <1>2, <1>3 DEF Kinds
<1>5. /\ "CounterAddressesProvider" \in DOMAIN locals[p]
      /\ as # "admin" => as \in DOMAIN locals[p]
  <2>1. Variable("CounterAddressesProvider") \in Has(p) /\ (as # "admin" => Variable(as) \in Has(p))
    <3>1. Needs(Instruction(p)) = {Variable("CounterAddressesProvider")}
                                   \cup (IF as = "admin" THEN {} ELSE {Variable(as)})
      BY <1>3 DEF Needs, ConfigureOp, ListOp
    <3> HIDE DEF as
    <3> QED BY <1>2, <3>1
  <2> QED BY <2>1, TokensOf
<1>6. v \in DOMAIN slots /\ code[v].by = p /\ code[v].contract = "CounterAddressesProvider"
  <2>1. v \in DOMAIN code /\ code[v].contract = "CounterAddressesProvider" /\ code[v].by = p
    BY <1>2, <1>5, OwnContracts DEF NamedForItsKind, ReadKey
  <2> QED BY <2>1 DEF DInv, ChainInv, CodeInv, Deployed
<1>7. /\ slot \in Slot
      /\ \/ slot = "PoolAdmin" /\ as = "admin"
         \/ slot = "EmergencyAdmin" /\ as = "admin"
         \/ slot = "Counter" /\ as = "Counter"
         \/ slot = "CounterConfigurator" /\ as = "CounterConfigurator"
         \/ slot = "PriceOracle" /\ as = "PrestareOracle"
         \/ slot = "CounterCollateralManager" /\ as = "CounterCollateralManager"
  BY <1>4 DEF SetInstruction, set, Slot
<1>8. a \in Nat
  BY <1>2, <1>5 DEF Get, LocalsInv, Deployer
<1>9. /\ slot \in DOMAIN SlotKind => Is(a, SlotKind[slot], p)
      /\ slot = "PriceOracle" => a # ZERO_ADDRESS
  <2>1. slot = "Counter" => Is(a, "Counter", p)
    BY <1>2, <1>5, <1>7, OwnContracts DEF NamedForItsKind, ReadKey, Get
  <2>2. slot = "CounterConfigurator" => Is(a, "CounterConfigurator", p)
    BY <1>2, <1>5, <1>7, OwnContracts DEF NamedForItsKind, ReadKey, Get
  <2>3. slot = "PriceOracle" => Is(a, "PrestareOracle", p) /\ a # ZERO_ADDRESS
    BY <1>2, <1>5, <1>7, OwnContracts DEF NamedForItsKind, ReadKey, Get
  <2> HIDE DEF a, slot
  <2> QED BY <2>1, <2>2, <2>3 DEF SlotKind
<1>10. ChainInv'
  <2>1. ChainInv
    BY DEF DInv
  <2> HIDE DEF v, slot, a
  <2> QED BY <1>2, <1>3, <1>6, <1>7, <1>8, <1>9, <2>1, SlotChanged
<1>11. slots'[v]["PriceOracle"] = IF slot = "PriceOracle" THEN a ELSE slots[v]["PriceOracle"]
  <2>1. slots[v] \in [Slot -> Nat]
    BY <1>6 DEF DInv, ChainInv, RegistryInv, SlotsInv
  <2> HIDE DEF v, slot, a
  <2> QED BY <1>3, <1>6, <2>1 DEF Slot
<1>12. HasOracle(p) => HasOracle(p)'
  BY <1>3, <1>9, <1>11 DEF HasOracle
<1>13. Gives(Instruction(p)) \subseteq Has(p)'
  <2>1. CASE slot = "PriceOracle"
    <3>1. HasOracle(p)'
      BY <1>3, <1>5, <1>9, <1>11, <2>1 DEF HasOracle
    <3>2. Oracle \in Has(p)'
      BY <3>1 DEF Has
    <3> QED BY <1>3, <2>1, <3>2 DEF Gives
  <2>2. CASE slot # "PriceOracle"
    BY <1>3, <2>2 DEF Gives
  <2> QED BY <2>1, <2>2
<1> QED BY <1>1, <1>3, <1>10, <1>12, <1>13, CallKeeps

\* A call that leaves a pool with its own provider and reserves.
LEMMA PoolRewritten ==
    ASSUME ChainInv, NEW c, NEW P, pool' = [pool EXCEPT ![c] = P],
           UNCHANGED <<started, script, code, nextAddress, slots, configurator, source>>,
           c \in DOMAIN pool =>
               /\ P.provider \in Nat
               /\ P.provider # ZERO_ADDRESS => IsProvider(P.provider, code[c].by)
               /\ P.paused \in BOOLEAN
               /\ \A r \in DOMAIN P.reserves : ReserveInv(code[c].by, P, r)
    PROVE  ChainInv'
<1>1. DOMAIN pool' = DOMAIN pool
  OBVIOUS
<1>2. \A d \in DOMAIN pool : pool'[d] = pool[d] \/ (d = c /\ pool'[d] = P)
  OBVIOUS
<1>3. CodeInv' /\ OraclesInv'
  BY <1>1 DEF ChainInv, CodeInv, OraclesInv, Deployed
<1>4. SlotsInv' /\ ConfiguratorsInv'
  BY DEF ChainInv, RegistryInv, SlotsInv, ConfiguratorsInv, Is
<1>5. PoolsInv'
  <2>1. PoolsInv
    BY DEF ChainInv, RegistryInv
  <2>2. \A d \in DOMAIN pool' :
            /\ pool'[d].provider \in Nat
            /\ pool'[d].provider # ZERO_ADDRESS => IsProvider(pool'[d].provider, code[d].by)
            /\ pool'[d].paused \in BOOLEAN
    BY <1>1, <1>2, <2>1 DEF PoolsInv
  <2> QED BY <2>2 DEF PoolsInv, IsProvider, Is
<1>6. ReservesInv'
  <2>1. ReservesInv
    BY DEF ChainInv
  <2>2. \A d \in DOMAIN pool' : \A r \in DOMAIN pool'[d].reserves :
            ReserveInv(code[d].by, pool'[d], r)
    BY <1>1, <1>2, <2>1, Zenon DEF ReservesInv
  <2> QED BY <2>2 DEF ReservesInv, ReserveInv, OfRun
<1> QED BY <1>3, <1>4, <1>5, <1>6 DEF ChainInv, RegistryInv

\* A pool as the scripts' invariant has it.
LEMMA PoolFields ==
    ASSUME DInv, NEW c \in DOMAIN pool
    PROVE  /\ pool[c].provider \in Nat
           /\ pool[c].provider # ZERO_ADDRESS => IsProvider(pool[c].provider, code[c].by)
           /\ pool[c].paused \in BOOLEAN
           /\ \A r \in DOMAIN pool[c].reserves : ReserveInv(code[c].by, pool[c], r)
           /\ c \in DOMAIN code /\ code[c].contract = "Counter" /\ c \in Nat \ {0}
BY DEF DInv, ChainInv, RegistryInv, PoolsInv, ReservesInv, CodeInv, Deployed

\* The fields of a pool that initialisation and governance write.
LEMMA FieldUpdate ==
    ASSUME NEW P, IsPool(P), NEW v
    PROVE  /\ [P EXCEPT !.provider = v].provider = v
           /\ [P EXCEPT !.provider = v].reserves = P.reserves
           /\ [P EXCEPT !.provider = v].paused = P.paused
           /\ [P EXCEPT !.crt = v].provider = P.provider
           /\ [P EXCEPT !.crt = v].reserves = P.reserves
           /\ [P EXCEPT !.crt = v].paused = P.paused
           /\ [P EXCEPT !.paused = v].provider = P.provider
           /\ [P EXCEPT !.paused = v].reserves = P.reserves
           /\ [P EXCEPT !.paused = v].paused = v
BY DEF IsPool

LEMMA InitializePoolSteps ==
    ASSUME DInv, IInv, NEW p \in Run, InitializeCounter(p)
    PROVE  DInv'
<1> DEFINE c == locals[p]["Counter"]
           v == locals[p]["CounterAddressesProvider"]
           P == [pool[c] EXCEPT !.provider = v]
<1>1. StepsOfRun(p)
  BY DEF StepsOfRun
<1>2. /\ LocalsInv(p) /\ Needs(Instruction(p)) \subseteq Has(p) /\ script' = script
      /\ started' = started /\ Kinds(Admin(script[p]), Instruction(p))
  BY <1>1, Remembers
<1>3. /\ Done(p) /\ UNCHANGED <<locals, inputs, strategies, db, code>>
      /\ Instruction(p).op = "initialize" /\ Instruction(p).as = "Counter"
      /\ UNCHANGED <<nextAddress, slots, configurator, source>>
      /\ pool' = [pool EXCEPT ![c] = P]
  BY DEF InitializeCounter, localVars, providerVars, oracleVars, Doing, Instruction
<1>4. "CounterAddressesProvider" \in DOMAIN locals[p] /\ "Counter" \in DOMAIN locals[p]
  <2>1. Needs(Instruction(p)) = {Variable("CounterAddressesProvider"), Variable("Counter")}
    BY <1>3 DEF Needs, ConfigureOp, ListOp
  <2> QED BY <1>2, <2>1, TokensOf
<1>5. IsProvider(v, p) /\ v \in Nat /\ v # ZERO_ADDRESS /\ code[c].by = p
  BY <1>2, <1>4, OwnContracts DEF NamedForItsKind, ReadKey, IsProvider
<1>6. ASSUME c \in DOMAIN pool
      PROVE  /\ P.provider \in Nat
             /\ P.provider # ZERO_ADDRESS => IsProvider(P.provider, code[c].by)
             /\ P.paused \in BOOLEAN
             /\ \A r \in DOMAIN P.reserves : ReserveInv(code[c].by, P, r)
  <2>1. IsPool(pool[c])
    BY <1>6 DEF IInv
  <2>2. P.provider = v /\ P.reserves = pool[c].reserves /\ P.paused = pool[c].paused
    BY <2>1, FieldUpdate
  <2>3. /\ pool[c].provider # ZERO_ADDRESS => IsProvider(pool[c].provider, p)
        /\ pool[c].paused \in BOOLEAN
        /\ \A r \in DOMAIN pool[c].reserves : ReserveInv(p, pool[c], r)
    BY <1>5, <1>6, PoolFields
  <2>4. pool[c].provider # ZERO_ADDRESS => pool[c].provider = v
    BY <1>2, <2>3 DEF LocalsInv, IsProvider, Is
  <2> HIDE DEF P, v
  <2>5. \A r \in DOMAIN P.reserves : ReserveInv(p, P, r)
    BY <1>5, <2>2, <2>3, <2>4 DEF ReserveInv
  <2> QED BY <1>5, <2>2, <2>3, <2>5
<1>7. ChainInv'
  <2>1. ChainInv
    BY DEF DInv
  <2> HIDE DEF P, v, c
  <2> QED BY <1>2, <1>3, <1>6, <2>1, PoolRewritten
<1>8. Gives(Instruction(p)) = {}
  BY <1>3 DEF Gives
<1>9. HasOracle(p) => HasOracle(p)'
  BY <1>3 DEF HasOracle
<1> QED BY <1>1, <1>3, <1>7, <1>8, <1>9, CallKeeps

LEMMA InitializeConfiguratorSteps ==
    ASSUME DInv, NEW p \in Run, InitializeConfigurator(p)
    PROVE  DInv'
<1> DEFINE f == locals[p]["CounterConfigurator"]
           v == locals[p]["CounterAddressesProvider"]
           state == [addressesProvider |-> v, counter |-> slots[v]["Counter"]]
<1>1. StepsOfRun(p)
  BY DEF StepsOfRun
<1>2. /\ LocalsInv(p) /\ Needs(Instruction(p)) \subseteq Has(p) /\ script' = script
      /\ started' = started
  BY <1>1, Remembers
<1>3. /\ Done(p) /\ UNCHANGED <<locals, inputs, strategies, db, code>>
      /\ Instruction(p).op = "initialize" /\ Instruction(p).as = "CounterConfigurator"
      /\ UNCHANGED <<nextAddress, slots, pool, source>>
      /\ configurator' = Put(configurator, f, state)
  BY DEF InitializeConfigurator, localVars, providerVars, oracleVars, Doing, Instruction
<1>4. "CounterAddressesProvider" \in DOMAIN locals[p] /\ "CounterConfigurator" \in DOMAIN locals[p]
  <2>1. Needs(Instruction(p)) = {Variable("CounterAddressesProvider"), Variable("CounterConfigurator")}
    BY <1>3 DEF Needs, ConfigureOp, ListOp
  <2> QED BY <1>2, <2>1, TokensOf
<1>5. /\ v \in DOMAIN code /\ code[v].contract = "CounterAddressesProvider" /\ code[v].by = p
      /\ f \in DOMAIN code /\ code[f].contract = "CounterConfigurator" /\ code[f].by = p
  BY <1>2, <1>4, OwnContracts DEF NamedForItsKind, ReadKey
<1>6. v \in DOMAIN slots
  BY <1>5 DEF DInv, ChainInv, CodeInv, Deployed
<1>7. state.counter # ZERO_ADDRESS => Is(state.counter, "Counter", p)
  <2>1. slots[v]["Counter"] # ZERO_ADDRESS => Is(slots[v]["Counter"], "Counter", p)
    BY <1>5, <1>6 DEF DInv, ChainInv, RegistryInv, SlotsInv, SlotKind
  <2> QED BY <2>1
<1>8. ChainInv'
  <2>1. CodeInv /\ SlotsInv /\ ConfiguratorsInv /\ PoolsInv /\ ReservesInv /\ OraclesInv
    BY DEF DInv, ChainInv, RegistryInv
  <2> HIDE DEF f, v, state
  <2>2. DOMAIN configurator' = DOMAIN configurator \cup {f}
    BY <1>3 DEF Put
  <2>3. \A g \in DOMAIN configurator' :
            configurator'[g] = IF g = f THEN state ELSE configurator[g]
    BY <1>3 DEF Put
  <2>4. CodeInv'
    BY <1>2, <1>3, <1>5, <2>1, <2>2 DEF CodeInv, Deployed
  <2>5. ConfiguratorsInv'
    <3>1. \A g \in DOMAIN configurator' : configurator'[g].counter # ZERO_ADDRESS =>
              Is(configurator'[g].counter, "Counter", code[g].by)
      BY <1>5, <1>7, <2>1, <2>2, <2>3 DEF ConfiguratorsInv
    <3> QED BY <1>3, <3>1 DEF ConfiguratorsInv, Is
  <2>6. SlotsInv' /\ PoolsInv'
    BY <1>3, <2>1 DEF SlotsInv, PoolsInv, Is, IsProvider
  <2>7. ReservesInv' /\ OraclesInv'
    BY <1>2, <1>3, <2>1 DEF ReservesInv, ReserveInv, OraclesInv, OfRun
  <2> QED BY <2>4, <2>5, <2>6, <2>7 DEF ChainInv, RegistryInv
<1>9. Gives(Instruction(p)) = {}
  BY <1>3 DEF Gives
<1>10. HasOracle(p) => HasOracle(p)'
  BY <1>3 DEF HasOracle
<1> QED BY <1>1, <1>3, <1>8, <1>9, <1>10, CallKeeps

LEMMA GovernanceSteps ==
    ASSUME DInv, IInv, NEW p \in Run, SetCRT(p) \/ SetPoolPause(p)
    PROVE  DInv'
<1> DEFINE c == configurator[OwnConfigurator(p)].counter
           crt == locals[p]["CRT"]
           paused == Instruction(p).paused
           P == [pool[c] EXCEPT !.crt = crt]
           Q == [pool[c] EXCEPT !.paused = paused]
<1>1. StepsOfRun(p)
  BY DEF StepsOfRun
<1>2. script' = script /\ started' = started /\ Kinds(Admin(script[p]), Instruction(p))
  BY <1>1, Remembers
<1>3. /\ Done(p) /\ UNCHANGED <<locals, inputs, strategies, db, code>>
      /\ UNCHANGED <<nextAddress, slots, configurator, source>>
      /\ Instruction(p).op \in {"setCRT", "setPoolPause"}
      /\ \/ pool' = [pool EXCEPT ![c] = P]
         \/ pool' = [pool EXCEPT ![c] = Q] /\ Instruction(p).op = "setPoolPause"
  BY DEF SetCRT, SetPoolPause, localVars, providerVars, oracleVars, Doing, Instruction
<1>4. Instruction(p).op = "setPoolPause" => paused \in BOOLEAN
  BY <1>2 DEF Kinds
<1>5. ASSUME c \in DOMAIN pool, NEW R,
             R.provider = pool[c].provider, R.reserves = pool[c].reserves, R.paused \in BOOLEAN
      PROVE  /\ R.provider \in Nat
             /\ R.provider # ZERO_ADDRESS => IsProvider(R.provider, code[c].by)
             /\ R.paused \in BOOLEAN
             /\ \A r \in DOMAIN R.reserves : ReserveInv(code[c].by, R, r)
  BY <1>5, PoolFields DEF ReserveInv
<1>6. c \in DOMAIN pool =>
          /\ P.provider = pool[c].provider /\ P.reserves = pool[c].reserves /\ P.paused \in BOOLEAN
          /\ Q.provider = pool[c].provider /\ Q.reserves = pool[c].reserves
          /\ Instruction(p).op = "setPoolPause" => Q.paused \in BOOLEAN
  <2>1. c \in DOMAIN pool => IsPool(pool[c]) /\ pool[c].paused \in BOOLEAN
    BY PoolFields DEF IInv
  <2> HIDE DEF c, crt, paused
  <2> QED BY <1>4, <2>1, FieldUpdate
<1>7. ChainInv'
  <2>1. ChainInv
    BY DEF DInv
  <2> HIDE DEF P, Q, c
  <2>2. CASE pool' = [pool EXCEPT ![c] = P]
    BY <1>2, <1>3, <1>5, <1>6, <2>1, <2>2, PoolRewritten
  <2>3. CASE pool' = [pool EXCEPT ![c] = Q] /\ Instruction(p).op = "setPoolPause"
    BY <1>2, <1>3, <1>5, <1>6, <2>1, <2>3, PoolRewritten
  <2> QED BY <1>3, <2>2, <2>3
<1>8. Gives(Instruction(p)) = {}
  BY <1>3 DEF Gives
<1>9. HasOracle(p) => HasOracle(p)'
  BY <1>3 DEF HasOracle
<1> QED BY <1>1, <1>3, <1>7, <1>8, <1>9, CallKeeps

-----------------------------------------------------------------------------
(***************************************************************************)
(* What the configurator's calls make of a word.                           *)
(***************************************************************************)

LEMMA ParametersHaveBits ==
    ASSUME NEW params \in Params
    PROVE  Bits(params.baseLTVAsCollateral, 16) # {} /\ Bits(params.liquidationBonus, 16) # {}
<1>1. 2^2 = 4 /\ 2^6 = 64
  OBVIOUS
<1>2. (7500 \div 2^2) % 2 = 1 /\ (8000 \div 2^6) % 2 = 1 /\ (10500 \div 2^2) % 2 = 1
  <2>1. (7500 \div 4) % 2 = 1 /\ (8000 \div 64) % 2 = 1 /\ (10500 \div 4) % 2 = 1
    OBVIOUS
  <2> QED BY <1>1, <2>1
<1>3. 7500 \in Nat /\ 8000 \in Nat /\ 10500 \in Nat /\ 2 \in 0..15 /\ 6 \in 0..15
  OBVIOUS
<1>4. Bits(7500, 16) # {} /\ Bits(8000, 16) # {} /\ Bits(10500, 16) # {}
  BY <1>2, <1>3, SomeBit
<1>5. params.baseLTVAsCollateral \in {7500, 8000} /\ params.liquidationBonus = 10500
  BY DEF Params
<1> QED BY <1>4, <1>5

\* The configurations give a collateral its LTV and its liquidation bonus.
LEMMA CollateralWord ==
    ASSUME NEW word \in SUBSET KnownBit, NEW params \in Params, NEW after,
           after = setLiquidationBonus(
                       setLiquidationThreshold(
                           setLtv(word, Bits(params.baseLTVAsCollateral, 16)),
                           Bits(params.liquidationThreshold, 16)),
                       Bits(params.liquidationBonus, 16))
    PROVE  CollateralIsSet(after)
<1> DEFINE a == Bits(params.baseLTVAsCollateral, 16)
           b == Bits(params.liquidationThreshold, 16)
           c == Bits(params.liquidationBonus, 16)
           w1 == setLtv(word, a)
           w2 == setLiquidationThreshold(w1, b)
<1>1. a \in Number(16) /\ b \in Number(16) /\ c \in Number(16) /\ a # {} /\ c # {}
  BY BitsAreNumber, ParametersHaveBits
<1>2. w1 \subseteq KnownBit
  BY SettersKnown
<1>3. w2 \subseteq KnownBit
  <2> HIDE DEF w1
  <2> QED BY <1>2, SettersKnown
<1>4. word \in Word /\ w1 \in Word /\ w2 \in Word
  <2> HIDE DEF w1, w2
  <2> QED BY <1>2, <1>3, KnownIsWord
<1>5. {} \in Number(8)
  BY DEF Number
<1>6. after = setLiquidationBonus(w2, c)
  OBVIOUS
<1> HIDE DEF a, b, c
<1>7. Loan(w1) = <<a, getLiquidationBonus(word), getBorrowingEnabled(word)>>
  BY <1>1, <1>4, <1>5, LoanSettings
<1>8. Loan(w2) = Loan(w1)
  <2> HIDE DEF w1
  <2> QED BY <1>1, <1>4, <1>5, LoanSettings
<1>9. Loan(after) = <<getLtv(w2), c, getBorrowingEnabled(w2)>>
  <2> HIDE DEF w2
  <2>1. Loan(setLiquidationBonus(w2, c)) = <<getLtv(w2), c, getBorrowingEnabled(w2)>>
    BY <1>1, <1>4, <1>5, LoanSettings
  <2> QED BY <1>6, <2>1, Zenon
<1> HIDE DEF w1, w2
<1>10. getLtv(w2) = a /\ getLtv(after) = getLtv(w2) /\ getLiquidationBonus(after) = c
  BY <1>7, <1>8, <1>9 DEF Loan
<1> QED BY <1>1, <1>10 DEF CollateralIsSet

LEMMA BorrowingWord ==
    ASSUME NEW word \in SUBSET KnownBit, CollateralIsSet(word)
    PROVE  CollateralIsSet(setStableRateBorrowingEnabled(setBorrowingEnabled(word, TRUE), FALSE))
<1> DEFINE w1 == setBorrowingEnabled(word, TRUE)
           w2 == setStableRateBorrowingEnabled(w1, FALSE)
<1>1. w1 \subseteq KnownBit
  BY SettersKnown
<1>2. word \in Word /\ w1 \in Word /\ {} \in Number(8) /\ {} \in Number(16)
  <2> HIDE DEF w1
  <2> QED BY <1>1, KnownIsWord DEF Number
<1>3. Loan(w1) = <<getLtv(word), getLiquidationBonus(word), TRUE>>
  BY <1>2, LoanSettings
<1>4. Loan(w2) = Loan(w1)
  <2> HIDE DEF w1
  <2> QED BY <1>2, LoanSettings
<1> HIDE DEF w1, w2
<1>5. getLtv(w2) = getLtv(word) /\ getLiquidationBonus(w2) = getLiquidationBonus(word)
  BY <1>3, <1>4 DEF Loan
<1>6. CollateralIsSet(w2)
  BY <1>5 DEF CollateralIsSet
<1> QED BY <1>6 DEF w1, w2

\* A reserve is listed with borrowing off.
LEMMA OpenedWord ==
    ASSUME NEW input
    PROVE  ~getBorrowingEnabled(Opened(input))
<1> DEFINE d == Bits(input.underlyingAssetDecimals, 8)
           w1 == setDecimals({}, d)
           w2 == setActive(w1, TRUE)
           w3 == setFrozen(w2, FALSE)
<1>1. {} \subseteq KnownBit /\ d \in Number(8) /\ {} \in Number(16)
  BY BitsAreNumber DEF Number
<1>2. w1 \subseteq KnownBit
  BY <1>1, SettersKnown
<1>3. w2 \subseteq KnownBit
  <2> HIDE DEF w1
  <2> QED BY <1>2, SettersKnown
<1>4. {} \in Word /\ w1 \in Word /\ w2 \in Word
  <2> HIDE DEF w1, w2
  <2> QED BY <1>1, <1>2, <1>3, KnownIsWord
<1>5. Loan(w1) = Loan({})
  <2> HIDE DEF d
  <2> QED BY <1>1, <1>4, LoanSettings
<1>6. Loan(w2) = Loan(w1)
  <2> HIDE DEF w1
  <2> QED BY <1>1, <1>4, LoanSettings
<1>7. Loan(w3) = Loan(w2)
  <2> HIDE DEF w2
  <2> QED BY <1>1, <1>4, LoanSettings
<1>8. ~getBorrowingEnabled({})
  BY DEF getBorrowingEnabled
<1>9. Opened(input) = w3
  BY Zenon DEF Opened
<1> HIDE DEF w1, w2, w3
<1>10. Loan(w3) = Loan({})
  BY <1>5, <1>6, <1>7
<1>11. Loan(w3)[3] = Loan({})[3]
  BY <1>10
<1> QED BY <1>8, <1>9, <1>11 DEF Loan

-----------------------------------------------------------------------------
(***************************************************************************)
(* Calls of the configurator that deployOnMainnet reads from the file.     *)
(***************************************************************************)

\* The pool behind it is the run's own, and so is the provider of that pool.
LEMMA HelperPoolIsOwn ==
    ASSUME DInv, NEW p, LocalsInv(p), script[p] = "mainnet", "configurator" \in DOMAIN locals[p],
           ConfiguratorIsObeyed(locals[p]["configurator"])
    PROVE  /\ HelperCounter(p) \in DOMAIN pool /\ code[HelperCounter(p)].by = p
           /\ pool[HelperCounter(p)].provider # ZERO_ADDRESS
           /\ pool[HelperCounter(p)].provider \in DOMAIN slots
           /\ "CounterAddressesProvider" \in DOMAIN locals[p]
           /\ pool[HelperCounter(p)].provider = locals[p]["CounterAddressesProvider"]
<1> DEFINE f == locals[p]["configurator"]
           c == HelperCounter(p)
<1>1. f \in DOMAIN configurator /\ c \in DOMAIN pool /\ c = configurator[f].counter
      /\ pool[c].provider # ZERO_ADDRESS
  BY DEF ConfiguratorIsObeyed, HelperCounter
<1>2. Is(f, "CounterConfigurator", p)
  BY DEF LocalsInv, ReadBack
<1>3. /\ pool[c].provider # ZERO_ADDRESS => IsProvider(pool[c].provider, code[c].by)
      /\ c \in Nat \ {0}
  BY <1>1, PoolFields
<1>4. Is(c, "Counter", code[f].by)
  BY <1>1, <1>3 DEF DInv, ChainInv, RegistryInv, ConfiguratorsInv, ZERO_ADDRESS
<1>5. code[f].by = p /\ code[c].by = p
  <2>1. code[f].by = p
    BY <1>2 DEF Is
  <2> QED BY <1>4, <2>1 DEF Is
<1>6. IsProvider(pool[c].provider, p)
  BY <1>1, <1>3, <1>5
<1>7. /\ "CounterAddressesProvider" \in DOMAIN locals[p]
      /\ pool[c].provider = locals[p]["CounterAddressesProvider"]
  BY <1>6 DEF LocalsInv, IsProvider, Is
<1>8. pool[c].provider \in DOMAIN slots
  <2>1. DOMAIN slots = Deployed("CounterAddressesProvider")
    BY DEF DInv, ChainInv, CodeInv
  <2> QED BY <1>6, <2>1 DEF IsProvider, Is, Deployed
<1> QED BY <1>1, <1>5, <1>7, <1>8

LEMMA WithWordFields ==
    ASSUME NEW P, IsPool(P), NEW r \in DOMAIN P.reserves, NEW word, NEW Q, Q = WithWord(P, r, word)
    PROVE  /\ Q.provider = P.provider /\ Q.paused = P.paused
           /\ DOMAIN Q.reserves = DOMAIN P.reserves
           /\ \A s \in DOMAIN P.reserves : s # r => Q.reserves[s] = P.reserves[s]
           /\ Q.reserves[r].configuration = word
           /\ Q.reserves[r].pToken = P.reserves[r].pToken
           /\ Q.reserves[r].variableDebtToken = P.reserves[r].variableDebtToken
           /\ Q.reserves[r].interestRateStrategy = P.reserves[r].interestRateStrategy
<1> DEFINE reserve == [P.reserves[r] EXCEPT !.configuration = word]
           reserves == [P.reserves EXCEPT ![r] = reserve]
<1>1. Q = [P EXCEPT !.reserves = reserves]
  BY Zenon DEF WithWord
<1>2. /\ reserve.configuration = word
      /\ reserve.pToken = P.reserves[r].pToken
      /\ reserve.variableDebtToken = P.reserves[r].variableDebtToken
      /\ reserve.interestRateStrategy = P.reserves[r].interestRateStrategy
  <2>1. IsReserve(P.reserves[r])
    BY DEF IsPool
  <2> QED BY <2>1 DEF IsReserve
<1> HIDE DEF reserve
<1>3. /\ DOMAIN reserves = DOMAIN P.reserves /\ reserves[r] = reserve
      /\ \A s \in DOMAIN P.reserves : s # r => reserves[s] = P.reserves[s]
  OBVIOUS
<1> HIDE DEF reserves
<1>4. Q.provider = P.provider /\ Q.paused = P.paused /\ Q.reserves = reserves
  BY <1>1 DEF IsPool
<1> QED BY <1>2, <1>3, <1>4

\* What a run that configures a reserve has.
LEMMA Configured ==
    ASSUME DInv, IInv, NEW p \in Run, StepsOfRun(p), Instruction(p).op \in ConfigureOp,
           CanConfigure(p)
    PROVE  /\ script[p] = "mainnet" /\ HelperCounter(p) \in DOMAIN pool
           /\ code[HelperCounter(p)].by = p
           /\ IsPool(pool[HelperCounter(p)])
           /\ ConfiguredReserve(p) \in DOMAIN pool[HelperCounter(p)].reserves
           /\ ConfiguredWord(p) \in SUBSET KnownBit
           /\ Instruction(p).params \in Params
           /\ pool[HelperCounter(p)].provider # ZERO_ADDRESS
           /\ slots[pool[HelperCounter(p)].provider]["PriceOracle"] # ZERO_ADDRESS
<1> DEFINE c == HelperCounter(p)
<1>1. /\ LocalsInv(p) /\ Needs(Instruction(p)) \subseteq Has(p)
      /\ Kinds(Admin(script[p]), Instruction(p))
  BY Remembers
<1>2. Needs(Instruction(p)) = {Variable("configurator"), Oracle, Prepared}
  BY DEF Needs, ConfigureOp, ListOp
<1>3. script[p] = "mainnet" /\ "configurator" \in DOMAIN locals[p] /\ HasOracle(p)
  BY <1>1, <1>2, TokensOf
<1>4. /\ c \in DOMAIN pool /\ code[c].by = p /\ pool[c].provider # ZERO_ADDRESS
      /\ pool[c].provider = locals[p]["CounterAddressesProvider"]
  BY <1>1, <1>3, HelperPoolIsOwn DEF CanConfigure
<1>5. slots[pool[c].provider]["PriceOracle"] # ZERO_ADDRESS
  BY <1>3, <1>4 DEF HasOracle
<1>6. IsPool(pool[c])
  BY <1>4 DEF IInv
<1>7. ConfiguredReserve(p) \in DOMAIN pool[c].reserves
  BY DEF CanConfigure
<1>8. ConfiguredWord(p) \in SUBSET KnownBit
  BY <1>6, <1>7 DEF ConfiguredWord, IsPool, IsReserve
<1>9. Instruction(p).params \in Params
  BY <1>1 DEF Kinds
<1> QED BY <1>3, <1>4, <1>5, <1>6, <1>7, <1>8, <1>9

\* A reserve configured so that open for borrowing means collateral.
LEMMA ConfigureChain ==
    ASSUME DInv, IInv, NEW p \in Run, StepsOfRun(p), Instruction(p).op \in ConfigureOp,
           CanConfigure(p), NEW word, Configure(p, word),
           getBorrowingEnabled(word) => CollateralIsSet(word)
    PROVE  ChainInv'
<1> DEFINE c == HelperCounter(p)
           r == ConfiguredReserve(p)
           P == WithWord(pool[c], r, word)
<1>1. /\ script[p] = "mainnet" /\ c \in DOMAIN pool /\ code[c].by = p
      /\ IsPool(pool[c]) /\ r \in DOMAIN pool[c].reserves
      /\ pool[c].provider # ZERO_ADDRESS
      /\ slots[pool[c].provider]["PriceOracle"] # ZERO_ADDRESS
  BY Configured
<1>2. /\ pool' = [pool EXCEPT ![c] = P]
      /\ UNCHANGED <<code, nextAddress, slots, configurator, source>>
  BY DEF Configure, providerVars, oracleVars
<1>3. script' = script /\ started' = started
  BY Remembers
<1>4. /\ pool[c].provider \in Nat
      /\ pool[c].provider # ZERO_ADDRESS => IsProvider(pool[c].provider, code[c].by)
      /\ pool[c].paused \in BOOLEAN
      /\ \A s \in DOMAIN pool[c].reserves : ReserveInv(p, pool[c], s)
  BY <1>1, PoolFields
<1> HIDE DEF c, r
<1>5. /\ P.provider = pool[c].provider /\ P.paused = pool[c].paused
      /\ DOMAIN P.reserves = DOMAIN pool[c].reserves
      /\ \A s \in DOMAIN pool[c].reserves : s # r => P.reserves[s] = pool[c].reserves[s]
      /\ P.reserves[r].configuration = word
      /\ P.reserves[r].pToken = pool[c].reserves[r].pToken
      /\ P.reserves[r].variableDebtToken = pool[c].reserves[r].variableDebtToken
      /\ P.reserves[r].interestRateStrategy = pool[c].reserves[r].interestRateStrategy
  <2> HIDE DEF P
  <2>1. P = WithWord(pool[c], r, word)
    BY DEF P
  <2> QED BY <1>1, <2>1, WithWordFields
<1> HIDE DEF P
<1>6. ASSUME NEW s \in DOMAIN P.reserves PROVE ReserveInv(p, P, s)
  <2>1. s \in DOMAIN pool[c].reserves /\ ReserveInv(p, pool[c], s)
    BY <1>4, <1>5
  <2>2. CASE s # r
    BY <1>5, <2>1, <2>2 DEF ReserveInv
  <2>3. CASE s = r
    <3>1. script[p] = "mainnet" /\ s[1] \in MainnetAsset
      BY <2>1 DEF ReserveInv
    <3>2. \A a \in {P.reserves[s].pToken, P.reserves[s].variableDebtToken,
                    P.reserves[s].interestRateStrategy} : OfRun(p, a)
      BY <1>5, <2>1, <2>3 DEF ReserveInv
    <3>3. getBorrowingEnabled(P.reserves[s].configuration) =>
              /\ CollateralIsSet(P.reserves[s].configuration)
              /\ P.provider # ZERO_ADDRESS /\ slots[P.provider]["PriceOracle"] # ZERO_ADDRESS
      BY <1>1, <1>5, <2>3
    <3> QED BY <3>1, <3>2, <3>3 DEF ReserveInv
  <2> QED BY <2>2, <2>3
<1>7. ChainInv
  BY DEF DInv
<1> QED BY <1>1, <1>2, <1>3, <1>4, <1>5, <1>6, <1>7, PoolRewritten

\* enableBorrowingOnReserve follows the instruction that made the reserve a collateral.
LEMMA BorrowingKeeps ==
    ASSUME DInv, IInv, NEW p \in Run, EnableBorrowingOnReserve(p) \/ SetReserveFactor(p)
    PROVE  DInv'
<1> DEFINE word == ConfiguredWord(p)
           enabled == setStableRateBorrowingEnabled(setBorrowingEnabled(word, TRUE), FALSE)
           factor == setReserveFactor(word, Bits(Instruction(p).params.reserveFactor, 16))
<1>1. StepsOfRun(p)
  BY DEF StepsOfRun
<1>2. /\ CanConfigure(p)
      /\ Instruction(p).op \in {"enableBorrowingOnReserve", "setReserveFactor"}
      /\ \/ Instruction(p).op = "enableBorrowingOnReserve" /\ Configure(p, enabled)
         \/ Configure(p, factor)
  BY DEF EnableBorrowingOnReserve, SetReserveFactor, Doing, Instruction
<1>3. Done(p) /\ UNCHANGED <<locals, inputs, strategies, db, code, slots>>
  BY <1>2 DEF Configure, localVars, providerVars
<1>4. Instruction(p).op \in ConfigureOp
  BY <1>2 DEF ConfigureOp
<1>5. word \in SUBSET KnownBit
  BY <1>1, <1>2, <1>4, Configured
<1>6. Instruction(p).op = "enableBorrowingOnReserve" => CollateralIsSet(word)
  <2>1. TodoInv(p) /\ todo[p] # << >>
    BY <1>1, Remembers
  <2> QED BY <2>1 DEF TodoInv, Instruction
<1>7. Instruction(p).op = "enableBorrowingOnReserve" => CollateralIsSet(enabled)
  <2> HIDE DEF word
  <2> QED BY <1>5, <1>6, BorrowingWord
<1>8. getBorrowingEnabled(factor) => CollateralIsSet(factor)
  <2>1. Loan(factor) = Loan(word)
    <3> HIDE DEF word
    <3> QED BY <1>5, FactorWord
  <2>2. getBorrowingEnabled(word) => CollateralIsSet(word)
    <3>1. /\ HelperCounter(p) \in DOMAIN pool
          /\ ConfiguredReserve(p) \in DOMAIN pool[HelperCounter(p)].reserves
      BY <1>1, <1>2, <1>4, Configured
    <3>2. ReserveInv(code[HelperCounter(p)].by, pool[HelperCounter(p)], ConfiguredReserve(p))
      BY <3>1, PoolFields
    <3> QED BY <3>2 DEF ReserveInv, ConfiguredWord
  <2> HIDE DEF factor, word
  <2> QED BY <2>1, <2>2 DEF Loan, CollateralIsSet
<1>9. ChainInv'
  <2> HIDE DEF enabled, factor
  <2> QED BY <1>1, <1>2, <1>4, <1>7, <1>8, ConfigureChain
<1>10. Gives(Instruction(p)) = {}
  BY <1>2 DEF Gives
<1>11. HasOracle(p) => HasOracle(p)'
  BY <1>3 DEF HasOracle
<1>12. Instruction(p).op # "configureReserveAsCollateral"
  BY <1>2
<1> QED BY <1>1, <1>3, <1>9, <1>10, <1>11, <1>12, CallKeeps

\* configureReserveAsCollateral, which later borrowing rests on.
LEMMA CollateralKeeps ==
    ASSUME DInv, IInv, NEW p \in Run, ConfigureReserveAsCollateral(p)
    PROVE  DInv'
<1> DEFINE params == Instruction(p).params
           word == setLiquidationBonus(
                       setLiquidationThreshold(
                           setLtv(ConfiguredWord(p), Bits(params.baseLTVAsCollateral, 16)),
                           Bits(params.liquidationThreshold, 16)),
                       Bits(params.liquidationBonus, 16))
           c == HelperCounter(p)
           r == ConfiguredReserve(p)
<1>1. StepsOfRun(p)
  BY DEF StepsOfRun
<1>2. /\ CanConfigure(p) /\ Configure(p, word)
      /\ Instruction(p).op = "configureReserveAsCollateral"
  BY DEF ConfigureReserveAsCollateral, Doing, Instruction
<1>3. Done(p) /\ UNCHANGED <<locals, inputs, strategies, db, code, slots, configurator>>
  BY <1>2 DEF Configure, localVars, providerVars
<1>4. Instruction(p).op \in ConfigureOp
  BY <1>2 DEF ConfigureOp
<1>5. /\ ConfiguredWord(p) \in SUBSET KnownBit /\ params \in Params
      /\ c \in DOMAIN pool /\ IsPool(pool[c]) /\ r \in DOMAIN pool[c].reserves
      /\ script[p] = "mainnet"
  BY <1>1, <1>2, <1>4, Configured
<1>6. CollateralIsSet(word)
  BY <1>5, CollateralWord
<1> HIDE DEF word
<1>7. ChainInv'
  BY <1>1, <1>2, <1>4, <1>6, ConfigureChain
<1>8. /\ LocalsInv(p) /\ HelperInv(p) /\ TodoInv(p) /\ OnlyOf(p) /\ Running(p)
      /\ todo[p] # << >> /\ script' = script
  BY <1>1, Remembers
<1>9. CodeGrows
  BY <1>3 DEF CodeGrows
<1>10. LocalsInv(p)' /\ HelperInv(p)'
  BY <1>3, <1>8, <1>9, LocalsKept, HelperKept
<1>11. Has(p) \cup Gives(Instruction(p)) \subseteq Has(p)'
  <2>1. \A key \in ReadKey : HasEntryOf(p, key) => HasEntryOf(p, key)'
    BY <1>3, <1>8, <1>9, EntriesKept
  <2>2. HasOracle(p) => HasOracle(p)'
    BY <1>3 DEF HasOracle
  <2>3. Has(p) \subseteq Has(p)'
    BY <1>3, <1>8, <2>1, <2>2, HasGrows
  <2>4. Gives(Instruction(p)) = {}
    BY <1>2 DEF Gives
  <2> QED BY <2>3, <2>4
<1>12. ASSUME ThenBorrowing(Instruction(p), Head(todo'[p]))
       PROVE  CollateralIsSet(ConfiguredWord(p))'
  <2>1. HelperCounter(p)' = c
    BY <1>3 DEF HelperCounter
  <2>2. ConfiguredReserve(p)' = r
    <3>1. TokenAddresses(p)' = TokenAddresses(p)
      BY <1>3, <1>8 DEF TokenAddresses
    <3>2. /\ Instruction(p)' = Head(todo'[p])
          /\ Instruction(p)'.symbol = Instruction(p).symbol
          /\ Instruction(p)'.tier = Instruction(p).tier
      BY <1>12 DEF ThenBorrowing, Instruction
    <3> QED BY <3>1, <3>2 DEF ConfiguredReserve, TokenAddress
  <2>3. pool' = [pool EXCEPT ![c] = WithWord(pool[c], r, word)]
    BY <1>2 DEF Configure
  <2> HIDE DEF c, r
  <2>4. pool'[c].reserves[r].configuration = word
    <3> DEFINE Q == WithWord(pool[c], r, word)
    <3>1. pool'[c] = Q
      BY <1>5, <2>3
    <3> HIDE DEF Q
    <3>2. Q.reserves[r].configuration = word
      <4>1. Q = WithWord(pool[c], r, word)
        BY DEF Q
      <4> QED BY <1>5, <4>1, WithWordFields
    <3> QED BY <3>1, <3>2
  <2>5. ConfiguredWord(p)' = word
    BY <2>1, <2>2, <2>4 DEF ConfiguredWord
  <2> QED BY <1>6, <2>5 DEF CollateralIsSet
<1>13. TodoInv(p)'
  <2>1. RunsInv /\ inputs[p] \in Seq(Inputs) /\ inputs'[p] \in Seq(Inputs)
        /\ Len(inputs[p]) <= Len(inputs'[p]) + 1
    BY <1>3, <1>8 DEF DInv, HelperInv
  <2> QED BY <1>3, <1>8, <1>11, <1>12, <2>1, DoneTodo
<1>14. FileInv'
  BY <1>3 DEF DInv, FileInv
<1> QED BY <1>7, <1>8, <1>10, <1>13, <1>14, InvariantKept DEF Memory

LEMMA WithReserveFields ==
    ASSUME NEW P, IsPool(P), NEW r, NEW reserve, NEW Q, Q = WithReserve(P, r, reserve)
    PROVE  /\ Q.provider = P.provider /\ Q.paused = P.paused
           /\ DOMAIN Q.reserves = DOMAIN P.reserves \cup {r}
           /\ \A s \in DOMAIN P.reserves : s # r => Q.reserves[s] = P.reserves[s]
           /\ Q.reserves[r] = reserve
<1> DEFINE reserves == Put(P.reserves, r, reserve)
           list == Append(P.list, r)
           class == SetAssetClass(P.assetClass, r)
<1>1. Q = [P EXCEPT !.reserves = reserves, !.list = list, !.assetClass = class]
  BY Zenon DEF WithReserve
<1>2. /\ DOMAIN reserves = DOMAIN P.reserves \cup {r} /\ reserves[r] = reserve
      /\ \A s \in DOMAIN P.reserves : s # r => reserves[s] = P.reserves[s]
  BY DEF Put
<1> HIDE DEF reserves, list, class
<1>3. P = [provider |-> P.provider, reserves |-> P.reserves, list |-> P.list,
           assetClass |-> P.assetClass, paused |-> P.paused, crt |-> P.crt]
  BY Zenon DEF IsPool
<1>4. Q = [provider |-> P.provider, reserves |-> reserves, list |-> list,
           assetClass |-> class, paused |-> P.paused, crt |-> P.crt]
  BY <1>1, <1>3, RecordUpdate
<1>5. Q.provider = P.provider /\ Q.paused = P.paused /\ Q.reserves = reserves
  BY <1>4
<1> QED BY <1>2, <1>5

\* A call that lists a reserve for the input at hand.
Lists(p, tier) ==
    /\ StepsOfRun(p)
    /\ Instruction(p).op \in ListOp
    /\ ConfiguratorIsObeyed(locals[p]["configurator"])
    /\ List(HelperCounter(p), Head(inputs[p]), tier)
    /\ inputs' = [inputs EXCEPT ![p] = Tail(@)]
    /\ Done(p)
    /\ UNCHANGED <<locals, strategies, db, code, nextAddress, slots, configurator, source>>

\* A reserve listed from contracts of the run; its word starts empty.
LEMMA ListKeeps ==
    ASSUME DInv, IInv, NEW p \in Run, NEW tier, Lists(p, tier)
    PROVE  DInv'
<1> DEFINE c == HelperCounter(p)
           input == Head(inputs[p])
           r == <<input.underlyingAsset, tier>>
           P == WithReserve(pool[c], r, InitData(input))
<1>1. /\ LocalsInv(p) /\ HelperInv(p) /\ TodoInv(p) /\ OnlyOf(p) /\ Running(p)
      /\ todo[p] # << >> /\ script' = script /\ started' = started
      /\ Needs(Instruction(p)) \subseteq Has(p)
  BY Remembers DEF Lists
<1>2. script[p] = "mainnet" /\ "configurator" \in DOMAIN locals[p]
  <2>1. Needs(Instruction(p)) = {Variable("configurator"), Prepared}
    BY DEF Lists, Needs, ListOp, ConfigureOp
  <2> QED BY <1>1, <2>1, TokensOf
<1>3. /\ inputs[p] \in Seq(Inputs) /\ inputs[p] # << >>
      /\ input \in Inputs /\ Tail(inputs[p]) \in Seq(Inputs)
      /\ Len(Tail(inputs[p])) = Len(inputs[p]) - 1 /\ Len(inputs[p]) \in Nat \ {0}
      /\ \A i \in 1..Len(inputs[p]) - 1 : Tail(inputs[p])[i] = inputs[p][i + 1]
      /\ \A i \in 1..Len(inputs[p]) - 1 : i + 1 \in 1..Len(inputs[p])
      /\ input = inputs[p][1]
  <2>1. inputs[p] \in Seq(Inputs)
    BY <1>1 DEF HelperInv
  <2>2. 1 <= Len(inputs[p])
    BY <1>1, AboutTo DEF Lists
  <2>3. inputs[p] # << >>
    BY <2>1, <2>2
  <2> QED BY <2>1, <2>3, TailFacts
<1>4. \A a \in {input.pToken, input.variableDebtToken, input.interestRateStrategy} : OfRun(p, a)
  <2>1. 1 \in 1..Len(inputs[p])
    BY <1>3
  <2> QED BY <1>1, <1>3, <2>1 DEF HelperInv
<1>5. input.underlyingAsset \in MainnetAsset
  BY <1>3 DEF Inputs
<1>6. /\ c \in DOMAIN pool /\ code[c].by = p
  BY <1>1, <1>2, HelperPoolIsOwn DEF Lists
<1>7. /\ pool[c].provider \in Nat
      /\ pool[c].provider # ZERO_ADDRESS => IsProvider(pool[c].provider, code[c].by)
      /\ pool[c].paused \in BOOLEAN
      /\ \A s \in DOMAIN pool[c].reserves : ReserveInv(p, pool[c], s)
  BY <1>6, PoolFields
<1>8. /\ pool' = [pool EXCEPT ![c] = P]
      /\ UNCHANGED <<code, nextAddress, slots, configurator, source>>
  BY DEF Lists, List
<1>9. /\ P.provider = pool[c].provider /\ P.paused = pool[c].paused
      /\ DOMAIN P.reserves = DOMAIN pool[c].reserves \cup {r}
      /\ \A s \in DOMAIN pool[c].reserves : s # r => P.reserves[s] = pool[c].reserves[s]
      /\ P.reserves[r] = InitData(input)
  <2>1. IsPool(pool[c])
    BY <1>6 DEF IInv
  <2> HIDE DEF P, r, c
  <2>2. P = WithReserve(pool[c], r, InitData(input))
    BY DEF P
  <2> QED BY <2>1, <2>2, WithReserveFields
<1>10. ASSUME NEW s \in DOMAIN P.reserves PROVE ReserveInv(p, P, s)
  <2>1. CASE s # r
    <3> HIDE DEF P, r, c
    <3>1. ReserveInv(p, pool[c], s) /\ P.reserves[s] = pool[c].reserves[s]
      BY <1>7, <1>9, <1>10, <2>1
    <3> QED BY <1>9, <3>1 DEF ReserveInv
  <2>2. CASE s = r
    <3>1. s[1] \in MainnetAsset
      BY <1>5, <2>2
    <3>2. /\ P.reserves[s].pToken = input.pToken
          /\ P.reserves[s].variableDebtToken = input.variableDebtToken
          /\ P.reserves[s].interestRateStrategy = input.interestRateStrategy
          /\ P.reserves[s].configuration = Opened(input)
      <4> HIDE DEF P, r, input
      <4> QED BY <1>9, <2>2 DEF InitData
    <3>3. ~getBorrowingEnabled(P.reserves[s].configuration)
      BY <3>2, OpenedWord
    <3> HIDE DEF P, r, input
    <3> QED BY <1>2, <1>4, <3>1, <3>2, <3>3 DEF ReserveInv
  <2> QED BY <2>1, <2>2
<1> HIDE DEF P, r, c, input
<1>11. ChainInv'
  <2>1. ChainInv
    BY DEF DInv
  <2> QED BY <1>1, <1>6, <1>7, <1>8, <1>9, <1>10, <2>1, PoolRewritten
<1>12. CodeGrows
  BY <1>8 DEF CodeGrows
<1>13. inputs'[p] = Tail(inputs[p])
  BY DEF Lists, DInv, RunsInv
<1>14. LocalsInv(p)' /\ HelperInv(p)'
  <2>1. LocalsInv(p)'
    BY <1>1, LocalsKept DEF Lists
  <2>2. \A i \in 1..Len(inputs'[p]) : inputs'[p][i] = inputs[p][i + 1] /\ i + 1 \in 1..Len(inputs[p])
    BY <1>3, <1>13
  <2>3. \A i \in 1..Len(inputs'[p]) :
            \A a \in {inputs'[p][i].pToken, inputs'[p][i].variableDebtToken,
                      inputs'[p][i].interestRateStrategy} : OfRun(p, a)
    BY <1>1, <2>2 DEF HelperInv
  <2>4. \A name \in DOMAIN strategies'[p] : OfRun(p, strategies'[p][name])
    BY <1>1 DEF HelperInv, Lists
  <2> QED BY <1>1, <1>2, <1>3, <1>8, <1>13, <2>1, <2>3, <2>4 DEF HelperInv, OfRun
<1>15. Has(p) \cup Gives(Instruction(p)) \subseteq Has(p)'
  <2>1. \A key \in ReadKey : HasEntryOf(p, key) => HasEntryOf(p, key)'
    BY <1>1, <1>12, EntriesKept DEF Lists
  <2>2. HasOracle(p) => HasOracle(p)'
    BY DEF Lists, HasOracle
  <2>3. Has(p) \subseteq Has(p)'
    BY <1>1, <2>1, <2>2, HasGrows DEF Lists
  <2>4. Gives(Instruction(p)) = {}
    BY DEF Lists, ListOp, Gives
  <2> QED BY <2>3, <2>4
<1>16. TodoInv(p)'
  <2>1. RunsInv /\ inputs'[p] \in Seq(Inputs) /\ Len(inputs[p]) <= Len(inputs'[p]) + 1
    BY <1>3, <1>13 DEF DInv
  <2>2. ~ThenBorrowing(Instruction(p), Head(todo'[p]))
    BY DEF ThenBorrowing, Lists, ListOp
  <2>3. Done(p)
    BY DEF Lists
  <2> QED BY <1>1, <1>3, <1>15, <2>1, <2>2, <2>3, DoneTodo
<1>17. FileInv'
  BY DEF DInv, FileInv, Lists
<1> QED BY <1>1, <1>11, <1>14, <1>16, <1>17, InvariantKept DEF Memory

LEMMA ListSteps ==
    ASSUME DInv, IInv, NEW p \in Run, InitReserve(p) \/ UpgradeAssetClass(p)
    PROVE  DInv'
<1>1. StepsOfRun(p)
  BY DEF StepsOfRun
<1>2. CASE InitReserve(p)
  <2>1. Lists(p, InitAssetTier)
    BY <1>1, <1>2 DEF InitReserve, Lists, CanInitReserve, CanList, Doing, Instruction, ListOp,
           providerVars, oracleVars
  <2> QED BY <2>1, ListKeeps
<1>3. CASE UpgradeAssetClass(p)
  <2> DEFINE tier == ClassOf(HelperCounter(p), Head(inputs[p]).underlyingAsset) - 1
  <2>1. List(HelperCounter(p), Head(inputs[p]), tier)
    BY <1>3 DEF UpgradeAssetClass
  <2> HIDE DEF tier
  <2>2. Lists(p, tier)
    BY <1>1, <1>3, <2>1 DEF UpgradeAssetClass, Lists, CanUpgradeAssetClass, CanList, Doing,
           Instruction, ListOp, providerVars, oracleVars
  <2> QED BY <2>2, ListKeeps
<1> QED BY <1>2, <1>3

-----------------------------------------------------------------------------
(***************************************************************************)
(* Instructions that change the file or the memory of a run.               *)
(***************************************************************************)

\* A step that leaves the chain alone.
LEMMA MemoryKeeps ==
    ASSUME DInv, NEW p \in Run, StepsOfRun(p), UNCHANGED chainVars, FileInv',
           LocalsInv(p)', HelperInv(p)', TodoInv(p)'
    PROVE  DInv'
<1>1. OnlyOf(p) /\ Running(p) /\ UNCHANGED <<started, script>>
  BY Remembers
<1>2. ChainInv'
  BY <1>1, ChainKept DEF DInv
<1> QED BY <1>1, <1>2, InvariantKept DEF Memory

LEMMA CodeKept ==
    ASSUME UNCHANGED chainVars
    PROVE  CodeGrows /\ code' = code /\ slots' = slots
BY DEF chainVars, providerVars, CodeGrows

LEMMA FilePut ==
    ASSUME FileInv, NEW key, NEW a \in Nat, db' = Put(db, key, a)
    PROVE  FileInv'
BY DEF FileInv, Put

\* An entry written for a run is its own if the scripts read it back.
LEMMA EntryPut ==
    ASSUME NEW p, NEW key, NEW a, db' = Put(db, key, a), code' = code, script' = script,
           key \in ReadKey => Is(a, key, p)
    PROVE  \A k \in ReadKey : HasEntryOf(p, k) \/ k = key => HasEntryOf(p, k)'
<1>1. DOMAIN db' = DOMAIN db \cup {key} /\ db'[key] = a
      /\ \A k \in DOMAIN db : k # key => db'[k] = db[k]
  BY DEF Put
<1>2. key \in ReadKey => HasEntryOf(p, key)'
  BY <1>1 DEF HasEntryOf, Is
<1>3. ASSUME NEW k \in ReadKey, HasEntryOf(p, k) \/ k = key PROVE HasEntryOf(p, k)'
  <2>1. CASE k = key
    BY <1>2, <2>1
  <2>2. CASE k # key
    BY <1>1, <1>3, <2>2 DEF HasEntryOf, Is
  <2> QED BY <2>1, <2>2
<1> QED BY <1>3

LEMMA PutSteps ==
    ASSUME DInv, NEW p \in Run, Register(p) \/ RawInsert(p)
    PROVE  DInv'
<1> DEFINE entry == Instruction(p).key
           address == IF Instruction(p).op = "register" THEN locals[p][Instruction(p).as]
                ELSE Instruction(p).address
<1>1. StepsOfRun(p)
  BY DEF StepsOfRun
<1>2. /\ LocalsInv(p) /\ HelperInv(p) /\ todo[p] # << >> /\ script' = script
      /\ Running(p) /\ Kinds(Admin(script[p]), Instruction(p))
  BY <1>1, Remembers
<1>3. /\ Done(p) /\ UNCHANGED <<locals, inputs, strategies>> /\ UNCHANGED chainVars
      /\ Instruction(p).op \in {"register", "rawInsert"}
      /\ Instruction(p).op = "register" => Instruction(p).as \in DOMAIN locals[p]
      /\ db' = Put(db, entry, address)
  BY DEF Register, RawInsert, localVars, Doing, Instruction, HasVariable
<1>4. address \in Nat
  <2>1. CASE Instruction(p).op = "register"
    BY <1>2, <1>3, <2>1 DEF LocalsInv
  <2>2. CASE Instruction(p).op = "rawInsert"
    BY <1>2, <2>2 DEF Kinds
  <2> QED BY <1>3, <2>1, <2>2
<1>5. entry \in ReadKey => Instruction(p).op = "register" /\ Is(address, entry, p)
  <2>1. CASE Instruction(p).op = "rawInsert"
    <3>1. entry \in Symbol
      BY <1>2, <2>1 DEF Kinds
    <3> QED BY <3>1, Orders DEF ReadKey
  <2>2. CASE Instruction(p).op = "register"
    <3>1. entry \in ReadKey => Instruction(p).as = entry
      BY <1>2, <2>2 DEF Kinds, RegisterInstruction
    <3>2. entry \in ReadKey => entry \in NamedForItsKind
      BY DEF NamedForItsKind
    <3> HIDE DEF entry
    <3> QED BY <1>2, <1>3, <2>2, <3>1, <3>2 DEF LocalsInv
  <2> QED BY <1>3, <2>1, <2>2
<1>6. CodeGrows /\ code' = code /\ slots' = slots
  BY <1>3, CodeKept
<1> HIDE DEF entry, address
<1>7. FileInv'
  <2>1. FileInv
    BY DEF DInv
  <2> QED BY <1>3, <1>4, <2>1, FilePut
<1>8. LocalsInv(p)' /\ HelperInv(p)'
  BY <1>2, <1>3, <1>6, LocalsKept, HelperKept
<1>9. \A k \in ReadKey : HasEntryOf(p, k) \/ k = entry => HasEntryOf(p, k)'
  BY <1>2, <1>3, <1>5, <1>6, EntryPut
<1>10. Has(p) \cup Gives(Instruction(p)) \subseteq Has(p)'
  <2>1. HasOracle(p) => HasOracle(p)'
    BY <1>3, <1>6 DEF HasOracle
  <2>2. Has(p) \subseteq Has(p)'
    BY <1>2, <1>3, <1>9, <2>1, HasGrows
  <2>3. Gives(Instruction(p)) \subseteq IF entry \in ReadKey THEN {Entry(entry)} ELSE {}
    BY <1>3 DEF Gives, entry
  <2>4. entry \in ReadKey => Entry(entry) \in Has(p)'
    <3>1. \A k \in ReadKey : k = entry => k \in {m \in ReadKey : HasEntryOf(p, m)'}
      BY <1>9
    <3> QED BY <3>1 DEF Has
  <2> QED BY <2>2, <2>3, <2>4
<1>11. TodoInv(p)'
  BY <1>2, <1>3, <1>10, PlainTodo
<1> QED BY <1>1, <1>3, <1>7, <1>8, <1>11, MemoryKeeps

LEMMA KeepStrategySteps ==
    ASSUME DInv, NEW p \in Run, KeepStrategy(p)
    PROVE  DInv'
<1> DEFINE name == Instruction(p).name
           a == locals[p]["strategy"]
<1>1. StepsOfRun(p)
  BY DEF StepsOfRun
<1>2. /\ LocalsInv(p) /\ HelperInv(p) /\ todo[p] # << >> /\ script' = script
      /\ Running(p) /\ Kinds(Admin(script[p]), Instruction(p))
      /\ Needs(Instruction(p)) \subseteq Has(p)
  BY <1>1, Remembers
<1>3. /\ Done(p) /\ UNCHANGED <<locals, inputs>> /\ UNCHANGED chainVars
      /\ Instruction(p).op = "keepStrategy"
      /\ strategies' = [strategies EXCEPT ![p] = Put(strategies[p], name, a)]
      /\ db' = Put(db, name, a)
  BY DEF KeepStrategy, Doing, Instruction
<1>4. name \in StrategyName
  BY <1>2, <1>3 DEF Kinds
<1>5. a \in Nat /\ OfRun(p, a)
  <2>1. Needs(Instruction(p)) = {Variable("strategy")}
    BY <1>3 DEF Needs, ConfigureOp, ListOp
  <2>2. "strategy" \in DOMAIN locals[p] /\ "strategy" \in OwnVariable
    BY <1>2, <2>1, TokensOf DEF OwnVariable
  <2> QED BY <1>2, <2>2 DEF LocalsInv
<1>6. name \notin ReadKey
  BY <1>4 DEF StrategyName, ReadKey
<1>7. CodeGrows /\ code' = code /\ slots' = slots
  BY <1>3, CodeKept
<1> HIDE DEF name, a
<1>8. FileInv'
  <2>1. FileInv
    BY DEF DInv
  <2> QED BY <1>3, <1>5, <2>1, FilePut
<1>9. /\ DOMAIN strategies'[p] = DOMAIN strategies[p] \cup {name}
      /\ strategies'[p][name] = a
      /\ \A m \in DOMAIN strategies[p] : m # name => strategies'[p][m] = strategies[p][m]
  <2>1. strategies'[p] = Put(strategies[p], name, a)
    BY <1>3 DEF DInv, RunsInv
  <2> QED BY <2>1 DEF Put
<1>10. LocalsInv(p)'
  BY <1>2, <1>3, <1>7, LocalsKept
<1>11. HelperInv(p)'
  <2>1. \A m \in DOMAIN strategies'[p] : OfRun(p, strategies'[p][m])
    BY <1>2, <1>5, <1>9 DEF HelperInv
  <2> QED BY <1>2, <1>3, <1>7, <2>1 DEF HelperInv, OfRun
<1>12. Has(p) \cup Gives(Instruction(p)) \subseteq Has(p)'
  <2>1. HasOracle(p) => HasOracle(p)'
    BY <1>3, <1>7 DEF HasOracle
  <2>2. \A k \in ReadKey : HasEntryOf(p, k) => HasEntryOf(p, k)'
    BY <1>2, <1>3, <1>6, <1>7, EntryPut
  <2>3. Has(p) \subseteq Has(p)'
    BY <1>2, <1>3, <1>9, <2>1, <2>2, HasGrows
  <2>4. Gives(Instruction(p)) = {Strategy(name)}
    BY <1>3 DEF Gives, name, ConfigureOp, ListOp
  <2>5. Strategy(name) \in Has(p)'
    BY <1>9 DEF Has
  <2> QED BY <2>3, <2>4, <2>5
<1>13. TodoInv(p)'
  BY <1>2, <1>3, <1>12, PlainTodo
<1> QED BY <1>1, <1>3, <1>8, <1>10, <1>11, <1>13, MemoryKeeps

\* A variable that is not named for a contract of the run.
LEMMA AssignKeeps ==
    ASSUME RunsInv, NEW p \in Run, LocalsInv(p), NEW as, NEW a \in Nat, Assign(p, as, a),
           code' = code, slots' = slots, script' = script, as \notin OwnVariable,
           script[p] = "mainnet" =>
               \A read \in ReadBack : read.as = as => Is(a, read.contract, p)
    PROVE  /\ LocalsInv(p)' /\ (HasOracle(p) => HasOracle(p)')
           /\ DOMAIN locals'[p] = DOMAIN locals[p] \cup {as}
<1>1. /\ DOMAIN locals'[p] = DOMAIN locals[p] \cup {as} /\ locals'[p][as] = a
      /\ \A name \in DOMAIN locals[p] : name # as => locals'[p][name] = locals[p][name]
  <2>1. locals'[p] = Put(locals[p], as, a)
    BY DEF Assign, RunsInv
  <2> QED BY <2>1 DEF Put
<1>2. NamedForItsKind \subseteq OwnVariable /\ "CounterAddressesProvider" \in OwnVariable
  BY DEF NamedForItsKind, OwnVariable, ContractName, ReadKey
<1>3. ASSUME NEW name \in DOMAIN locals'[p]
      PROVE  /\ locals'[p][name] \in Nat
             /\ name \in OwnVariable => OfRun(p, locals'[p][name])
             /\ name \in NamedForItsKind => Is(locals'[p][name], name, p)
  BY <1>1, <1>2 DEF LocalsInv
<1>4. ASSUME script[p] = "mainnet", NEW read \in ReadBack, read.as \in DOMAIN locals'[p]
      PROVE  Is(locals'[p][read.as], read.contract, p)
  <2>1. CASE read.as = as
    BY <1>1, <1>4, <2>1
  <2>2. CASE read.as # as
    BY <1>1, <1>4, <2>2 DEF LocalsInv
  <2> QED BY <2>1, <2>2
<1>5. ASSUME NEW b \in DOMAIN code, IsProvider(b, p)
      PROVE  /\ "CounterAddressesProvider" \in DOMAIN locals'[p]
             /\ locals'[p]["CounterAddressesProvider"] = b
  BY <1>1, <1>2, <1>5 DEF LocalsInv
<1>6. LocalsInv(p)'
  BY <1>3, <1>4, <1>5 DEF LocalsInv, Is, OfRun, IsProvider
<1>7. HasOracle(p) => HasOracle(p)'
  BY <1>1, <1>2 DEF HasOracle
<1> QED BY <1>1, <1>6, <1>7

LEMMA AttachSteps ==
    ASSUME DInv, NEW p \in Run, Attach(p)
    PROVE  DInv'
<1> DEFINE key == Instruction(p).key
           as == Instruction(p).as
<1>1. StepsOfRun(p)
  BY DEF StepsOfRun
<1>2. /\ LocalsInv(p) /\ HelperInv(p) /\ todo[p] # << >> /\ script' = script
      /\ Running(p) /\ Kinds(Admin(script[p]), Instruction(p))
      /\ Needs(Instruction(p)) \subseteq Has(p)
  BY <1>1, Remembers
<1>3. /\ Done(p) /\ UNCHANGED <<inputs, strategies, db>> /\ UNCHANGED chainVars
      /\ Instruction(p).op = "attach" /\ key \in DOMAIN db /\ Assign(p, as, db[key])
  BY DEF Attach, Doing, Instruction, HasEntry
<1>4. Instruction(p) \in AttachInstruction
  BY <1>2, <1>3 DEF Kinds
<1>5. /\ as \notin OwnVariable
      /\ \A read \in ReadBack : read.as = as => read.contract = key /\ key \in ReadKey
  <2>1. CASE \E read \in ReadBack : Instruction(p) = attach(read.contract, read.as)
    <3>1. \/ key = "CounterAddressesProvider" /\ as = "addressProvider"
          \/ key = "CounterConfigurator" /\ as = "configurator"
          \/ key = "PlatformTokenInterestRateModel" /\ as = "aTokenIRModel"
      BY <2>1 DEF attach, ReadBack
    <3> HIDE DEF key, as
    <3>2. as \notin OwnVariable /\ key \in ReadKey
      BY <3>1 DEF ReadKey, OwnVariable, ContractName
    <3>3. \A read \in ReadBack :
             \/ read.as = "addressProvider" /\ read.contract = "CounterAddressesProvider"
             \/ read.as = "configurator" /\ read.contract = "CounterConfigurator"
             \/ read.as = "aTokenIRModel" /\ read.contract = "PlatformTokenInterestRateModel"
      BY DEF ReadBack
    <3> QED BY <3>1, <3>2, <3>3
  <2>2. CASE \E symbol \in Symbol : Instruction(p) = attach(symbol, symbol)
    <3>1. as \in {"DAI", "WETH", "USDC", "USDT"}
      BY <2>2, Orders DEF attach
    <3> HIDE DEF key, as
    <3>2. as \notin OwnVariable
      BY <3>1 DEF OwnVariable, ContractName
    <3>3. \A read \in ReadBack : read.as \in {"addressProvider", "configurator", "aTokenIRModel"}
      BY DEF ReadBack
    <3> QED BY <3>1, <3>2, <3>3
  <2> QED BY <1>4, <2>1, <2>2 DEF AttachInstruction
<1>6. db[key] \in Nat
  BY <1>3 DEF DInv, FileInv
<1>7. key \in ReadKey /\ script[p] = "mainnet" => Is(db[key], key, p)
  <2>1. key \in ReadKey => Entry(key) \in Has(p)
    <3>1. Needs(Instruction(p)) = IF key \in ReadKey THEN {Entry(key)} ELSE {}
      BY <1>3 DEF Needs, ConfigureOp, ListOp
    <3> HIDE DEF key
    <3> QED BY <1>2, <3>1
  <2> HIDE DEF key
  <2> QED BY <2>1, TokensOf DEF HasEntryOf
<1>8. CodeGrows /\ code' = code /\ slots' = slots
  BY <1>3, CodeKept
<1> HIDE DEF key, as
<1>9. /\ LocalsInv(p)' /\ (HasOracle(p) => HasOracle(p)')
      /\ DOMAIN locals'[p] = DOMAIN locals[p] \cup {as}
  <2>1. RunsInv
    BY DEF DInv
  <2>2. script[p] = "mainnet" => \A read \in ReadBack : read.as = as => Is(db[key], read.contract, p)
    BY <1>5, <1>7
  <2> QED BY <1>2, <1>3, <1>5, <1>6, <1>8, <2>1, <2>2, AssignKeeps
<1>10. HelperInv(p)'
  BY <1>2, <1>3, <1>8, HelperKept
<1>11. Has(p) \cup Gives(Instruction(p)) \subseteq Has(p)'
  <2>1. \A k \in ReadKey : HasEntryOf(p, k) => HasEntryOf(p, k)'
    BY <1>2, <1>3, <1>8, EntriesKept
  <2>2. Has(p) \subseteq Has(p)'
    BY <1>2, <1>3, <1>9, <2>1, HasGrows
  <2>3. Gives(Instruction(p)) = {Variable(as)}
    BY <1>3 DEF Gives, as
  <2>4. Variable(as) \in Has(p)'
    BY <1>9 DEF Has
  <2> QED BY <2>2, <2>3, <2>4
<1>12. TodoInv(p)'
  BY <1>2, <1>3, <1>11, PlainTodo
<1>13. FileInv'
  BY <1>3 DEF DInv, FileInv
<1> QED BY <1>1, <1>3, <1>9, <1>10, <1>12, <1>13, MemoryKeeps

LEMMA EnterSteps ==
    ASSUME DInv, NEW p \in Run, EnterHelper(p)
    PROVE  DInv'
<1> DEFINE provider == db["CounterAddressesProvider"]
<1>1. StepsOfRun(p)
  BY DEF StepsOfRun
<1>2. /\ LocalsInv(p) /\ HelperInv(p) /\ TodoInv(p) /\ todo[p] # << >> /\ script' = script
      /\ Running(p) /\ Needs(Instruction(p)) \subseteq Has(p)
  BY <1>1, Remembers
<1>3. /\ Done(p) /\ UNCHANGED db /\ UNCHANGED chainVars
      /\ Instruction(p).op = "enterHelper" /\ "CounterAddressesProvider" \in DOMAIN db
      /\ Assign(p, "addressProvider", provider)
      /\ inputs' = [inputs EXCEPT ![p] = << >>]
      /\ strategies' = [strategies EXCEPT ![p] = << >>]
  BY DEF EnterHelper, Doing, Instruction, HasEntry
<1>4. RunsInv /\ inputs'[p] = << >> /\ strategies'[p] = << >>
  BY <1>3 DEF DInv, RunsInv
<1>5. provider \in Nat
  BY <1>3 DEF DInv, FileInv
<1>6. script[p] = "mainnet" => IsProvider(provider, p)
  <2>1. Needs(Instruction(p)) = {Entry("CounterAddressesProvider")}
    BY <1>3 DEF Needs, ConfigureOp, ListOp
  <2>2. Entry("CounterAddressesProvider") \in Has(p)
    BY <1>2, <2>1
  <2> QED BY <2>2, TokensOf DEF HasEntryOf, IsProvider
<1>7. CodeGrows /\ code' = code /\ slots' = slots
  BY <1>3, CodeKept
<1> HIDE DEF provider
<1>8. /\ LocalsInv(p)' /\ (HasOracle(p) => HasOracle(p)')
      /\ DOMAIN locals'[p] = DOMAIN locals[p] \cup {"addressProvider"}
  <2>1. "addressProvider" \notin OwnVariable
    BY DEF OwnVariable, ContractName
  <2>2. script[p] = "mainnet" =>
            \A read \in ReadBack : read.as = "addressProvider" => Is(provider, read.contract, p)
    BY <1>6 DEF ReadBack, IsProvider
  <2> QED BY <1>2, <1>3, <1>4, <1>5, <1>7, <2>1, <2>2, AssignKeeps
<1>9. HelperInv(p)'
  BY <1>4 DEF HelperInv
<1>10. ASSUME NEW x \in Has(p) \cup Gives(Instruction(p))
       PROVE  x \in Has(p)' \/ \E name : x = Strategy(name)
  <2>1. \A k \in ReadKey : HasEntryOf(p, k) => HasEntryOf(p, k)'
    BY <1>2, <1>3, <1>7, EntriesKept
  <2>2. \/ \E name \in DOMAIN locals[p] : x = Variable(name)
        \/ \E key \in ReadKey : HasEntryOf(p, key) /\ x = Entry(key)
        \/ \E name : x = Strategy(name)
        \/ x = Oracle /\ HasOracle(p)
        \/ x = Prepared /\ script[p] = "mainnet"
        \/ x = Variable("addressProvider")
    <3>1. Gives(Instruction(p)) = {Variable("addressProvider")}
      BY <1>3 DEF Gives
    <3> QED BY <1>10, <3>1 DEF Has
  <2>3. \A name \in DOMAIN locals'[p] : Variable(name) \in Has(p)'
    BY DEF Has
  <2>4. \A key \in ReadKey : HasEntryOf(p, key)' => Entry(key) \in Has(p)'
    BY DEF Has
  <2>5. HasOracle(p)' => Oracle \in Has(p)'
    BY DEF Has
  <2>6. script[p] = "mainnet" => Prepared \in Has(p)'
    BY <1>2 DEF Has
  <2> QED BY <1>8, <2>1, <2>2, <2>3, <2>4, <2>5, <2>6
<1>11. TodoInv(p)'
  <2> DEFINE s == todo[p]
             K == Has(p)
             L == Has(p)'
             n == Len(inputs[p])
             admin == Admin(script[p])
  <2>1. Todo(admin, K, s, n) /\ s # << >> /\ Head(s).op = "enterHelper" /\ n \in Nat
    BY <1>2, <1>3 DEF TodoInv, Instruction, HelperInv
  <2>2. \A x \in K \cup Gives(Head(s)) : x \in L \/ \E name : x = Strategy(name)
    BY <1>10 DEF Instruction
  <2>3. todo'[p] = Tail(s) /\ Len(inputs'[p]) = 0
    BY <1>3, <1>4 DEF Done, RunsInv
  <2> HIDE DEF s, K, L, n, admin
  <2>4. Todo(admin, L, Tail(s), 0)
    BY <2>1, <2>2, EnterTodo
  <2>5. Tail(s) # << >> =>
            /\ Head(Tail(s)) # deployProvider
            /\ Head(Tail(s)).op = "enableBorrowingOnReserve" => ThenBorrowing(Head(s), Head(Tail(s)))
    BY <2>1, TodoHead
  <2>6. ~ThenBorrowing(Head(s), Head(Tail(s)))
    BY <2>1 DEF ThenBorrowing
  <2>7. Todo(Admin(script'[p]), Has(p)', todo'[p], Len(inputs'[p]))
    BY <1>2, <2>3, <2>4 DEF admin, L
  <2>8. todo'[p] # << >> => /\ Head(todo'[p]) # deployProvider
                            /\ Head(todo'[p]).op # "enableBorrowingOnReserve"
    BY <2>3, <2>5, <2>6
  <2> QED BY <2>7, <2>8 DEF TodoInv
<1>12. FileInv'
  BY <1>3 DEF DInv, FileInv
<1> QED BY <1>1, <1>3, <1>8, <1>9, <1>11, <1>12, MemoryKeeps

\* Instructions put in the place of one.
LEMMA ExpandKeeps ==
    ASSUME DInv, NEW p \in Run, StepsOfRun(p), NEW r, Expand(p, r),
           Instruction(p).op \in {"prepare", "callForEachInput"},
           UNCHANGED <<locals, inputs, strategies, db>>, UNCHANGED chainVars,
           r \in Seq(AnyInstruction(Admin(script[p]))), Ready(Has(p), r),
           Gives(Instruction(p)) \subseteq Has(p),
           \A i \in 1..Len(r) : /\ r[i] # deployProvider
                                /\ r[i].op \notin HelperOp \cup {"enableBorrowingOnReserve"}
                                /\ r[i].op \in ListOp => i <= Len(inputs[p])
    PROVE  DInv'
<1>1. /\ LocalsInv(p) /\ HelperInv(p) /\ TodoInv(p) /\ todo[p] # << >> /\ script' = script
  BY Remembers
<1>2. CodeGrows /\ code' = code /\ slots' = slots
  BY CodeKept
<1>3. LocalsInv(p)' /\ HelperInv(p)'
  BY <1>1, <1>2, LocalsKept, HelperKept
<1>4. FileInv'
  BY DEF DInv, FileInv
<1>5. Has(p)' = Has(p)
  <2>1. HasOracle(p)' <=> HasOracle(p)
    BY <1>2 DEF HasOracle
  <2>2. \A key : HasEntryOf(p, key)' <=> HasEntryOf(p, key)
    BY <1>1, <1>2 DEF HasEntryOf, Is
  <2>3. {key \in ReadKey : HasEntryOf(p, key)'} = {key \in ReadKey : HasEntryOf(p, key)}
    BY <2>2
  <2>4. (IF HasOracle(p)' THEN {Oracle} ELSE {}) = (IF HasOracle(p) THEN {Oracle} ELSE {})
    BY <2>1
  <2> QED BY <1>1, <2>3, <2>4 DEF Has
<1>6. TodoInv(p)'
  <2> DEFINE s == todo[p]
             K == Has(p)
             n == Len(inputs[p])
             admin == Admin(script[p])
  <2>1. /\ Todo(admin, K, s, n) /\ s # << >> /\ n \in Nat
        /\ Head(s).op \in {"prepare", "callForEachInput"} /\ Gives(Head(s)) \subseteq K
        /\ r \in Seq(AnyInstruction(admin)) /\ Ready(K, r)
        /\ \A i \in 1..Len(r) : /\ r[i] # deployProvider
                                /\ r[i].op \notin HelperOp \cup {"enableBorrowingOnReserve"}
                                /\ r[i].op \in ListOp => i <= n
    BY <1>1 DEF TodoInv, Instruction, HelperInv
  <2>2. todo'[p] = r \o Tail(s)
    BY DEF Expand, DInv, RunsInv
  <2> HIDE DEF s, K, n, admin
  <2>3. /\ Todo(admin, K, r \o Tail(s), n)
        /\ r \o Tail(s) # << >> =>
               /\ Head(r \o Tail(s)) # deployProvider
               /\ Head(r \o Tail(s)).op # "enableBorrowingOnReserve"
    BY <2>1, ExpandTodo
  <2>4. Todo(Admin(script'[p]), Has(p)', todo'[p], Len(inputs'[p]))
    BY <1>1, <1>5, <2>2, <2>3 DEF admin, K, n
  <2> QED BY <2>2, <2>3, <2>4 DEF TodoInv
<1> QED BY <1>3, <1>4, <1>6, MemoryKeeps

\* A helper asks for a reserve in one of the three tiers.
LEMMA LetterIsKnown ==
    ASSUME IInv, NEW p, PoolAnswers(p), NEW admin, Instruction(p) \in PrepareInstruction(admin)
    PROVE  Letter(TargetTier(p)) \in Letters
<1>1. TargetTier(p) \in Tier
  <2>1. CASE Instruction(p).call = "initReserve"
    BY <2>1 DEF TargetTier, InitAssetTier, Tier
  <2>2. CASE Instruction(p).call # "initReserve"
    <3> DEFINE c == HelperPool(p)
               a == TokenAddress(p)
    <3>1. c \in DOMAIN pool /\ ClassOf(c, a) > 0
      <4>1. Instruction(p).call \in ListOp
        BY DEF PrepareInstruction
      <4> QED BY <2>2, <4>1 DEF PoolAnswers, ListOp
    <3> HIDE DEF c, a
    <3>2. a \in DOMAIN pool[c].assetClass /\ ClassOf(c, a) = pool[c].assetClass[a]
      BY <3>1 DEF ClassOf
    <3>3. ClassOf(c, a) \in Tier
      BY <3>1, <3>2 DEF IInv, IsPool
    <3>4. ClassOf(c, a) - 1 \in Tier
      BY <3>1, <3>3 DEF Tier
    <3> QED BY <2>2, <3>4 DEF TargetTier, c, a
  <2> QED BY <2>1, <2>2
<1> DEFINE tier == TargetTier(p)
<1> HIDE DEF tier
<1>2. tier = 0 \/ tier = 1 \/ tier = 2
  BY <1>1 DEF Tier, tier
<1>3. Letter(tier) \in Letters
  BY <1>2 DEF Letter, Letters
<1> QED BY <1>3 DEF tier

LEMMA PrepareSteps ==
    ASSUME DInv, IInv, NEW p \in Run, Prepare(p)
    PROVE  DInv'
<1> DEFINE name == Instruction(p).params.strategy.name
           initialized == <<TokenAddress(p), TargetTier(p)>> \in DOMAIN pool[HelperPool(p)].reserves
           letter == Letter(TargetTier(p))
           known == name \in DOMAIN strategies[p]
           s == reserveContracts(Instruction(p), letter, known)
           r == IF initialized THEN << >> ELSE s
           admin == Admin(script[p])
<1>1. StepsOfRun(p)
  BY DEF StepsOfRun
<1>2. Kinds(admin, Instruction(p)) /\ script' = script
  BY <1>1, Remembers
<1>3. /\ Expand(p, r) /\ UNCHANGED <<locals, inputs, strategies, db>> /\ UNCHANGED chainVars
      /\ Instruction(p).op = "prepare" /\ PoolAnswers(p)
  BY DEF Prepare, Doing, Instruction, localVars
<1>4. Instruction(p) \in PrepareInstruction(admin)
  BY <1>2, <1>3 DEF Kinds
<1>5. script[p] = "mainnet" /\ Prepared \in Has(p)
  <2>1. Instruction(p).admin = admin
    BY <1>4 DEF PrepareInstruction
  <2>2. admin = "signer"
    BY <1>3, <2>1 DEF PoolAnswers
  <2>3. script[p] = "mainnet"
    BY <2>2 DEF Admin
  <2> QED BY <2>3, TokensOf
<1>6. letter \in Letters
  BY <1>3, <1>4, LetterIsKnown
<1>7. known => Strategy(name) \in Has(p)
  BY TokensOf
<1>8. TurnLeads(admin, Has(p), s, Has(p))
  <2> DEFINE x == Instruction(p)
             K == Has(p)
  <2>1. /\ x \in PrepareInstruction(admin) /\ letter \in Letters /\ Prepared \in K
        /\ known \in BOOLEAN
        /\ known => Strategy(x.params.strategy.name) \in K
    BY <1>4, <1>5, <1>6, <1>7
  <2>2. s = reserveContracts(x, letter, known)
    OBVIOUS
  <2> HIDE DEF letter, known, admin, x, K, s
  <2>3. TurnLeads(admin, K, reserveContracts(x, letter, known), K)
    BY <2>1, ReserveTurn
  <2>4. TurnLeads(admin, K, s, K)
    BY <2>2, <2>3
  <2> QED BY <2>4 DEF K
<1> HIDE DEF s, initialized, admin
<1>9. /\ r \in Seq(AnyInstruction(admin)) /\ Ready(Has(p), r)
      /\ \A i \in 1..Len(r) : /\ r[i] # deployProvider
                              /\ r[i].op \in {"deploy", "register", "keepStrategy", "pushInput"}
  <2>1. CASE initialized
    <3>1. r = << >>
      BY <2>1
    <3>2. << >> \in Seq(AnyInstruction(admin)) /\ Len(<< >>) = 0
      OBVIOUS
    <3> HIDE DEF r
    <3>3. r \in Seq(AnyInstruction(admin)) /\ Len(r) = 0 /\ 1..0 = {}
      BY <3>1, <3>2
    <3>4. Ready(Has(p), r)
      BY <3>3 DEF Ready
    <3> QED BY <3>3, <3>4
  <2>2. CASE ~initialized
    <3>1. r = s
      BY <2>2
    <3>2. s \in Seq(TurnInstruction(admin)) /\ Ready(Has(p), s)
      BY <1>8 DEF TurnLeads
    <3>3. TurnInstruction(admin) \subseteq AnyInstruction(admin)
      BY TurnKinds
    <3>4. s \in Seq(AnyInstruction(admin))
      <4> DEFINE T == TurnInstruction(admin)
                 A == AnyInstruction(admin)
      <4> HIDE DEF T, A
      <4>1. s \in Seq(T) /\ T \subseteq A
        BY <3>2, <3>3 DEF T, A
      <4>2. s \in Seq(A)
        BY <4>1
      <4> QED BY <4>2 DEF A
    <3>5. \A i \in 1..Len(s) : s[i] \in TurnInstruction(admin)
      BY <3>2, ElementOfSeq
    <3>6. \A i \in 1..Len(s) :
              /\ s[i] # deployProvider
              /\ s[i].op \in {"deploy", "register", "keepStrategy", "pushInput"}
      BY <3>5, TurnKinds
    <3> HIDE DEF r
    <3> QED BY <3>1, <3>2, <3>4, <3>6
  <2> QED BY <2>1, <2>2
<1> HIDE DEF r
<1>10. \A i \in 1..Len(r) : /\ r[i] # deployProvider
                            /\ r[i].op \notin HelperOp \cup {"enableBorrowingOnReserve"}
                            /\ r[i].op \in ListOp => i <= Len(inputs[p])
  BY <1>9 DEF HelperOp, ListOp
<1>11. Gives(Instruction(p)) \subseteq Has(p)
  <2>1. Gives(Instruction(p)) = {Prepared}
    BY <1>3 DEF Gives
  <2> QED BY <1>5, <2>1
<1> QED BY <1>1, <1>3, <1>9, <1>10, <1>11, ExpandKeeps DEF admin

LEMMA CallSteps ==
    ASSUME DInv, NEW p \in Run, CallForEachInput(p)
    PROVE  DInv'
<1> DEFINE x == [op |-> Instruction(p).call]
           r == [n \in 1..Len(inputs[p]) |-> x]
           admin == Admin(script[p])
<1>1. StepsOfRun(p)
  BY DEF StepsOfRun
<1>2. /\ Kinds(admin, Instruction(p)) /\ script' = script
      /\ Needs(Instruction(p)) \subseteq Has(p) /\ HelperInv(p)
  BY <1>1, Remembers
<1>3. /\ Expand(p, r) /\ UNCHANGED <<locals, inputs, strategies, db>> /\ UNCHANGED chainVars
      /\ Instruction(p).op = "callForEachInput"
  BY DEF CallForEachInput, Doing, Instruction, localVars
<1>4. Instruction(p).call \in ListOp
  BY <1>2, <1>3 DEF Kinds
<1>5. x \in AnyInstruction(admin) /\ x.op \in ListOp
  BY <1>4 DEF AnyInstruction, LoopInstruction
<1>6. Needs(x) \subseteq Has(p)
  <2>1. Needs(Instruction(p)) = {Variable("configurator"), Prepared}
    BY <1>3 DEF Needs, ConfigureOp, ListOp
  <2>2. Needs(x) = {Variable("configurator"), Prepared}
    BY <1>4 DEF Needs, ConfigureOp, ListOp
  <2> QED BY <1>2, <2>1, <2>2
<1>7. x.op \notin HelperOp \cup {"enableBorrowingOnReserve"} /\ x # deployProvider
  <2>1. x.op \notin HelperOp \cup {"enableBorrowingOnReserve"} /\ x.op # "deploy"
    BY <1>5 DEF HelperOp, ListOp
  <2> QED BY <2>1, NotTheProvider
<1>8. Len(inputs[p]) \in Nat
  BY <1>2 DEF HelperInv
<1> HIDE DEF x, admin
<1>9. r \in Seq(AnyInstruction(admin)) /\ Len(r) = Len(inputs[p]) /\ \A i \in 1..Len(r) : r[i] = x
  BY <1>5, <1>8
<1> HIDE DEF r
<1>10. Ready(Has(p), r)
  BY <1>6, <1>9 DEF Ready
<1>11. \A i \in 1..Len(r) : /\ r[i] # deployProvider
                            /\ r[i].op \notin HelperOp \cup {"enableBorrowingOnReserve"}
                            /\ r[i].op \in ListOp => i <= Len(inputs[p])
  BY <1>7, <1>8, <1>9
<1>12. Gives(Instruction(p)) = {}
  BY <1>3 DEF Gives
<1> QED BY <1>1, <1>3, <1>9, <1>10, <1>11, <1>12, ExpandKeeps DEF admin

\* The assets of the mainnet are Ethereum's, so a reserve listed there is one of them.
LEMMA AssetsOf ==
    ASSUME NEW p, script[p] = "mainnet", NEW symbol \in Symbol
    PROVE  /\ TokenAddresses(p)[symbol] = ReserveAssetsAddress.Mainnet[symbol]
           /\ TokenAddresses(p)[symbol] \in MainnetAsset
BY DEF TokenAddresses, MainnetAsset

LEMMA PushSteps ==
    ASSUME DInv, NEW p \in Run, PushInput(p)
    PROVE  DInv'
<1> DEFINE config == Instruction(p).config
           asset == TokenAddresses(p)[config.symbol]
           name == config.params.strategy.name
           input == [underlyingAsset |-> asset, pToken |-> locals[p]["pToken"],
                     variableDebtToken |-> locals[p]["variableDebtToken"],
                     interestRateStrategy |-> strategies[p][name],
                     underlyingAssetDecimals |-> config.params.reserveDecimals,
                     assetRiskTier |-> 2]
           admin == Admin(script[p])
<1>1. StepsOfRun(p)
  BY DEF StepsOfRun
<1>2. /\ LocalsInv(p) /\ HelperInv(p) /\ TodoInv(p) /\ todo[p] # << >> /\ script' = script
      /\ Running(p) /\ Kinds(admin, Instruction(p))
      /\ Needs(Instruction(p)) \subseteq Has(p)
  BY <1>1, Remembers
<1>3. /\ Done(p) /\ UNCHANGED <<locals, strategies, db>> /\ UNCHANGED chainVars
      /\ Instruction(p).op = "pushInput"
      /\ inputs' = [inputs EXCEPT ![p] = Append(inputs[p], input)]
  BY DEF PushInput, Doing, Instruction
<1>4. config \in PrepareInstruction(admin)
  BY <1>2, <1>3 DEF Kinds
<1>5. config.symbol \in Symbol /\ config.params.reserveDecimals \in {6, 18}
  <2>1. config.params \in Params /\ config.symbol \in Symbol
    BY <1>4 DEF PrepareInstruction
  <2> DEFINE params == config.params
  <2> HIDE DEF config, params
  <2>2. params.reserveDecimals \in {6, 18}
    BY <2>1 DEF Params, params
  <2> QED BY <2>1, <2>2 DEF params
<1>6. /\ {"pToken", "variableDebtToken"} \subseteq DOMAIN locals[p]
      /\ name \in DOMAIN strategies[p] /\ script[p] = "mainnet"
  <2>1. Needs(Instruction(p)) = {Variable("pToken"), Variable("variableDebtToken"),
                                 Strategy(name), Prepared}
    BY <1>3 DEF Needs, ConfigureOp, ListOp
  <2>2. /\ Variable("pToken") \in Has(p) /\ Variable("variableDebtToken") \in Has(p)
        /\ Strategy(name) \in Has(p) /\ Prepared \in Has(p)
    BY <1>2, <2>1
  <2> QED BY <2>2, TokensOf
<1>7. asset \in MainnetAsset
  BY <1>5, <1>6, AssetsOf
<1>8. /\ locals[p]["pToken"] \in Nat /\ OfRun(p, locals[p]["pToken"])
      /\ locals[p]["variableDebtToken"] \in Nat /\ OfRun(p, locals[p]["variableDebtToken"])
      /\ OfRun(p, strategies[p][name])
  <2>1. "pToken" \in OwnVariable /\ "variableDebtToken" \in OwnVariable
    BY DEF OwnVariable
  <2> QED BY <1>2, <1>6, <2>1 DEF LocalsInv, HelperInv
<1>9. strategies[p][name] \in Nat
  <2>1. DOMAIN code \subseteq Nat
    BY DEF DInv, ChainInv, CodeInv
  <2> QED BY <1>8, <2>1 DEF OfRun
<1> HIDE DEF asset, name
<1>10. /\ input \in Inputs
       /\ \A a \in {input.pToken, input.variableDebtToken, input.interestRateStrategy} : OfRun(p, a)
  BY <1>5, <1>7, <1>8, <1>9 DEF Inputs
<1>11. CodeGrows /\ code' = code /\ slots' = slots
  BY <1>3, CodeKept
<1> HIDE DEF input, config, admin
<1>12. /\ inputs'[p] = Append(inputs[p], input) /\ inputs[p] \in Seq(Inputs)
       /\ inputs'[p] \in Seq(Inputs) /\ Len(inputs'[p]) = Len(inputs[p]) + 1
       /\ \A i \in 1..Len(inputs'[p]) :
              \/ i \in 1..Len(inputs[p]) /\ inputs'[p][i] = inputs[p][i]
              \/ inputs'[p][i] = input
  <2>1. inputs'[p] = Append(inputs[p], input) /\ inputs[p] \in Seq(Inputs)
    BY <1>2, <1>3 DEF DInv, RunsInv, HelperInv
  <2> DEFINE s == inputs[p]
             t == inputs'[p]
             I == Inputs
  <2>2. t = Append(s, input) /\ s \in Seq(I) /\ input \in I
    BY <1>10, <2>1
  <2> HIDE DEF s, t, I
  <2>3. /\ t \in Seq(I) /\ Len(t) = Len(s) + 1
        /\ \A i \in 1..Len(t) : (i \in 1..Len(s) /\ t[i] = s[i]) \/ t[i] = input
    BY <2>2
  <2> QED BY <2>1, <2>3 DEF s, t, I
<1>13. LocalsInv(p)'
  BY <1>2, <1>3, <1>11, LocalsKept
<1>14. HelperInv(p)'
  <2>1. \A i \in 1..Len(inputs'[p]) :
            \A a \in {inputs'[p][i].pToken, inputs'[p][i].variableDebtToken,
                      inputs'[p][i].interestRateStrategy} : OfRun(p, a)
    BY <1>2, <1>10, <1>12 DEF HelperInv
  <2>2. \A m \in DOMAIN strategies'[p] : OfRun(p, strategies'[p][m])
    BY <1>2, <1>3 DEF HelperInv
  <2> QED BY <1>2, <1>6, <1>11, <1>12, <2>1, <2>2 DEF HelperInv, OfRun
<1>15. Has(p) \cup Gives(Instruction(p)) \subseteq Has(p)'
  <2>1. HasOracle(p) => HasOracle(p)'
    BY <1>3, <1>11 DEF HasOracle
  <2>2. \A k \in ReadKey : HasEntryOf(p, k) => HasEntryOf(p, k)'
    BY <1>2, <1>3, <1>11, EntriesKept
  <2>3. Has(p) \subseteq Has(p)'
    BY <1>2, <1>3, <2>1, <2>2, HasGrows
  <2>4. Gives(Instruction(p)) = {}
    BY <1>3 DEF Gives
  <2> QED BY <2>3, <2>4
<1>16. TodoInv(p)'
  <2>1. ~ThenBorrowing(Instruction(p), Head(todo'[p]))
    BY <1>3 DEF ThenBorrowing
  <2>2. RunsInv /\ Len(inputs[p]) <= Len(inputs'[p]) + 1
    BY <1>12 DEF DInv
  <2> QED BY <1>2, <1>3, <1>12, <1>15, <2>1, <2>2, DoneTodo
<1>17. FileInv'
  BY <1>3 DEF DInv, FileInv
<1> QED BY <1>1, <1>3, <1>13, <1>14, <1>16, <1>17, MemoryKeeps

-----------------------------------------------------------------------------
(***************************************************************************)
(* A contract more.                                                        *)
(***************************************************************************)

\* What a constructor stores is there, and nothing else changes.
Constructed(f, g, v, is, state) ==
    /\ DOMAIN g = IF is THEN DOMAIN f \cup {v} ELSE DOMAIN f
    /\ \A w \in DOMAIN g : \/ w \in DOMAIN f /\ g[w] = f[w]
                           \/ w = v /\ is /\ g[w] = state
    /\ \A w \in DOMAIN f : w # v => g[w] = f[w]

LEMMA StatePut ==
    ASSUME NEW f, NEW contract, NEW kind, NEW state
    PROVE  Constructed(f, NewState(f, contract, kind, state), nextAddress, contract = kind, state)
<1>1. CASE contract = kind
  BY <1>1 DEF NewState, Put, Constructed
<1>2. CASE contract # kind
  BY <1>2 DEF NewState, Constructed
<1> QED BY <1>1, <1>2

\* A new contract has an address no contract had, and a state of its own.
LEMMA ContractMore ==
    ASSUME ChainInv, NEW p \in Run, p <= started, started \in Nat, NEW contract, NEW oracle,
           code' = Put(code, nextAddress, [contract |-> contract, by |-> p]),
           slots' = NewState(slots, contract, "CounterAddressesProvider", UnsetSlots),
           pool' = NewState(pool, contract, "Counter", NewPool),
           source' = NewState(source, contract, "PrestareOracle", oracle),
           contract = "PrestareOracle" /\ script[p] = "mainnet" =>
               \A a \in MainnetAsset : \E pair \in oracle.pairs : pair.asset = a,
           nextAddress' = nextAddress + 1, UNCHANGED <<started, script, configurator>>
    PROVE  /\ ChainInv' /\ CodeGrows
           /\ DOMAIN code' = DOMAIN code \cup {nextAddress}
           /\ nextAddress \in Nat /\ nextAddress \notin DOMAIN code
           /\ code'[nextAddress] = [contract |-> contract, by |-> p]
           /\ \A w \in DOMAIN slots : w \in DOMAIN slots' /\ slots'[w] = slots[w]
<1> DEFINE v == nextAddress
           K == [contract |-> contract, by |-> p]
<1>1. v \in Nat /\ v > Deployer /\ v \notin DOMAIN code /\ \A a \in DOMAIN code : a \in 1..v - 1
  <2>1. v \in Nat /\ v > Deployer /\ \A a \in DOMAIN code : a \in 1..v - 1
    BY DEF ChainInv, CodeInv
  <2>2. v \notin 1..v - 1
    BY <2>1
  <2> QED BY <2>1, <2>2
<1>2. /\ DOMAIN code' = DOMAIN code \cup {v} /\ code'[v] = K
      /\ \A a \in DOMAIN code : code'[a] = code[a]
  BY <1>1 DEF Put
<1>3. CodeGrows
  BY <1>2 DEF CodeGrows
<1>4. /\ DOMAIN slots = Deployed("CounterAddressesProvider") /\ DOMAIN pool = Deployed("Counter")
      /\ DOMAIN source = Deployed("PrestareOracle")
      /\ DOMAIN configurator \subseteq Deployed("CounterConfigurator")
  BY DEF ChainInv, CodeInv
<1>5. /\ \A a \in DOMAIN slots : a \in DOMAIN code /\ a # v
      /\ \A a \in DOMAIN pool : a \in DOMAIN code /\ a # v
      /\ \A a \in DOMAIN source : a \in DOMAIN code /\ a # v
      /\ \A a \in DOMAIN configurator : a \in DOMAIN code
  BY <1>1, <1>4 DEF Deployed
<1>6. \A kind : /\ contract = kind => Deployed(kind)' = Deployed(kind) \cup {v}
                /\ contract # kind => Deployed(kind)' = Deployed(kind)
  <2> SUFFICES ASSUME NEW kind
               PROVE  /\ contract = kind => Deployed(kind)' = Deployed(kind) \cup {v}
                      /\ contract # kind => Deployed(kind)' = Deployed(kind)
    OBVIOUS
  <2>1. K.contract = contract
    OBVIOUS
  <2>2. \A a : a \in Deployed(kind)' <=> a \in DOMAIN code' /\ code'[a].contract = kind
    BY DEF Deployed
  <2>3. \A a : a \in Deployed(kind) <=> a \in DOMAIN code /\ code[a].contract = kind
    BY DEF Deployed
  <2> HIDE DEF K, v
  <2> QED BY <1>1, <1>2, <2>1, <2>2, <2>3
<1>7. Constructed(slots, slots', v, contract = "CounterAddressesProvider", UnsetSlots)
  BY StatePut
<1>8. Constructed(pool, pool', v, contract = "Counter", NewPool)
  BY StatePut
<1>9. Constructed(source, source', v, contract = "PrestareOracle", oracle)
  BY StatePut
<1>10. CodeInv'
  <2>1. \A a \in DOMAIN code' :
            /\ a \in 1..(v + 1) - 1
            /\ code'[a] = [contract |-> code'[a].contract, by |-> code'[a].by]
            /\ code'[a].by \in 0..started
            /\ code'[a].by = 0 => code'[a].contract = "external"
    <3> SUFFICES ASSUME NEW a \in DOMAIN code'
                 PROVE  /\ a \in 1..(v + 1) - 1
                        /\ code'[a] = [contract |-> code'[a].contract, by |-> code'[a].by]
                        /\ code'[a].by \in 0..started
                        /\ code'[a].by = 0 => code'[a].contract = "external"
      OBVIOUS
    <3>1. CASE a \in DOMAIN code
      <4>1. /\ a \in 1..v - 1
            /\ code[a] = [contract |-> code[a].contract, by |-> code[a].by]
            /\ code[a].by \in 0..started
            /\ code[a].by = 0 => code[a].contract = "external"
        BY <3>1 DEF ChainInv, CodeInv
      <4>2. a \in 1..(v + 1) - 1
        BY <1>1, <4>1
      <4> QED BY <1>2, <3>1, <4>1, <4>2
    <3>2. CASE a = v
      <4>1. v \in 1..(v + 1) - 1
        BY <1>1 DEF Deployer
      <4>2. K = [contract |-> K.contract, by |-> K.by] /\ K.by = p
        OBVIOUS
      <4>3. p \in 0..started /\ p # 0
        BY RunsAssumption DEF Run
      <4> QED BY <1>2, <3>2, <4>1, <4>2, <4>3
    <3> QED BY <1>2, <3>1, <3>2
  <2>2. nextAddress' = v + 1 /\ v + 1 \in Nat /\ v + 1 > Deployer
    BY <1>1 DEF Deployer
  <2>3. /\ DOMAIN slots' = Deployed("CounterAddressesProvider")'
        /\ DOMAIN pool' = Deployed("Counter")' /\ DOMAIN source' = Deployed("PrestareOracle")'
        /\ DOMAIN configurator' \subseteq Deployed("CounterConfigurator")'
    BY <1>4, <1>6, <1>7, <1>8, <1>9 DEF Constructed
  <2> HIDE DEF v
  <2> QED BY <2>1, <2>2, <2>3 DEF CodeInv
<1>11. SlotsInv'
  <2>0. slots' = [w \in DOMAIN slots' |-> slots'[w]]
    <3>1. slots = [w \in DOMAIN slots |-> slots[w]]
      BY DEF ChainInv, RegistryInv, SlotsInv
    <3> QED BY <3>1 DEF NewState, Put
  <2> SUFFICES ASSUME NEW w \in DOMAIN slots'
               PROVE  /\ slots'[w] \in [Slot -> Nat]
                      /\ \A slot \in DOMAIN SlotKind : slots'[w][slot] # ZERO_ADDRESS =>
                             Is(slots[w][slot], SlotKind[slot], code[w].by)'
    BY <2>0 DEF SlotsInv
  <2>1. CASE w \in DOMAIN slots /\ slots'[w] = slots[w]
    <3>1. /\ slots[w] \in [Slot -> Nat]
          /\ \A slot \in DOMAIN SlotKind : slots[w][slot] # ZERO_ADDRESS =>
                 Is(slots[w][slot], SlotKind[slot], code[w].by)
      BY <2>1 DEF ChainInv, RegistryInv, SlotsInv
    <3>2. code'[w] = code[w]
      BY <1>2, <1>5, <2>1
    <3> QED BY <1>3, <2>1, <3>1, <3>2 DEF CodeGrows, Is
  <2>2. CASE slots'[w] = UnsetSlots
    <3>1. UnsetSlots \in [Slot -> Nat] /\ \A slot \in Slot : UnsetSlots[slot] = ZERO_ADDRESS
      BY DEF UnsetSlots, ZERO_ADDRESS
    <3>2. DOMAIN SlotKind \subseteq Slot
      BY DEF SlotKind, Slot
    <3> QED BY <2>2, <3>1, <3>2
  <2> QED BY <1>7, <2>1, <2>2 DEF Constructed
<1>12. ConfiguratorsInv'
  <2> SUFFICES ASSUME NEW f \in DOMAIN configurator, configurator[f].counter # ZERO_ADDRESS
               PROVE  Is(configurator[f].counter, "Counter", code[f].by)'
    BY DEF ConfiguratorsInv
  <2>1. Is(configurator[f].counter, "Counter", code[f].by)
    BY DEF ChainInv, RegistryInv, ConfiguratorsInv
  <2>2. code'[f] = code[f]
    BY <1>2, <1>5
  <2> QED BY <1>3, <2>1, <2>2 DEF CodeGrows, Is
<1>13. PoolsInv'
  <2> SUFFICES ASSUME NEW c \in DOMAIN pool'
               PROVE  /\ pool'[c].provider \in Nat
                      /\ pool'[c].provider # ZERO_ADDRESS =>
                             IsProvider(pool[c].provider, code[c].by)'
                      /\ pool'[c].paused \in BOOLEAN
    BY DEF PoolsInv
  <2>1. CASE c \in DOMAIN pool /\ pool'[c] = pool[c]
    <3>1. /\ pool[c].provider \in Nat /\ pool[c].paused \in BOOLEAN
          /\ pool[c].provider # ZERO_ADDRESS => IsProvider(pool[c].provider, code[c].by)
      BY <2>1 DEF ChainInv, RegistryInv, PoolsInv
    <3>2. code'[c] = code[c]
      BY <1>2, <1>5, <2>1
    <3> QED BY <1>3, <2>1, <3>1, <3>2 DEF CodeGrows, Is, IsProvider
  <2>2. CASE pool'[c] = NewPool
    <3>1. NewPool.provider = 0 /\ NewPool.paused = FALSE
      BY DEF NewPool, ZERO_ADDRESS
    <3>2. pool'[c].provider = 0 /\ pool'[c].paused = FALSE
      BY <2>2, <3>1
    <3> DEFINE b == pool'[c].paused
    <3>3. b = FALSE
      BY <3>2
    <3> HIDE DEF b
    <3>4. b \in BOOLEAN
      BY <3>3
    <3> QED BY <3>2, <3>4 DEF b, ZERO_ADDRESS
  <2> QED BY <1>8, <2>1, <2>2 DEF Constructed
<1>14. ReservesInv'
  <2> SUFFICES ASSUME NEW c \in DOMAIN pool', NEW r \in DOMAIN pool'[c].reserves
               PROVE  ReserveInv(code[c].by, pool[c], r)'
    BY DEF ReservesInv
  <2>1. CASE c \in DOMAIN pool /\ pool'[c] = pool[c]
    <3>1. ReserveInv(code[c].by, pool[c], r)
      BY <2>1 DEF ChainInv, ReservesInv
    <3>2. code'[c] = code[c]
      BY <1>2, <1>5, <2>1
    <3>3. pool[c].provider # ZERO_ADDRESS => pool[c].provider \in DOMAIN slots
      <4>1. pool[c].provider # ZERO_ADDRESS => IsProvider(pool[c].provider, code[c].by)
        BY <2>1 DEF ChainInv, RegistryInv, PoolsInv
      <4> QED BY <1>4, <4>1 DEF Deployed, IsProvider, Is
    <3>4. \A q, a : OfRun(q, a) => OfRun(q, a)'
      BY <1>3 DEF CodeGrows, OfRun
    <3>5. \A w \in DOMAIN slots : slots'[w] = slots[w]
      BY <1>5, <1>7 DEF Constructed
    <3> QED BY <2>1, <3>1, <3>2, <3>3, <3>4, <3>5 DEF ReserveInv
  <2>2. CASE pool'[c] = NewPool
    BY <2>2 DEF NewPool
  <2> QED BY <1>8, <2>1, <2>2 DEF Constructed
<1>15. OraclesInv'
  <2> SUFFICES ASSUME NEW o \in DOMAIN source', script[code'[o].by] = "mainnet",
                      NEW a \in MainnetAsset
               PROVE  \E pair \in source'[o].pairs : pair.asset = a
    BY DEF OraclesInv
  <2>1. CASE o \in DOMAIN source /\ source'[o] = source[o]
    <3>1. code'[o] = code[o]
      BY <1>2, <1>5, <2>1
    <3> QED BY <2>1, <3>1 DEF ChainInv, OraclesInv
  <2>2. CASE o = v /\ source'[o] = oracle /\ contract = "PrestareOracle"
    <3>1. K.by = p
      OBVIOUS
    <3> HIDE DEF K
    <3> QED BY <1>2, <2>2, <3>1
  <2> QED BY <1>9, <2>1, <2>2 DEF Constructed
<1>16. \A w \in DOMAIN slots : w \in DOMAIN slots' /\ slots'[w] = slots[w]
  BY <1>5, <1>7 DEF Constructed
<1> QED BY <1>1, <1>2, <1>3, <1>16, <1>10, <1>11, <1>12, <1>13, <1>14, <1>15
        DEF ChainInv, RegistryInv

\* The oracle deployOnMainnet deploys has a price source for each of its assets.
LEMMA MainnetPairs ==
    ASSUME NEW p, script[p] = "mainnet"
    PROVE  \A a \in MainnetAsset : \E pair \in Pairs(p) : pair.asset = a
<1> DEFINE tokens == ReserveAssetsAddress.Mainnet
           feeds == ChainlinkAggregator.Mainnet
           kept == omit(tokens, {"USD"})
<1>1. /\ TokenAddresses(p) = tokens /\ Aggregators(p) = feeds /\ QuoteCurrency(p) = "USD"
  BY DEF TokenAddresses, Aggregators, QuoteCurrency, oracleQuoteCurrency
<1>2. Pairs(p) = {[asset |-> kept[symbol], source |-> feeds[symbol]] :
                      symbol \in DOMAIN kept \cap DOMAIN feeds}
  BY <1>1 DEF Pairs, getPairsTokenAggregator, getQuoteCurrencies
<1>3. DOMAIN tokens = {"USD", "DAI", "WETH", "USDC", "USDT"}
      /\ DOMAIN feeds = {"DAI", "WETH", "USDC", "USDT"}
  BY DEF ReserveAssetsAddress, ChainlinkAggregator
<1>4. Symbol = {"DAI", "WETH", "USDC", "USDT"}
  BY Orders
<1> HIDE DEF tokens, feeds
<1>5. \A symbol \in Symbol : symbol \in DOMAIN kept \cap DOMAIN feeds /\ kept[symbol] = tokens[symbol]
  BY <1>3, <1>4 DEF omit
<1> HIDE DEF kept
<1>6. ASSUME NEW a \in MainnetAsset PROVE \E pair \in Pairs(p) : pair.asset = a
  <2>1. PICK symbol \in Symbol : a = tokens[symbol]
    BY DEF MainnetAsset, tokens
  <2> DEFINE pair == [asset |-> kept[symbol], source |-> feeds[symbol]]
  <2>2. pair \in Pairs(p) /\ pair.asset = a
    BY <1>2, <1>5, <2>1
  <2> QED BY <2>2
<1> QED BY <1>6

LEMMA ConstructSteps ==
    ASSUME DInv, NEW p \in Run, Deploy(p)
    PROVE  DInv'
<1> DEFINE contract == Instruction(p).contract
           as == Instruction(p).as
           v == nextAddress
           kind == "CounterAddressesProvider"
           oracle == IF contract = "PrestareOracle"
                     THEN [fallback |-> locals[p]["PriceOracle"], pairs |-> Pairs(p)]
                     ELSE << >>
<1>1. StepsOfRun(p)
  BY DEF StepsOfRun
<1>2. /\ LocalsInv(p) /\ HelperInv(p) /\ TodoInv(p) /\ todo[p] # << >> /\ script' = script
      /\ Running(p) /\ Kinds(Admin(script[p]), Instruction(p)) /\ OnlyOf(p)
      /\ started' = started
  BY <1>1, Remembers
<1>3. /\ Done(p) /\ UNCHANGED <<inputs, strategies, db, configurator>>
      /\ Instruction(p).op = "deploy" /\ Assign(p, as, v) /\ nextAddress' = v + 1
      /\ code' = Put(code, v, [contract |-> contract, by |-> p])
      /\ slots' = NewState(slots, contract, kind, UnsetSlots)
      /\ pool' = NewState(pool, contract, "Counter", NewPool)
      /\ source' = NewState(source, contract, "PrestareOracle", oracle)
  BY DEF Deploy, Doing, Instruction
<1>4. Instruction(p) \in DeployInstruction
  BY <1>2, <1>3 DEF Kinds
<1>5. /\ as \in OwnVariable \cup Symbol \cup ComputedName
      /\ (as \in NamedForItsKind \/ contract \in NamedForItsKind) => contract = as
      /\ Instruction(p) = deploy(contract, as)
  BY <1>4 DEF DeployInstruction, deploy
<1>6. p <= started /\ started \in Nat
  <2>1. /\ started \in 0..NumRuns /\ (p > started => status[p] = "waiting")
    BY DEF DInv, RunsInv
  <2>2. status[p] # "waiting"
    BY <1>2 DEF Running
  <2> QED BY <2>1, <2>2, RunsAssumption DEF Run
<1>7. contract = "PrestareOracle" /\ script[p] = "mainnet" =>
          \A a \in MainnetAsset : \E pair \in oracle.pairs : pair.asset = a
  <2> SUFFICES ASSUME contract = "PrestareOracle", script[p] = "mainnet"
               PROVE  \A a \in MainnetAsset : \E pair \in oracle.pairs : pair.asset = a
    OBVIOUS
  <2>1. oracle.pairs = Pairs(p)
    OBVIOUS
  <2> HIDE DEF oracle
  <2> QED BY <2>1, MainnetPairs
<1> HIDE DEF oracle
<1>8. /\ ChainInv' /\ CodeGrows
      /\ DOMAIN code' = DOMAIN code \cup {v}
      /\ v \in Nat /\ v \notin DOMAIN code
      /\ code'[v] = [contract |-> contract, by |-> p]
      /\ \A w \in DOMAIN slots : w \in DOMAIN slots' /\ slots'[w] = slots[w]
  <2>1. ChainInv
    BY DEF DInv
  <2> HIDE DEF contract, kind, as
  <2> QED BY <1>2, <1>3, <1>6, <1>7, <2>1, ContractMore DEF kind
<1>9. as = kind \/ contract = kind => /\ contract = as
                                      /\ \A a \in DOMAIN code : code[a].by # p
  <2> SUFFICES ASSUME as = kind \/ contract = kind
               PROVE  contract = as /\ \A a \in DOMAIN code : code[a].by # p
    OBVIOUS
  <2>1. kind \in NamedForItsKind
    BY DEF NamedForItsKind, ReadKey
  <2>2. contract = as /\ as = kind
    BY <1>5, <2>1
  <2>3. Instruction(p) = deployProvider
    BY <1>5, <2>2 DEF deployProvider
  <2> QED BY <1>2, <2>2, <2>3 DEF TodoInv, Instruction
<1>10. /\ DOMAIN locals'[p] = DOMAIN locals[p] \cup {as} /\ locals'[p][as] = v
       /\ \A name \in DOMAIN locals[p] : name # as => locals'[p][name] = locals[p][name]
  <2>1. locals'[p] = Put(locals[p], as, v)
    BY <1>3 DEF Assign, DInv, RunsInv
  <2> HIDE DEF as, v
  <2> QED BY <2>1 DEF Put
<1>11. \A a : a = v => OfRun(p, a)' /\ \A k : Is(a, k, p)' <=> k = contract
  <2> SUFFICES ASSUME NEW a, a = v
               PROVE  OfRun(p, a)' /\ \A k : Is(a, k, p)' <=> k = contract
    OBVIOUS
  <2>1. a \in DOMAIN code' /\ code'[a] = [contract |-> contract, by |-> p]
    BY <1>8
  <2> HIDE DEF contract, v
  <2>2. a \in DOMAIN code' /\ code'[a].by = p
    BY <2>1
  <2>3. \A k : (a \in DOMAIN code' /\ code'[a] = [contract |-> k, by |-> p]) <=> k = contract
    BY <2>1
  <2> QED BY <2>2, <2>3 DEF OfRun, Is
<1>12. NamedForItsKind \subseteq OwnVariable /\ kind \in NamedForItsKind
  BY DEF NamedForItsKind, OwnVariable, ContractName, ReadKey
<1>13. \A read \in ReadBack : read.as # as
  BY <1>5, SymbolsAreNames
<1>14. \A name : name \in NamedForItsKind /\ name = as => contract = name
  BY <1>5
<1> HIDE DEF contract, as, v, kind
<1>15. ASSUME NEW name \in DOMAIN locals'[p]
       PROVE  /\ locals'[p][name] \in Nat
              /\ name \in OwnVariable => OfRun(p, locals[p][name])'
              /\ name \in NamedForItsKind => Is(locals[p][name], name, p)'
  <2>1. CASE name = as
    <3>1. locals'[p][name] = v
      BY <1>10, <2>1
    <3>2. OfRun(p, locals[p][name])' /\ \A k : Is(locals[p][name], k, p)' <=> k = contract
      BY <1>11, <3>1
    <3> QED BY <1>8, <1>14, <2>1, <3>1, <3>2
  <2>2. CASE name # as
    <3>1. name \in DOMAIN locals[p] /\ locals'[p][name] = locals[p][name]
      BY <1>10, <2>2
    <3>2. /\ locals[p][name] \in Nat
          /\ name \in OwnVariable => OfRun(p, locals[p][name])
          /\ name \in NamedForItsKind => Is(locals[p][name], name, p)
      BY <1>2, <3>1 DEF LocalsInv
    <3> QED BY <1>8, <3>1, <3>2 DEF CodeGrows, OfRun, Is
  <2> QED BY <2>1, <2>2
<1>16. ASSUME script[p] = "mainnet", NEW read \in ReadBack, read.as \in DOMAIN locals'[p]
       PROVE  Is(locals[p][read.as], read.contract, p)'
  <2>1. read.as \in DOMAIN locals[p] /\ locals'[p][read.as] = locals[p][read.as]
    BY <1>10, <1>13, <1>16
  <2>2. Is(locals[p][read.as], read.contract, p)
    BY <1>2, <1>16, <2>1 DEF LocalsInv
  <2> QED BY <1>8, <2>1, <2>2 DEF CodeGrows, Is
<1>17. ASSUME NEW a \in DOMAIN code', IsProvider(a, p)'
       PROVE  kind \in DOMAIN locals'[p] /\ locals'[p][kind] = a
  <2>1. CASE a = v
    <3>1. kind = contract
      BY <1>11, <1>17, <2>1 DEF IsProvider, kind
    <3> QED BY <1>9, <1>10, <2>1, <3>1
  <2>2. CASE a \in DOMAIN code
    <3>1. IsProvider(a, p) /\ code[a].by = p
      BY <1>8, <1>17, <2>2 DEF CodeGrows, IsProvider, Is
    <3>2. kind \in DOMAIN locals[p] /\ locals[p][kind] = a
      BY <1>2, <2>2, <3>1 DEF LocalsInv, kind
    <3> QED BY <1>9, <1>10, <2>2, <3>1, <3>2
  <2> QED BY <1>8, <2>1, <2>2
<1>18. LocalsInv(p)'
  BY <1>2, <1>15, <1>16, <1>17 DEF LocalsInv, kind
<1>19. HelperInv(p)'
  BY <1>2, <1>3, <1>8, HelperKept
<1>20. HasOracle(p) => HasOracle(p)'
  <2> SUFFICES ASSUME kind \in DOMAIN locals[p], slots[locals[p][kind]]["PriceOracle"] # ZERO_ADDRESS
               PROVE  HasOracle(p)'
    BY DEF HasOracle, kind
  <2>1. /\ locals[p][kind] \in DOMAIN code /\ code[locals[p][kind]].by = p
        /\ code[locals[p][kind]].contract = kind
    BY <1>2, <1>12, OwnContracts
  <2>2. locals[p][kind] \in DOMAIN slots
    BY <2>1 DEF DInv, ChainInv, CodeInv, Deployed, kind
  <2>3. kind # as
    BY <1>9, <2>1
  <2>4. kind \in DOMAIN locals'[p] /\ locals'[p][kind] = locals[p][kind]
    BY <1>10, <2>3
  <2> QED BY <1>8, <2>2, <2>4 DEF HasOracle, kind
<1>21. Has(p) \cup Gives(Instruction(p)) \subseteq Has(p)'
  <2>1. \A k \in ReadKey : HasEntryOf(p, k) => HasEntryOf(p, k)'
    BY <1>2, <1>3, <1>8, EntriesKept
  <2>2. Has(p) \subseteq Has(p)'
    BY <1>2, <1>3, <1>10, <1>20, <2>1, HasGrows
  <2>3. Gives(Instruction(p)) = {Variable(as)}
    BY <1>3 DEF Gives, as
  <2>4. Variable(as) \in Has(p)'
    BY <1>10 DEF Has
  <2> QED BY <2>2, <2>3, <2>4
<1>22. TodoInv(p)'
  BY <1>2, <1>3, <1>21, PlainTodo
<1>23. FileInv'
  BY <1>3 DEF DInv, FileInv
<1> QED BY <1>2, <1>8, <1>18, <1>19, <1>22, <1>23, InvariantKept DEF Memory

-----------------------------------------------------------------------------
(***************************************************************************)
(* The course of a run.                                                    *)
(***************************************************************************)

\* With more given, what is left stays in order.
LEMMA TodoMore ==
    ASSUME NEW admin, NEW K, NEW L, NEW s, NEW n, Todo(admin, K, s, n), K \subseteq L
    PROVE  Todo(admin, L, s, n)
BY DEF Todo, Ready

\* Contracts with a state are of a run that has started.
LEMMA Owners ==
    ASSUME DInv, NEW a, NEW kind, kind # "external", a \in Deployed(kind)
    PROVE  a \in DOMAIN code /\ code[a].by \in Run /\ code[a].by <= started
<1>1. a \in DOMAIN code /\ code[a].contract = kind
  BY DEF Deployed
<1>2. code[a].by \in 0..started /\ (code[a].by = 0 => code[a].contract = "external")
  BY <1>1 DEF DInv, ChainInv, CodeInv
<1>3. started \in 0..NumRuns
  BY DEF DInv, RunsInv
<1> QED BY <1>1, <1>2, <1>3, RunsAssumption DEF Run

LEMMA StartSteps ==
    ASSUME ~SameProcess, DInv, NEW p \in Run, NEW s \in Scripts, Start(p, s)
    PROVE  DInv'
<1>1. /\ p = started + 1 /\ started' = p
      /\ \A q \in Run : ~Running(q)
      /\ status' = [status EXCEPT ![p] = "running"]
      /\ script' = [script EXCEPT ![p] = s]
      /\ todo' = [todo EXCEPT ![p] = Plan(s)]
      /\ UNCHANGED <<locals, inputs, strategies, db>> /\ UNCHANGED chainVars
  BY DEF Start, localVars
<1>2. s \in Script /\ s # "none"
  BY ScriptsAssumption DEF Script
<1>3. RunsInv /\ FileInv /\ ChainInv /\ started \in Nat /\ started \in 0..NumRuns
  <2>1. started \in 0..NumRuns
    BY DEF DInv, RunsInv
  <2> QED BY <2>1, RunsAssumption DEF DInv
<1>4. /\ status'[p] = "running" /\ \A q \in Run : q # p => status'[q] = status[q]
      /\ script'[p] = s /\ \A q \in Run : q # p => script'[q] = script[q]
      /\ todo'[p] = Plan(s) /\ DOMAIN todo' = Run
  BY <1>1, <1>3 DEF RunsInv
<1>5. RunsInv'
  <2>1. status' \in [Run -> {"waiting", "running", "finished", "failed", "killed"}]
        /\ script' \in [Run -> Script \cup {"none"}]
    BY <1>1, <1>2, <1>3 DEF RunsInv
  <2>2. started' \in 0..NumRuns
    BY <1>1, RunsAssumption DEF Run
  <2>3. \A q \in Run : q > started' => status'[q] = "waiting"
    BY <1>1, <1>3, <1>4 DEF RunsInv, Run
  <2>4. \A q \in Run : q <= started' => script'[q] \in Script
    BY <1>1, <1>2, <1>3, <1>4 DEF RunsInv, Run
  <2>5. \A q \in Run : Running(q)' => q = p
    BY <1>1, <1>4 DEF Running
  <2>6. \A q \in Run : ~Running(q)' =>
            locals'[q] = << >> /\ inputs'[q] = << >> /\ strategies'[q] = << >>
    BY <1>1, <1>3 DEF RunsInv
  <2>7. DOMAIN locals' = Run /\ DOMAIN inputs' = Run /\ DOMAIN strategies' = Run
    BY <1>1, <1>3 DEF RunsInv
  <2> QED BY <1>4, <2>1, <2>2, <2>3, <2>4, <2>5, <2>6, <2>7 DEF RunsInv
<1>6. FileInv'
  BY <1>1, <1>3 DEF FileInv
<1>7. /\ code' = code /\ slots' = slots /\ pool' = pool /\ source' = source
      /\ configurator' = configurator /\ nextAddress' = nextAddress
  BY <1>1 DEF chainVars, providerVars, oracleVars
<1>8. ChainInv'
  <2>1. CodeInv'
    <3>1. \A a \in DOMAIN code : code[a].by \in 0..started'
      BY <1>1, <1>3 DEF ChainInv, CodeInv
    <3> QED BY <1>3, <1>7, <3>1 DEF ChainInv, CodeInv, Deployed
  <2>2. RegistryInv'
    BY <1>3, <1>7 DEF ChainInv, RegistryInv, SlotsInv, ConfiguratorsInv, PoolsInv, Is, IsProvider
  <2>3. \A q \in Run : q <= started => script'[q] = script[q]
    BY <1>1, <1>3, <1>4
  <2>4. ReservesInv'
    <3> SUFFICES ASSUME NEW c \in DOMAIN pool, NEW r \in DOMAIN pool[c].reserves
                 PROVE  ReserveInv(code[c].by, pool[c], r)'
      BY <1>7 DEF ReservesInv
    <3>1. ReserveInv(code[c].by, pool[c], r)
      BY <1>3 DEF ChainInv, ReservesInv
    <3>2. c \in Deployed("Counter")
      BY <1>3 DEF ChainInv, CodeInv
    <3>3. code[c].by \in Run /\ code[c].by <= started
      BY <3>2, Owners
    <3>4. script'[code[c].by] = script[code[c].by]
      BY <2>3, <3>3
    <3> QED BY <1>7, <3>1, <3>4 DEF ReserveInv, OfRun
  <2>5. OraclesInv'
    <3> SUFFICES ASSUME NEW o \in DOMAIN source, script'[code[o].by] = "mainnet"
                 PROVE  \A a \in MainnetAsset : \E pair \in source[o].pairs : pair.asset = a
      BY <1>7 DEF OraclesInv
    <3>1. o \in Deployed("PrestareOracle")
      BY <1>3 DEF ChainInv, CodeInv
    <3>2. code[o].by \in Run /\ code[o].by <= started
      BY <3>1, Owners
    <3>3. script[code[o].by] = "mainnet"
      BY <2>3, <3>2
    <3> QED BY <1>3, <3>3 DEF ChainInv, OraclesInv
  <2> QED BY <2>1, <2>2, <2>4, <2>5 DEF ChainInv
<1>9. \A a \in DOMAIN code' : code'[a].by # p
  BY <1>1, <1>3, <1>7 DEF ChainInv, CodeInv
<1>10. locals'[p] = << >> /\ inputs'[p] = << >> /\ strategies'[p] = << >>
  BY <1>1, <1>3 DEF RunsInv
<1>11. DOMAIN << >> = {} /\ Len(<< >>) = 0 /\ << >> \in Seq(Inputs)
  OBVIOUS
<1>12. LocalsInv(p)'
  <2>1. DOMAIN locals'[p] = {}
    BY <1>10, <1>11
  <2>2. \A a \in DOMAIN code' : ~IsProvider(a, p)'
    BY <1>9 DEF IsProvider, Is
  <2> QED BY <2>1, <2>2 DEF LocalsInv
<1>13. HelperInv(p)'
  <2>1. DOMAIN strategies'[p] = {} /\ Len(inputs'[p]) = 0 /\ inputs'[p] \in Seq(Inputs)
        /\ 1..0 = {}
    BY <1>10, <1>11
  <2> QED BY <1>10, <2>1 DEF HelperInv
<1>14. TodoInv(p)'
  <2>1. Todo(Admin(s), Before(s), Plan(s), 0) /\ Plan(s) # << >> /\ Head(Plan(s)) = deployProvider
    BY <1>2, PlanTodo
  <2>2. Before(s) \subseteq Has(p)'
    <3>1. CASE s = "mainnet"
      BY <3>1 DEF Before
    <3>2. CASE s # "mainnet"
      <4>1. \A key \in ReadKey : HasEntryOf(p, key)'
        BY <1>4, <3>2 DEF HasEntryOf
      <4>2. \A key \in ReadKey : Entry(key) \in Has(p)'
        BY <4>1 DEF Has
      <4> QED BY <3>2, <4>2 DEF Before
    <3> QED BY <3>1, <3>2
  <2> DEFINE L == Has(p)'
             K == Before(s)
             plan == Plan(s)
             admin == Admin(s)
  <2> HIDE DEF L, K, plan, admin
  <2>3. Todo(admin, L, plan, 0)
    <3>1. Todo(admin, K, plan, 0) /\ K \subseteq L
      BY <2>1, <2>2 DEF admin, K, plan, L
    <3> QED BY <3>1, TodoMore
  <2>4. Len(inputs'[p]) = 0
    BY <1>10, <1>11
  <2>5. Todo(Admin(script'[p]), Has(p)', todo'[p], Len(inputs'[p]))
    BY <1>4, <2>3, <2>4 DEF L, plan, admin
  <2>6. Head(todo'[p]).op # "enableBorrowingOnReserve"
    BY <1>4, <2>1 DEF deployProvider, deploy
  <2> QED BY <1>9, <2>5, <2>6 DEF TodoInv
<1>15. \A q \in Run : Running(q)' => q = p
  BY <1>1, <1>4 DEF Running
<1> QED BY <1>5, <1>6, <1>8, <1>12, <1>13, <1>14, <1>15 DEF DInv, Memory

\* Nothing runs on.
LEMMA StopKeeps ==
    ASSUME DInv, UNCHANGED <<started, script, db>>, UNCHANGED chainVars, Forget,
           status' \in [Run -> {"waiting", "finished", "failed", "killed"}],
           \A q \in Run : q > started => status'[q] = "waiting"
    PROVE  DInv'
<1>1. RunsInv /\ FileInv /\ ChainInv
  BY DEF DInv
<1>2. \A q \in Run : ~Running(q)'
  BY DEF Running
<1>3. /\ DOMAIN todo' = Run /\ DOMAIN locals' = Run /\ DOMAIN inputs' = Run
      /\ DOMAIN strategies' = Run
      /\ \A q \in Run : locals'[q] = << >> /\ inputs'[q] = << >> /\ strategies'[q] = << >>
  BY DEF Forget
<1>4. status' \in [Run -> {"waiting", "running", "finished", "failed", "killed"}]
  OBVIOUS
<1>5. RunsInv'
  BY <1>1, <1>2, <1>3, <1>4 DEF RunsInv
<1>6. FileInv' /\ ChainInv'
  BY <1>1, ChainKept DEF FileInv
<1> QED BY <1>2, <1>5, <1>6 DEF DInv

LEMMA EndSteps ==
    ASSUME ~SameProcess, DInv, NEW p \in Run, NEW how \in {"finished", "failed"},
           Running(p), End(p, how)
    PROVE  DInv'
<1>1. /\ status' = [q \in Run |-> IF q = p THEN how
                                  ELSE IF RunsMain(p) /\ Running(q) THEN "killed"
                                  ELSE status[q]]
      /\ Forget /\ UNCHANGED <<started, script, db>> /\ UNCHANGED chainVars
  BY DEF End
<1>2. RunsMain(p)
  BY DEF RunsMain
<1>3. status \in [Run -> {"waiting", "running", "finished", "failed", "killed"}]
      /\ \A q \in Run : q > started => status[q] = "waiting"
  BY DEF DInv, RunsInv
<1>4. status' \in [Run -> {"waiting", "finished", "failed", "killed"}]
  BY <1>1, <1>2, <1>3 DEF Running
<1>5. \A q \in Run : q > started => status'[q] = "waiting"
  BY <1>1, <1>2, <1>3 DEF Running
<1> QED BY <1>1, <1>4, <1>5, StopKeeps

LEMMA CrashSteps == ASSUME DInv, Crash PROVE DInv'
<1>1. /\ status' = [p \in Run |-> IF Running(p) THEN "killed" ELSE status[p]]
      /\ Forget /\ UNCHANGED <<started, script, db>> /\ UNCHANGED chainVars
  BY DEF Crash
<1>2. status \in [Run -> {"waiting", "running", "finished", "failed", "killed"}]
      /\ \A q \in Run : q > started => status[q] = "waiting"
  BY DEF DInv, RunsInv
<1>3. status' \in [Run -> {"waiting", "finished", "failed", "killed"}]
      /\ \A q \in Run : q > started => status'[q] = "waiting"
  BY <1>1, <1>2 DEF Running
<1> QED BY <1>1, <1>3, StopKeeps

\* A chain no script has run on.
ForkedState ==
    /\ started \in Nat /\ code = Forked /\ nextAddress = Deployer + 1 /\ slots = << >>
    /\ configurator = << >> /\ pool = << >> /\ source = << >>

\* A lost chain has no contract of any run: an entry of the file names an address that
\* has no code or, later, that of another contract.
LEMMA ForkedChain == ForkedState => ChainInv
<1> SUFFICES ASSUME ForkedState PROVE ChainInv
  OBVIOUS
<1>0. /\ started \in Nat /\ code = Forked /\ nextAddress = Deployer + 1 /\ slots = << >>
      /\ configurator = << >> /\ pool = << >> /\ source = << >>
  BY DEF ForkedState
<1>1. DOMAIN << >> = {}
  OBVIOUS
<1>2. DOMAIN slots = {} /\ DOMAIN configurator = {} /\ DOMAIN pool = {} /\ DOMAIN source = {}
  BY <1>0, <1>1
<1>3. /\ DOMAIN code = 1..16
      /\ \A a \in 1..16 : code[a] = [contract |-> "external", by |-> 0]
  BY <1>0 DEF Forked, External, Deployer
<1>4. \A kind : kind # "external" => Deployed(kind) = {}
  BY <1>3 DEF Deployed
<1>5. CodeInv
  <2>1. nextAddress = 18
    BY <1>0 DEF Deployer
  <2>2. \A a \in 1..16 : a \in 1..18 - 1
    OBVIOUS
  <2>3. \A a \in DOMAIN code :
            /\ code[a] = [contract |-> code[a].contract, by |-> code[a].by]
            /\ code[a].by = 0 /\ code[a].contract = "external"
    BY <1>3
  <2>4. 0 \in 0..started
    BY <1>0
  <2> QED BY <1>2, <1>3, <1>4, <2>1, <2>2, <2>3, <2>4 DEF CodeInv, Deployer
<1>6. slots = [v \in DOMAIN slots |-> slots[v]]
  BY <1>0
<1> QED BY <1>2, <1>5, <1>6 DEF ChainInv, RegistryInv, SlotsInv, ConfiguratorsInv, PoolsInv,
        ReservesInv, OraclesInv

LEMMA NextForkedChain == ForkedState' => ChainInv'
BY ForkedChain, PTL

LEMMA RestartSteps == ASSUME DInv, NodeRestarts PROVE DInv'
<1>1. /\ \A p \in Run : ~Running(p)
      /\ UNCHANGED <<started, status, script, todo, locals, inputs, strategies, db>>
      /\ code' = Forked /\ nextAddress' = Deployer + 1 /\ slots' = << >>
      /\ configurator' = << >> /\ pool' = << >> /\ source' = << >>
  BY DEF NodeRestarts, runVars, localVars
<1>2. RunsInv' /\ FileInv' /\ \A p \in Run : ~Running(p)'
  BY <1>1 DEF DInv, RunsInv, FileInv, Running
<1>3. started' \in Nat
  BY <1>1, RunsAssumption DEF DInv, RunsInv
<1>4. ChainInv'
  BY <1>1, <1>3, NextForkedChain DEF ForkedState, Forked, External
<1> QED BY <1>2, <1>4 DEF DInv

LEMMA InitDInv == Init => DInv
<1> SUFFICES ASSUME Init PROVE DInv
  OBVIOUS
<1>1. \A p \in Run : status[p] = "waiting" /\ ~Running(p)
  BY DEF Init, Running
<1>2. DOMAIN << >> = {}
  OBVIOUS
<1>3. RunsInv
  BY <1>1, RunsAssumption DEF Init, RunsInv, Run
<1>4. FileInv
  BY <1>2 DEF Init, FileInv
<1>5. ChainInv
  BY ForkedChain DEF Init, ForkedState
<1> QED BY <1>1, <1>3, <1>4, <1>5 DEF DInv

-----------------------------------------------------------------------------
(***************************************************************************)
(* What the scripts keep, each in a process of its own.                    *)
(***************************************************************************)

LEMMA NothingSteps == ASSUME DInv, UNCHANGED vars PROVE DInv'
<1>1. /\ UNCHANGED <<started, status, script, todo, locals, inputs, strategies, db>>
      /\ UNCHANGED <<code, nextAddress, slots, configurator, pool, source>>
  BY DEF vars, runVars, localVars, chainVars, providerVars, oracleVars
<1>2. RunsInv' /\ FileInv'
  BY <1>1 DEF DInv, RunsInv, FileInv, Running
<1>3. ChainInv'
  BY <1>1, ChainKept DEF DInv, vars
<1>4. ASSUME NEW p \in Run, Running(p)' PROVE Memory(p)'
  <2>1. Memory(p)
    BY <1>1, <1>4 DEF DInv, Running
  <2>2. LocalsInv(p)'
    BY <1>1, <2>1, LocalsKept DEF Memory
  <2>3. HelperInv(p)'
    BY <1>1, <2>1, HelperKept DEF Memory, CodeGrows
  <2>4. Has(p)' = Has(p)
    BY <1>1 DEF Has, HasEntryOf, HasOracle, Is
  <2>5. ConfiguredWord(p)' = ConfiguredWord(p)
    BY <1>1 DEF ConfiguredWord, HelperCounter, HelperPool, ConfiguredReserve, TokenAddress, TokenAddresses,
                Instruction
  <2>6. TodoInv(p)'
    BY <1>1, <2>1, <2>4, <2>5 DEF Memory, TodoInv
  <2> QED BY <2>2, <2>3, <2>6 DEF Memory
<1> QED BY <1>2, <1>3, <1>4 DEF DInv

LEMMA NextDInv == ASSUME ~SameProcess, DInv, IInv, [Next]_vars PROVE DInv'
<1>1. ASSUME NEW p \in Run, Step(p) PROVE DInv'
  <2>1. CASE Deploy(p)
    BY <2>1, ConstructSteps
  <2>2. CASE Register(p) \/ RawInsert(p)
    BY <2>2, PutSteps
  <2>3. CASE Attach(p)
    BY <2>3, AttachSteps
  <2>4. CASE Set(p)
    BY <2>4, SetSteps
  <2>5. CASE InitializeCounter(p)
    BY <2>5, InitializePoolSteps
  <2>6. CASE InitializeConfigurator(p)
    BY <2>6, InitializeConfiguratorSteps
  <2>7. CASE SetAssetPrice(p) \/ AuthorizeCounter(p)
    BY <2>7, PricesSteps
  <2>8. CASE EnterHelper(p)
    BY <2>8, EnterSteps
  <2>9. CASE Prepare(p)
    BY <2>9, PrepareSteps
  <2>10. CASE KeepStrategy(p)
    BY <2>10, KeepStrategySteps
  <2>11. CASE PushInput(p)
    BY <2>11, PushSteps
  <2>12. CASE CallForEachInput(p)
    BY <2>12, CallSteps
  <2>13. CASE InitReserve(p) \/ UpgradeAssetClass(p)
    BY <2>13, ListSteps
  <2>14. CASE ConfigureReserveAsCollateral(p)
    BY <2>14, CollateralKeeps
  <2>15. CASE EnableBorrowingOnReserve(p) \/ SetReserveFactor(p)
    BY <2>15, BorrowingKeeps
  <2>16. CASE SetCRT(p) \/ SetPoolPause(p)
    BY <2>16, GovernanceSteps
  <2>17. CASE Finish(p)
    BY <2>17, EndSteps DEF Finish
  <2>18. CASE Throw(p)
    BY <2>18, EndSteps DEF Throw
  <2> QED BY <1>1, <2>1, <2>2, <2>3, <2>4, <2>5, <2>6, <2>7, <2>8, <2>9, <2>10, <2>11,
             <2>12, <2>13, <2>14, <2>15, <2>16, <2>17, <2>18 DEF Step
<1>2. ASSUME NEW p \in Run, NEW s \in Scripts, Start(p, s) PROVE DInv'
  BY <1>2, StartSteps
<1> QED BY <1>1, <1>2, CrashSteps, RestartSteps, NothingSteps DEF Next

\* Everything a run is about to do is ready, whatever came before it.
LEMMA DeploymentInvariance == ASSUME ~SameProcess PROVE Spec => [](DInv /\ IInv)
<1>1. Init => DInv /\ IInv
  BY InitDInv, InitIInv
<1>2. DInv /\ IInv /\ [Next]_vars => DInv' /\ IInv'
  BY NextDInv, NextIInv
<1> QED BY <1>1, <1>2, PTL DEF Spec

LEMMA AssetsAreAddresses == MainnetAsset \subseteq Nat
<1>1. /\ ReserveAssetsAddress.Mainnet["DAI"] = 1 /\ ReserveAssetsAddress.Mainnet["WETH"] = 2
      /\ ReserveAssetsAddress.Mainnet["USDC"] = 3 /\ ReserveAssetsAddress.Mainnet["USDT"] = 4
  BY DEF ReserveAssetsAddress
<1> QED BY <1>1, Orders DEF MainnetAsset

\* The scripts' state keeps its type.
THEOREM DeploymentTyped == ASSUME ~SameProcess PROVE Spec => []TypeOK
<1>1. DInv /\ IInv => TypeOK
  <2> SUFFICES ASSUME DInv, IInv PROVE TypeOK
    OBVIOUS
  <2>1. RunsInv /\ FileInv /\ CodeInv /\ SlotsInv /\ PoolsInv /\ ReservesInv
    BY DEF DInv, ChainInv, RegistryInv
  <2>2. ASSUME NEW p \in Run, NEW name \in DOMAIN locals[p] PROVE locals[p][name] \in Address
    <3>1. CASE Running(p)
      BY <2>2, <3>1 DEF DInv, Memory, LocalsInv, Address
    <3>2. CASE ~Running(p)
      <4>1. locals[p] = << >> /\ DOMAIN << >> = {}
        BY <2>1, <3>2 DEF RunsInv
      <4> QED BY <2>2, <4>1
    <3> QED BY <3>1, <3>2
  <2>3. slots \in [DOMAIN slots -> [Slot -> Address]]
    <3>1. slots = [v \in DOMAIN slots |-> slots[v]] /\ \A v \in DOMAIN slots : slots[v] \in [Slot -> Nat]
      BY <2>1 DEF SlotsInv
    <3> QED BY <3>1 DEF Address
  <2>4. ASSUME NEW c \in DOMAIN pool
        PROVE  /\ pool[c].provider \in Address
               /\ DOMAIN pool[c].reserves \subseteq Address \X Tier
               /\ pool[c].assetClass \in [DOMAIN pool[c].assetClass -> Tier]
               /\ \A r \in DOMAIN pool[c].reserves : pool[c].reserves[r].configuration \in Word
               /\ pool[c].paused \in BOOLEAN
    <3>1. pool[c].provider \in Nat /\ pool[c].paused \in BOOLEAN
      BY <2>1 DEF PoolsInv
    <3>2. IsPool(pool[c])
      BY DEF IInv
    <3>3. \A r \in DOMAIN pool[c].reserves : r \in Nat \X Tier
      <4> SUFFICES ASSUME NEW r \in DOMAIN pool[c].reserves PROVE r \in Nat \X Tier
        OBVIOUS
      <4>1. r \in (DOMAIN pool[c].assetClass) \X Tier
        BY <3>2 DEF IsPool
      <4>2. r[1] \in Nat
        BY <2>1, AssetsAreAddresses DEF ReservesInv, ReserveInv
      <4> QED BY <4>1, <4>2
    <3>4. \A r \in DOMAIN pool[c].reserves : pool[c].reserves[r].configuration \in Word
      <4>1. KnownBit \subseteq 0..255
        BY DEF KnownBit
      <4> QED BY <3>2, <4>1 DEF IsPool, IsReserve, Word
    <3> QED BY <3>1, <3>2, <3>3, <3>4 DEF Address, IsPool
  <2>5. /\ started \in 0..NumRuns
        /\ status \in [Run -> {"waiting", "running", "finished", "failed", "killed"}]
        /\ script \in [Run -> Script \cup {"none"}]
    BY <2>1 DEF RunsInv
  <2>6. nextAddress \in Address /\ \A key \in DOMAIN db : db[key] \in Address
    BY <2>1 DEF CodeInv, FileInv, Address
  <2> QED BY <2>2, <2>3, <2>4, <2>5, <2>6 DEF TypeOK
<1> QED BY <1>1, DeploymentInvariance, PTL

\* A run of deployOnMainnet connects to no contract but its own, whatever earlier
\* runs, crashes and lost chains have left in the file.
THEOREM RunsReadTheirOwn == ASSUME ~SameProcess PROVE Spec => []ReadsItsOwn
<1>1. DInv => ReadsItsOwn
  BY DEF DInv, Memory, LocalsInv, ReadsItsOwn, Is
<1> QED BY <1>1, DeploymentInvariance, PTL

\* Whatever a pool's reserves are made of is of the run that deployed the pool.
THEOREM MarketsAreOfOneRun == ASSUME ~SameProcess PROVE Spec => []MarketsDoNotMix
<1>1. DInv => MarketsDoNotMix
  BY DEF DInv, ChainInv, ReservesInv, ReserveInv, OfRun, MarketsDoNotMix
<1> QED BY <1>1, DeploymentInvariance, PTL

\* No loan can be asked for before it can be judged: a reserve open for borrowing
\* is a collateral with a price.
THEOREM LoansCanBeJudged == ASSUME ~SameProcess PROVE Spec => []BorrowableIsPriced
<1>1. DInv => BorrowableIsPriced
  <2> SUFFICES ASSUME DInv, NEW c \in DOMAIN pool, NEW r \in DOMAIN pool[c].reserves,
                      getBorrowingEnabled(pool[c].reserves[r].configuration)
               PROVE  /\ getLtv(pool[c].reserves[r].configuration) # {}
                      /\ getLiquidationBonus(pool[c].reserves[r].configuration) # {}
                      /\ Prices(pool[c].provider, r[1])
    BY DEF BorrowableIsPriced
  <2> DEFINE q == code[c].by
             v == pool[c].provider
             o == slots[v]["PriceOracle"]
  <2>1. /\ script[q] = "mainnet" /\ r[1] \in MainnetAsset
        /\ CollateralIsSet(pool[c].reserves[r].configuration)
        /\ v # ZERO_ADDRESS /\ o # ZERO_ADDRESS
    BY DEF DInv, ChainInv, ReservesInv, ReserveInv
  <2>2. IsProvider(v, q)
    BY <2>1 DEF DInv, ChainInv, RegistryInv, PoolsInv
  <2>3. v \in DOMAIN slots /\ code[v].by = q
    BY <2>2 DEF DInv, ChainInv, CodeInv, Deployed, IsProvider, Is
  <2>4. Is(o, "PrestareOracle", q)
    <3>1. "PriceOracle" \in DOMAIN SlotKind /\ SlotKind["PriceOracle"] = "PrestareOracle"
      BY DEF SlotKind
    <3> HIDE DEF q, v
    <3> QED BY <2>1, <2>3, <3>1 DEF DInv, ChainInv, RegistryInv, SlotsInv
  <2>5. o \in DOMAIN source /\ code[o].by = q
    BY <2>4 DEF DInv, ChainInv, CodeInv, Deployed, Is
  <2>6. \E pair \in source[o].pairs : pair.asset = r[1]
    BY <2>1, <2>5 DEF DInv, ChainInv, OraclesInv
  <2> QED BY <2>1, <2>5, <2>6 DEF CollateralIsSet, Prices
<1> QED BY <1>1, DeploymentInvariance, PTL

-----------------------------------------------------------------------------
(***************************************************************************)
(* What a script is to leave behind: the contracts of its market saved in  *)
(* the file, and the provider naming them.                                 *)
(***************************************************************************)

Central ==
    {"CounterAddressesProvider", "Counter", "CounterConfigurator", "CounterCollateralManager",
     "PrestareOracle"}

\* The variable the address for a slot is taken from.
Source(slot) ==
    CASE slot \in {"PoolAdmin", "EmergencyAdmin"} -> "admin"
      [] slot = "PriceOracle" -> "PrestareOracle"
      [] OTHER -> slot

Saved(key) == <<"saved", key>>
Named(slot) == <<"named", slot>>
Goal == {Saved(key) : key \in Central} \cup {Named(slot) : slot \in Slot}

\* The goals that speak of the contract a variable holds.
GoalsOf(as) ==
    {g \in Goal : \/ g = Saved(as)
                  \/ \E slot \in Slot :
                         /\ g = Named(slot)
                         /\ as \in {Source(slot), "CounterAddressesProvider"} \ {"admin"}}

\* What an instruction reaches, and what it may undo.
Reaches(x) ==
    CASE x.op = "register" -> IF x.as = x.key THEN Goal \cap {Saved(x.key)} ELSE {}
      [] x.op = "set" -> {Named(x.slot)}
      [] OTHER -> {}

Undoes(x) ==
    CASE x.op \in {"deploy", "attach"} -> GoalsOf(x.as)
      [] x.op = "register" -> IF x.as = x.key THEN {} ELSE Goal \cap {Saved(x.key)}
      [] x.op = "rawInsert" -> Goal \cap {Saved(x.key)}
      [] OTHER -> {}

Reached(s) == UNION {Reaches(s[i]) : i \in 1..Len(s)}

\* What a sequence undoes and does not reach again after that.
Owed(s) ==
    {g \in Goal : \E i \in 1..Len(s) : /\ g \in Undoes(s[i])
                                       /\ \A j \in i + 1..Len(s) : g \notin Reaches(s[j])}

LEMMA ReachedConcat ==
    ASSUME NEW I, NEW s \in Seq(I), NEW t \in Seq(I)
    PROVE  /\ Reached(s \o t) = Reached(s) \cup Reached(t)
           /\ Owed(s \o t) = (Owed(s) \ Reached(t)) \cup Owed(t)
<1> DEFINE st == s \o t
           n == Len(s)
           m == Len(t)
<1>1. /\ Len(st) = n + m /\ n \in Nat /\ m \in Nat
      /\ \A i \in 1..n : st[i] = s[i]
      /\ \A i \in 1..m : st[n + i] = t[i]
  BY ConcatProperties
<1> HIDE DEF st, n, m
<1>2. \A i \in 1..n + m : i \in 1..n \/ i - n \in 1..m
  BY <1>1
<1>3. \A i \in 1..n + m : i - n \in 1..m => st[i] = t[i - n]
  <2>1. \A i \in 1..n + m : n + (i - n) = i
    BY <1>1
  <2> QED BY <1>1, <2>1
<1>4. /\ \A i \in 1..n : i \in 1..n + m
      /\ \A i \in 1..m : n + i \in 1..n + m
  BY <1>1
<1>5. Reached(st) = Reached(s) \cup Reached(t)
  <2>1. Reached(st) \subseteq Reached(s) \cup Reached(t)
    BY <1>1, <1>2, <1>3 DEF Reached, n, m
  <2>2. Reached(s) \subseteq Reached(st) /\ Reached(t) \subseteq Reached(st)
    BY <1>1, <1>4 DEF Reached, n, m
  <2> QED BY <2>1, <2>2
<1>6. ASSUME NEW g \in Owed(st) PROVE g \in (Owed(s) \ Reached(t)) \cup Owed(t)
  <2>1. g \in Goal
    BY <1>6 DEF Owed
  <2>2. PICK i \in 1..n + m : /\ g \in Undoes(st[i])
                              /\ \A j \in i + 1..n + m : g \notin Reaches(st[j])
    BY <1>1, <1>6 DEF Owed
  <2>3. CASE i \in 1..n
    <3>1. \A j \in i + 1..n : j \in i + 1..n + m /\ st[j] = s[j]
      BY <1>1, <2>3
    <3>2. g \in Owed(s)
      BY <1>1, <2>1, <2>2, <2>3, <3>1 DEF Owed, n
    <3>3. \A j \in 1..m : n + j \in i + 1..n + m /\ st[n + j] = t[j]
      BY <1>1, <2>3
    <3>4. g \notin Reached(t)
      BY <2>2, <3>3 DEF Reached, m
    <3> QED BY <3>2, <3>4
  <2>4. CASE i - n \in 1..m
    <3>1. \A j \in (i - n) + 1..m : n + j \in i + 1..n + m /\ st[n + j] = t[j]
      BY <1>1, <2>4
    <3>2. st[i] = t[i - n]
      BY <1>3, <2>4
    <3>3. \A j \in (i - n) + 1..m : g \notin Reaches(t[j])
      BY <2>2, <3>1
    <3>4. g \in Owed(t)
      BY <2>1, <2>2, <2>4, <3>2, <3>3 DEF Owed, m
    <3> QED BY <3>4
  <2> QED BY <1>2, <2>3, <2>4
<1>7. ASSUME NEW g \in Owed(s) \ Reached(t) PROVE g \in Owed(st)
  <2>1. g \in Goal
    BY <1>7 DEF Owed
  <2>2. PICK i \in 1..n : /\ g \in Undoes(s[i])
                          /\ \A j \in i + 1..n : g \notin Reaches(s[j])
    BY <1>1, <1>7 DEF Owed, n
  <2>3. ASSUME NEW j \in i + 1..n + m PROVE g \notin Reaches(st[j])
    <3>1. CASE j \in 1..n
      <4>1. j \in i + 1..n
        BY <1>1, <3>1
      <4> QED BY <1>1, <2>2, <3>1, <4>1
    <3>2. CASE j - n \in 1..m
      <4>1. j \in 1..n + m
        BY <1>1
      <4>2. st[j] = t[j - n]
        BY <1>3, <3>2, <4>1
      <4>3. g \notin Reaches(t[j - n])
        BY <1>7, <3>2 DEF Reached, m
      <4> QED BY <4>2, <4>3
    <3>3. j \in 1..n + m
      BY <1>1
    <3> QED BY <1>2, <3>1, <3>2, <3>3
  <2>4. i \in 1..n + m /\ g \in Undoes(st[i])
    BY <1>1, <2>2
  <2> QED BY <1>1, <2>1, <2>3, <2>4 DEF Owed
<1>8. ASSUME NEW g \in Owed(t) PROVE g \in Owed(st)
  <2>1. g \in Goal
    BY <1>8 DEF Owed
  <2>2. PICK i \in 1..m : /\ g \in Undoes(t[i])
                          /\ \A j \in i + 1..m : g \notin Reaches(t[j])
    BY <1>1, <1>8 DEF Owed, m
  <2>3. ASSUME NEW j \in (n + i) + 1..n + m PROVE g \notin Reaches(st[j])
    <3>1. j \in 1..n + m /\ j - n \in i + 1..m /\ j - n \in 1..m
      BY <1>1
    <3> QED BY <1>3, <2>2, <3>1
  <2>4. n + i \in 1..n + m /\ g \in Undoes(st[n + i])
    BY <1>1, <2>2
  <2> QED BY <1>1, <2>1, <2>3, <2>4 DEF Owed
<1>9. Owed(st) = (Owed(s) \ Reached(t)) \cup Owed(t)
  BY <1>6, <1>7, <1>8
<1> QED BY <1>5, <1>9 DEF st

LEMMA ReachedOne ==
    ASSUME NEW x
    PROVE  Reached(<<x>>) = Reaches(x) /\ Owed(<<x>>) = Undoes(x)
<1> DEFINE s == <<x>>
<1>1. Len(s) = 1 /\ s[1] = x
  OBVIOUS
<1>2. \A i \in 1..1 : i = 1 /\ ~ \E j \in i + 1..1 : TRUE
  OBVIOUS
<1>3. 1 \in 1..1
  OBVIOUS
<1>4. Undoes(x) \subseteq Goal
  BY DEF Undoes, GoalsOf
<1> HIDE DEF s
<1>5. Reached(s) = Reaches(x)
  BY <1>1, <1>2, <1>3 DEF Reached
<1>6. Owed(s) = Undoes(x)
  <2>1. \A j \in 1 + 1..1 : FALSE
    OBVIOUS
  <2> QED BY <1>1, <1>2, <1>3, <1>4, <2>1 DEF Owed
<1> QED BY <1>5, <1>6 DEF s

\* A part that leaves no goals undone but those of G, and reaches those of H.
Pays(I, s, G, H) == s \in Seq(I) /\ Owed(s) \subseteq G /\ H \subseteq Reached(s)

LEMMA PaysConcat ==
    ASSUME NEW I, NEW s, NEW t, NEW G, NEW H, NEW X, NEW Y, NEW L, NEW M,
           Pays(I, s, G, H), Pays(I, t, X, Y),
           G \subseteq L \cup Y, X \subseteq L, M \subseteq H \cup Y
    PROVE  Pays(I, s \o t, L, M)
<1>1. s \in Seq(I) /\ t \in Seq(I)
  BY DEF Pays
<1>2. /\ Reached(s \o t) = Reached(s) \cup Reached(t)
      /\ Owed(s \o t) = (Owed(s) \ Reached(t)) \cup Owed(t)
  BY <1>1, ReachedConcat
<1>3. s \o t \in Seq(I)
  BY <1>1
<1>4. Owed(s \o t) \subseteq L /\ M \subseteq Reached(s \o t)
  BY <1>2 DEF Pays
<1> QED BY <1>3, <1>4 DEF Pays

LEMMA PaysOne ==
    ASSUME NEW I, NEW x \in I
    PROVE  Pays(I, <<x>>, Undoes(x), Reaches(x))
BY ReachedOne DEF Pays

\* Instructions that undo nothing.
Quiet(I) == {x \in I : Undoes(x) = {}}

LEMMA QuietPays ==
    ASSUME NEW I, NEW s \in Seq(Quiet(I))
    PROVE  Pays(I, s, {}, {})
<1>1. \A i \in 1..Len(s) : s[i] \in Quiet(I)
  BY ElementOfSeq
<1>2. Owed(s) = {}
  BY <1>1 DEF Owed, Quiet
<1>3. s \in Seq(I)
  <2>1. Quiet(I) \subseteq I
    BY DEF Quiet
  <2> HIDE DEF Quiet
  <2> QED BY <2>1
<1> QED BY <1>2, <1>3 DEF Pays

LEMMA GoalsOfOthers ==
    ASSUME NEW as, as \notin Central
    PROVE  GoalsOf(as) = {} /\ Goal \cap {Saved(as)} = {}
<1>1. \A slot \in Slot : Source(slot) \in Central \cup {"admin"}
  BY DEF Slot, Source, Central
<1>2. "CounterAddressesProvider" \in Central
  BY DEF Central
<1>3. Saved(as) \notin Goal
  BY DEF Goal, Saved, Named
<1> QED BY <1>1, <1>2, <1>3 DEF GoalsOf

LEMMA QuietOne ==
    ASSUME NEW I, NEW x \in I, Undoes(x) = {}
    PROVE  Pays(I, <<x>>, {}, {})
<1>1. Pays(I, <<x>>, Undoes(x), Reaches(x))
  BY PaysOne
<1> QED BY <1>1 DEF Pays

LEMMA QuietConcat ==
    ASSUME NEW I, NEW s, NEW t, Pays(I, s, {}, {}), Pays(I, t, {}, {})
    PROVE  Pays(I, s \o t, {}, {})
<1> DEFINE none == {}
<1>1. none \subseteq none \cup none /\ none \subseteq none
  OBVIOUS
<1> HIDE DEF none
<1>2. Pays(I, s, none, none) /\ Pays(I, t, none, none)
  BY DEF none
<1>3. Pays(I, s \o t, none, none)
  BY <1>1, <1>2, PaysConcat
<1> QED BY <1>3 DEF none

\* A loop whose turns undo nothing.
LEMMA LoopPays ==
    ASSUME NEW I, NEW n \in Nat \ {0}, NEW f,
           f = [i \in 1..n |-> f[i]], \A i \in 1..n : Pays(I, f[i], {}, {})
    PROVE  Pays(I, FlattenSeq(f), {}, {})
<1> DEFINE X == {s \in Seq(I) : Pays(I, s, {}, {})}
<1>1. \A i \in 1..n : f[i] \in X
  BY DEF Pays
<1>2. \A s, t \in X : s \o t \in X
  <2> SUFFICES ASSUME NEW s \in X, NEW t \in X PROVE s \o t \in X
    OBVIOUS
  <2>1. Pays(I, s \o t, {}, {})
    BY QuietConcat
  <2>2. s \o t \in Seq(I)
    BY <2>1 DEF Pays
  <2> QED BY <2>1, <2>2
<1> HIDE DEF X
<1>3. f \in Seq(X) /\ Len(f) = n
  <2>1. f \in [1..n -> X]
    BY <1>1
  <2> QED BY <2>1
<1>4. FlattenSeq(f) \in X
  BY <1>2, <1>3, FlattenClosed
<1> QED BY <1>4 DEF X

LEMMA CallsPay ==
    ASSUME NEW I, NEW n \in Nat \ {0}, NEW x,
           \A i \in 1..n : x[i] \in I /\ Undoes(x[i]) = {}
    PROVE  Pays(I, FlattenSeq([i \in 1..n |-> <<x[i]>>]), {}, {})
<1> DEFINE f == [i \in 1..n |-> <<x[i]>>]
<1>1. \A i \in 1..n : Pays(I, <<x[i]>>, {}, {})
  BY QuietOne
<1>2. \A i \in 1..n : Pays(I, f[i], {}, {})
  BY <1>1
<1>3. f = [i \in 1..n |-> f[i]]
  OBVIOUS
<1> HIDE DEF f
<1>4. Pays(I, FlattenSeq(f), {}, {})
  BY <1>2, <1>3, LoopPays
<1> QED BY <1>4 DEF f

\* Two instructions that undo nothing.
LEMMA QuietTwo ==
    ASSUME NEW I, NEW x \in I, NEW y \in I, Undoes(x) = {}, Undoes(y) = {}
    PROVE  Pays(I, <<x, y>>, {}, {})
<1> DEFINE s == <<x>>
           t == <<y>>
<1>1. Pays(I, s, {}, {}) /\ Pays(I, t, {}, {})
  BY QuietOne
<1> HIDE DEF s, t
<1>2. Pays(I, s \o t, {}, {})
  BY <1>1, QuietConcat
<1> QED BY <1>2, PairIsConcat DEF s, t

LEMMA DoneByOne ==
    ASSUME NEW contract, NEW key, NEW as
    PROVE  /\ Undoes(deploy(contract, as)) = GoalsOf(as) /\ Reaches(deploy(contract, as)) = {}
           /\ Undoes(registerContractInJsonDb(key, as)) =
                  IF as = key THEN {} ELSE Goal \cap {Saved(key)}
           /\ Reaches(registerContractInJsonDb(key, as)) =
                  IF as = key THEN Goal \cap {Saved(key)} ELSE {}
BY DEF deploy, registerContractInJsonDb, Undoes, Reaches

LEMMA SavePays ==
    ASSUME NEW admin, NEW contract, NEW key, NEW as, Saves(contract, key, as)
    PROVE  /\ as \notin Central /\ key \notin Central =>
                  Pays(PlanInstruction(admin), deployAndSave(contract, key, as), {}, {})
           /\ as = key =>
                  Pays(PlanInstruction(admin), deployAndSave(contract, key, as),
                       GoalsOf(key) \ {Saved(key)}, Goal \cap {Saved(key)})
<1> DEFINE I == PlanInstruction(admin)
           x == deploy(contract, as)
           y == registerContractInJsonDb(key, as)
<1>1. x \in I /\ y \in I
  BY SaveKinds DEF PlanInstruction
<1>2. /\ Undoes(x) = GoalsOf(as) /\ Reaches(x) = {}
      /\ as = key => Undoes(y) = {} /\ Reaches(y) = Goal \cap {Saved(key)}
      /\ Undoes(y) \subseteq Goal \cap {Saved(key)}
  BY DoneByOne
<1>3. deployAndSave(contract, key, as) = <<x>> \o <<y>>
  BY PairIsConcat DEF deployAndSave
<1> HIDE DEF I, x, y
<1>4. ASSUME as \notin Central, key \notin Central
      PROVE  Pays(I, deployAndSave(contract, key, as), {}, {})
  <2>1. Undoes(x) = {} /\ Undoes(y) = {}
    BY <1>2, <1>4, GoalsOfOthers
  <2>2. Pays(I, <<x>>, {}, {}) /\ Pays(I, <<y>>, {}, {})
    BY <1>1, <2>1, QuietOne
  <2>3. Pays(I, <<x>> \o <<y>>, {}, {})
    <3> DEFINE s == <<x>>
               t == <<y>>
    <3>1. Pays(I, s, {}, {}) /\ Pays(I, t, {}, {})
      BY <2>2
    <3> HIDE DEF s, t
    <3>2. Pays(I, s \o t, {}, {})
      BY <3>1, QuietConcat
    <3> QED BY <3>2 DEF s, t
  <2> QED BY <1>3, <2>3
<1>5. ASSUME as = key
      PROVE  Pays(I, deployAndSave(contract, key, as), GoalsOf(key) \ {Saved(key)},
                  Goal \cap {Saved(key)})
  <2> DEFINE s == <<x>>
             t == <<y>>
             G == GoalsOf(key)
             H == Goal \cap {Saved(key)}
             L == GoalsOf(key) \ {Saved(key)}
             none == {}
  <2>1. Pays(I, s, G, none) /\ Pays(I, t, none, H)
    <3>1. Pays(I, s, Undoes(x), Reaches(x)) /\ Pays(I, t, Undoes(y), Reaches(y))
      BY <1>1, PaysOne
    <3> QED BY <1>2, <1>5, <3>1
  <2>2. G \subseteq L \cup H /\ none \subseteq L /\ H \subseteq none \cup H
    BY DEF GoalsOf
  <2> HIDE DEF s, t, G, H, L, none
  <2>3. Pays(I, s \o t, L, H)
    BY <2>1, <2>2, PaysConcat
  <2>4. Pays(I, deployAndSave(contract, key, as), L, H)
    BY <1>3, <2>3 DEF s, t
  <2> QED BY <2>4 DEF L, H
<1> QED BY <1>4, <1>5 DEF I

LEMMA NamedPays ==
    ASSUME NEW admin, NEW name \in ContractName
    PROVE  /\ Pays(PlanInstruction(admin), deployNamed(name),
                   GoalsOf(name) \ {Saved(name)}, Goal \cap {Saved(name)})
           /\ name \notin Central => Pays(PlanInstruction(admin), deployNamed(name), {}, {})
<1>1. Saves(name, name, name)
  BY DEF Saves, OwnVariable
<1> QED BY <1>1, SavePays DEF deployNamed

LEMMA NamesApart ==
    /\ Symbol \cap Central = {} /\ StrategyName \cap Central = {}
    /\ ComputedName \cap Central = {}
    /\ {"addressProvider", "configurator", "aTokenIRModel"} \cap Central = {}
    /\ {"pToken", "variableDebtToken", "strategy"} \cap Central = {}
    /\ Central \subseteq ContractName
<1>1. Central \subseteq ContractName
  BY DEF Central, ContractName
<1>2. ComputedName \cap Central = {}
  BY <1>1, NamesAssumption
<1>3. Symbol \cap Central = {} /\ StrategyName \cap Central = {}
  BY Orders DEF Central, StrategyName
<1>4. /\ {"addressProvider", "configurator", "aTokenIRModel"} \cap Central = {}
      /\ {"pToken", "variableDebtToken", "strategy"} \cap Central = {}
  BY DEF Central
<1> QED BY <1>1, <1>2, <1>3, <1>4

\* The goals the pool leaves to the oracle and the manager.
Later ==
    {Saved("PrestareOracle"), Saved("CounterCollateralManager"), Named("PriceOracle"),
     Named("CounterCollateralManager")}

LEMMA GoalsAre ==
    /\ Goal \ Later =
           {Saved("CounterAddressesProvider"), Saved("Counter"), Saved("CounterConfigurator"),
            Named("PoolAdmin"), Named("EmergencyAdmin"), Named("Counter"),
            Named("CounterConfigurator")}
    /\ Later \subseteq Goal
    /\ GoalsOf("Counter") = {Saved("Counter"), Named("Counter")}
    /\ GoalsOf("CounterConfigurator") = {Saved("CounterConfigurator"), Named("CounterConfigurator")}
    /\ GoalsOf("PrestareOracle") = {Saved("PrestareOracle"), Named("PriceOracle")}
    /\ GoalsOf("CounterCollateralManager") =
           {Saved("CounterCollateralManager"), Named("CounterCollateralManager")}
<1>1. /\ Source("PoolAdmin") = "admin" /\ Source("EmergencyAdmin") = "admin"
      /\ Source("Counter") = "Counter" /\ Source("CounterConfigurator") = "CounterConfigurator"
      /\ Source("PriceOracle") = "PrestareOracle"
      /\ Source("CounterCollateralManager") = "CounterCollateralManager"
  BY DEF Source
<1>2. Goal =
          {Saved("CounterAddressesProvider"), Saved("Counter"), Saved("CounterConfigurator"),
           Saved("CounterCollateralManager"), Saved("PrestareOracle"),
           Named("PoolAdmin"), Named("EmergencyAdmin"), Named("Counter"),
           Named("CounterConfigurator"), Named("PriceOracle"), Named("CounterCollateralManager")}
  BY DEF Goal, Central, Slot
<1>3. /\ \A a, b : Saved(a) = Saved(b) => a = b
      /\ \A a, b : Named(a) = Named(b) => a = b
      /\ \A a, b : Saved(a) # Named(b)
  BY DEF Saved, Named
<1>4. ASSUME NEW as \in Central \ {"CounterAddressesProvider"}
      PROVE  GoalsOf(as) = {Saved(as)} \cup {Named(slot) : slot \in {t \in Slot : Source(t) = as}}
  <2>1. Saved(as) \in Goal /\ as # "admin" /\ \A slot \in Slot : Named(slot) \in Goal
    BY DEF Goal, Central
  <2> QED BY <2>1 DEF GoalsOf
<1>5. /\ {t \in Slot : Source(t) = "Counter"} = {"Counter"}
      /\ {t \in Slot : Source(t) = "CounterConfigurator"} = {"CounterConfigurator"}
      /\ {t \in Slot : Source(t) = "PrestareOracle"} = {"PriceOracle"}
      /\ {t \in Slot : Source(t) = "CounterCollateralManager"} = {"CounterCollateralManager"}
  BY <1>1 DEF Slot
<1>6. {"Counter", "CounterConfigurator", "PrestareOracle", "CounterCollateralManager"}
          \subseteq Central \ {"CounterAddressesProvider"}
  BY DEF Central
<1>7. /\ GoalsOf("Counter") = {Saved("Counter"), Named("Counter")}
      /\ GoalsOf("CounterConfigurator") =
             {Saved("CounterConfigurator"), Named("CounterConfigurator")}
      /\ GoalsOf("PrestareOracle") = {Saved("PrestareOracle"), Named("PriceOracle")}
      /\ GoalsOf("CounterCollateralManager") =
             {Saved("CounterCollateralManager"), Named("CounterCollateralManager")}
  BY <1>4, <1>5, <1>6
<1>8. Later \subseteq Goal
  BY <1>2 DEF Later
<1>9. Goal \ Later =
          {Saved("CounterAddressesProvider"), Saved("Counter"), Saved("CounterConfigurator"),
           Named("PoolAdmin"), Named("EmergencyAdmin"), Named("Counter"),
           Named("CounterConfigurator")}
  BY <1>2, <1>3 DEF Later
<1> QED BY <1>7, <1>8, <1>9

LEMMA SetPays ==
    ASSUME NEW admin, NEW slot, NEW as, set(slot, as) \in SetInstruction
    PROVE  Pays(PlanInstruction(admin), <<set(slot, as)>>, {}, {Named(slot)})
<1> DEFINE x == set(slot, as)
<1>1. x \in PlanInstruction(admin)
  BY DEF PlanInstruction
<1>2. Undoes(x) = {} /\ Reaches(x) = {Named(slot)}
  BY DEF set, Undoes, Reaches
<1> HIDE DEF x
<1>3. Pays(PlanInstruction(admin), <<x>>, Undoes(x), Reaches(x))
  BY <1>1, PaysOne
<1> QED BY <1>2, <1>3 DEF x

LEMMA InitializePays ==
    ASSUME NEW admin, NEW as \in {"Counter", "CounterConfigurator"}
    PROVE  Pays(PlanInstruction(admin), <<initialize(as)>>, {}, {})
<1> DEFINE x == initialize(as)
<1>1. x \in PlanInstruction(admin)
  BY DEF PlanInstruction
<1>2. Undoes(x) = {}
  BY DEF initialize, Undoes
<1> HIDE DEF x
<1> QED BY <1>1, <1>2, QuietOne DEF x

LEMMA LibraryPays ==
    ASSUME NEW admin
    PROVE  Pays(PlanInstruction(admin), deployPrestareLib, {}, {})
<1> DEFINE I == PlanInstruction(admin)
           s1 == deployReserveLogic
           s2 == deployGenericLogic
           s3 == deployCRTLogic
           s4 == deployValidationLogic
<1>1. {"ReserveLogic", "GenericLogic", "CRTLogic", "ValidationLogic"} \subseteq ContractName \ Central
  BY DEF ContractName, Central
<1>2. Pays(I, s1, {}, {}) /\ Pays(I, s2, {}, {}) /\ Pays(I, s3, {}, {}) /\ Pays(I, s4, {}, {})
  BY <1>1, NamedPays DEF deployReserveLogic, deployGenericLogic, deployCRTLogic,
                         deployValidationLogic
<1>3. deployPrestareLib = ((s1 \o s2) \o s3) \o s4
  BY DEF deployPrestareLib
<1> HIDE DEF I, s1, s2, s3, s4
<1>4. Pays(I, s1 \o s2, {}, {})
  BY <1>2, QuietConcat
<1>5. Pays(I, (s1 \o s2) \o s3, {}, {})
  BY <1>2, <1>4, QuietConcat
<1>6. Pays(I, ((s1 \o s2) \o s3) \o s4, {}, {})
  BY <1>2, <1>5, QuietConcat
<1> QED BY <1>3, <1>6 DEF I

LEMMA PoolPays ==
    ASSUME NEW admin
    PROVE  Pays(PlanInstruction(admin), deployPool, Later, Goal \ Later)
<1> DEFINE I == PlanInstruction(admin)
           s1 == deployCounterAddressesProvider
           u == <<set("PoolAdmin", "admin")>>
           v == <<set("EmergencyAdmin", "admin")>>
           lib == deployPrestareLib
           c == deployNamed("Counter")
           w == <<set("Counter", "Counter")>>
           i1 == <<initialize("Counter")>>
           s5 == deployCounterConfigurator
           i2 == <<initialize("CounterConfigurator")>>
           x == <<set("CounterConfigurator", "CounterConfigurator")>>
           none == {}
           CAP == "CounterAddressesProvider"
           CC == "CounterConfigurator"
           CCM == "CounterCollateralManager"
           G1 == {Named(slot) : slot \in Slot}
           H1 == {Saved(CAP)}
           G2 == {Named("Counter"), Named(CC), Named("PriceOracle"), Named(CCM)}
           H2 == {Saved(CAP), Named("PoolAdmin"), Named("EmergencyAdmin")}
           G3 == {Named("Counter")}
           H3 == {Saved("Counter")}
           G4 == {Named(CC), Named("PriceOracle"), Named(CCM)}
           H4 == H2 \cup H3 \cup G3
           G5 == {Named(CC)}
           H5 == {Saved(CC)}
           G6 == {Named("PriceOracle"), Named(CCM)}
           H6 == H4 \cup H5 \cup G5
<1>1. Pays(I, s1, G1, H1)
  <2>1. Pays(I, s1, GoalsOf(CAP) \ {Saved(CAP)}, Goal \cap {Saved(CAP)})
    BY NamedPays DEF deployCounterAddressesProvider, ContractName
  <2>2. GoalsOf(CAP) \ {Saved(CAP)} \subseteq G1
    BY DEF GoalsOf
  <2>3. H1 \subseteq Goal \cap {Saved(CAP)}
    BY DEF Goal, Central
  <2> HIDE DEF I, s1, G1, H1, CAP
  <2> QED BY <2>1, <2>2, <2>3 DEF Pays
<1>2. /\ Pays(I, u, none, {Named("PoolAdmin")}) /\ Pays(I, v, none, {Named("EmergencyAdmin")})
      /\ Pays(I, w, none, G3) /\ Pays(I, x, none, G5)
  BY SetPays DEF SetInstruction
<1>3. Pays(I, i1, none, none) /\ Pays(I, i2, none, none)
  BY InitializePays
<1>4. Pays(I, lib, none, none)
  BY LibraryPays
<1>5. Pays(I, c, G3, H3) /\ Pays(I, s5, G5, H5)
  <2>1. /\ Pays(I, c, GoalsOf("Counter") \ {Saved("Counter")}, Goal \cap {Saved("Counter")})
        /\ Pays(I, s5, GoalsOf(CC) \ {Saved(CC)}, Goal \cap {Saved(CC)})
    BY NamedPays DEF deployCounterConfigurator, ContractName
  <2>2. /\ GoalsOf("Counter") \ {Saved("Counter")} \subseteq G3
        /\ GoalsOf(CC) \ {Saved(CC)} \subseteq G5
    BY GoalsAre
  <2>3. H3 \subseteq Goal \cap {Saved("Counter")} /\ H5 \subseteq Goal \cap {Saved(CC)}
    BY DEF Goal, Central
  <2> HIDE DEF I, c, s5, G3, G5, H3, H5
  <2> QED BY <2>1, <2>2, <2>3 DEF Pays
<1>6. G1 = {Named("PoolAdmin"), Named("EmergencyAdmin")} \cup G2
  BY DEF Slot
<1>7. Goal \ Later \subseteq H6 /\ G6 \subseteq Later
  BY GoalsAre DEF Later
<1>8. deployPool = (((((s1 \o (u \o v)) \o (lib \o c)) \o (w \o i1)) \o s5) \o (i2 \o x))
  <2>1. /\ u \o v = <<set("PoolAdmin", "admin"), set("EmergencyAdmin", "admin")>>
        /\ w \o i1 = <<set("Counter", "Counter"), initialize("Counter")>>
        /\ i2 \o x = <<initialize(CC), set(CC, CC)>>
    BY PairIsConcat
  <2> QED BY <2>1 DEF deployPool, deployCounter
<1> DEFINE T == {Named("PoolAdmin"), Named("EmergencyAdmin")}
<1>9. Pays(I, u \o v, none, T)
  <2> DEFINE a == {Named("PoolAdmin")}
             b == {Named("EmergencyAdmin")}
  <2>1. none \subseteq none \cup b /\ none \subseteq none /\ T \subseteq a \cup b
    OBVIOUS
  <2>2. Pays(I, u, none, a) /\ Pays(I, v, none, b)
    BY <1>2
  <2> HIDE DEF I, u, v, none, a, b, T
  <2> QED BY <2>1, <2>2, PaysConcat
<1>10. Pays(I, lib \o c, G3, H3)
  <2>1. none \subseteq G3 \cup H3 /\ G3 \subseteq G3 /\ H3 \subseteq none \cup H3
    OBVIOUS
  <2> HIDE DEF I, lib, c, none, G3, H3
  <2> QED BY <1>4, <1>5, <2>1, PaysConcat
<1>11. Pays(I, w \o i1, none, G3) /\ Pays(I, i2 \o x, none, G5)
  <2>1. /\ none \subseteq none \cup none /\ none \subseteq none /\ G3 \subseteq G3 \cup none
        /\ none \subseteq none \cup G5 /\ G5 \subseteq none \cup G5
    OBVIOUS
  <2> HIDE DEF I, w, i1, i2, x, none, G3, G5
  <2> QED BY <1>2, <1>3, <2>1, PaysConcat
<1>12. /\ G1 \subseteq G2 \cup T /\ none \subseteq G2 /\ H2 \subseteq H1 \cup T
       /\ G2 \subseteq G2 \cup H3 /\ G3 \subseteq G2 /\ H2 \cup H3 \subseteq H2 \cup H3
       /\ G2 \subseteq G4 \cup G3 /\ none \subseteq G4 /\ H4 \subseteq (H2 \cup H3) \cup G3
       /\ G4 \subseteq G4 \cup H5 /\ G5 \subseteq G4 /\ H4 \cup H5 \subseteq H4 \cup H5
       /\ G4 \subseteq G6 \cup G5 /\ none \subseteq G6 /\ H6 \subseteq (H4 \cup H5) \cup G5
  BY <1>6
<1> DEFINE uv == u \o v
           libc == lib \o c
           wi == w \o i1
           ix == i2 \o x
<1> HIDE DEF I, s1, uv, libc, wi, s5, ix, none, G1, G2, G3, G4, G5, G6, H1, H2, H3, H4, H5, H6, T
<1>13. Pays(I, s1 \o uv, G2, H2)
  BY <1>1, <1>9, <1>12, PaysConcat DEF uv
<1>14. Pays(I, (s1 \o uv) \o libc, G2, H2 \cup H3)
  BY <1>10, <1>12, <1>13, PaysConcat DEF libc
<1>15. Pays(I, ((s1 \o uv) \o libc) \o wi, G4, H4)
  BY <1>11, <1>12, <1>14, PaysConcat DEF wi
<1>16. Pays(I, (((s1 \o uv) \o libc) \o wi) \o s5, G4, H4 \cup H5)
  BY <1>5, <1>12, <1>15, PaysConcat
<1>17. Pays(I, ((((s1 \o uv) \o libc) \o wi) \o s5) \o ix, G6, H6)
  BY <1>11, <1>12, <1>16, PaysConcat DEF ix
<1>18. Pays(I, deployPool, G6, H6)
  BY <1>8, <1>17 DEF uv, libc, wi, ix
<1> QED BY <1>7, <1>18 DEF Pays, I

LEMMA OraclePays ==
    ASSUME NEW admin
    PROVE  Pays(PlanInstruction(admin), deployOracleAndManager, {}, Later)
<1> DEFINE I == PlanInstruction(admin)
           s1 == deployPrestareOracle
           s2 == <<set("PriceOracle", "PrestareOracle")>>
           s3 == deployCounterCollateralManager
           s4 == <<set("CounterCollateralManager", "CounterCollateralManager")>>
           none == {}
           G1 == {Named("PriceOracle")}
           H1 == {Saved("PrestareOracle")}
           G3 == {Named("CounterCollateralManager")}
           H3 == {Saved("CounterCollateralManager")}
<1>1. Pays(I, s1, G1, H1) /\ Pays(I, s3, G3, H3)
  <2> DEFINE PO == "PrestareOracle"
             CCM == "CounterCollateralManager"
  <2>1. /\ Pays(I, s1, GoalsOf(PO) \ {Saved(PO)}, Goal \cap {Saved(PO)})
        /\ Pays(I, s3, GoalsOf(CCM) \ {Saved(CCM)}, Goal \cap {Saved(CCM)})
    BY NamedPays DEF deployPrestareOracle, deployCounterCollateralManager, ContractName
  <2>2. /\ GoalsOf(PO) \ {Saved(PO)} \subseteq G1
        /\ GoalsOf(CCM) \ {Saved(CCM)} \subseteq G3
    BY GoalsAre
  <2>3. H1 \subseteq Goal \cap {Saved(PO)} /\ H3 \subseteq Goal \cap {Saved(CCM)}
    BY DEF Goal, Central
  <2> HIDE DEF I, s1, s3, G1, G3, H1, H3, PO, CCM
  <2> QED BY <2>1, <2>2, <2>3 DEF Pays
<1>2. Pays(I, s2, none, G1) /\ Pays(I, s4, none, G3)
  BY SetPays DEF SetInstruction
<1>3. deployOracleAndManager = ((s1 \o s2) \o s3) \o s4
  BY DEF deployOracleAndManager
<1>4. /\ G1 \subseteq none \cup G1 /\ none \subseteq none /\ H1 \cup G1 \subseteq H1 \cup G1
      /\ none \subseteq G3 \cup H3 /\ G3 \subseteq G3 /\ Later \ G3 \subseteq (H1 \cup G1) \cup H3
      /\ G3 \subseteq none \cup G3 /\ Later \subseteq (Later \ G3) \cup G3
  BY DEF Later
<1> HIDE DEF I, s1, s2, s3, s4, none, G1, G3, H1, H3
<1>5. Pays(I, s1 \o s2, none, H1 \cup G1)
  BY <1>1, <1>2, <1>4, PaysConcat
<1>6. Pays(I, (s1 \o s2) \o s3, G3, Later \ G3)
  BY <1>1, <1>4, <1>5, PaysConcat
<1>7. Pays(I, ((s1 \o s2) \o s3) \o s4, none, Later)
  BY <1>2, <1>4, <1>6, PaysConcat
<1> QED BY <1>3, <1>7 DEF I, none

\* Instructions of the plans that are neither of a contract nor of the file.
CallOp ==
    {"prepare", "enterHelper", "callForEachInput", "setAssetPrice", "authorizeCounter",
     "setCRT", "setPoolPause", "initialize"} \cup ConfigureOp

LEMMA CallsAreQuiet ==
    /\ \A x : x.op \in CallOp => Undoes(x) = {} /\ Reaches(x) = {}
    /\ \A key, as : as \notin Central => Undoes(attach(key, as)) = {}
    /\ \A key, address : key \notin Central =>
           Undoes(rawInsertContractAddressInDb(key, address)) = {}
<1>1. \A x : x.op \in CallOp => Undoes(x) = {} /\ Reaches(x) = {}
  BY DEF CallOp, ConfigureOp, Undoes, Reaches
<1>2. \A key, as : as \notin Central => Undoes(attach(key, as)) = {}
  BY GoalsOfOthers DEF attach, Undoes
<1>3. \A key, address : key \notin Central =>
          Undoes(rawInsertContractAddressInDb(key, address)) = {}
  BY GoalsOfOthers DEF rawInsertContractAddressInDb, Undoes
<1> QED BY <1>1, <1>2, <1>3

LEMMA InsertPays ==
    ASSUME NEW admin, NEW network \in EthereumNetwork
    PROVE  Pays(PlanInstruction(admin), insertAllAssetToken(network), {}, {})
<1> DEFINE turn(symbol) ==
               rawInsertContractAddressInDb(symbol, ReserveAssetsAddress[network][symbol])
           x == [i \in 1..4 |-> turn(TokenContractName[i])]
<1>1. insertAllAssetToken(network) = FlattenSeq([i \in 1..4 |-> <<x[i]>>])
  <2>1. [i \in 1..4 |-> <<x[i]>>] = [i \in 1..4 |-> <<turn(TokenContractName[i])>>]
    OBVIOUS
  <2> QED BY <2>1, Orders DEF insertAllAssetToken, ForEach
<1>2. ASSUME NEW symbol \in Symbol
      PROVE  ReserveAssetsAddress[network][symbol] \in Nat
  BY Orders DEF ReserveAssetsAddress, EthereumNetwork, ZERO_ADDRESS
<1>3. ASSUME NEW symbol \in Symbol
      PROVE  turn(symbol) \in [op : {"rawInsert"}, key : Symbol, address : Nat]
  BY <1>2 DEF rawInsertContractAddressInDb
<1>4. ASSUME NEW symbol \in Symbol
      PROVE  turn(symbol) \in PlanInstruction(admin) /\ Undoes(turn(symbol)) = {}
  <2>1. symbol \notin Central
    BY NamesApart
  <2> QED BY <1>3, <2>1, CallsAreQuiet DEF PlanInstruction
<1>5. \A i \in 1..4 : x[i] = turn(TokenContractName[i])
  OBVIOUS
<1> HIDE DEF turn, x
<1>6. \A i \in 1..4 : x[i] \in PlanInstruction(admin) /\ Undoes(x[i]) = {}
  BY <1>4, <1>5, Orders
<1>7. 4 \in Nat \ {0}
  OBVIOUS
<1> QED BY <1>1, <1>6, <1>7, CallsPay

LEMMA FallbackPays ==
    ASSUME NEW admin
    PROVE  Pays(PlanInstruction(admin), deployFallbackOracle, {}, {})
<1> DEFINE I == PlanInstruction(admin)
           turn(symbol) == [op |-> "setAssetPrice", symbol |-> symbol]
           x == [i \in 1..4 |-> turn(MockPriceOrder[i])]
           s1 == deployPriceOracle
           s2 == setInitialAssetPricesInOracle
<1>1. s2 = FlattenSeq([i \in 1..4 |-> <<x[i]>>])
  <2>1. [i \in 1..4 |-> <<x[i]>>] = [i \in 1..4 |-> <<turn(MockPriceOrder[i])>>]
    OBVIOUS
  <2> QED BY <2>1, Orders DEF setInitialAssetPricesInOracle, ForEach
<1>2. ASSUME NEW symbol \in Symbol PROVE turn(symbol) \in I /\ Undoes(turn(symbol)) = {}
  BY CallsAreQuiet DEF PlanInstruction, CallOp
<1>3. \A i \in 1..4 : x[i] = turn(MockPriceOrder[i])
  OBVIOUS
<1>4. Pays(I, s1, {}, {})
  BY NamedPays DEF deployPriceOracle, ContractName, Central
<1>5. deployFallbackOracle = s1 \o s2
  BY DEF deployFallbackOracle
<1> HIDE DEF I, turn, x, s1, s2
<1>6. \A i \in 1..4 : x[i] \in I /\ Undoes(x[i]) = {}
  BY <1>2, <1>3, Orders
<1>7. 4 \in Nat \ {0}
  OBVIOUS
<1>8. Pays(I, s2, {}, {})
  BY <1>1, <1>6, <1>7, CallsPay
<1>9. Pays(I, s1 \o s2, {}, {})
  BY <1>4, <1>8, QuietConcat
<1> QED BY <1>5, <1>9 DEF I

LEMMA GettersPay ==
    ASSUME NEW admin
    PROVE  \A x \in {getCounterAddressesProvider, getPlatformInterestRateModel,
                     getCounterConfigurator} :
               x \in PlanInstruction(admin) /\ Undoes(x) = {}
<1>1. /\ Undoes(getCounterAddressesProvider) = {} /\ Undoes(getPlatformInterestRateModel) = {}
      /\ Undoes(getCounterConfigurator) = {}
  BY CallsAreQuiet, NamesApart DEF getCounterAddressesProvider, getPlatformInterestRateModel,
                                   getCounterConfigurator
<1> QED BY <1>1, GettersAreCalls

LEMMA ModelPays ==
    ASSUME NEW admin
    PROVE  /\ Pays(PlanInstruction(admin), deployPlatformTokenInterestRateModel, {}, {})
           /\ Pays(PlanInstruction(admin), setPlatformTokenIRModel, {}, {})
<1>1. Pays(PlanInstruction(admin), deployPlatformTokenInterestRateModel, {}, {})
  BY NamedPays DEF deployPlatformTokenInterestRateModel, ContractName, Central
<1>2. Pays(PlanInstruction(admin), setPlatformTokenIRModel, {}, {})
  BY GettersPay, QuietOne DEF setPlatformTokenIRModel
<1> QED BY <1>1, <1>2

LEMMA HelperPays ==
    ASSUME NEW admin, NEW config, NEW call \in ListOp,
           config \in {ReservesConfig, assetBClassConfig, assetAClassConfig}
    PROVE  Pays(PlanInstruction(admin), ReservesByHelper(call, config, admin), {}, {})
<1> DEFINE I == PlanInstruction(admin)
           n == Len(config)
           x == [i \in 1..n |-> prepare(call, config[i], admin)]
           enter == [op |-> "enterHelper"]
           callEach == [op |-> "callForEachInput", call |-> call]
           s1 == <<enter, getPlatformInterestRateModel>>
           s2 == FlattenSeq([i \in 1..n |-> <<x[i]>>])
           s3 == <<getCounterConfigurator, callEach>>
<1>1. n \in Nat \ {0} /\ \A i \in 1..n : config[i] \in Entries
  BY ReadsConfiguration
<1>2. ReservesByHelper(call, config, admin) = (s1 \o s2) \o s3
  <2>1. [i \in 1..n |-> <<x[i]>>] = [i \in 1..n |-> <<prepare(call, config[i], admin)>>]
    OBVIOUS
  <2> QED BY <2>1 DEF ReservesByHelper, ForEach
<1>3. ASSUME NEW c \in Entries
      PROVE  prepare(call, c, admin) \in PrepareInstruction(admin) /\ prepare(call, c, admin).op = "prepare"
  BY DEF prepare, PrepareInstruction, Entries
<1>4. \A i \in 1..n : x[i] = prepare(call, config[i], admin)
  OBVIOUS
<1>5. enter \in I /\ callEach \in I /\ enter.op = "enterHelper" /\ callEach.op = "callForEachInput"
  BY DEF PlanInstruction
<1> HIDE DEF I, n, x, enter, callEach
<1>6. \A i \in 1..n : x[i] \in I /\ Undoes(x[i]) = {}
  <2>1. PrepareInstruction(admin) \subseteq I
    BY DEF PlanInstruction, I
  <2>2. "prepare" \in CallOp
    BY DEF CallOp
  <2> QED BY <1>1, <1>3, <1>4, <2>1, <2>2, CallsAreQuiet
<1>7. Undoes(enter) = {} /\ Undoes(callEach) = {}
  BY <1>5, CallsAreQuiet DEF CallOp
<1>8. \A y \in {getPlatformInterestRateModel, getCounterConfigurator} : y \in I /\ Undoes(y) = {}
  BY GettersPay DEF I
<1>9. Pays(I, s1, {}, {}) /\ Pays(I, s3, {}, {})
  BY <1>5, <1>7, <1>8, QuietTwo
<1>10. Pays(I, s2, {}, {})
  BY <1>1, <1>6, CallsPay
<1> HIDE DEF s1, s2, s3
<1>11. Pays(I, s1 \o s2, {}, {})
  BY <1>9, <1>10, QuietConcat
<1>12. Pays(I, (s1 \o s2) \o s3, {}, {})
  BY <1>9, <1>11, QuietConcat
<1> QED BY <1>2, <1>12 DEF I

LEMMA ReservePays ==
    ASSUME NEW admin, NEW config \in Entries, NEW tier \in Tier \cup {"admin"}
    PROVE  Pays(PlanInstruction(admin), configureReserve(config, tier), {}, {})
<1> DEFINE I == PlanInstruction(admin)
           call(op) == [op |-> op, symbol |-> config.symbol, tier |-> tier,
                        params |-> config.params]
           x == call("configureReserveAsCollateral")
           y == call("enableBorrowingOnReserve")
           z == call("setReserveFactor")
           b == config.params.borrowingEnabled
           sx == <<x>>
           sy == IF b THEN <<y>> ELSE << >>
           sz == <<z>>
<1>1. configureReserve(config, tier) = (sx \o sy) \o sz
  BY Zenon DEF configureReserve
<1>2. config.symbol \in Symbol /\ config.params \in Params
  BY DEF Entries
<1>3. \A op \in ConfigureOp :
          /\ call(op) \in [op : ConfigureOp, symbol : Symbol, tier : Tier \cup {"admin"},
                           params : Params]
          /\ call(op).op \in CallOp
  BY <1>2 DEF CallOp
<1>4. \A op \in ConfigureOp : call(op) \in I /\ Undoes(call(op)) = {}
  <2>1. [op : ConfigureOp, symbol : Symbol, tier : Tier \cup {"admin"}, params : Params]
            \subseteq I
    BY DEF PlanInstruction
  <2> HIDE DEF I, call
  <2> QED BY <1>3, <2>1, CallsAreQuiet
<1>5. /\ x \in I /\ y \in I /\ z \in I
      /\ Undoes(x) = {} /\ Undoes(y) = {} /\ Undoes(z) = {}
  <2> HIDE DEF I, call
  <2> QED BY <1>4 DEF ConfigureOp
<1> HIDE DEF x, y, z, b, I
<1>6. Pays(I, <<x>>, {}, {}) /\ Pays(I, <<y>>, {}, {}) /\ Pays(I, <<z>>, {}, {})
  BY <1>5, QuietOne
<1>7. Pays(I, << >>, {}, {})
  <2> DEFINE s == << >>
  <2>1. s \in Seq(Quiet(I))
    OBVIOUS
  <2> HIDE DEF s
  <2>2. Pays(I, s, {}, {})
    BY <2>1, QuietPays
  <2> QED BY <2>2 DEF s
<1>8. Pays(I, sy, {}, {})
  <2> DEFINE one == <<y>>
             no == << >>
  <2>1. Pays(I, one, {}, {}) /\ Pays(I, no, {}, {})
    BY <1>6, <1>7
  <2> HIDE DEF one, no
  <2>2. Pays(I, IF b THEN one ELSE no, {}, {})
    BY <2>1
  <2> QED BY <2>2 DEF one, no
<1>9. Pays(I, sx, {}, {}) /\ Pays(I, sz, {}, {})
  BY <1>6
<1> HIDE DEF sx, sy, sz
<1>10. Pays(I, sx \o sy, {}, {})
  BY <1>8, <1>9, QuietConcat
<1>11. Pays(I, (sx \o sy) \o sz, {}, {})
  BY <1>9, <1>10, QuietConcat
<1> QED BY <1>1, <1>11 DEF I

LEMMA ConfigurePays ==
    ASSUME NEW admin, NEW config, NEW tier \in Tier \cup {"admin"},
           config \in {ReservesConfig, assetBClassConfig, assetAClassConfig}
    PROVE  Pays(PlanInstruction(admin), configureReservesByHelper(config, tier), {}, {})
<1> DEFINE I == PlanInstruction(admin)
           n == Len(config)
           f == [i \in 1..n |-> configureReserve(config[i], tier)]
           s1 == <<getCounterAddressesProvider, getCounterConfigurator>>
           s2 == FlattenSeq(f)
<1>1. n \in Nat \ {0} /\ \A i \in 1..n : config[i] \in Entries
  BY ReadsConfiguration
<1>2. configureReservesByHelper(config, tier) = s1 \o s2
  BY DEF configureReservesByHelper, ForEach
<1>3. \A i \in 1..n : f[i] = configureReserve(config[i], tier)
  OBVIOUS
<1>4. f = [i \in 1..n |-> f[i]]
  OBVIOUS
<1> HIDE DEF f, n
<1>5. \A i \in 1..n : Pays(I, f[i], {}, {})
  BY <1>1, <1>3, ReservePays
<1> HIDE DEF I
<1>6. Pays(I, s2, {}, {})
  BY <1>1, <1>4, <1>5, LoopPays
<1>7. Pays(I, s1, {}, {})
  BY GettersPay, QuietTwo DEF I
<1> HIDE DEF s1, s2
<1>8. Pays(I, s1 \o s2, {}, {})
  BY <1>6, <1>7, QuietConcat
<1> QED BY <1>2, <1>8 DEF I

LEMMA FinishPays ==
    ASSUME NEW admin
    PROVE  Pays(PlanInstruction(admin), finishDeployment, {}, {})
<1> DEFINE I == PlanInstruction(admin)
           y == authorizeWETHGateway
           u == [op |-> "setCRT"]
           v == [op |-> "setPoolPause", paused |-> FALSE]
           s1 == deployWETHGateway
           s2 == <<y>>
           s3 == deployCRT
           s4 == <<u, v>>
<1>1. finishDeployment = ((s1 \o s2) \o s3) \o s4
  BY DEF finishDeployment
<1>2. Pays(I, s1, {}, {})
  BY NamedPays DEF deployWETHGateway, ContractName, Central
<1>3. Pays(I, s3, {}, {})
  <2>1. Saves("MockCRT", "CRT", "CRT") /\ "CRT" \notin Central
    BY DEF Saves, OwnVariable, ContractName, NamedForItsKind, ReadKey, Central
  <2> QED BY <2>1, SavePays DEF deployCRT
<1>4. y \in I /\ u \in I /\ v \in I
  BY DEF PlanInstruction, authorizeWETHGateway
<1>5. y.op = "authorizeCounter" /\ u.op = "setCRT" /\ v.op = "setPoolPause"
  BY DEF authorizeWETHGateway
<1> HIDE DEF I, y, u, v
<1>6. Undoes(y) = {} /\ Undoes(u) = {} /\ Undoes(v) = {}
  BY <1>5, CallsAreQuiet DEF CallOp
<1>7. Pays(I, s2, {}, {}) /\ Pays(I, s4, {}, {})
  BY <1>4, <1>6, QuietOne, QuietTwo
<1> HIDE DEF s1, s2, s3, s4
<1>8. Pays(I, s1 \o s2, {}, {})
  BY <1>2, <1>7, QuietConcat
<1>9. Pays(I, (s1 \o s2) \o s3, {}, {})
  BY <1>3, <1>8, QuietConcat
<1>10. Pays(I, ((s1 \o s2) \o s3) \o s4, {}, {})
  BY <1>7, <1>9, QuietConcat
<1> QED BY <1>1, <1>10 DEF I

LEMMA TokensPay ==
    ASSUME NEW admin
    PROVE  Pays(PlanInstruction(admin), deployAllMockTokens, {}, {})
<1> DEFINE I == PlanInstruction(admin)
           turn(symbol) == Append(deployMintableERC20(symbol), registerContractInJsonDb(symbol, symbol))
           f == [i \in 1..4 |-> turn(TokenContractName[i])]
<1>1. deployAllMockTokens = FlattenSeq(f)
  BY Orders DEF deployAllMockTokens, ForEach
<1>2. ASSUME NEW symbol \in Symbol PROVE Pays(I, turn(symbol), {}, {})
  <2> DEFINE s == deployMintableERC20(symbol)
             y == registerContractInJsonDb(symbol, symbol)
             t == <<y>>
  <2>1. Saves("MintableERC20", "MintableERC20", symbol)
    <3>1. symbol \notin NamedForItsKind
      BY SymbolsAreNames
    <3> QED BY <3>1 DEF Saves, ContractName, NamedForItsKind, ReadKey
  <2>2. Pays(I, s, {}, {})
    <3>1. symbol \notin Central /\ "MintableERC20" \notin Central
      BY NamesApart DEF Central
    <3> QED BY <2>1, <3>1, SavePays DEF deployMintableERC20
  <2>3. y \in I
    <3>1. y \in RegisterInstruction
      BY DEF registerContractInJsonDb, RegisterInstruction
    <3> QED BY <3>1 DEF PlanInstruction
  <2>4. Undoes(y) = {}
    BY DoneByOne
  <2> HIDE DEF I, y
  <2>5. Pays(I, t, {}, {})
    BY <2>3, <2>4, QuietOne
  <2>6. Append(s, y) = s \o t
    <3>1. s \in Seq(I)
      BY <2>2 DEF Pays
    <3> HIDE DEF s
    <3> QED BY <2>3, <3>1
  <2> HIDE DEF s, t
  <2>7. Pays(I, s \o t, {}, {})
    BY <2>2, <2>5, QuietConcat
  <2> QED BY <2>6, <2>7 DEF s, y
<1>3. \A i \in 1..4 : f[i] = turn(TokenContractName[i])
  OBVIOUS
<1>4. f = [i \in 1..4 |-> f[i]]
  OBVIOUS
<1> HIDE DEF f, turn, I
<1>5. \A i \in 1..4 : Pays(I, f[i], {}, {})
  BY <1>2, <1>3, Orders
<1>6. Pays(I, FlattenSeq(f), {}, {})
  <2>1. 4 \in Nat \ {0}
    OBVIOUS
  <2> QED BY <1>4, <1>5, <2>1, LoopPays
<1> QED BY <1>1, <1>6 DEF I

LEMMA MockedTokensPay ==
    ASSUME NEW admin
    PROVE  Pays(PlanInstruction(admin), getAllMockedTokens, {}, {})
<1> DEFINE x == [i \in 1..4 |-> attach(TokenContractName[i], TokenContractName[i])]
<1>1. getAllMockedTokens = FlattenSeq([i \in 1..4 |-> <<x[i]>>])
  <2>1. [i \in 1..4 |-> <<x[i]>>] = [i \in 1..4 |-> <<attach(TokenContractName[i], TokenContractName[i])>>]
    OBVIOUS
  <2> QED BY <2>1, Orders DEF getAllMockedTokens, ForEach
<1>2. \A i \in 1..4 : x[i] = attach(TokenContractName[i], TokenContractName[i])
  OBVIOUS
<1> HIDE DEF x
<1>3. ASSUME NEW symbol \in Symbol
      PROVE  attach(symbol, symbol) \in PlanInstruction(admin) /\ Undoes(attach(symbol, symbol)) = {}
  <2>1. attach(symbol, symbol) \in AttachInstruction
    BY DEF AttachInstruction
  <2>2. symbol \notin Central
    BY NamesApart
  <2> QED BY <2>1, <2>2, CallsAreQuiet DEF PlanInstruction
<1>4. \A i \in 1..4 : x[i] \in PlanInstruction(admin) /\ Undoes(x[i]) = {}
  BY <1>2, <1>3, Orders
<1>5. 4 \in Nat \ {0}
  OBVIOUS
<1> QED BY <1>1, <1>4, <1>5, CallsPay

LEMMA AggregatorsPay ==
    ASSUME NEW admin
    PROVE  Pays(PlanInstruction(admin), deployAllMockAggregators, {}, {})
<1> DEFINE I == PlanInstruction(admin)
           f == [i \in 1..4 |-> deployMockAggregator(MockPriceOrder[i])]
<1>1. deployAllMockAggregators = FlattenSeq(f)
  BY Orders DEF deployAllMockAggregators, ForEach
<1>2. ASSUME NEW symbol \in Symbol PROVE Pays(I, deployMockAggregator(symbol), {}, {})
  <2> DEFINE name == "MockAggregator-" \o symbol
  <2>1. name \in ComputedName
    BY Zenon DEF ComputedName, MockAggregatorName
  <2>2. deployMockAggregator(symbol) = deployAndSave("MockAggregator", name, name)
    BY DEF deployMockAggregator
  <2> HIDE DEF name
  <2>3. Saves("MockAggregator", name, name)
    <3>1. name \notin NamedForItsKind /\ name \notin ReadKey
      BY <2>1, SymbolsAreNames
    <3> QED BY <2>1, <3>1 DEF Saves, ContractName, NamedForItsKind, ReadKey
  <2>4. name \notin Central
    BY <2>1, NamesApart
  <2> QED BY <2>2, <2>3, <2>4, SavePays
<1>3. \A i \in 1..4 : f[i] = deployMockAggregator(MockPriceOrder[i])
  OBVIOUS
<1>4. f = [i \in 1..4 |-> f[i]]
  OBVIOUS
<1> HIDE DEF f, I
<1>5. \A i \in 1..4 : Pays(I, f[i], {}, {})
  BY <1>2, <1>3, Orders
<1>6. Pays(I, FlattenSeq(f), {}, {})
  <2>1. 4 \in Nat \ {0}
    OBVIOUS
  <2> QED BY <1>4, <1>5, <2>1, LoopPays
<1> QED BY <1>1, <1>6 DEF I

\* A quiet part leaves what a plan owes, and what it has reached.
LEMMA PaysStill ==
    ASSUME NEW I, NEW s, NEW t, NEW G, NEW H, Pays(I, s, G, H), Pays(I, t, {}, {})
    PROVE  Pays(I, s \o t, G, H)
<1> DEFINE none == {}
<1>1. G \subseteq G \cup none /\ none \subseteq G /\ H \subseteq H \cup none
  OBVIOUS
<1>2. Pays(I, t, none, none)
  OBVIOUS
<1> HIDE DEF none
<1> QED BY <1>1, <1>2, PaysConcat

LEMMA OraclePaysOff ==
    ASSUME NEW admin, NEW s, Pays(PlanInstruction(admin), s, Later, Goal \ Later)
    PROVE  Pays(PlanInstruction(admin), s \o deployOracleAndManager, {}, Goal)
<1> DEFINE I == PlanInstruction(admin)
           t == deployOracleAndManager
           none == {}
           H == Goal \ Later
<1>1. Pays(I, t, none, Later) /\ Pays(I, s, Later, H)
  BY OraclePays
<1>2. Later \subseteq none \cup Later /\ none \subseteq none /\ Goal \subseteq H \cup Later
  OBVIOUS
<1> HIDE DEF I, t, none, H
<1>3. Pays(I, s \o t, none, Goal)
  BY <1>1, <1>2, PaysConcat
<1> QED BY <1>3 DEF I, t, none

LEMMA MainnetPays == Pays(PlanInstruction("signer"), deployOnMainnet, {}, Goal)
<1> DEFINE I == PlanInstruction("signer")
           s1 == deployPool
           s2 == insertAllAssetToken("Mainnet")
           s3 == deployFallbackOracle
           s4 == deployOracleAndManager
           s5 == deployPlatformTokenInterestRateModel
           s6 == setPlatformTokenIRModel
           s7 == initReservesByHelper(ReservesConfig, "signer")
           s8 == configureReservesByHelper(ReservesConfig, 2)
           s9 == upgradeReservesByHelper(assetBClassConfig, "signer")
           s10 == configureReservesByHelper(assetBClassConfig, 1)
           s11 == upgradeReservesByHelper(assetAClassConfig, "signer")
           s12 == configureReservesByHelper(assetAClassConfig, 0)
           s13 == finishDeployment
<1>1. deployOnMainnet = ((((((((((((s1 \o s2) \o s3) \o s4) \o s5) \o s6) \o s7) \o s8)
                              \o s9) \o s10) \o s11) \o s12) \o s13)
  BY DEF deployOnMainnet
<1>2. "Mainnet" \in EthereumNetwork /\ 0 \in Tier /\ 1 \in Tier /\ 2 \in Tier
  BY DEF EthereumNetwork, Tier
<1>3. Pays(I, s1, Later, Goal \ Later)
  BY PoolPays
<1>4. /\ Pays(I, s2, {}, {}) /\ Pays(I, s3, {}, {}) /\ Pays(I, s5, {}, {})
      /\ Pays(I, s6, {}, {}) /\ Pays(I, s13, {}, {})
  BY <1>2, InsertPays, FallbackPays, ModelPays, FinishPays
<1>5. Pays(I, s7, {}, {}) /\ Pays(I, s9, {}, {}) /\ Pays(I, s11, {}, {})
  <2>1. "initReserve" \in ListOp /\ "upgradeAssetClass" \in ListOp
    BY DEF ListOp
  <2> QED BY <2>1, HelperPays DEF initReservesByHelper, upgradeReservesByHelper
<1>6. Pays(I, s8, {}, {}) /\ Pays(I, s10, {}, {}) /\ Pays(I, s12, {}, {})
  BY <1>2, ConfigurePays
<1> HIDE DEF I, s1, s2, s3, s4, s5, s6, s7, s8, s9, s10, s11, s12, s13
<1>7. Pays(I, (s1 \o s2) \o s3, Later, Goal \ Later)
  <2>1. Pays(I, s1 \o s2, Later, Goal \ Later)
    BY <1>3, <1>4, PaysStill
  <2> QED BY <1>4, <2>1, PaysStill
<1> DEFINE t3 == (s1 \o s2) \o s3
<1> HIDE DEF t3
<1>8. Pays(I, t3 \o s4, {}, Goal)
  BY <1>7, OraclePaysOff DEF I, s4, t3
<1> DEFINE t4 == t3 \o s4
<1> HIDE DEF t4
<1>9. Pays(I, (t4 \o s5) \o s6, {}, Goal)
  <2>1. Pays(I, t4 \o s5, {}, Goal)
    BY <1>4, <1>8, PaysStill DEF t4
  <2> QED BY <1>4, <2>1, PaysStill
<1> DEFINE t6 == (t4 \o s5) \o s6
<1> HIDE DEF t6
<1>10. Pays(I, (t6 \o s7) \o s8, {}, Goal)
  <2>1. Pays(I, t6 \o s7, {}, Goal)
    BY <1>5, <1>9, PaysStill DEF t6
  <2> QED BY <1>6, <2>1, PaysStill
<1> DEFINE t8 == (t6 \o s7) \o s8
<1> HIDE DEF t8
<1>11. Pays(I, (t8 \o s9) \o s10, {}, Goal)
  <2>1. Pays(I, t8 \o s9, {}, Goal)
    BY <1>5, <1>10, PaysStill DEF t8
  <2> QED BY <1>6, <2>1, PaysStill
<1> DEFINE t10 == (t8 \o s9) \o s10
<1> HIDE DEF t10
<1>12. Pays(I, (t10 \o s11) \o s12, {}, Goal)
  <2>1. Pays(I, t10 \o s11, {}, Goal)
    BY <1>5, <1>11, PaysStill DEF t10
  <2> QED BY <1>6, <2>1, PaysStill
<1> DEFINE t12 == (t10 \o s11) \o s12
<1> HIDE DEF t12
<1>13. Pays(I, t12 \o s13, {}, Goal)
  BY <1>4, <1>12, PaysStill DEF t12
<1> QED BY <1>1, <1>13 DEF I, t3, t4, t6, t8, t10, t12

LEMMA OthersPay ==
    /\ Pays(PlanInstruction("address"), deployOnGoerli, {}, Goal)
    /\ Pays(PlanInstruction("address"), deployWithMocks, {}, Goal)
<1> DEFINE I == PlanInstruction("address")
           s1 == deployPool
           s2 == insertAllAssetToken("Goerli")
           s3 == deployFallbackOracle
           s4 == deployOracleAndManager
           s5 == deployPlatformTokenInterestRateModel
           s6 == setPlatformTokenIRModel
           s7 == initReservesByHelper(ReservesConfig, "address")
           s8 == configureReservesByHelper(ReservesConfig, "admin")
           s9 == finishDeployment
           m2 == deployAllMockTokens
           m3 == getAllMockedTokens
           m5 == deployAllMockAggregators
<1>1. deployOnGoerli = (((((((s1 \o s2) \o s3) \o s4) \o s5) \o s6) \o s7) \o s8) \o s9
  BY DEF deployOnGoerli
<1>2. deployWithMocks = (((((((s1 \o m2) \o m3) \o s3) \o m5) \o s4) \o s7) \o s8) \o s9
  BY DEF deployWithMocks
<1>3. Pays(I, s1, Later, Goal \ Later)
  BY PoolPays
<1>4. /\ Pays(I, s2, {}, {}) /\ Pays(I, s3, {}, {}) /\ Pays(I, s5, {}, {})
      /\ Pays(I, s6, {}, {}) /\ Pays(I, s9, {}, {})
  <2>1. "Goerli" \in EthereumNetwork
    BY DEF EthereumNetwork
  <2> QED BY <2>1, InsertPays, FallbackPays, ModelPays, FinishPays
<1>5. Pays(I, m2, {}, {}) /\ Pays(I, m3, {}, {}) /\ Pays(I, m5, {}, {})
  BY TokensPay, MockedTokensPay, AggregatorsPay
<1>6. Pays(I, s7, {}, {})
  <2>1. "initReserve" \in ListOp
    BY DEF ListOp
  <2> QED BY <2>1, HelperPays DEF initReservesByHelper
<1>7. Pays(I, s8, {}, {})
  BY ConfigurePays
<1> HIDE DEF I, s1, s2, s3, s4, s5, s6, s7, s8, s9, m2, m3, m5
<1>8. ASSUME NEW s, Pays(I, s, {}, Goal)
      PROVE  Pays(I, ((s \o s7) \o s8) \o s9, {}, Goal)
  <2>1. Pays(I, s \o s7, {}, Goal)
    BY <1>6, <1>8, PaysStill
  <2>2. Pays(I, (s \o s7) \o s8, {}, Goal)
    BY <1>7, <2>1, PaysStill
  <2> QED BY <1>4, <2>2, PaysStill
<1>9. Pays(I, deployOnGoerli, {}, Goal)
  <2>1. Pays(I, s1 \o s2, Later, Goal \ Later)
    BY <1>3, <1>4, PaysStill
  <2>2. Pays(I, (s1 \o s2) \o s3, Later, Goal \ Later)
    BY <1>4, <2>1, PaysStill
  <2> DEFINE t3 == (s1 \o s2) \o s3
  <2> HIDE DEF t3
  <2>3. Pays(I, t3 \o s4, {}, Goal)
    BY <2>2, OraclePaysOff DEF I, s4, t3
  <2>4. Pays(I, (t3 \o s4) \o s5, {}, Goal)
    BY <1>4, <2>3, PaysStill
  <2>5. Pays(I, ((t3 \o s4) \o s5) \o s6, {}, Goal)
    BY <1>4, <2>4, PaysStill
  <2> QED BY <1>1, <1>8, <2>5 DEF t3
<1>10. Pays(I, deployWithMocks, {}, Goal)
  <2>1. Pays(I, s1 \o m2, Later, Goal \ Later)
    BY <1>3, <1>5, PaysStill
  <2>2. Pays(I, (s1 \o m2) \o m3, Later, Goal \ Later)
    BY <1>5, <2>1, PaysStill
  <2>3. Pays(I, ((s1 \o m2) \o m3) \o s3, Later, Goal \ Later)
    BY <1>4, <2>2, PaysStill
  <2>4. Pays(I, (((s1 \o m2) \o m3) \o s3) \o m5, Later, Goal \ Later)
    BY <1>5, <2>3, PaysStill
  <2> DEFINE t5 == (((s1 \o m2) \o m3) \o s3) \o m5
  <2> HIDE DEF t5
  <2>5. Pays(I, t5 \o s4, {}, Goal)
    BY <2>4, OraclePaysOff DEF I, s4, t5
  <2> QED BY <1>2, <1>8, <2>5 DEF t5
<1> QED BY <1>9, <1>10 DEF I

\* No script leaves anything out.
LEMMA PlanPays ==
    ASSUME NEW s \in Script
    PROVE  Owed(Plan(s)) = {} /\ Goal \subseteq Reached(Plan(s))
<1>1. \E admin : Pays(PlanInstruction(admin), Plan(s), {}, Goal)
  <2>1. CASE s = "mainnet"
    BY <2>1, MainnetPays DEF Plan
  <2>2. CASE s = "goerli"
    BY <2>2, OthersPay DEF Plan
  <2>3. CASE s = "mocks"
    BY <2>3, OthersPay DEF Plan
  <2> QED BY <2>1, <2>2, <2>3 DEF Script
<1> QED BY <1>1 DEF Pays

-----------------------------------------------------------------------------
(***************************************************************************)
(* What a run has left behind, and what it is still to.                    *)
(***************************************************************************)

SavesIt(p, key) ==
    key \in DOMAIN locals[p] /\ key \in DOMAIN db /\ db[key] = locals[p][key]
NamesIt(p, slot) ==
    /\ "CounterAddressesProvider" \in DOMAIN locals[p]
    /\ Source(slot) # "admin" => Source(slot) \in DOMAIN locals[p]
    /\ slots[locals[p]["CounterAddressesProvider"]][slot] = Get(p, Source(slot))

Achieved(p) ==
    {Saved(key) : key \in {key \in Central : SavesIt(p, key)}}
    \cup {Named(slot) : slot \in {slot \in Slot : NamesIt(p, slot)}}

\* The running run is the last; what it has not achieved it will, and nothing it
\* undoes on the way stays undone.
GoalsInv ==
    \A p \in Run : Running(p) =>
        /\ p = started
        /\ Owed(todo[p]) = {}
        /\ Goal \subseteq Achieved(p) \cup Reached(todo[p])

\* An instruction that undoes and reaches what it should leaves the rest of the
\* script with the rest of the goals.
LEMMA GoalsTail ==
    ASSUME NEW I, NEW s \in Seq(I), s # << >>, NEW A, NEW B,
           Owed(s) = {}, Goal \subseteq A \cup Reached(s),
           (A \ Undoes(Head(s))) \cup Reaches(Head(s)) \subseteq B
    PROVE  Owed(Tail(s)) = {} /\ Goal \subseteq B \cup Reached(Tail(s))
<1> DEFINE x == Head(s)
           t == Tail(s)
           one == <<x>>
<1>1. x \in I /\ t \in Seq(I) /\ s = one \o t /\ one \in Seq(I)
  OBVIOUS
<1>2. Reached(one) = Reaches(x) /\ Owed(one) = Undoes(x)
  BY ReachedOne
<1> HIDE DEF x, t, one
<1>3. /\ Reached(s) = Reached(one) \cup Reached(t)
      /\ Owed(s) = (Owed(one) \ Reached(t)) \cup Owed(t)
  BY <1>1, ReachedConcat
<1>4. Owed(t) = {} /\ Undoes(x) \subseteq Reached(t)
  BY <1>2, <1>3
<1>5. Goal \subseteq B \cup Reached(t)
  BY <1>2, <1>3, <1>4 DEF x
<1> QED BY <1>4, <1>5 DEF t

\* The same when quiet instructions take its place.
LEMMA GoalsMore ==
    ASSUME NEW I, NEW s \in Seq(I), s # << >>, NEW A, NEW B, NEW r, Pays(I, r, {}, {}),
           Owed(s) = {}, Goal \subseteq A \cup Reached(s),
           (A \ Undoes(Head(s))) \cup Reaches(Head(s)) \subseteq B
    PROVE  Owed(r \o Tail(s)) = {} /\ Goal \subseteq B \cup Reached(r \o Tail(s))
<1> DEFINE t == Tail(s)
<1>1. Owed(t) = {} /\ Goal \subseteq B \cup Reached(t)
  BY GoalsTail
<1>2. t \in Seq(I) /\ r \in Seq(I)
  BY DEF Pays
<1>4. Owed(r) = {}
  BY DEF Pays
<1> HIDE DEF t
<1>3. /\ Reached(r \o t) = Reached(r) \cup Reached(t)
      /\ Owed(r \o t) = (Owed(r) \ Reached(t)) \cup Owed(t)
  BY <1>2, ReachedConcat
<1> QED BY <1>1, <1>3, <1>4 DEF t

LEMMA AchievedKept ==
    ASSUME NEW p, NEW G,
           \A key \in Central : Saved(key) \notin G /\ SavesIt(p, key) => SavesIt(p, key)',
           \A slot \in Slot : Named(slot) \notin G /\ NamesIt(p, slot) => NamesIt(p, slot)'
    PROVE  Achieved(p) \ G \subseteq Achieved(p)'
<1>1. ASSUME NEW g \in Achieved(p), g \notin G PROVE g \in Achieved(p)'
  <2>1. CASE \E key \in Central : SavesIt(p, key) /\ g = Saved(key)
    BY <1>1, <2>1 DEF Achieved
  <2>2. CASE \E slot \in Slot : NamesIt(p, slot) /\ g = Named(slot)
    BY <1>1, <2>2 DEF Achieved
  <2> QED BY <1>1, <2>1, <2>2 DEF Achieved
<1> QED BY <1>1

\* A step that leaves the variables of the run, the providers and the entries of the
\* market leaves what has been achieved.
LEMMA AchievedStays ==
    ASSUME NEW p, locals'[p] = locals[p], slots' = slots,
           \A key \in Central : key \in DOMAIN db => key \in DOMAIN db' /\ db'[key] = db[key]
    PROVE  Achieved(p) \subseteq Achieved(p)'
<1>1. \A key \in Central : SavesIt(p, key) => SavesIt(p, key)'
  BY DEF SavesIt
<1>2. \A slot \in Slot : NamesIt(p, slot) => NamesIt(p, slot)'
  BY DEF NamesIt, Get
<1>3. Achieved(p) \ {} \subseteq Achieved(p)'
  BY <1>1, <1>2, AchievedKept
<1> QED BY <1>3

\* A variable that gets a new value undoes the goals that speak of it.
LEMMA AssignUndoes ==
    ASSUME DInv, NEW p \in Run, LocalsInv(p), NEW as, NEW a, Assign(p, as, a), db' = db,
           \A w \in DOMAIN slots : w \in DOMAIN slots' /\ slots'[w] = slots[w]
    PROVE  Achieved(p) \ GoalsOf(as) \subseteq Achieved(p)'
<1>1. /\ DOMAIN locals'[p] = DOMAIN locals[p] \cup {as}
      /\ \A name \in DOMAIN locals[p] : name # as => locals'[p][name] = locals[p][name]
  <2>1. locals'[p] = Put(locals[p], as, a)
    BY DEF Assign, DInv, RunsInv
  <2> QED BY <2>1 DEF Put
<1>2. ASSUME NEW key \in Central, Saved(key) \notin GoalsOf(as), SavesIt(p, key)
      PROVE  SavesIt(p, key)'
  <2>1. key # as
    BY <1>2 DEF GoalsOf, Goal
  <2> QED BY <1>1, <1>2, <2>1 DEF SavesIt
<1>3. ASSUME NEW slot \in Slot, Named(slot) \notin GoalsOf(as), NamesIt(p, slot)
      PROVE  NamesIt(p, slot)'
  <2> DEFINE provider == "CounterAddressesProvider"
             from == Source(slot)
             v == locals[p][provider]
  <2>1. as \notin {from, provider} \ {"admin"}
    BY <1>3 DEF GoalsOf, Goal
  <2>2. /\ provider \in DOMAIN locals[p]
        /\ from # "admin" => from \in DOMAIN locals[p]
        /\ slots[v][slot] = Get(p, from)
    BY <1>3 DEF NamesIt
  <2>3. v \in DOMAIN slots
    <3>1. provider \in NamedForItsKind
      BY DEF NamedForItsKind, ReadKey
    <3>2. Is(v, provider, p)
      BY <2>2, <3>1 DEF LocalsInv
    <3> QED BY <3>2 DEF DInv, ChainInv, CodeInv, Deployed, Is
  <2>4. provider # as
    BY <2>1
  <2> HIDE DEF provider, from
  <2>5. locals'[p][provider] = v /\ provider \in DOMAIN locals'[p]
    BY <1>1, <2>2, <2>4
  <2>6. ASSUME from # "admin"
        PROVE  from # as /\ from \in DOMAIN locals'[p] /\ locals'[p][from] = locals[p][from]
    <3>1. from # as
      BY <2>1, <2>6
    <3>2. from \in DOMAIN locals[p]
      BY <2>2, <2>6
    <3> QED BY <1>1, <3>1, <3>2
  <2>7. Get(p, from)' = Get(p, from)
    BY <2>6 DEF Get, from
  <2>8. slots'[v][slot] = slots[v][slot]
    BY <2>3
  <2> QED BY <2>2, <2>5, <2>6, <2>7, <2>8 DEF NamesIt, from, provider
<1> QED BY <1>2, <1>3, AchievedKept

\* What a run has left after a step.
LEMMA GoalsKept ==
    ASSUME DInv, GoalsInv, NEW p \in Run, StepsOfRun(p),
           Owed(todo'[p]) = {}, Goal \subseteq Achieved(p)' \cup Reached(todo'[p])
    PROVE  GoalsInv'
<1>1. OnlyOf(p) /\ Running(p)
  BY Remembers
<1>2. \A q \in Run : Running(q)' => q = p
  BY <1>1 DEF DInv, RunsInv, OnlyOf, runVars, Running
<1>3. p = started /\ started' = started
  BY <1>1 DEF GoalsInv, OnlyOf, runVars
<1> QED BY <1>2, <1>3 DEF GoalsInv

LEMMA GoalsDone ==
    ASSUME DInv, GoalsInv, NEW p \in Run, StepsOfRun(p), Done(p),
           (Achieved(p) \ Undoes(Instruction(p))) \cup Reaches(Instruction(p)) \subseteq Achieved(p)'
    PROVE  GoalsInv'
<1> DEFINE I == AnyInstruction(Admin(script[p]))
           s == todo[p]
           A == Achieved(p)
           B == Achieved(p)'
<1>1. TodoInv(p) /\ Running(p) /\ s # << >>
  BY Remembers
<1>2. s \in Seq(I)
  BY <1>1 DEF TodoInv, Todo
<1>3. Owed(s) = {} /\ Goal \subseteq A \cup Reached(s)
  BY <1>1 DEF GoalsInv
<1>4. (A \ Undoes(Head(s))) \cup Reaches(Head(s)) \subseteq B
  BY DEF Instruction
<1>5. todo'[p] = Tail(s)
  BY DEF Done, DInv, RunsInv
<1> HIDE DEF I, s, A, B
<1>6. Owed(Tail(s)) = {} /\ Goal \subseteq B \cup Reached(Tail(s))
  BY <1>1, <1>2, <1>3, <1>4, GoalsTail
<1> QED BY <1>5, <1>6, GoalsKept DEF B

LEMMA GoalsExpanded ==
    ASSUME DInv, GoalsInv, NEW p \in Run, StepsOfRun(p), NEW r, Expand(p, r),
           Pays(AnyInstruction(Admin(script[p])), r, {}, {}),
           Undoes(Instruction(p)) = {}, Reaches(Instruction(p)) = {},
           UNCHANGED <<locals, db>>, UNCHANGED chainVars
    PROVE  GoalsInv'
<1> DEFINE I == AnyInstruction(Admin(script[p]))
           s == todo[p]
           A == Achieved(p)
           B == Achieved(p)'
<1>1. TodoInv(p) /\ Running(p) /\ s # << >>
  BY Remembers
<1>2. s \in Seq(I)
  BY <1>1 DEF TodoInv, Todo
<1>3. Owed(s) = {} /\ Goal \subseteq A \cup Reached(s)
  BY <1>1 DEF GoalsInv
<1>4. A \subseteq B
  <2>1. slots' = slots
    BY CodeKept
  <2> QED BY <2>1, AchievedStays
<1>5. (A \ Undoes(Head(s))) \cup Reaches(Head(s)) \subseteq B
  BY <1>4 DEF Instruction
<1>6. todo'[p] = r \o Tail(s)
  BY DEF Expand, DInv, RunsInv
<1> HIDE DEF I, s, A, B
<1>7. Pays(I, r, {}, {})
  BY DEF I
<1>8. Owed(r \o Tail(s)) = {} /\ Goal \subseteq B \cup Reached(r \o Tail(s))
  BY <1>1, <1>2, <1>3, <1>5, <1>7, GoalsMore
<1> QED BY <1>6, <1>8, GoalsKept DEF B

\* An instruction that touches neither the variables, nor the file, nor a provider.
LEMMA GoalsUntouched ==
    ASSUME DInv, GoalsInv, NEW p \in Run, StepsOfRun(p), Done(p),
           Reaches(Instruction(p)) = {}, UNCHANGED <<locals, db, slots>>
    PROVE  GoalsInv'
<1>1. Achieved(p) \subseteq Achieved(p)'
  BY AchievedStays
<1> QED BY <1>1, GoalsDone

LEMMA PaysIn ==
    ASSUME NEW I, NEW J, I \subseteq J, NEW s, NEW G, NEW H, Pays(I, s, G, H)
    PROVE  Pays(J, s, G, H)
<1>1. s \in Seq(I)
  BY DEF Pays
<1>2. s \in Seq(J)
  BY <1>1
<1> QED BY <1>2 DEF Pays

\* A strategy that a helper deploys is no contract of the market's registry.
LEMMA StrategyPays ==
    ASSUME NEW admin, NEW strategy, strategy.name \in StrategyName
    PROVE  Pays(AnyInstruction(admin),
                Append(deployStrategy(strategy), [op |-> "keepStrategy", name |-> strategy.name]),
                {}, {})
<1> DEFINE I == AnyInstruction(admin)
           contract == "DefaultReserveInterestRateStrategy"
           s == deployAndSave(contract, contract, "strategy")
           y == registerContractInJsonDb(strategy.name, "strategy")
           z == [op |-> "keepStrategy", name |-> strategy.name]
           t == <<y, z>>
<1>1. Pays(I, s, {}, {})
  <2>1. Saves(contract, contract, "strategy")
    BY DEF Saves, OwnVariable, ContractName, NamedForItsKind, ReadKey
  <2>2. contract \notin Central /\ "strategy" \notin Central
    BY DEF Central
  <2>3. Pays(PlanInstruction(admin), s, {}, {})
    BY <2>1, <2>2, SavePays
  <2>4. PlanInstruction(admin) \subseteq I
    BY DEF AnyInstruction
  <2> HIDE DEF s, I
  <2> QED BY <2>3, <2>4, PaysIn
<1>2. y \in I /\ Undoes(y) = {}
  <2>1. y \in RegisterInstruction
    BY DEF registerContractInJsonDb, RegisterInstruction, OwnVariable, StrategyName, ReadKey
  <2>2. strategy.name \notin Central
    BY NamesApart
  <2>3. Goal \cap {Saved(strategy.name)} = {}
    BY <2>2, GoalsOfOthers
  <2> QED BY <2>1, <2>3, DoneByOne DEF AnyInstruction, PlanInstruction
<1>3. z \in I /\ Undoes(z) = {}
  BY DEF AnyInstruction, LoopInstruction, Undoes
<1>4. Append(deployStrategy(strategy), z) = Append(Append(s, y), z)
  BY DEF deployStrategy, deployRateStrategy, deployDefaultReserveInterestRateStrategy
<1> HIDE DEF s, y, z, I, contract
<1>5. Pays(I, t, {}, {})
  BY <1>2, <1>3, QuietTwo
<1>6. Append(Append(s, y), z) = s \o t
  <2>1. s \in Seq(I)
    BY <1>1 DEF Pays
  <2> QED BY <1>2, <1>3, <2>1
<1> HIDE DEF t
<1>7. Pays(I, s \o t, {}, {})
  BY <1>1, <1>5, QuietConcat
<1> QED BY <1>4, <1>6, <1>7 DEF z, I

\* Nor is anything else that a turn of the loop over reserves deploys.
LEMMA TurnPays ==
    ASSUME NEW admin, NEW config \in PrepareInstruction(admin), NEW letter \in Letters,
           NEW known \in BOOLEAN
    PROVE  Pays(AnyInstruction(admin), reserveContracts(config, letter, known), {}, {})
<1> DEFINE I == AnyInstruction(admin)
           name == config.params.strategy.name
           symbol == config.symbol \o letter
           pName == "p" \o symbol
           debtName == "variable Debt p" \o debtSymbol(config, letter)
           push == [op |-> "pushInput", config |-> config]
           keep == [op |-> "keepStrategy", name |-> name]
           t0 == Append(deployStrategy(config.params.strategy), keep)
           s0 == IF known THEN << >> ELSE t0
           s1 == deployAndSave("PToken", pName, "pToken")
           s2 == deployAndSave("VariableDebtToken", debtName, "variableDebtToken")
           s3 == <<push>>
<1>1. /\ name \in StrategyName /\ pName \in ComputedName /\ debtName \in ComputedName
      /\ Saves("PToken", pName, "pToken") /\ Saves("VariableDebtToken", debtName, "variableDebtToken")
  BY ReserveNames, Zenon
<1>2. reserveContracts(config, letter, known) = ((s0 \o s1) \o s2) \o s3
  BY DEF reserveContracts, deployPToken, deployVariableDebtToken
<1> HIDE DEF pName, debtName
<1>7. Pays(I, s1, {}, {}) /\ Pays(I, s2, {}, {})
  <2>1. pName \notin Central /\ debtName \notin Central
        /\ "pToken" \notin Central /\ "variableDebtToken" \notin Central
    BY <1>1, NamesApart
  <2>2. Pays(PlanInstruction(admin), s1, {}, {}) /\ Pays(PlanInstruction(admin), s2, {}, {})
    BY <1>1, <2>1, SavePays
  <2>3. PlanInstruction(admin) \subseteq I
    BY DEF AnyInstruction
  <2> HIDE DEF s1, s2, I
  <2> QED BY <2>2, <2>3, PaysIn
<1>8. Pays(I, s0, {}, {})
  <2>1. CASE known
    <3> DEFINE e == << >>
    <3>1. e \in Seq(Quiet(I))
      OBVIOUS
    <3>2. s0 = e
      BY <2>1
    <3> HIDE DEF e, s0, I
    <3> QED BY <3>1, <3>2, QuietPays
  <2>2. CASE ~known
    <3>1. s0 = t0
      BY <2>2
    <3>2. Pays(I, t0, {}, {})
      BY <1>1, StrategyPays
    <3> QED BY <3>1, <3>2
  <2> QED BY <2>1, <2>2
<1>9. Pays(I, s3, {}, {})
  <2>1. push \in I /\ Undoes(push) = {}
    BY DEF AnyInstruction, LoopInstruction, Undoes
  <2> HIDE DEF push, I
  <2> QED BY <2>1, QuietOne
<1> HIDE DEF s0, s1, s2, s3, I
<1>10. Pays(I, s0 \o s1, {}, {})
  BY <1>7, <1>8, QuietConcat
<1>11. Pays(I, (s0 \o s1) \o s2, {}, {})
  BY <1>7, <1>10, QuietConcat
<1>12. Pays(I, ((s0 \o s1) \o s2) \o s3, {}, {})
  BY <1>9, <1>11, QuietConcat
<1> QED BY <1>2, <1>12 DEF I

LEMMA GoalsPrepare ==
    ASSUME DInv, IInv, GoalsInv, NEW p \in Run, Prepare(p)
    PROVE  GoalsInv'
<1> DEFINE name == Instruction(p).params.strategy.name
           initialized == <<TokenAddress(p), TargetTier(p)>> \in DOMAIN pool[HelperPool(p)].reserves
           letter == Letter(TargetTier(p))
           known == name \in DOMAIN strategies[p]
           s == reserveContracts(Instruction(p), letter, known)
           r == IF initialized THEN << >> ELSE s
           admin == Admin(script[p])
           I == AnyInstruction(admin)
<1>1. StepsOfRun(p)
  BY DEF StepsOfRun
<1>2. Kinds(admin, Instruction(p)) /\ script' = script
  BY <1>1, Remembers
<1>3. /\ Expand(p, r) /\ UNCHANGED <<locals, inputs, strategies, db>> /\ UNCHANGED chainVars
      /\ Instruction(p).op = "prepare" /\ PoolAnswers(p)
  BY DEF Prepare, Doing, Instruction, localVars
<1>4. Instruction(p) \in PrepareInstruction(admin)
  BY <1>2, <1>3 DEF Kinds
<1>5. letter \in Letters
  BY <1>3, <1>4, LetterIsKnown
<1>6. Pays(I, r, {}, {})
  <2>1. CASE initialized
    <3> DEFINE e == << >>
    <3>1. e \in Seq(Quiet(I))
      OBVIOUS
    <3>2. r = e
      BY <2>1
    <3> HIDE DEF e, r, I
    <3> QED BY <3>1, <3>2, QuietPays
  <2>2. CASE ~initialized
    <3>1. r = s
      BY <2>2
    <3>2. Pays(I, s, {}, {})
      <4> DEFINE x == Instruction(p)
      <4>1. x \in PrepareInstruction(admin) /\ letter \in Letters /\ known \in BOOLEAN
        BY <1>4, <1>5
      <4>2. s = reserveContracts(x, letter, known)
        OBVIOUS
      <4> HIDE DEF letter, known, admin, x, s
      <4> QED BY <4>1, <4>2, TurnPays
    <3> QED BY <3>1, <3>2
  <2> QED BY <2>1, <2>2
<1>7. Undoes(Instruction(p)) = {} /\ Reaches(Instruction(p)) = {}
  BY <1>3, CallsAreQuiet DEF CallOp
<1> HIDE DEF r
<1> QED BY <1>1, <1>3, <1>6, <1>7, GoalsExpanded

LEMMA GoalsDeploy ==
    ASSUME DInv, GoalsInv, NEW p \in Run, Deploy(p)
    PROVE  GoalsInv'
<1> DEFINE contract == Instruction(p).contract
           as == Instruction(p).as
           v == nextAddress
<1>1. StepsOfRun(p)
  BY DEF StepsOfRun
<1>2. LocalsInv(p)
  BY <1>1, Remembers
<1>3. /\ Done(p) /\ db' = db /\ Instruction(p).op = "deploy" /\ Assign(p, as, v)
      /\ slots' = NewState(slots, contract, "CounterAddressesProvider", UnsetSlots)
  BY DEF Deploy, Doing, Instruction
<1>4. \A w \in DOMAIN slots : w \in DOMAIN slots' /\ slots'[w] = slots[w]
  <2>1. \A w \in DOMAIN slots : w # v
    <3>1. \A w \in DOMAIN slots : w \in 1..v - 1 /\ v \in Nat
      BY DEF DInv, ChainInv, CodeInv, Deployed
    <3> QED BY <3>1
  <2> QED BY <1>3, <2>1 DEF NewState, Put
<1>5. Undoes(Instruction(p)) = GoalsOf(as) /\ Reaches(Instruction(p)) = {}
  BY <1>3 DEF Undoes, Reaches
<1> HIDE DEF as, v
<1>6. Achieved(p) \ GoalsOf(as) \subseteq Achieved(p)'
  BY <1>2, <1>3, <1>4, AssignUndoes
<1> QED BY <1>1, <1>3, <1>5, <1>6, GoalsDone

LEMMA GoalsAttach ==
    ASSUME DInv, GoalsInv, NEW p \in Run, Attach(p)
    PROVE  GoalsInv'
<1> DEFINE as == Instruction(p).as
           a == db[Instruction(p).key]
<1>1. StepsOfRun(p)
  BY DEF StepsOfRun
<1>2. LocalsInv(p)
  BY <1>1, Remembers
<1>3. /\ Done(p) /\ db' = db /\ Instruction(p).op = "attach" /\ Assign(p, as, a)
      /\ UNCHANGED chainVars
  BY DEF Attach, Doing, Instruction
<1>4. Undoes(Instruction(p)) = GoalsOf(as) /\ Reaches(Instruction(p)) = {}
  BY <1>3 DEF Undoes, Reaches
<1>5. slots' = slots
  BY <1>3, CodeKept
<1> HIDE DEF as, a
<1>6. Achieved(p) \ GoalsOf(as) \subseteq Achieved(p)'
  BY <1>2, <1>3, <1>5, AssignUndoes
<1> QED BY <1>1, <1>3, <1>4, <1>6, GoalsDone

LEMMA GoalsEnter ==
    ASSUME DInv, GoalsInv, NEW p \in Run, EnterHelper(p)
    PROVE  GoalsInv'
<1> DEFINE as == "addressProvider"
           a == db["CounterAddressesProvider"]
<1>1. StepsOfRun(p)
  BY DEF StepsOfRun
<1>2. LocalsInv(p)
  BY <1>1, Remembers
<1>3. /\ Done(p) /\ db' = db /\ Instruction(p).op = "enterHelper" /\ Assign(p, as, a)
      /\ UNCHANGED chainVars
  BY DEF EnterHelper, Doing, Instruction
<1>4. Undoes(Instruction(p)) = {} /\ Reaches(Instruction(p)) = {}
  BY <1>3 DEF Undoes, Reaches
<1>5. slots' = slots
  BY <1>3, CodeKept
<1>6. GoalsOf(as) = {}
  BY NamesApart, GoalsOfOthers
<1> HIDE DEF as, a
<1>7. Achieved(p) \ GoalsOf(as) \subseteq Achieved(p)'
  BY <1>2, <1>3, <1>5, AssignUndoes
<1> QED BY <1>1, <1>3, <1>4, <1>6, <1>7, GoalsDone

\* An entry written undoes no goal but that of its own key.
LEMMA PutUndoes ==
    ASSUME NEW p, NEW key, NEW a, db' = Put(db, key, a), locals' = locals, slots' = slots
    PROVE  /\ Achieved(p) \ {Saved(key)} \subseteq Achieved(p)'
           /\ key \in Central /\ key \in DOMAIN locals[p] /\ a = locals[p][key] =>
                  Saved(key) \in Achieved(p)'
           /\ key \notin Central => Achieved(p) \subseteq Achieved(p)'
<1>1. DOMAIN db' = DOMAIN db \cup {key} /\ db'[key] = a
      /\ \A k \in DOMAIN db : k # key => db'[k] = db[k]
  BY DEF Put
<1>2. \A k \in Central : Saved(k) \notin {Saved(key)} /\ SavesIt(p, k) => SavesIt(p, k)'
  BY <1>1 DEF SavesIt, Saved
<1>3. \A slot \in Slot : NamesIt(p, slot) => NamesIt(p, slot)'
  BY DEF NamesIt, Get
<1>4. Achieved(p) \ {Saved(key)} \subseteq Achieved(p)'
  BY <1>2, <1>3, AchievedKept
<1>5. ASSUME key \in Central, key \in DOMAIN locals[p], a = locals[p][key]
      PROVE  Saved(key) \in Achieved(p)'
  <2>1. SavesIt(p, key)'
    BY <1>1, <1>5 DEF SavesIt
  <2> QED BY <1>5, <2>1 DEF Achieved
<1>6. ASSUME key \notin Central PROVE Achieved(p) \subseteq Achieved(p)'
  <2>1. \A k \in Central : k \in DOMAIN db => k \in DOMAIN db' /\ db'[k] = db[k]
    BY <1>1, <1>6
  <2> QED BY <2>1, AchievedStays
<1> QED BY <1>4, <1>5, <1>6

LEMMA GoalsRegister ==
    ASSUME DInv, GoalsInv, NEW p \in Run, Register(p)
    PROVE  GoalsInv'
<1> DEFINE key == Instruction(p).key
           as == Instruction(p).as
           a == locals[p][as]
           x == Instruction(p)
<1>1. StepsOfRun(p)
  BY DEF StepsOfRun
<1>2. /\ Done(p) /\ locals' = locals /\ UNCHANGED chainVars /\ x.op = "register"
      /\ as \in DOMAIN locals[p] /\ db' = Put(db, key, a)
  BY DEF Register, localVars, Doing, Instruction, HasVariable
<1>3. slots' = slots
  BY <1>2, CodeKept
<1>4. /\ Undoes(x) = IF as = key THEN {} ELSE Goal \cap {Saved(key)}
      /\ Reaches(x) = IF as = key THEN Goal \cap {Saved(key)} ELSE {}
  BY <1>2 DEF Undoes, Reaches
<1>5. Saved(key) \in Goal => key \in Central
  BY DEF Goal, Saved, Named
<1>6. Achieved(p) \subseteq Goal
  BY DEF Achieved, Goal
<1> HIDE DEF key, as, a
<1>7. /\ Achieved(p) \ {Saved(key)} \subseteq Achieved(p)'
      /\ key \in Central /\ key \in DOMAIN locals[p] /\ a = locals[p][key] =>
             Saved(key) \in Achieved(p)'
      /\ key \notin Central => Achieved(p) \subseteq Achieved(p)'
  BY <1>2, <1>3, PutUndoes
<1>8. (Achieved(p) \ Undoes(x)) \cup Reaches(x) \subseteq Achieved(p)'
  <2>1. CASE as = key
    <3>1. key \in Central => Saved(key) \in Achieved(p)'
      BY <1>2, <1>7, <2>1 DEF a
    <3>2. Achieved(p) \subseteq Achieved(p)'
      BY <1>7, <3>1
    <3> QED BY <1>4, <1>5, <2>1, <3>1, <3>2
  <2>2. CASE as # key
    <3>1. Achieved(p) \ Undoes(x) \subseteq Achieved(p) \ {Saved(key)}
      BY <1>4, <1>6, <2>2
    <3> QED BY <1>4, <1>7, <2>2, <3>1
  <2> QED BY <2>1, <2>2
<1> QED BY <1>1, <1>2, <1>8, GoalsDone DEF x

LEMMA GoalsRawInsert ==
    ASSUME DInv, GoalsInv, NEW p \in Run, RawInsert(p)
    PROVE  GoalsInv'
<1> DEFINE key == Instruction(p).key
           a == Instruction(p).address
<1>1. StepsOfRun(p)
  BY DEF StepsOfRun
<1>2. /\ Done(p) /\ locals' = locals /\ UNCHANGED chainVars /\ Instruction(p).op = "rawInsert"
      /\ db' = Put(db, key, a)
  BY DEF RawInsert, localVars, Doing, Instruction
<1>3. slots' = slots /\ Kinds(Admin(script[p]), Instruction(p))
  BY <1>1, <1>2, CodeKept, Remembers
<1>4. key \notin Central
  BY <1>2, <1>3, NamesApart DEF Kinds
<1>5. Reaches(Instruction(p)) = {}
  BY <1>2 DEF Reaches
<1> HIDE DEF key, a
<1>6. Achieved(p) \subseteq Achieved(p)'
  BY <1>2, <1>3, <1>4, PutUndoes
<1> QED BY <1>1, <1>2, <1>5, <1>6, GoalsDone

LEMMA GoalsKeepStrategy ==
    ASSUME DInv, GoalsInv, NEW p \in Run, KeepStrategy(p)
    PROVE  GoalsInv'
<1> DEFINE key == Instruction(p).name
           a == locals[p]["strategy"]
<1>1. StepsOfRun(p)
  BY DEF StepsOfRun
<1>2. /\ Done(p) /\ locals' = locals /\ UNCHANGED chainVars
      /\ Instruction(p).op = "keepStrategy" /\ db' = Put(db, key, a)
  BY DEF KeepStrategy, Doing, Instruction
<1>3. slots' = slots /\ Kinds(Admin(script[p]), Instruction(p))
  BY <1>1, <1>2, CodeKept, Remembers
<1>4. key \notin Central
  BY <1>2, <1>3, NamesApart DEF Kinds
<1>5. Reaches(Instruction(p)) = {}
  BY <1>2 DEF Reaches
<1> HIDE DEF key, a
<1>6. Achieved(p) \subseteq Achieved(p)'
  BY <1>2, <1>3, <1>4, PutUndoes
<1> QED BY <1>1, <1>2, <1>5, <1>6, GoalsDone

LEMMA GoalsSet ==
    ASSUME DInv, GoalsInv, NEW p \in Run, Set(p)
    PROVE  GoalsInv'
<1> DEFINE v == locals[p]["CounterAddressesProvider"]
           slot == Instruction(p).slot
           as == Instruction(p).as
           a == Get(p, as)
<1>1. StepsOfRun(p)
  BY DEF StepsOfRun
<1>2. /\ LocalsInv(p) /\ Needs(Instruction(p)) \subseteq Has(p)
      /\ Kinds(Admin(script[p]), Instruction(p))
  BY <1>1, Remembers
<1>3. /\ Done(p) /\ UNCHANGED <<locals, db>> /\ Instruction(p).op = "set"
      /\ slots' = [slots EXCEPT ![v] = [@ EXCEPT ![slot] = a]]
  BY DEF Set, localVars, Doing, Instruction
<1>4. Instruction(p) \in SetInstruction
  BY <1>2, <1>3 DEF Kinds
<1>5. slot \in Slot /\ as = Source(slot)
  <2>1. \/ slot = "PoolAdmin" /\ as = "admin"
        \/ slot = "EmergencyAdmin" /\ as = "admin"
        \/ slot = "Counter" /\ as = "Counter"
        \/ slot = "CounterConfigurator" /\ as = "CounterConfigurator"
        \/ slot = "PriceOracle" /\ as = "PrestareOracle"
        \/ slot = "CounterCollateralManager" /\ as = "CounterCollateralManager"
    BY <1>4 DEF SetInstruction, set
  <2> HIDE DEF slot, as
  <2> QED BY <2>1 DEF Slot, Source
<1>6. /\ "CounterAddressesProvider" \in DOMAIN locals[p]
      /\ as # "admin" => as \in DOMAIN locals[p]
  <2>1. Variable("CounterAddressesProvider") \in Has(p) /\ (as # "admin" => Variable(as) \in Has(p))
    <3>1. Needs(Instruction(p)) = {Variable("CounterAddressesProvider")}
                                   \cup (IF as = "admin" THEN {} ELSE {Variable(as)})
      BY <1>3 DEF Needs, ConfigureOp, ListOp
    <3> HIDE DEF as
    <3> QED BY <1>2, <3>1
  <2> QED BY <2>1, TokensOf
<1>7. v \in DOMAIN slots /\ slots[v] \in [Slot -> Nat]
  <2>1. v \in DOMAIN code /\ code[v].contract = "CounterAddressesProvider" /\ code[v].by = p
    BY <1>2, <1>6, OwnContracts DEF NamedForItsKind, ReadKey
  <2> QED BY <2>1 DEF DInv, ChainInv, CodeInv, Deployed, RegistryInv, SlotsInv
<1>8. /\ slots'[v][slot] = a
      /\ \A other \in Slot : other # slot => slots'[v][other] = slots[v][other]
  <2> HIDE DEF v, slot, a
  <2> QED BY <1>3, <1>5, <1>7
<1>9. ASSUME NEW named \in Slot, named = slot PROVE NamesIt(p, named)'
  <2>1. slots'[v][named] = Get(p, Source(named))
    BY <1>5, <1>8, <1>9
  <2>2. Source(named) # "admin" => Source(named) \in DOMAIN locals[p]
    BY <1>5, <1>6, <1>9
  <2> QED BY <1>3, <1>6, <2>1, <2>2 DEF NamesIt, Get
<1>10. ASSUME NEW named \in Slot, NamesIt(p, named) PROVE NamesIt(p, named)'
  <2>1. CASE named = slot
    BY <1>9, <2>1
  <2>2. CASE named # slot
    BY <1>3, <1>8, <1>10, <2>2 DEF NamesIt, Get
  <2> QED BY <2>1, <2>2
<1>11. Achieved(p) \subseteq Achieved(p)'
  <2>1. \A key \in Central : SavesIt(p, key) => SavesIt(p, key)'
    BY <1>3 DEF SavesIt
  <2>2. Achieved(p) \ {} \subseteq Achieved(p)'
    BY <1>10, <2>1, AchievedKept
  <2> QED BY <2>2
<1>12. Reaches(Instruction(p)) \subseteq Achieved(p)'
  <2>1. Reaches(Instruction(p)) = {Named(slot)}
    BY <1>3 DEF Reaches
  <2>2. \A named \in Slot : named = slot => Named(named) \in Achieved(p)'
    BY <1>9 DEF Achieved
  <2>3. Named(slot) \in Achieved(p)'
    BY <1>5, <2>2
  <2> QED BY <2>1, <2>3
<1> QED BY <1>1, <1>3, <1>11, <1>12, GoalsDone

\* A list of calls is quiet.
LEMMA GoalsCall ==
    ASSUME DInv, GoalsInv, NEW p \in Run, CallForEachInput(p)
    PROVE  GoalsInv'
<1> DEFINE x == [op |-> Instruction(p).call]
           r == [n \in 1..Len(inputs[p]) |-> x]
           I == AnyInstruction(Admin(script[p]))
<1>1. StepsOfRun(p)
  BY DEF StepsOfRun
<1>2. Kinds(Admin(script[p]), Instruction(p)) /\ HelperInv(p)
  BY <1>1, Remembers
<1>3. /\ Expand(p, r) /\ UNCHANGED <<locals, inputs, strategies, db>> /\ UNCHANGED chainVars
      /\ Instruction(p).op = "callForEachInput"
  BY DEF CallForEachInput, Doing, Instruction, localVars
<1>4. Instruction(p).call \in ListOp
  BY <1>2, <1>3 DEF Kinds
<1>5. x \in Quiet(I)
  BY <1>4 DEF AnyInstruction, LoopInstruction, Quiet, Undoes, ListOp
<1>6. Len(inputs[p]) \in Nat
  BY <1>2 DEF HelperInv
<1> HIDE DEF x, I
<1>7. r \in Seq(Quiet(I))
  BY <1>5, <1>6
<1> HIDE DEF r
<1>8. Pays(I, r, {}, {})
  BY <1>7, QuietPays
<1>9. Undoes(Instruction(p)) = {} /\ Reaches(Instruction(p)) = {}
  BY <1>3, CallsAreQuiet DEF CallOp
<1> QED BY <1>1, <1>3, <1>8, <1>9, GoalsExpanded DEF I

\* The other steps of a run.
LEMMA GoalsOthers ==
    ASSUME DInv, GoalsInv, NEW p \in Run,
           \/ InitializeCounter(p) \/ InitializeConfigurator(p)
           \/ SetAssetPrice(p) \/ AuthorizeCounter(p) \/ PushInput(p)
           \/ InitReserve(p) \/ UpgradeAssetClass(p)
           \/ ConfigureReserveAsCollateral(p) \/ EnableBorrowingOnReserve(p)
           \/ SetReserveFactor(p) \/ SetCRT(p) \/ SetPoolPause(p)
    PROVE  GoalsInv'
<1>1. StepsOfRun(p)
  BY DEF StepsOfRun
<1>2. Done(p) /\ UNCHANGED <<locals, db, slots>>
  BY DEF InitializeCounter, InitializeConfigurator, SetAssetPrice, AuthorizeCounter, PushInput,
         InitReserve, UpgradeAssetClass, ConfigureReserveAsCollateral, EnableBorrowingOnReserve,
         SetReserveFactor, SetCRT, SetPoolPause, Configure, localVars, chainVars, providerVars
<1>3. Instruction(p).op \notin {"register", "set"}
  BY DEF InitializeCounter, InitializeConfigurator, SetAssetPrice, AuthorizeCounter, PushInput,
         InitReserve, UpgradeAssetClass, ConfigureReserveAsCollateral, EnableBorrowingOnReserve,
         SetReserveFactor, SetCRT, SetPoolPause, Doing, Instruction
<1>4. Reaches(Instruction(p)) = {}
  BY <1>3 DEF Reaches
<1> QED BY <1>1, <1>2, <1>4, GoalsUntouched

\* A run that starts has all of its goals before it.
LEMMA GoalsStart ==
    ASSUME ~SameProcess, DInv, NEW p \in Run, NEW s \in Scripts, Start(p, s)
    PROVE  GoalsInv'
<1>1. /\ p = started + 1 /\ started' = p
      /\ \A q \in Run : ~Running(q)
      /\ status' = [status EXCEPT ![p] = "running"]
      /\ todo' = [todo EXCEPT ![p] = Plan(s)]
  BY DEF Start
<1>2. todo'[p] = Plan(s)
  BY <1>1 DEF DInv, RunsInv
<1>3. \A q \in Run : Running(q)' => q = p
  BY <1>1 DEF Running, DInv, RunsInv
<1>4. Owed(Plan(s)) = {} /\ Goal \subseteq Reached(Plan(s))
  BY ScriptsAssumption, PlanPays
<1>5. Goal \subseteq Achieved(p)' \cup Reached(todo'[p])
  BY <1>2, <1>4
<1> QED BY <1>1, <1>2, <1>3, <1>4, <1>5 DEF GoalsInv

LEMMA GoalsNext == ASSUME ~SameProcess, DInv, IInv, GoalsInv, [Next]_vars PROVE GoalsInv'
<1>1. ASSUME NEW p \in Run, Step(p) PROVE GoalsInv'
  <2>1. CASE Deploy(p)
    BY <2>1, GoalsDeploy
  <2>2. CASE Register(p)
    BY <2>2, GoalsRegister
  <2>3. CASE RawInsert(p)
    BY <2>3, GoalsRawInsert
  <2>4. CASE Attach(p)
    BY <2>4, GoalsAttach
  <2>5. CASE Set(p)
    BY <2>5, GoalsSet
  <2>6. CASE EnterHelper(p)
    BY <2>6, GoalsEnter
  <2>7. CASE Prepare(p)
    BY <2>7, GoalsPrepare
  <2>8. CASE KeepStrategy(p)
    BY <2>8, GoalsKeepStrategy
  <2>9. CASE CallForEachInput(p)
    BY <2>9, GoalsCall
  <2>10. CASE \/ InitializeCounter(p) \/ InitializeConfigurator(p)
              \/ SetAssetPrice(p) \/ AuthorizeCounter(p) \/ PushInput(p)
              \/ InitReserve(p) \/ UpgradeAssetClass(p)
              \/ ConfigureReserveAsCollateral(p) \/ EnableBorrowingOnReserve(p)
              \/ SetReserveFactor(p) \/ SetCRT(p) \/ SetPoolPause(p)
    BY <2>10, GoalsOthers
  <2>11. CASE Finish(p)
    <3>1. Running(p) /\ status' = [q \in Run |->
              IF q = p THEN "finished"
              ELSE IF RunsMain(p) /\ Running(q) THEN "killed" ELSE status[q]]
      BY <2>11 DEF Finish, End
    <3>2. \A q \in Run : ~Running(q)'
      BY <3>1 DEF Running, RunsMain
    <3> QED BY <3>2 DEF GoalsInv
  <2>12. CASE Throw(p)
    <3>1. Running(p) /\ status' = [q \in Run |->
              IF q = p THEN "failed"
              ELSE IF RunsMain(p) /\ Running(q) THEN "killed" ELSE status[q]]
      BY <2>12 DEF Throw, End
    <3>2. \A q \in Run : ~Running(q)'
      BY <3>1 DEF Running, RunsMain
    <3> QED BY <3>2 DEF GoalsInv
  <2> QED BY <1>1, <2>1, <2>2, <2>3, <2>4, <2>5, <2>6, <2>7, <2>8, <2>9, <2>10, <2>11, <2>12
          DEF Step
<1>2. ASSUME NEW p \in Run, NEW s \in Scripts, Start(p, s) PROVE GoalsInv'
  BY <1>2, GoalsStart
<1>3. ASSUME Crash PROVE GoalsInv'
  <2>1. \A q \in Run : ~Running(q)'
    BY <1>3 DEF Crash, Running
  <2> QED BY <2>1 DEF GoalsInv
<1>4. ASSUME NodeRestarts PROVE GoalsInv'
  <2>1. \A q \in Run : ~Running(q)'
    BY <1>4 DEF NodeRestarts, Running, runVars
  <2> QED BY <2>1 DEF GoalsInv
<1>5. ASSUME UNCHANGED vars PROVE GoalsInv'
  <2>1. UNCHANGED <<started, status, todo, locals, db, slots>>
    BY <1>5 DEF vars, runVars, localVars, chainVars, providerVars
  <2>2. \A q \in Run : (Achieved(q))' = Achieved(q) /\ (Running(q)' <=> Running(q))
    BY <2>1 DEF Achieved, SavesIt, NamesIt, Get, Running
  <2> QED BY <2>1, <2>2 DEF GoalsInv
<1> QED BY <1>1, <1>2, <1>3, <1>4, <1>5 DEF Next

\* A run with nothing left to do has all of its goals.
Matches ==
    LET registry == slots[db["CounterAddressesProvider"]]
    IN  /\ registry["Counter"] = getCounter
        /\ registry["CounterConfigurator"] = db["CounterConfigurator"]
        /\ registry["CounterCollateralManager"] = getCounterCollateralManager
        /\ registry["PriceOracle"] = getPrestareOracle
        /\ registry["PoolAdmin"] = Deployer
        /\ registry["EmergencyAdmin"] = Deployer

LEMMA DoneMatches ==
    ASSUME GoalsInv, NEW p \in Run, Running(p), todo[p] = << >>
    PROVE  Matches
<1>1. Goal \subseteq Achieved(p)
  <2>1. Reached(<< >>) = {}
    BY DEF Reached
  <2> QED BY <2>1 DEF GoalsInv
<1>2. ASSUME NEW key \in Central PROVE SavesIt(p, key)
  <2>1. Saved(key) \in Achieved(p)
    BY <1>1 DEF Goal
  <2> QED BY <2>1 DEF Achieved, Saved, Named
<1>3. ASSUME NEW slot \in Slot PROVE NamesIt(p, slot)
  <2>1. Named(slot) \in Achieved(p)
    BY <1>1 DEF Goal
  <2> QED BY <2>1 DEF Achieved, Saved, Named
<1>4. \A key \in Central : db[key] = locals[p][key]
  BY <1>2 DEF SavesIt
<1> DEFINE registry == slots[db["CounterAddressesProvider"]]
<1>5. \A slot \in Slot : registry[slot] = Get(p, Source(slot))
  BY <1>3, <1>4 DEF NamesIt, Central
<1> HIDE DEF registry
<1>6. registry["PoolAdmin"] = Deployer /\ registry["EmergencyAdmin"] = Deployer
  BY <1>5 DEF Slot, Source, Get
<1>7. /\ registry["Counter"] = locals[p]["Counter"]
      /\ registry["CounterConfigurator"] = locals[p]["CounterConfigurator"]
      /\ registry["CounterCollateralManager"] = locals[p]["CounterCollateralManager"]
      /\ registry["PriceOracle"] = locals[p]["PrestareOracle"]
  BY <1>5 DEF Slot, Source, Get
<1> QED BY <1>4, <1>6, <1>7
     DEF Matches, registry, Central, getCounter, getCounterCollateralManager, getPrestareOracle

LEMMA NextMatches ==
    ASSUME ~SameProcess, DInv, GoalsInv, RegistryMatchesDb, [Next]_vars
    PROVE  RegistryMatchesDb'
<1> SUFFICES ASSUME NEW p \in Run, Standing(p)' PROVE Matches'
  BY DEF RegistryMatchesDb, Matches, getCounter, getCounterCollateralManager, getPrestareOracle
<1>1. p = started' /\ status'[p] = "finished" /\ nextAddress' > Deployer + 1
  BY DEF Standing
<1>2. ~ \E q \in Run : StepsOfRun(q)
  <2> SUFFICES ASSUME NEW q \in Run, StepsOfRun(q) PROVE FALSE
    OBVIOUS
  <2>1. Running(q) /\ OnlyOf(q)
    BY Remembers
  <2>2. q = started /\ started' = started /\ status' = status
    BY <2>1 DEF GoalsInv, OnlyOf, runVars
  <2> QED BY <1>1, <2>1, <2>2 DEF Running
<1>3. ASSUME NEW q \in Run, Finish(q) PROVE Matches'
  <2>1. Matches /\ UNCHANGED <<db, slots>>
    BY <1>3, DoneMatches DEF Finish, End, chainVars, providerVars
  <2> QED BY <2>1 DEF Matches, getCounter, getCounterCollateralManager, getPrestareOracle
<1>4. ~ \E q \in Run : Throw(q)
  <2> SUFFICES ASSUME NEW q \in Run, Throw(q) PROVE FALSE
    OBVIOUS
  <2>1. /\ Running(q) /\ started' = started
        /\ status' = [r \in Run |-> IF r = q THEN "failed"
                                    ELSE IF RunsMain(q) /\ Running(r) THEN "killed"
                                    ELSE status[r]]
    BY DEF Throw, End
  <2>2. q = started
    BY <2>1 DEF GoalsInv
  <2> QED BY <1>1, <2>1, <2>2
<1>5. ~ \E q \in Run, s \in Scripts : Start(q, s)
  <2> SUFFICES ASSUME NEW q \in Run, NEW s \in Scripts, Start(q, s) PROVE FALSE
    OBVIOUS
  <2>1. started' = q /\ status' = [status EXCEPT ![q] = "running"]
    BY DEF Start
  <2>2. status'[q] = "running"
    BY <2>1 DEF DInv, RunsInv
  <2> QED BY <1>1, <2>1, <2>2
<1>6. ~Crash
  <2> SUFFICES ASSUME Crash PROVE FALSE
    OBVIOUS
  <2>1. PICK q \in Run : Running(q)
    BY DEF Crash
  <2>2. started' = started
        /\ status' = [r \in Run |-> IF Running(r) THEN "killed" ELSE status[r]]
    BY DEF Crash
  <2>3. q = started
    BY <2>1 DEF GoalsInv
  <2> QED BY <1>1, <2>1, <2>2, <2>3
<1>7. ~NodeRestarts
  BY <1>1 DEF NodeRestarts, Deployer
<1>8. ASSUME UNCHANGED vars PROVE Matches'
  <2>1. UNCHANGED <<started, status, nextAddress, db, slots>>
    BY <1>8 DEF vars, runVars, chainVars, providerVars
  <2>2. Standing(p)
    BY <1>1, <2>1 DEF Standing
  <2>3. Matches
    BY <2>2 DEF RegistryMatchesDb, Matches
  <2> QED BY <2>1, <2>3 DEF Matches, getCounter, getCounterCollateralManager, getPrestareOracle
<1> QED BY <1>2, <1>3, <1>4, <1>5, <1>6, <1>7, <1>8 DEF Next, Step, StepsOfRun

\* When a script has ended the provider in the file names the contracts in the file
\* and the deployer as both admins: nothing the script undoes on its way, by deploying
\* or saving again, is left undone, whatever runs, crashes and chains came before.
THEOREM ProviderMatchesFile == ASSUME ~SameProcess PROVE Spec => []RegistryMatchesDb
<1>1. Init => GoalsInv /\ RegistryMatchesDb
  BY DEF Init, GoalsInv, RegistryMatchesDb, Standing, Running
<1>2. DInv /\ IInv /\ GoalsInv /\ RegistryMatchesDb /\ [Next]_vars =>
          GoalsInv' /\ RegistryMatchesDb'
  BY GoalsNext, NextMatches
<1> QED BY <1>1, <1>2, DeploymentInvariance, PTL DEF Spec

-----------------------------------------------------------------------------
(***************************************************************************)
(* The first pool is a registry.  What a call writes into the pool is what *)
(* the registry's action of the same name sets, field by field; a call that *)
(* writes none of the fields the registry knows leaves it as it is.        *)
(***************************************************************************)

\* The settings the registry keeps of a reserve.
ConfigurationOf(active, frozen, borrowingEnabled, ltv, threshold, bonus, factor) ==
    [active |-> active, frozen |-> frozen, borrowingEnabled |-> borrowingEnabled,
     ltv |-> ltv, liquidationThreshold |-> threshold, liquidationBonus |-> bonus,
     reserveFactor |-> factor]

LEMMA ConfigurationRead ==
    ASSUME NEW word
    PROVE  RegistryConfiguration(word) =
               ConfigurationOf(getActive(word), getFrozen(word), getBorrowingEnabled(word),
                   Value(getLtv(word)), Value(getLiquidationThreshold(word)),
                   Value(getLiquidationBonus(word)), Value(getReserveFactor(word)))
BY Zenon DEF RegistryConfiguration, ConfigurationOf

LEMMA ConfigurationUpdate ==
    ASSUME NEW word, NEW v, NEW w
    PROVE  LET c == RegistryConfiguration(word)
               a == getActive(word)
               f == getFrozen(word)
               b == getBorrowingEnabled(word)
               l == Value(getLtv(word))
               t == Value(getLiquidationThreshold(word))
               o == Value(getLiquidationBonus(word))
               r == Value(getReserveFactor(word))
           IN  /\ [c EXCEPT !.active = v, !.frozen = w] = ConfigurationOf(v, w, b, l, t, o, r)
               /\ [c EXCEPT !.borrowingEnabled = v] = ConfigurationOf(a, f, v, l, t, o, r)
               /\ [c EXCEPT !.reserveFactor = v] = ConfigurationOf(a, f, b, l, t, o, v)
<1> DEFINE c == RegistryConfiguration(word)
           a == getActive(word)
           f == getFrozen(word)
           b == getBorrowingEnabled(word)
           l == Value(getLtv(word))
           t == Value(getLiquidationThreshold(word))
           o == Value(getLiquidationBonus(word))
           r == Value(getReserveFactor(word))
<1>1. c = ConfigurationOf(a, f, b, l, t, o, r)
  BY ConfigurationRead
<1> HIDE DEF c, a, f, b, l, t, o, r
<1>2. [c EXCEPT !.active = v, !.frozen = w] = [[c EXCEPT !.active = v] EXCEPT !.frozen = w]
  OBVIOUS
<1>3. [c EXCEPT !.active = v] = ConfigurationOf(v, f, b, l, t, o, r)
  BY <1>1 DEF ConfigurationOf
<1>4. [ConfigurationOf(v, f, b, l, t, o, r) EXCEPT !.frozen = w] = ConfigurationOf(v, w, b, l, t, o, r)
  BY DEF ConfigurationOf
<1>5. [c EXCEPT !.active = v, !.frozen = w] = ConfigurationOf(v, w, b, l, t, o, r)
  BY <1>2, <1>3, <1>4, Zenon
<1>6. /\ [c EXCEPT !.borrowingEnabled = v] = ConfigurationOf(a, f, v, l, t, o, r)
      /\ [c EXCEPT !.reserveFactor = v] = ConfigurationOf(a, f, b, l, t, o, v)
  BY <1>1 DEF ConfigurationOf
<1> QED BY <1>5, <1>6, Zenon DEF c, a, f, b, l, t, o, r

LEMMA CollateralUpdate ==
    ASSUME NEW word, NEW v, NEW w, NEW x
    PROVE  [RegistryConfiguration(word) EXCEPT
               !.ltv = v, !.liquidationThreshold = w, !.liquidationBonus = x] =
               ConfigurationOf(getActive(word), getFrozen(word), getBorrowingEnabled(word),
                   v, w, x, Value(getReserveFactor(word)))
<1> DEFINE c == RegistryConfiguration(word)
           a == getActive(word)
           f == getFrozen(word)
           b == getBorrowingEnabled(word)
           l == Value(getLtv(word))
           t == Value(getLiquidationThreshold(word))
           o == Value(getLiquidationBonus(word))
           r == Value(getReserveFactor(word))
<1>1. c = ConfigurationOf(a, f, b, l, t, o, r)
  BY ConfigurationRead
<1> HIDE DEF c, a, f, b, l, t, o, r
<1>2. [c EXCEPT !.ltv = v, !.liquidationThreshold = w, !.liquidationBonus = x] =
          [[[c EXCEPT !.ltv = v] EXCEPT !.liquidationThreshold = w] EXCEPT !.liquidationBonus = x]
  OBVIOUS
<1>3. [c EXCEPT !.ltv = v] = ConfigurationOf(a, f, b, v, t, o, r)
  BY <1>1 DEF ConfigurationOf
<1>4. [ConfigurationOf(a, f, b, v, t, o, r) EXCEPT !.liquidationThreshold = w] =
          ConfigurationOf(a, f, b, v, w, o, r)
  BY DEF ConfigurationOf
<1>5. [ConfigurationOf(a, f, b, v, w, o, r) EXCEPT !.liquidationBonus = x] =
          ConfigurationOf(a, f, b, v, w, x, r)
  BY DEF ConfigurationOf
<1>6. [c EXCEPT !.ltv = v, !.liquidationThreshold = w, !.liquidationBonus = x] =
          ConfigurationOf(a, f, b, v, w, x, r)
  BY <1>2, <1>3, <1>4, <1>5, Zenon
<1> QED BY <1>6, Zenon DEF c, a, f, b, l, t, o, r

LEMMA OpeningUpdate ==
    ASSUME NEW word, NEW v, NEW w
    PROVE  [RegistryConfiguration(word) EXCEPT !.active = v, !.frozen = w] =
               ConfigurationOf(v, w, getBorrowingEnabled(word), Value(getLtv(word)),
                   Value(getLiquidationThreshold(word)), Value(getLiquidationBonus(word)),
                   Value(getReserveFactor(word)))
BY ConfigurationUpdate, Zenon

LEMMA BorrowingUpdate ==
    ASSUME NEW word, NEW v
    PROVE  [RegistryConfiguration(word) EXCEPT !.borrowingEnabled = v] =
               ConfigurationOf(getActive(word), getFrozen(word), v, Value(getLtv(word)),
                   Value(getLiquidationThreshold(word)), Value(getLiquidationBonus(word)),
                   Value(getReserveFactor(word)))
BY ConfigurationUpdate, Zenon

LEMMA FactorUpdate ==
    ASSUME NEW word, NEW v
    PROVE  [RegistryConfiguration(word) EXCEPT !.reserveFactor = v] =
               ConfigurationOf(getActive(word), getFrozen(word), getBorrowingEnabled(word),
                   Value(getLtv(word)), Value(getLiquidationThreshold(word)),
                   Value(getLiquidationBonus(word)), v)
BY ConfigurationUpdate, Zenon

\* The settings of a word that the registry keeps.
LEMMA OpenedSettings ==
    ASSUME NEW input
    PROVE  RegistryConfiguration(Opened(input)) =
               [RegistryConfiguration({}) EXCEPT !.active = TRUE, !.frozen = FALSE]
<1> DEFINE d == Bits(input.underlyingAssetDecimals, 8)
           w1 == setDecimals({}, d)
           w2 == setActive(w1, TRUE)
           w3 == setFrozen(w2, FALSE)
<1>1. {} \subseteq KnownBit /\ d \in Number(8) /\ {} \in Number(16)
  BY BitsAreNumber DEF Number
<1>2. w1 \subseteq KnownBit
  BY <1>1, SettersKnown
<1>3. w2 \subseteq KnownBit
  <2> HIDE DEF w1
  <2> QED BY <1>2, SettersKnown
<1>4. {} \in Word /\ w1 \in Word /\ w2 \in Word
  <2> HIDE DEF w1, w2
  <2> QED BY <1>1, <1>2, <1>3, KnownIsWord
<1>5. Settings(w1) = [Settings({}) EXCEPT !.decimals = d]
  <2> HIDE DEF d
  <2>1. ASSUME NEW word \in Word
        PROVE  Settings(setDecimals(word, d)) = [Settings(word) EXCEPT !.decimals = d]
    <3>1. TRUE \in BOOLEAN /\ {} \in Number(16)
      BY <1>1
    <3> QED BY <1>1, <2>1, <3>1, SettersKeepApart
  <2> QED BY <1>4, <2>1
<1>6. Settings(w2) = [Settings(w1) EXCEPT !.active = TRUE]
  <2> HIDE DEF w1
  <2> QED BY <1>1, <1>4, SettersKeepApart
<1>7. Settings(w3) = [Settings(w2) EXCEPT !.frozen = FALSE]
  <2> HIDE DEF w2
  <2> QED BY <1>1, <1>4, SettersKeepApart
<1>8. Opened(input) = w3
  BY Zenon DEF Opened
<1> HIDE DEF w1, w2, w3
<1>9. /\ getLtv(w3) = getLtv({}) /\ getLiquidationThreshold(w3) = getLiquidationThreshold({})
      /\ getLiquidationBonus(w3) = getLiquidationBonus({})
      /\ getActive(w3) = TRUE /\ getFrozen(w3) = FALSE
      /\ getBorrowingEnabled(w3) = getBorrowingEnabled({})
      /\ getReserveFactor(w3) = getReserveFactor({})
  BY <1>5, <1>6, <1>7 DEF Settings
<1>10. RegistryConfiguration(w3) =
           ConfigurationOf(TRUE, FALSE, getBorrowingEnabled({}), Value(getLtv({})),
               Value(getLiquidationThreshold({})), Value(getLiquidationBonus({})),
               Value(getReserveFactor({})))
  BY <1>9, ConfigurationRead, Zenon
<1>11. [RegistryConfiguration({}) EXCEPT !.active = TRUE, !.frozen = FALSE] =
           ConfigurationOf(TRUE, FALSE, getBorrowingEnabled({}), Value(getLtv({})),
               Value(getLiquidationThreshold({})), Value(getLiquidationBonus({})),
               Value(getReserveFactor({})))
  BY OpeningUpdate, Zenon
<1> QED BY <1>8, <1>10, <1>11, Zenon

LEMMA NumbersAreRead ==
    ASSUME NEW params \in Params
    PROVE  /\ Value(Bits(params.baseLTVAsCollateral, 16)) = params.baseLTVAsCollateral
           /\ Value(Bits(params.liquidationThreshold, 16)) = params.liquidationThreshold
           /\ Value(Bits(params.liquidationBonus, 16)) = params.liquidationBonus
           /\ Value(Bits(params.reserveFactor, 16)) = params.reserveFactor
<1>1. /\ params.baseLTVAsCollateral \in {7500, 8000} /\ params.liquidationBonus = 10500
      /\ params.liquidationThreshold \in {8000, 8250, 8500} /\ params.reserveFactor = 1000
  BY DEF Params
<1> QED BY <1>1, BitsKeepValue

LEMMA LtvKeepsApart ==
    ASSUME NEW word \in Word, NEW n \in Number(16)
    PROVE  Settings(setLtv(word, n)) = [Settings(word) EXCEPT !.ltv = n]
<1>1. {} \in Number(8) /\ TRUE \in BOOLEAN
  BY DEF Number
<1> QED BY <1>1, SettersKeepApart, Zenon

LEMMA CollateralSettings ==
    ASSUME NEW word \in SUBSET KnownBit, NEW params \in Params, NEW after,
           after = setLiquidationBonus(
                       setLiquidationThreshold(
                           setLtv(word, Bits(params.baseLTVAsCollateral, 16)),
                           Bits(params.liquidationThreshold, 16)),
                       Bits(params.liquidationBonus, 16))
    PROVE  RegistryConfiguration(after) =
               [RegistryConfiguration(word) EXCEPT
                   !.ltv = params.baseLTVAsCollateral,
                   !.liquidationThreshold = params.liquidationThreshold,
                   !.liquidationBonus = params.liquidationBonus]
<1> DEFINE a == Bits(params.baseLTVAsCollateral, 16)
           b == Bits(params.liquidationThreshold, 16)
           c == Bits(params.liquidationBonus, 16)
           w1 == setLtv(word, a)
           w2 == setLiquidationThreshold(w1, b)
<1>1. a \in Number(16) /\ b \in Number(16) /\ c \in Number(16)
  BY BitsAreNumber
<1>2. w1 \subseteq KnownBit
  BY SettersKnown
<1>3. w2 \subseteq KnownBit
  <2> HIDE DEF w1
  <2> QED BY <1>2, SettersKnown
<1>4. word \in Word /\ w1 \in Word /\ w2 \in Word
  <2> HIDE DEF w1, w2
  <2> QED BY <1>2, <1>3, KnownIsWord
<1>5. {} \in Number(8)
  BY DEF Number
<1>6. after = setLiquidationBonus(w2, c)
  OBVIOUS
<1>7. /\ Value(a) = params.baseLTVAsCollateral /\ Value(b) = params.liquidationThreshold
      /\ Value(c) = params.liquidationBonus
  BY NumbersAreRead
<1> HIDE DEF a, b, c
<1>8. Settings(w1) = [Settings(word) EXCEPT !.ltv = a]
  BY <1>1, <1>4, LtvKeepsApart
<1>9. Settings(w2) = [Settings(w1) EXCEPT !.liquidationThreshold = b]
  <2> HIDE DEF w1
  <2> QED BY <1>1, <1>4, <1>5, SettersKeepApart
<1>10. Settings(after) = [Settings(w2) EXCEPT !.liquidationBonus = c]
  <2> HIDE DEF w2
  <2>1. Settings(setLiquidationBonus(w2, c)) = [Settings(w2) EXCEPT !.liquidationBonus = c]
    BY <1>1, <1>4, <1>5, SettersKeepApart
  <2> QED BY <1>6, <2>1, Zenon
<1> HIDE DEF w1, w2
<1>11. /\ getLtv(after) = a /\ getLiquidationThreshold(after) = b
       /\ getLiquidationBonus(after) = c
       /\ getActive(after) = getActive(word) /\ getFrozen(after) = getFrozen(word)
       /\ getBorrowingEnabled(after) = getBorrowingEnabled(word)
       /\ getReserveFactor(after) = getReserveFactor(word)
  BY <1>8, <1>9, <1>10 DEF Settings
<1>12. RegistryConfiguration(after) =
           ConfigurationOf(getActive(word), getFrozen(word), getBorrowingEnabled(word),
               params.baseLTVAsCollateral, params.liquidationThreshold,
               params.liquidationBonus, Value(getReserveFactor(word)))
  BY <1>7, <1>11, ConfigurationRead, Zenon
<1>13. [RegistryConfiguration(word) EXCEPT
           !.ltv = params.baseLTVAsCollateral,
           !.liquidationThreshold = params.liquidationThreshold,
           !.liquidationBonus = params.liquidationBonus] =
           ConfigurationOf(getActive(word), getFrozen(word), getBorrowingEnabled(word),
               params.baseLTVAsCollateral, params.liquidationThreshold,
               params.liquidationBonus, Value(getReserveFactor(word)))
  BY CollateralUpdate, Zenon
<1> QED BY <1>12, <1>13, Zenon

LEMMA BorrowingSettings ==
    ASSUME NEW word \in SUBSET KnownBit, NEW after,
           after = setStableRateBorrowingEnabled(setBorrowingEnabled(word, TRUE), FALSE)
    PROVE  RegistryConfiguration(after) = [RegistryConfiguration(word) EXCEPT !.borrowingEnabled = TRUE]
<1> DEFINE w1 == setBorrowingEnabled(word, TRUE)
<1>1. w1 \subseteq KnownBit
  BY SettersKnown
<1>2. word \in Word /\ w1 \in Word /\ {} \in Number(8) /\ {} \in Number(16)
  <2> HIDE DEF w1
  <2> QED BY <1>1, KnownIsWord DEF Number
<1>3. Settings(w1) = [Settings(word) EXCEPT !.borrowingEnabled = TRUE]
  BY <1>2, SettersKeepApart
<1>4. Settings(after) = [Settings(w1) EXCEPT !.stableRateBorrowingEnabled = FALSE]
  <2> HIDE DEF w1
  <2>1. Settings(setStableRateBorrowingEnabled(w1, FALSE)) =
            [Settings(w1) EXCEPT !.stableRateBorrowingEnabled = FALSE]
    BY <1>2, SettersKeepApart
  <2> QED BY <2>1 DEF w1
<1> HIDE DEF w1
<1>5. /\ getLtv(after) = getLtv(word)
      /\ getLiquidationThreshold(after) = getLiquidationThreshold(word)
      /\ getLiquidationBonus(after) = getLiquidationBonus(word)
      /\ getActive(after) = getActive(word) /\ getFrozen(after) = getFrozen(word)
      /\ getBorrowingEnabled(after) = TRUE
      /\ getReserveFactor(after) = getReserveFactor(word)
  BY <1>3, <1>4 DEF Settings
<1>6. RegistryConfiguration(after) =
          ConfigurationOf(getActive(word), getFrozen(word), TRUE, Value(getLtv(word)),
              Value(getLiquidationThreshold(word)), Value(getLiquidationBonus(word)),
              Value(getReserveFactor(word)))
  BY <1>5, ConfigurationRead, Zenon
<1>7. [RegistryConfiguration(word) EXCEPT !.borrowingEnabled = TRUE] =
          ConfigurationOf(getActive(word), getFrozen(word), TRUE, Value(getLtv(word)),
              Value(getLiquidationThreshold(word)), Value(getLiquidationBonus(word)),
              Value(getReserveFactor(word)))
  BY BorrowingUpdate, Zenon
<1> QED BY <1>6, <1>7, Zenon

LEMMA FactorSettings ==
    ASSUME NEW word \in SUBSET KnownBit, NEW params \in Params, NEW after,
           after = setReserveFactor(word, Bits(params.reserveFactor, 16))
    PROVE  RegistryConfiguration(after) = [RegistryConfiguration(word) EXCEPT !.reserveFactor = 1000]
<1> DEFINE n == Bits(params.reserveFactor, 16)
<1>1. word \in Word /\ {} \in Number(8) /\ n \in Number(16) /\ TRUE \in BOOLEAN
  BY KnownIsWord, BitsAreNumber DEF Number
<1>2. Value(n) = 1000
  BY NumbersAreRead DEF Params
<1>3. after = setReserveFactor(word, n)
  OBVIOUS
<1> HIDE DEF n
<1>4. Settings(after) = [Settings(word) EXCEPT !.reserveFactor = n]
  <2>1. Settings(setReserveFactor(word, n)) = [Settings(word) EXCEPT !.reserveFactor = n]
    BY <1>1, SettersKeepApart
  <2> QED BY <1>3, <2>1, Zenon
<1>5. /\ getLtv(after) = getLtv(word)
      /\ getLiquidationThreshold(after) = getLiquidationThreshold(word)
      /\ getLiquidationBonus(after) = getLiquidationBonus(word)
      /\ getActive(after) = getActive(word) /\ getFrozen(after) = getFrozen(word)
      /\ getBorrowingEnabled(after) = getBorrowingEnabled(word)
      /\ getReserveFactor(after) = n
  BY <1>4 DEF Settings
<1>6. RegistryConfiguration(after) =
          ConfigurationOf(getActive(word), getFrozen(word), getBorrowingEnabled(word),
              Value(getLtv(word)), Value(getLiquidationThreshold(word)),
              Value(getLiquidationBonus(word)), Value(n))
  BY <1>5, ConfigurationRead, Zenon
<1>7. [RegistryConfiguration(word) EXCEPT !.reserveFactor = Value(n)] =
          ConfigurationOf(getActive(word), getFrozen(word), getBorrowingEnabled(word),
              Value(getLtv(word)), Value(getLiquidationThreshold(word)),
              Value(getLiquidationBonus(word)), Value(n))
  BY FactorUpdate, Zenon
<1>8. RegistryConfiguration(after) = [RegistryConfiguration(word) EXCEPT !.reserveFactor = Value(n)]
  BY <1>6, <1>7, Zenon
<1> QED BY <1>2, <1>8

LEMMA PlaceIs ==
    ASSUME NEW list, NEW s, NEW i \in 1..Len(list), list[i] = s,
           \A j, k \in 1..Len(list) : list[j] = list[k] => j = k
    PROVE  i = CHOOSE j \in 1..Len(list) : list[j] = s
OBVIOUS

\* A pool with one reserve more, field by field.
LEMMA WithReserveRecord ==
    ASSUME NEW P, IsPool(P), NEW r, NEW reserve, NEW Q, Q = WithReserve(P, r, reserve)
    PROVE  /\ Q.reserves = Put(P.reserves, r, reserve)
           /\ Q.list = Append(P.list, r)
           /\ Q.assetClass = Put(P.assetClass, r[1], r[2])
<1> DEFINE reserves == Put(P.reserves, r, reserve)
           list == Append(P.list, r)
           class == Put(P.assetClass, r[1], r[2])
<1>1. Q = [P EXCEPT !.reserves = reserves, !.list = list, !.assetClass = class]
  BY Zenon DEF WithReserve, SetAssetClass
<1> HIDE DEF reserves, list, class
<1>2. P = [provider |-> P.provider, reserves |-> P.reserves, list |-> P.list,
           assetClass |-> P.assetClass, paused |-> P.paused, crt |-> P.crt]
  BY Zenon DEF IsPool
<1>3. Q = [provider |-> P.provider, reserves |-> reserves, list |-> list,
           assetClass |-> class, paused |-> P.paused, crt |-> P.crt]
  BY <1>1, <1>2, RecordUpdate
<1>4. Q.reserves = reserves /\ Q.list = list /\ Q.assetClass = class
  BY <1>3
<1> QED BY <1>4 DEF reserves, list, class

\* What the registry has to find when a reserve is listed.
NewlyListed(r) ==
    /\ r[1] \in MainnetAsset /\ r[2] \in Tier /\ r = <<r[1], r[2]>>
    /\ r \notin DOMAIN RegistryPool.reserves
    /\ \E input : /\ input.assetRiskTier = 2
                  /\ RegistryPool' = WithReserve(RegistryPool, r, InitData(input))

LEMMA ListedReserve ==
    ASSUME IsPool(RegistryPool), NEW r, NewlyListed(r)
    PROVE  /\ r \in MainnetReserve
           /\ DOMAIN RegistryPool'.reserves = DOMAIN RegistryPool.reserves \cup {r}
           /\ RegistryTiers' = [RegistryTiers EXCEPT ![r] = 2]
           /\ RegistryConfigurations' =
                  [RegistryConfigurations EXCEPT ![r].active = TRUE, ![r].frozen = FALSE]
<1> DEFINE P == RegistryPool
           Q == RegistryPool'
<1>1. PICK input : /\ input.assetRiskTier = 2
                   /\ Q = WithReserve(P, r, InitData(input))
  BY DEF NewlyListed
<1>2. r \in MainnetReserve /\ r \notin DOMAIN P.reserves
  BY DEF NewlyListed, MainnetReserve
<1> HIDE DEF P, Q
<1>3. /\ DOMAIN Q.reserves = DOMAIN P.reserves \cup {r}
      /\ \A s \in DOMAIN P.reserves : s # r => Q.reserves[s] = P.reserves[s]
      /\ Q.reserves[r] = InitData(input)
  <2>1. IsPool(P)
    BY DEF P
  <2> QED BY <1>1, <2>1, WithReserveFields
<1>4. ASSUME NEW s \in MainnetReserve, s # r PROVE Listing(s)' = Listing(s)
  BY <1>3, <1>4 DEF Listing, P, Q
<1>5. Listing(r)' = InitData(input) /\ Listing(r) = [toldTier |-> 0, configuration |-> {}]
  BY <1>2, <1>3 DEF Listing, P, Q
<1>6. /\ Listing(r)'.toldTier = 2 /\ Listing(r)'.configuration = Opened(input)
      /\ Listing(r).configuration = {}
  BY <1>1, <1>5 DEF InitData
<1>7. RegistryTiers' = [RegistryTiers EXCEPT ![r] = 2]
  <2>1. /\ RegistryTiers = [s \in MainnetReserve |-> Listing(s).toldTier]
        /\ RegistryTiers' = [s \in MainnetReserve |-> Listing(s)'.toldTier]
    BY DEF RegistryTiers
  <2> QED BY <1>2, <1>4, <1>6, <2>1
<1>8. RegistryConfigurations' =
          [RegistryConfigurations EXCEPT ![r].active = TRUE, ![r].frozen = FALSE]
  <2> DEFINE OpenedOne == [RegistryConfigurations[r] EXCEPT !.active = TRUE, !.frozen = FALSE]
             H == [RegistryConfigurations EXCEPT ![r] = OpenedOne]
  <2>1. /\ RegistryConfigurations =
               [s \in MainnetReserve |-> RegistryConfiguration(Listing(s).configuration)]
        /\ RegistryConfigurations' =
               [s \in MainnetReserve |-> RegistryConfiguration(Listing(s)'.configuration)]
    BY DEF RegistryConfigurations
  <2>2. [RegistryConfigurations EXCEPT ![r].active = TRUE, ![r].frozen = FALSE] = H
    <3>1. DOMAIN RegistryConfigurations = MainnetReserve
      BY <2>1
    <3> QED BY <1>2, <3>1
  <2>3. RegistryConfigurations[r] = RegistryConfiguration({})
    BY <1>2, <1>6, <2>1
  <2>4. OpenedOne = RegistryConfiguration(Opened(input))
    BY <2>3, OpenedSettings
  <2>5. RegistryConfigurations' = H
    <3> HIDE DEF OpenedOne
    <3> QED BY <1>2, <1>4, <1>6, <2>1, <2>4
  <2> QED BY <2>2, <2>5, Zenon
<1> QED BY <1>2, <1>3, <1>7, <1>8 DEF P, Q

LEMMA ListedPlace ==
    ASSUME IsPool(RegistryPool), IsPool(RegistryPool)', NEW r, NewlyListed(r),
           Len(RegistryPool.list) < 128
    PROVE  /\ Len(RegistryPool.list) \in Nat
           /\ Len(RegistryPool'.list) = Len(RegistryPool.list) + 1
           /\ RegistryIds[r] = 0 /\ RegistryList[0] # r
           /\ RegistryIds' = [RegistryIds EXCEPT ![r] = Len(RegistryPool.list)]
           /\ RegistryList' = [RegistryList EXCEPT ![Len(RegistryPool.list)] = r]
           /\ RegistryClasses' = [RegistryClasses EXCEPT ![r[1]] = r[2]]
<1> DEFINE P == RegistryPool
           Q == RegistryPool'
           n == Len(P.list)
<1>1. PICK input : Q = WithReserve(P, r, InitData(input))
  BY DEF NewlyListed
<1>2. /\ r \in MainnetReserve /\ r \notin DOMAIN P.reserves
      /\ r[1] \in MainnetAsset /\ r[2] \in Tier
  BY DEF NewlyListed, MainnetReserve
<1>3. IsPool(P) /\ IsPool(Q)
  OBVIOUS
<1> HIDE DEF P, Q, n
<1>4. /\ Q.reserves = Put(P.reserves, r, InitData(input))
      /\ Q.list = Append(P.list, r)
      /\ Q.assetClass = Put(P.assetClass, r[1], r[2])
  BY <1>1, <1>3, WithReserveRecord
<1>5. /\ P.list \in Seq(DOMAIN P.reserves) /\ n \in Nat
      /\ Len(Q.list) = n + 1 /\ Q.list[n + 1] = r
      /\ \A i \in 1..n : Q.list[i] = P.list[i] /\ P.list[i] \in DOMAIN P.reserves
      /\ \A i \in 1..n : P.list[i] # r
  <2>1. P.list \in Seq(DOMAIN P.reserves)
    BY <1>3 DEF IsPool
  <2> QED BY <1>2, <1>4, <2>1 DEF n
<1>6. n < 128 /\ n = Len(P.list) /\ n \in 0..127
  <2>1. n < 128
    BY DEF n, P
  <2>2. n \in Nat
    BY <1>5
  <2>3. n \in 0..127
    BY <2>1, <2>2
  <2>4. n = Len(P.list)
    BY DEF n
  <2> QED BY <2>1, <2>3, <2>4, Zenon
<1>7. DOMAIN Q.reserves = DOMAIN P.reserves \cup {r}
  BY <1>4 DEF Put
<1>8. Place(r)' = n + 1
  <2>1. \A j, k \in 1..Len(Q.list) : Q.list[j] = Q.list[k] => j = k
    BY <1>3 DEF IsPool
  <2> DEFINE m == n + 1
  <2>2. m \in 1..Len(Q.list) /\ Q.list[m] = r
    BY <1>5
  <2> HIDE DEF m
  <2>3. m = CHOOSE j \in 1..Len(Q.list) : Q.list[j] = r
    BY <2>1, <2>2, PlaceIs
  <2>4. Place(r)' = m
    BY <2>3 DEF Place, Q
  <2> QED BY <2>4 DEF m
<1>9. ASSUME NEW s \in DOMAIN P.reserves PROVE Place(s)' = Place(s)
  <2>1. PICK i \in 1..Len(P.list) : P.list[i] = s
    BY <1>3 DEF IsPool
  <2>2. i \in 1..Len(Q.list) /\ Q.list[i] = s
    BY <1>5, <2>1 DEF n
  <2>3. /\ \A j, k \in 1..Len(P.list) : P.list[j] = P.list[k] => j = k
        /\ \A j, k \in 1..Len(Q.list) : Q.list[j] = Q.list[k] => j = k
    BY <1>3 DEF IsPool
  <2>4. /\ i = CHOOSE j \in 1..Len(P.list) : P.list[j] = s
        /\ i = CHOOSE j \in 1..Len(Q.list) : Q.list[j] = s
    BY <2>1, <2>2, <2>3, PlaceIs
  <2>5. Place(s) = i /\ Place(s)' = i
    BY <2>4 DEF Place, P, Q
  <2> QED BY <2>5
<1>10. /\ RegistryIds = [s \in MainnetReserve |-> IF s \in DOMAIN P.reserves THEN Place(s) - 1 ELSE 0]
       /\ RegistryIds' = [s \in MainnetReserve |-> IF s \in DOMAIN Q.reserves THEN Place(s)' - 1 ELSE 0]
  BY DEF RegistryIds, P, Q
<1>11. RegistryIds[r] = 0
  BY <1>2, <1>10
<1>12. RegistryIds' = [RegistryIds EXCEPT ![r] = n]
  <2>1. ASSUME NEW s \in MainnetReserve
        PROVE  RegistryIds'[s] = IF s = r THEN n ELSE RegistryIds[s]
    <3>1. CASE s = r
      BY <1>5, <1>7, <1>8, <1>10, <3>1
    <3>2. CASE s # r /\ s \in DOMAIN P.reserves
      BY <1>7, <1>9, <1>10, <3>2
    <3>3. CASE s # r /\ s \notin DOMAIN P.reserves
      BY <1>7, <1>10, <3>3
    <3> QED BY <3>1, <3>2, <3>3
  <2> DEFINE F == RegistryIds
             G == RegistryIds'
  <2>2. /\ F = [s \in MainnetReserve |-> F[s]] /\ G = [s \in MainnetReserve |-> G[s]]
        /\ \A s \in MainnetReserve : G[s] = IF s = r THEN n ELSE F[s]
    BY <1>10, <2>1
  <2> HIDE DEF F, G
  <2>3. G = [F EXCEPT ![r] = n]
    BY <2>2
  <2> QED BY <2>3 DEF F, G
<1>13. /\ RegistryList = [i \in 0..127 |-> IF i < Len(P.list) THEN P.list[i + 1] ELSE NoReserve]
       /\ RegistryList' = [i \in 0..127 |-> IF i < Len(Q.list) THEN Q.list[i + 1] ELSE NoReserve]
  <2>1. _maxNumberOfReserves - 1 = 127
    BY DEF _maxNumberOfReserves
  <2> QED BY <2>1 DEF RegistryList, P, Q
<1>14. RegistryList' = [RegistryList EXCEPT ![n] = r]
  <2> DEFINE F == RegistryList
             G == RegistryList'
  <2>1. ASSUME NEW i \in 0..127 PROVE G[i] = IF i = n THEN r ELSE F[i]
    <3>1. CASE i < n
      <4>1. i < Len(P.list) /\ i < Len(Q.list)
        BY <1>5, <1>6, <3>1 DEF n
      <4>2. G[i] = Q.list[i + 1] /\ F[i] = P.list[i + 1]
        BY <1>13, <4>1, Zenon
      <4>3. i + 1 \in 1..n
        BY <1>6, <3>1
      <4> HIDE DEF F, G
      <4> QED BY <1>5, <1>6, <3>1, <4>2, <4>3
    <3>2. CASE i = n
      <4>1. i < Len(Q.list) /\ Q.list[i + 1] = r
        BY <1>5, <1>6, <3>2
      <4> QED BY <1>13, <3>2, <4>1, Zenon
    <3>3. CASE i > n
      <4>1. ~(i < Len(P.list)) /\ ~(i < Len(Q.list)) /\ i # n
        BY <1>5, <1>6, <3>3 DEF n
      <4> QED BY <1>13, <4>1, Zenon
    <3> QED BY <1>6, <3>1, <3>2, <3>3
  <2>2. F = [i \in 0..127 |-> F[i]] /\ G = [i \in 0..127 |-> G[i]]
    BY <1>13
  <2> HIDE DEF F, G
  <2>3. G = [F EXCEPT ![n] = r]
    BY <2>1, <2>2
  <2> QED BY <2>3 DEF F, G
<1>15. RegistryList[0] # r
  <2>1. NoReserve # r
    BY <1>2 DEF NoReserve, MainnetReserve, Tier
  <2>2. RegistryList[0] = IF 0 < n THEN P.list[1] ELSE NoReserve
    BY <1>13 DEF n
  <2> QED BY <1>5, <2>1, <2>2
<1>16. RegistryClasses' = [RegistryClasses EXCEPT ![r[1]] = r[2]]
  <2> DEFINE F == RegistryClasses
             G == RegistryClasses'
  <2>1. /\ F = [a \in MainnetAsset |-> IF a \in DOMAIN P.assetClass THEN P.assetClass[a] ELSE 0]
        /\ G = [a \in MainnetAsset |-> IF a \in DOMAIN Q.assetClass THEN Q.assetClass[a] ELSE 0]
    BY DEF RegistryClasses, P, Q
  <2>2. /\ DOMAIN Q.assetClass = DOMAIN P.assetClass \cup {r[1]}
        /\ \A a \in DOMAIN P.assetClass : a # r[1] => Q.assetClass[a] = P.assetClass[a]
        /\ Q.assetClass[r[1]] = r[2]
    BY <1>4 DEF Put
  <2> HIDE DEF F, G
  <2>3. G = [F EXCEPT ![r[1]] = r[2]]
    BY <1>2, <2>1, <2>2
  <2> QED BY <2>3 DEF F, G
<1> QED BY <1>5, <1>11, <1>12, <1>14, <1>15, <1>16 DEF n, P, Q

\* The registry sees nothing of a pool but its reserves, its list and its classes.
LEMMA SameReserves ==
    ASSUME RegistryPool'.reserves = RegistryPool.reserves,
           RegistryPool'.list = RegistryPool.list,
           RegistryPool'.assetClass = RegistryPool.assetClass
    PROVE  UNCHANGED Registry!vars
<1>1. \A s : Listing(s)' = Listing(s) /\ Place(s)' = Place(s)
  BY DEF Listing, Place
<1>2. UNCHANGED <<RegistryTiers, RegistryConfigurations>>
  BY <1>1 DEF RegistryTiers, RegistryConfigurations
<1>3. UNCHANGED <<RegistryIds, RegistryClasses, RegistryList>>
  BY <1>1 DEF RegistryIds, RegistryClasses, RegistryList
<1> QED BY <1>2, <1>3 DEF Registry!vars

LEMMA WordSet ==
    ASSUME IsPool(RegistryPool), NEW r \in DOMAIN RegistryPool.reserves, r \in MainnetReserve,
           NEW word, RegistryPool' = WithWord(RegistryPool, r, word)
    PROVE  /\ Registry!SetConfiguration(r, RegistryConfiguration(word))
           /\ RegistryConfigurations[r] =
                  RegistryConfiguration(RegistryPool.reserves[r].configuration)
<1> DEFINE P == RegistryPool
           Q == RegistryPool'
           reserve == [P.reserves[r] EXCEPT !.configuration = word]
           reserves == [P.reserves EXCEPT ![r] = reserve]
<1>1. /\ reserve.configuration = word /\ reserve.toldTier = P.reserves[r].toldTier
  <2>1. IsReserve(P.reserves[r])
    BY DEF IsPool
  <2> QED BY <2>1 DEF IsReserve
<1>2. Q = [P EXCEPT !.reserves = reserves]
  BY Zenon DEF WithWord
<1>3. IsPool(P) /\ r \in DOMAIN P.reserves
  OBVIOUS
<1> HIDE DEF reserve
<1>4. /\ DOMAIN reserves = DOMAIN P.reserves /\ reserves[r] = reserve
      /\ \A s \in DOMAIN P.reserves : s # r => reserves[s] = P.reserves[s]
  OBVIOUS
<1> HIDE DEF reserves, P, Q
<1>5. Q.reserves = reserves /\ Q.list = P.list /\ Q.assetClass = P.assetClass
  BY <1>2, <1>3 DEF IsPool
<1>6. /\ \A s : s # r => Listing(s)' = Listing(s)
      /\ Listing(r) = P.reserves[r] /\ Listing(r)' = reserve
      /\ \A s : Place(s)' = Place(s)
  BY <1>3, <1>4, <1>5 DEF Listing, Place, P, Q
<1>7. UNCHANGED RegistryTiers
  <2>1. \A s : Listing(s)'.toldTier = Listing(s).toldTier
    BY <1>1, <1>6
  <2> QED BY <2>1 DEF RegistryTiers
<1>8. DOMAIN Q.reserves = DOMAIN P.reserves
  BY <1>4, <1>5
<1>9. UNCHANGED <<RegistryIds, RegistryClasses, RegistryList>>
  BY <1>5, <1>6, <1>8 DEF RegistryIds, RegistryClasses, RegistryList, P, Q
<1>10. /\ RegistryConfigurations' =
              [RegistryConfigurations EXCEPT ![r] = RegistryConfiguration(word)]
       /\ RegistryConfigurations[r] = RegistryConfiguration(P.reserves[r].configuration)
  <2>1. /\ RegistryConfigurations =
               [s \in MainnetReserve |-> RegistryConfiguration(Listing(s).configuration)]
        /\ RegistryConfigurations' =
               [s \in MainnetReserve |-> RegistryConfiguration(Listing(s)'.configuration)]
    BY DEF RegistryConfigurations
  <2> QED BY <1>1, <1>6, <2>1
<1>11. UNCHANGED <<DOMAIN RegistryPool.reserves, Len(RegistryPool.list)>>
  BY <1>5, <1>8 DEF P, Q
<1> QED BY <1>7, <1>9, <1>10, <1>11
        DEF Registry!SetConfiguration, Registry!listVars, Registry!poolVars, P

\* The configurations are among the ones the registry is asked for.
LEMMA LoansAreConfigured ==
    ASSUME NEW params \in Params
    PROVE  CollateralOf(params) \in
               {CollateralOf(config.params) :
                    config \in UNION {Range(ConfigOfTier(tier)) : tier \in Tier}}
<1> DEFINE Configs == UNION {Range(ConfigOfTier(tier)) : tier \in Tier}
           C(ltv, threshold) == [ltv |-> ltv, threshold |-> threshold, bonus |-> 10500]
<1>1. /\ ReservesConfig[1] \in Range(ReservesConfig) /\ ReservesConfig[2] \in Range(ReservesConfig)
      /\ ReservesConfig[3] \in Range(ReservesConfig)
  BY DEF ReservesConfig, Range
<1>2. ConfigOfTier(2) = ReservesConfig /\ 2 \in Tier
  BY DEF ConfigOfTier, Tier
<1>3. ReservesConfig[1] \in Configs /\ ReservesConfig[2] \in Configs /\ ReservesConfig[3] \in Configs
  BY <1>1, <1>2
<1>4. /\ ReservesConfig[1].params = strategyDAI_C /\ ReservesConfig[2].params = strategyWETH_C
      /\ ReservesConfig[3].params = strategyUSDC_C
  BY DEF ReservesConfig, Config
<1>5. /\ CollateralOf(strategyDAI_C) = C(7500, 8000) /\ CollateralOf(strategyWETH_C) = C(8000, 8250)
      /\ CollateralOf(strategyUSDC_C) = C(8000, 8500)
  BY DEF CollateralOf, strategyDAI_C, strategyWETH_C, strategyUSDC_C, ReserveParams
<1>6. CollateralOf(params) \in {C(7500, 8000), C(8000, 8250), C(8000, 8500)}
  BY DEF CollateralOf, Params, Loans
<1> HIDE DEF Configs, C
<1>7. {C(7500, 8000), C(8000, 8250), C(8000, 8500)} \subseteq
          {CollateralOf(config.params) : config \in Configs}
  BY <1>3, <1>4, <1>5
<1> QED BY <1>6, <1>7 DEF Configs

LEMMA CollateralIsRegistered ==
    ASSUME IsPool(RegistryPool), NEW r \in DOMAIN RegistryPool.reserves, r \in MainnetReserve,
           NEW params \in Params, NEW word, word = RegistryPool.reserves[r].configuration,
           getActive(word), NEW after,
           after = setLiquidationBonus(
                       setLiquidationThreshold(
                           setLtv(word, Bits(params.baseLTVAsCollateral, 16)),
                           Bits(params.liquidationThreshold, 16)),
                       Bits(params.liquidationBonus, 16)),
           RegistryPool' = WithWord(RegistryPool, r, after)
    PROVE  Registry!Next
<1>1. word \in SUBSET KnownBit
  BY DEF IsPool, IsReserve
<1>2. /\ Registry!SetConfiguration(r, RegistryConfiguration(after))
      /\ RegistryConfigurations[r] = RegistryConfiguration(word)
  BY WordSet
<1> DEFINE c == CollateralOf(params)
<1>3. c.ltv = params.baseLTVAsCollateral /\ c.threshold = params.liquidationThreshold
      /\ c.bonus = params.liquidationBonus
  BY DEF CollateralOf
<1>4. RegistryConfiguration(after) =
          [RegistryConfigurations[r] EXCEPT !.ltv = c.ltv,
              !.liquidationThreshold = c.threshold, !.liquidationBonus = c.bonus]
  <2>1. RegistryConfiguration(after) =
            [RegistryConfiguration(word) EXCEPT
                !.ltv = params.baseLTVAsCollateral,
                !.liquidationThreshold = params.liquidationThreshold,
                !.liquidationBonus = params.liquidationBonus]
    BY <1>1, CollateralSettings
  <2> QED BY <1>2, <1>3, <2>1, Zenon
<1>5. RegistryConfigurations[r].active
  BY <1>2 DEF RegistryConfiguration
<1>6. /\ c.ltv <= c.threshold /\ c.threshold # 0 /\ c.bonus > 10000 /\ c.bonus <= 65535
      /\ c.threshold * c.bonus > 10000 /\ (c.threshold * c.bonus) \div 10000 <= 10000
  <2>1. /\ params.liquidationBonus = 10500
        /\ <<params.baseLTVAsCollateral, params.liquidationThreshold>> \in Loans
    BY DEF Params
  <2> QED BY <1>3, <2>1 DEF Loans
<1> HIDE DEF c
<1>7. Registry!ConfigureReserveAsCollateral(r, c.ltv, c.threshold, c.bonus)
  BY <1>2, <1>4, <1>5, <1>6
     DEF Registry!ConfigureReserveAsCollateral, Registry!PERCENTAGE_FACTOR,
         Registry!MAX_VALID_BPS, Registry!PercentMulDefined, Registry!PercentMul
<1>8. c \in {CollateralOf(config.params) :
                 config \in UNION {Range(ConfigOfTier(tier)) : tier \in Tier}}
  BY LoansAreConfigured DEF c
<1> QED BY <1>7, <1>8 DEF Registry!Next, Registry!Setting

LEMMA BorrowingIsRegistered ==
    ASSUME IsPool(RegistryPool), NEW r \in DOMAIN RegistryPool.reserves, r \in MainnetReserve,
           NEW word, word = RegistryPool.reserves[r].configuration, NEW after,
           after = setStableRateBorrowingEnabled(setBorrowingEnabled(word, TRUE), FALSE),
           RegistryPool' = WithWord(RegistryPool, r, after)
    PROVE  Registry!Next
<1>1. word \in SUBSET KnownBit
  BY DEF IsPool, IsReserve
<1>2. /\ Registry!SetConfiguration(r, RegistryConfiguration(after))
      /\ RegistryConfigurations[r] = RegistryConfiguration(word)
  BY WordSet
<1>3. RegistryConfiguration(after) = [RegistryConfigurations[r] EXCEPT !.borrowingEnabled = TRUE]
  BY <1>1, <1>2, BorrowingSettings
<1>4. Registry!SetBorrowing(r, TRUE)
  BY <1>2, <1>3 DEF Registry!SetBorrowing
<1>5. TRUE \in BOOLEAN /\ r \in MainnetReserve
  OBVIOUS
<1>6. Registry!Setting(r)
  BY <1>4, <1>5, Zenon DEF Registry!Setting
<1> QED BY <1>5, <1>6, Zenon DEF Registry!Next

LEMMA FactorIsRegistered ==
    ASSUME IsPool(RegistryPool), NEW r \in DOMAIN RegistryPool.reserves, r \in MainnetReserve,
           NEW params \in Params, NEW word, word = RegistryPool.reserves[r].configuration,
           NEW after, after = setReserveFactor(word, Bits(params.reserveFactor, 16)),
           RegistryPool' = WithWord(RegistryPool, r, after)
    PROVE  Registry!Next
<1>1. word \in SUBSET KnownBit
  BY DEF IsPool, IsReserve
<1>2. /\ Registry!SetConfiguration(r, RegistryConfiguration(after))
      /\ RegistryConfigurations[r] = RegistryConfiguration(word)
  BY WordSet
<1>3. RegistryConfiguration(after) = [RegistryConfigurations[r] EXCEPT !.reserveFactor = 1000]
  BY <1>1, <1>2, FactorSettings
<1>4. Registry!SetReserveFactor(r, 1000)
  BY <1>2, <1>3 DEF Registry!SetReserveFactor, Registry!MAX_VALID_BPS
<1> QED BY <1>4 DEF Registry!Next, Registry!Setting

LEMMA ListingIsRegistered ==
    ASSUME IsPool(RegistryPool), IsPool(RegistryPool)', NEW r, NewlyListed(r),
           Len(RegistryPool.list) < 128
    PROVE  /\ r[2] = 2 => Registry!InitReserve(r[1], 2)
           /\ RegistryClasses[r[1]] > 0 /\ r[2] = RegistryClasses[r[1]] - 1 =>
                  Registry!UpgradeAssetClass(r[1], 2)
<1> DEFINE a == r[1]
           tier == r[2]
           n == Len(RegistryPool.list)
<1>1. r = <<a, tier>> /\ a \in MainnetAsset /\ tier \in Tier /\ r \notin DOMAIN RegistryPool.reserves
  BY DEF NewlyListed
<1>2. /\ DOMAIN RegistryPool'.reserves = DOMAIN RegistryPool.reserves \cup {r}
      /\ RegistryTiers' = [RegistryTiers EXCEPT ![r] = 2]
      /\ RegistryConfigurations' =
             [RegistryConfigurations EXCEPT ![r].active = TRUE, ![r].frozen = FALSE]
  BY ListedReserve
<1>3. /\ n \in Nat /\ Len(RegistryPool'.list) = n + 1
      /\ RegistryIds[r] = 0 /\ RegistryList[0] # r
      /\ RegistryIds' = [RegistryIds EXCEPT ![r] = n]
      /\ RegistryList' = [RegistryList EXCEPT ![n] = r]
      /\ RegistryClasses' = [RegistryClasses EXCEPT ![a] = tier]
      /\ n < 128
  BY ListedPlace
<1>4. RegistryClasses'[a] = tier
  <2>1. a \in DOMAIN RegistryClasses
    BY <1>1 DEF RegistryClasses
  <2> QED BY <1>3, <2>1
<1> HIDE DEF a, tier, n
<1>5. Registry!InitData(r, 2)
  BY <1>1, <1>2 DEF Registry!InitData
<1>6. Registry!AddReserveToList(r)
  <2>1. r[1] = a /\ r[2] = tier
    BY DEF a, tier
  <2>2. ~Registry!AlreadyAdded(r)
    BY <1>3 DEF Registry!AlreadyAdded
  <2>3. Len(RegistryPool.list) = n /\ n < _maxNumberOfReserves
    BY <1>3 DEF n, _maxNumberOfReserves
  <2> QED BY <1>3, <2>1, <2>2, <2>3 DEF Registry!AddReserveToList
<1>7. Registry!Open(r)
  BY <1>2 DEF Registry!Open
<1>8. UNCHANGED Registry!poolVars
  BY DEF Registry!poolVars
<1>9. ASSUME tier = 2 PROVE Registry!InitReserve(a, 2)
  BY <1>1, <1>5, <1>6, <1>7, <1>8, <1>9 DEF Registry!InitReserve, Registry!InitAssetTier
<1>10. ASSUME RegistryClasses[a] > 0, tier = RegistryClasses[a] - 1
       PROVE  Registry!UpgradeAssetClass(a, 2)
  <2>1. <<a, RegistryClasses[a] - 1>> = r /\ <<a, RegistryClasses'[a]>> = r
    BY <1>1, <1>4, <1>10
  <2> QED BY <1>5, <1>6, <1>7, <1>8, <1>10, <2>1 DEF Registry!UpgradeAssetClass
<1> QED BY <1>9, <1>10 DEF a, tier

\* A pool that is rewritten is the first one, or the registry sees nothing of it.
LEMMA FirstPoolRewritten ==
    ASSUME NEW c \in DOMAIN pool, NEW P, pool' = [pool EXCEPT ![c] = P],
           RegistryPool' # RegistryPool
    PROVE  c = FirstPool /\ RegistryPool = pool[c] /\ RegistryPool' = P
<1>1. DOMAIN pool' = DOMAIN pool /\ pool'[c] = P
      /\ \A d \in DOMAIN pool : d # c => pool'[d] = pool[d]
  OBVIOUS
<1> QED BY <1>1 DEF RegistryPool, Fresh, FirstPool

LEMMA RegistryReserves ==
    ASSUME DInv, IInv
    PROVE  IsPool(RegistryPool) /\ DOMAIN RegistryPool.reserves \subseteq MainnetReserve
<1>1. CASE Fresh
  BY <1>1, NewPoolIsPool DEF RegistryPool, NewPool
<1>2. CASE ~Fresh
  <2>1. FirstPool \in DOMAIN pool /\ RegistryPool = pool[FirstPool]
    BY <1>2 DEF Fresh, RegistryPool
  <2>2. IsPool(RegistryPool)
    BY <2>1 DEF IInv
  <2>3. \A r \in DOMAIN RegistryPool.reserves : r[1] \in MainnetAsset
    BY <2>1, PoolFields DEF ReserveInv
  <2>4. ASSUME NEW r \in DOMAIN RegistryPool.reserves PROVE r \in MainnetReserve
    <3>1. r \in (DOMAIN RegistryPool.assetClass) \X Tier
      BY <2>2 DEF IsPool
    <3> QED BY <2>3, <3>1 DEF MainnetReserve
  <2> QED BY <2>2, <2>4
<1> QED BY <1>1, <1>2

LEMMA ConfigureIsRegistered ==
    ASSUME DInv, IInv, NEW p \in Run, RegistryPool' # RegistryPool,
           \/ ConfigureReserveAsCollateral(p) \/ EnableBorrowingOnReserve(p)
           \/ SetReserveFactor(p)
    PROVE  Registry!Next
<1> DEFINE c == HelperCounter(p)
           r == ConfiguredReserve(p)
           word == ConfiguredWord(p)
           params == Instruction(p).params
           loan == setLiquidationBonus(
                       setLiquidationThreshold(
                           setLtv(word, Bits(params.baseLTVAsCollateral, 16)),
                           Bits(params.liquidationThreshold, 16)),
                       Bits(params.liquidationBonus, 16))
           enabled == setStableRateBorrowingEnabled(setBorrowingEnabled(word, TRUE), FALSE)
           factor == setReserveFactor(word, Bits(params.reserveFactor, 16))
<1>1. StepsOfRun(p)
  BY DEF StepsOfRun
<1>2. /\ CanConfigure(p) /\ Instruction(p).op \in ConfigureOp
      /\ \/ Configure(p, loan) /\ getActive(word)
         \/ Configure(p, enabled)
         \/ Configure(p, factor)
  BY DEF ConfigureReserveAsCollateral, EnableBorrowingOnReserve, SetReserveFactor, Doing,
         Instruction, ConfigureOp
<1>3. /\ c \in DOMAIN pool /\ r \in DOMAIN pool[c].reserves /\ params \in Params
  BY <1>1, <1>2, Configured
<1>4. word = pool[c].reserves[r].configuration
  BY DEF ConfiguredWord
<1> HIDE DEF c, r, word, params
<1>5. IsPool(RegistryPool) /\ DOMAIN RegistryPool.reserves \subseteq MainnetReserve
  BY RegistryReserves
<1>6. ASSUME NEW after, Configure(p, after)
      PROVE  /\ RegistryPool = pool[c] /\ RegistryPool' = WithWord(RegistryPool, r, after)
             /\ r \in DOMAIN RegistryPool.reserves /\ r \in MainnetReserve
             /\ word = RegistryPool.reserves[r].configuration
  <2>1. pool' = [pool EXCEPT ![c] = WithWord(pool[c], r, after)]
    BY <1>6 DEF Configure, c, r
  <2>2. RegistryPool = pool[c] /\ RegistryPool' = WithWord(pool[c], r, after)
    BY <1>3, <2>1, FirstPoolRewritten
  <2> QED BY <1>3, <1>4, <1>5, <2>2
<1>7. CASE Configure(p, loan) /\ getActive(word)
  <2>1. /\ RegistryPool' = WithWord(RegistryPool, r, loan)
        /\ r \in DOMAIN RegistryPool.reserves /\ r \in MainnetReserve
        /\ word = RegistryPool.reserves[r].configuration
    BY <1>6, <1>7
  <2> QED BY <1>3, <1>5, <1>7, <2>1, CollateralIsRegistered
<1>8. CASE Configure(p, enabled)
  <2>1. /\ RegistryPool' = WithWord(RegistryPool, r, enabled)
        /\ r \in DOMAIN RegistryPool.reserves /\ r \in MainnetReserve
        /\ word = RegistryPool.reserves[r].configuration
    BY <1>6, <1>8
  <2> QED BY <1>5, <2>1, BorrowingIsRegistered
<1>9. CASE Configure(p, factor)
  <2>1. /\ RegistryPool' = WithWord(RegistryPool, r, factor)
        /\ r \in DOMAIN RegistryPool.reserves /\ r \in MainnetReserve
        /\ word = RegistryPool.reserves[r].configuration
    BY <1>6, <1>9
  <2> QED BY <1>3, <1>5, <2>1, FactorIsRegistered
<1> QED BY <1>2, <1>7, <1>8, <1>9

LEMMA ListingIsNew ==
    ASSUME DInv, IInv, DInv', IInv', NEW p \in Run, NEW tier \in Tier, Lists(p, tier),
           RegistryPool' # RegistryPool,
           <<Head(inputs[p]).underlyingAsset, tier>> \notin DOMAIN pool[HelperCounter(p)].reserves,
           Len(pool[HelperCounter(p)].list) < 128
    PROVE  /\ RegistryPool = pool[HelperCounter(p)]
           /\ IsPool(RegistryPool) /\ IsPool(RegistryPool)' /\ Len(RegistryPool.list) < 128
           /\ Head(inputs[p]).underlyingAsset \in MainnetAsset
           /\ NewlyListed(<<Head(inputs[p]).underlyingAsset, tier>>)
<1> DEFINE c == HelperCounter(p)
           input == Head(inputs[p])
           a == input.underlyingAsset
           r == <<a, tier>>
           P == WithReserve(pool[c], r, InitData(input))
<1>1. /\ LocalsInv(p) /\ HelperInv(p) /\ TodoInv(p) /\ todo[p] # << >>
      /\ Needs(Instruction(p)) \subseteq Has(p)
  BY Remembers DEF Lists
<1>2. script[p] = "mainnet" /\ "configurator" \in DOMAIN locals[p]
  <2>1. Needs(Instruction(p)) = {Variable("configurator"), Prepared}
    BY DEF Lists, Needs, ListOp, ConfigureOp
  <2> QED BY <1>1, <2>1, TokensOf
<1>3. c \in DOMAIN pool
  BY <1>1, <1>2, HelperPoolIsOwn DEF Lists
<1>4. input \in Inputs
  <2>1. inputs[p] \in Seq(Inputs)
    BY <1>1 DEF HelperInv
  <2>2. 1 <= Len(inputs[p])
    BY <1>1, AboutTo DEF Lists
  <2>3. inputs[p] # << >>
    BY <2>1, <2>2
  <2> QED BY <2>1, <2>3, TailFacts
<1>5. a \in MainnetAsset /\ input.assetRiskTier = 2
  BY <1>4 DEF Inputs
<1>6. pool' = [pool EXCEPT ![c] = P]
  BY DEF Lists, List
<1>7. r \notin DOMAIN pool[c].reserves /\ Len(pool[c].list) < 128
  OBVIOUS
<1> HIDE DEF c, P, input
<1>8. RegistryPool = pool[c] /\ RegistryPool' = P
  BY <1>3, <1>6, FirstPoolRewritten
<1>9. IsPool(RegistryPool) /\ IsPool(RegistryPool)'
  BY RegistryReserves, PTL
<1>10. NewlyListed(r)
  <2>1. r[1] = a /\ r[2] = tier
    OBVIOUS
  <2>2. RegistryPool' = WithReserve(RegistryPool, r, InitData(input))
    BY <1>8 DEF P
  <2> HIDE DEF r, a
  <2>3. r = <<r[1], r[2]>>
    BY <2>1 DEF r
  <2> QED BY <1>5, <1>7, <1>8, <2>1, <2>2, <2>3 DEF NewlyListed
<1> QED BY <1>5, <1>7, <1>8, <1>9, <1>10 DEF c, input

LEMMA ListsAreRegistered ==
    ASSUME DInv, IInv, DInv', IInv', NEW p \in Run, RegistryPool' # RegistryPool,
           InitReserve(p) \/ UpgradeAssetClass(p)
    PROVE  Registry!Next
<1> DEFINE c == HelperCounter(p)
           a == Head(inputs[p]).underlyingAsset
           class == ClassOf(c, a)
<1>1. StepsOfRun(p)
  BY DEF StepsOfRun
<1>2. ASSUME NEW tier \in Tier, Lists(p, tier), CanList(locals[p]["configurator"], a, tier)
      PROVE  /\ RegistryPool = pool[c] /\ IsPool(RegistryPool) /\ a \in MainnetAsset
             /\ tier = 2 => Registry!InitReserve(a, 2)
             /\ RegistryClasses[a] > 0 /\ tier = RegistryClasses[a] - 1 =>
                    Registry!UpgradeAssetClass(a, 2)
  <2>1. <<a, tier>> \notin DOMAIN pool[c].reserves /\ Len(pool[c].list) < 128
    BY <1>2 DEF CanList, HelperCounter, _maxNumberOfReserves
  <2>2. /\ RegistryPool = pool[c]
        /\ IsPool(RegistryPool) /\ IsPool(RegistryPool)' /\ Len(RegistryPool.list) < 128
        /\ a \in MainnetAsset /\ NewlyListed(<<a, tier>>)
    BY <1>2, <2>1, ListingIsNew
  <2> DEFINE r == <<a, tier>>
  <2>3. r[1] = a /\ r[2] = tier
    OBVIOUS
  <2> HIDE DEF r, a, c
  <2>4. NewlyListed(r)
    BY <2>2 DEF r
  <2>5. /\ r[2] = 2 => Registry!InitReserve(r[1], 2)
        /\ RegistryClasses[r[1]] > 0 /\ r[2] = RegistryClasses[r[1]] - 1 =>
               Registry!UpgradeAssetClass(r[1], 2)
    BY <2>2, <2>4, ListingIsRegistered
  <2> QED BY <2>2, <2>3, <2>5
<1>3. CASE InitReserve(p)
  <2>1. Lists(p, 2)
    BY <1>1, <1>3 DEF InitReserve, Lists, CanInitReserve, CanList, Doing, Instruction, ListOp,
           providerVars, oracleVars, InitAssetTier
  <2>2. CanList(locals[p]["configurator"], a, 2)
    BY <1>3 DEF InitReserve, CanInitReserve, InitAssetTier
  <2>3. 2 \in Tier
    BY DEF Tier
  <2> HIDE DEF a, c
  <2>4. Registry!InitReserve(a, 2) /\ a \in MainnetAsset
    BY <1>2, <2>1, <2>2, <2>3
  <2> QED BY <2>4 DEF Registry!Next, Registry!Listing
<1>4. CASE UpgradeAssetClass(p)
  <2> DEFINE tier == class - 1
  <2>1. List(c, Head(inputs[p]), tier) /\ class > 0 /\ CanList(locals[p]["configurator"], a, tier)
    BY <1>4 DEF UpgradeAssetClass, CanUpgradeAssetClass
  <2>2. class \in Tier
    <3>1. c \in DOMAIN pool
      BY <2>1 DEF CanList, ConfiguratorIsObeyed, HelperCounter
    <3>2. IsPool(pool[c])
      BY <3>1 DEF IInv
    <3> HIDE DEF c, a
    <3>3. a \in DOMAIN pool[c].assetClass => pool[c].assetClass[a] \in Tier
      BY <3>2 DEF IsPool
    <3> QED BY <3>3 DEF ClassOf, Tier
  <2> HIDE DEF class
  <2>3. tier \in Tier
    BY <2>1, <2>2 DEF Tier
  <2> HIDE DEF tier
  <2>4. Lists(p, tier)
    BY <1>1, <1>4, <2>1 DEF UpgradeAssetClass, Lists, CanUpgradeAssetClass, CanList, Doing,
           Instruction, ListOp, providerVars, oracleVars
  <2> HIDE DEF a, c
  <2>5. /\ RegistryPool = pool[c] /\ a \in MainnetAsset
        /\ RegistryClasses[a] > 0 /\ tier = RegistryClasses[a] - 1 =>
               Registry!UpgradeAssetClass(a, 2)
    BY <1>2, <2>1, <2>3, <2>4
  <2>6. RegistryClasses[a] = class
    BY <2>5 DEF RegistryClasses, class, ClassOf
  <2>7. Registry!UpgradeAssetClass(a, 2)
    BY <2>1, <2>5, <2>6 DEF tier
  <2> QED BY <2>5, <2>7 DEF Registry!Next, Registry!Listing
<1> QED BY <1>3, <1>4

\* Initialisation, the credit and the pause are no business of the registry.
LEMMA FieldsOfNoReserve ==
    ASSUME NEW P, IsPool(P), NEW v, NEW Q,
           \/ Q = [P EXCEPT !.provider = v]
           \/ Q = [P EXCEPT !.crt = v]
           \/ Q = [P EXCEPT !.paused = v]
    PROVE  Q.reserves = P.reserves /\ Q.list = P.list /\ Q.assetClass = P.assetClass
BY DEF IsPool

LEMMA FieldsAreUnseen ==
    ASSUME DInv, IInv, NEW p \in Run, RegistryPool' # RegistryPool,
           InitializeCounter(p) \/ SetCRT(p) \/ SetPoolPause(p)
    PROVE  UNCHANGED Registry!vars
<1>1. \E c, v, P :
          /\ pool' = [pool EXCEPT ![c] = P]
          /\ \/ P = [pool[c] EXCEPT !.provider = v]
             \/ P = [pool[c] EXCEPT !.crt = v]
             \/ P = [pool[c] EXCEPT !.paused = v]
  BY DEF InitializeCounter, SetCRT, SetPoolPause
<1>2. PICK c, v, P :
          /\ pool' = [pool EXCEPT ![c] = P]
          /\ \/ P = [pool[c] EXCEPT !.provider = v]
             \/ P = [pool[c] EXCEPT !.crt = v]
             \/ P = [pool[c] EXCEPT !.paused = v]
  BY <1>1
<1>3. c \in DOMAIN pool
  <2> SUFFICES ASSUME c \notin DOMAIN pool PROVE FALSE
    OBVIOUS
  <2>1. DOMAIN pool' = DOMAIN pool /\ \A d \in DOMAIN pool : pool'[d] = pool[d]
    BY <1>2
  <2> QED BY <2>1 DEF RegistryPool, Fresh
<1>4. RegistryPool = pool[c] /\ RegistryPool' = P
  BY <1>2, <1>3, FirstPoolRewritten
<1>5. IsPool(RegistryPool)
  BY RegistryReserves
<1>6. /\ P.reserves = pool[c].reserves /\ P.list = pool[c].list
      /\ P.assetClass = pool[c].assetClass
  BY <1>2, <1>4, <1>5, FieldsOfNoReserve
<1> QED BY <1>4, <1>6, SameReserves

\* A new pool is what the registry takes the first one for before it is there.
LEMMA FirstPoolIsNew ==
    ASSUME DInv, NEW p \in Run, Deploy(p)
    PROVE  RegistryPool' = RegistryPool
<1>1. pool' = pool \/ pool' = Put(pool, nextAddress, NewPool)
  BY DEF Deploy, NewState
<1>2. nextAddress \notin DOMAIN pool
  <2>1. CodeInv
    BY DEF DInv, ChainInv
  <2> QED BY <2>1 DEF CodeInv, Deployed
<1>3. CASE pool' = pool
  BY <1>3 DEF RegistryPool, Fresh
<1>4. CASE pool' = Put(pool, nextAddress, NewPool)
  <2>1. /\ DOMAIN pool' = DOMAIN pool \cup {nextAddress} /\ pool'[nextAddress] = NewPool
        /\ \A c \in DOMAIN pool : pool'[c] = pool[c]
    BY <1>2, <1>4 DEF Put
  <2> QED BY <1>2, <2>1 DEF RegistryPool, Fresh
<1> QED BY <1>1, <1>3, <1>4

\* A chain that is lost before it has a contract of any script is not missed.
LEMMA NothingIsLost ==
    ASSUME DInv, NodeRestarts, ~ChainIsLost
    PROVE  RegistryPool' = RegistryPool
<1>1. pool' = << >> /\ nextAddress' = Deployer + 1
  BY DEF NodeRestarts
<1>2. DOMAIN << >> = {}
  OBVIOUS
<1>3. Fresh'
  BY <1>1, <1>2 DEF Fresh
<1>4. Fresh
  <2>1. CodeInv
    BY DEF DInv, ChainInv
  <2>2. nextAddress = Deployer + 1
    BY <1>1, <2>1 DEF CodeInv, ChainIsLost, Deployer
  <2> QED BY <2>1, <2>2 DEF CodeInv, Deployed, Fresh, FirstPool, Deployer
<1> QED BY <1>3, <1>4 DEF RegistryPool

LEMMA RegisteredSteps ==
    ASSUME DInv, IInv, DInv', IInv', [Next]_vars, RegistryPool' # RegistryPool, ~ChainIsLost
    PROVE  [Registry!Next]_(Registry!vars)
<1>1. pool' # pool
  BY DEF RegistryPool, Fresh
<1>2. ASSUME NEW p \in Run, Step(p) PROVE [Registry!Next]_(Registry!vars)
  <2>1. CASE Deploy(p)
    BY <2>1, FirstPoolIsNew
  <2>2. CASE InitializeCounter(p) \/ SetCRT(p) \/ SetPoolPause(p)
    BY <2>2, FieldsAreUnseen
  <2>3. CASE InitReserve(p) \/ UpgradeAssetClass(p)
    BY <2>3, ListsAreRegistered
  <2>4. CASE ConfigureReserveAsCollateral(p) \/ EnableBorrowingOnReserve(p) \/ SetReserveFactor(p)
    BY <2>4, ConfigureIsRegistered
  <2> QED BY <1>1, <1>2, <2>1, <2>2, <2>3, <2>4, OtherSteps DEF Step
<1>3. CASE (\E p \in Run, s \in Scripts : Start(p, s)) \/ Crash \/ UNCHANGED vars
  BY <1>1, <1>3, Zenon DEF Start, Crash, vars, chainVars
<1>4. CASE NodeRestarts
  BY <1>4, NothingIsLost
<1> QED BY <1>2, <1>3, <1>4 DEF Next

LEMMA FreshRegistry == Init => Registry!Init
<1> SUFFICES ASSUME Init PROVE Registry!Init
  OBVIOUS
<1>1. pool = << >> /\ DOMAIN << >> = {}
  BY DEF Init
<1>2. RegistryPool = NewPool
  BY <1>1 DEF RegistryPool, Fresh
<1>3. /\ DOMAIN RegistryPool.reserves = {} /\ DOMAIN RegistryPool.assetClass = {}
      /\ Len(RegistryPool.list) = 0
  BY <1>1, <1>2 DEF NewPool
<1>4. RegistryConfiguration({}) = Registry!Unconfigured
  <2>1. Value({}) = 0
    BY NoBits
  <2>2. /\ getActive({}) = FALSE /\ getFrozen({}) = FALSE /\ getBorrowingEnabled({}) = FALSE
        /\ getLtv({}) = {} /\ getLiquidationThreshold({}) = {}
        /\ getLiquidationBonus({}) = {} /\ getReserveFactor({}) = {}
    BY DEF getActive, getFrozen, getBorrowingEnabled, getLtv, getLiquidationThreshold,
           getLiquidationBonus, getReserveFactor, Shifted
  <2> QED BY <2>1, <2>2, Zenon DEF RegistryConfiguration, Registry!Unconfigured
<1>5. \A r : Listing(r) = [toldTier |-> 0, configuration |-> {}]
  BY <1>3 DEF Listing
<1>6. RegistryTiers = [r \in MainnetReserve |-> 0]
  BY <1>5 DEF RegistryTiers
<1>7. RegistryConfigurations = [r \in MainnetReserve |-> Registry!Unconfigured]
  BY <1>4, <1>5 DEF RegistryConfigurations
<1>8. RegistryIds = [r \in MainnetReserve |-> 0]
  BY <1>3 DEF RegistryIds
<1>9. RegistryClasses = [a \in MainnetAsset |-> 0]
  BY <1>3 DEF RegistryClasses
<1>10. RegistryList = [i \in 0.._maxNumberOfReserves - 1 |-> NoReserve]
  <2>1. \A i \in 0.._maxNumberOfReserves - 1 : ~(i < Len(RegistryPool.list))
    BY <1>3
  <2> QED BY <2>1 DEF RegistryList
<1>11. MainnetReserve = Registry!Reserve
  BY DEF MainnetReserve, Registry!Reserve, Registry!Tier, Tier
<1> QED BY <1>3, <1>6, <1>7, <1>8, <1>9, <1>10, <1>11 DEF Registry!Init

\* Whatever the scripts do to the first pool, a configurator call the registry of
\* AssetRegistry describes does, and the registry starts as that pool does: the
\* scripts need nothing of the pool its own specification would refuse.
THEOREM ScriptsKeepToTheRegistry == ASSUME ~SameProcess PROVE Spec => PoolIsARegistry
<1>1. Init => Registry!Init
  BY FreshRegistry
<1>2. DInv /\ IInv /\ (DInv /\ IInv)' /\ [Next]_vars =>
          [RegistryPool' # RegistryPool /\ ~ChainIsLost => [Registry!Next]_(Registry!vars)]_vars
  BY RegisteredSteps
<1> QED BY <1>1, <1>2, DeploymentInvariance, PTL DEF Spec, PoolIsARegistry

=============================================================================
