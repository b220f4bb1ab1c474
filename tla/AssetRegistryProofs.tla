------------------------ MODULE AssetRegistryProofs ------------------------
(***************************************************************************)
(* Proofs about the registry, for any assets, settings and size of the     *)
(* list.                                                                   *)
(***************************************************************************)
EXTENDS AssetRegistry, SequenceTheorems, TLAPS

\* That the list names the reserves is not inductive by itself: whether a
\* reserve is new is read off its id and the first slot, so reserves without
\* tokens must still have id 0 and slots past the end must still be empty.
IInv ==
    /\ TypeOK
    /\ ListNamesReserves
    /\ \A r \in Reserve \ initialized : id[r] = 0
    /\ \A i \in reservesCount..MaxNumberOfReserves - 1 : reservesList[i] = NoReserve

-----------------------------------------------------------------------------
(***************************************************************************)
(* Listing.                                                                *)
(***************************************************************************)

LEMMA InitIInv == Init => IInv
<1> SUFFICES ASSUME Init PROVE IInv
    OBVIOUS
<1>1. Unconfigured \in ReserveConfiguration
    BY DEF Unconfigured, ReserveConfiguration
<1>2. /\ 0 \in Tier /\ 0 \in 0..MaxAssetClass
      /\ 0 \in 0..MaxNumberOfReserves - 1 /\ 0 \in 0..MaxNumberOfReserves
    BY SizeAssumption DEF Tier, MaxAssetClass
<1>3. TypeOK
    BY <1>1, <1>2 DEF Init, TypeOK
<1>4. ListNamesReserves
    BY DEF Init, ListNamesReserves
<1>5. \A i \in reservesCount..MaxNumberOfReserves - 1 : reservesList[i] = NoReserve
    BY DEF Init
<1> QED BY <1>3, <1>4, <1>5 DEF Init, IInv

\* A reserve without tokens is always new to the list.
LEMMA NewIsNotAdded ==
    ASSUME IInv, NEW r \in Reserve \ initialized
    PROVE  ~AlreadyAdded(r)
<1>1. id[r] = 0
    BY DEF IInv
<1>2. reservesList[0] # r
    <2>1. CASE reservesCount = 0
        BY <2>1, SizeAssumption, RegistryAssumption DEF IInv
    <2>2. CASE reservesCount # 0
        BY <2>2 DEF IInv, TypeOK, ListNamesReserves
    <2> QED BY <2>1, <2>2
<1> QED BY <1>1, <1>2 DEF AlreadyAdded

\* What listing a reserve does, once it is known to be new.
LEMMA ListingSteps ==
    ASSUME IInv, NEW r \in Reserve, NEW toldTier \in Tier,
           InitData(r, toldTier), AddReserveToList(r)
    PROVE  /\ r \notin initialized
           /\ reservesCount < MaxNumberOfReserves
           /\ initialized' = initialized \cup {r}
           /\ tokenTier' \in [Reserve -> Tier]
           /\ assetClass' = [assetClass EXCEPT ![r[1]] = r[2]]
           /\ id' = [id EXCEPT ![r] = reservesCount]
           /\ reservesList' = [reservesList EXCEPT ![reservesCount] = r]
           /\ reservesCount' = reservesCount + 1
<1>1. r \notin initialized
    BY DEF InitData
<1>2. ~AlreadyAdded(r)
    BY <1>1, NewIsNotAdded
<1> QED BY <1>1, <1>2 DEF InitData, AddReserveToList, IInv, TypeOK

\* Listing keeps the list in step with the tokens.
LEMMA ListingIInv ==
    ASSUME IInv, NEW r \in Reserve, NEW toldTier \in Tier,
           InitData(r, toldTier), AddReserveToList(r),
           configuration' \in [Reserve -> ReserveConfiguration], UNCHANGED poolVars
    PROVE  IInv'
<1>1. /\ r \notin initialized
      /\ reservesCount < MaxNumberOfReserves
      /\ initialized' = initialized \cup {r}
      /\ tokenTier' \in [Reserve -> Tier]
      /\ assetClass' = [assetClass EXCEPT ![r[1]] = r[2]]
      /\ id' = [id EXCEPT ![r] = reservesCount]
      /\ reservesList' = [reservesList EXCEPT ![reservesCount] = r]
      /\ reservesCount' = reservesCount + 1
    BY ListingSteps
<1>2. r[1] \in Asset /\ r[2] \in 0..2
    BY DEF Reserve, Tier
<1>3. MaxNumberOfReserves \in Nat /\ reservesCount \in 0..MaxNumberOfReserves - 1
    BY <1>1, SizeAssumption DEF IInv, TypeOK
<1>4. TypeOK'
    <2>1. initialized' \subseteq Reserve
        BY <1>1 DEF IInv, TypeOK
    <2>2. assetClass' \in [Asset -> 0..MaxAssetClass]
        BY <1>1, <1>2 DEF IInv, TypeOK, MaxAssetClass
    <2>3. id' \in [Reserve -> 0..MaxNumberOfReserves - 1]
        BY <1>1, <1>3 DEF IInv, TypeOK
    <2>4. reservesList' \in [0..MaxNumberOfReserves - 1 -> Reserve \cup {NoReserve}]
        BY <1>1, <1>3 DEF IInv, TypeOK
    <2>5. reservesCount' \in 0..MaxNumberOfReserves
        BY <1>1, <1>3
    <2> QED BY <1>1, <2>1, <2>2, <2>3, <2>4, <2>5 DEF IInv, TypeOK, poolVars
<1>5. ListNamesReserves'
    <2>1. ASSUME NEW i \in 0..reservesCount' - 1
          PROVE  reservesList'[i] \in initialized' /\ id'[reservesList'[i]] = i
        <3>1. CASE i = reservesCount
            BY <1>1, <1>3, <3>1 DEF IInv, TypeOK
        <3>2. CASE i # reservesCount
            <4>1. i \in 0..reservesCount - 1
                BY <1>1, <1>3, <3>2
            <4>2. reservesList[i] \in initialized /\ id[reservesList[i]] = i
                BY <4>1 DEF IInv, ListNamesReserves
            <4> QED BY <1>1, <1>3, <4>1, <4>2 DEF IInv, TypeOK
        <3> QED BY <3>1, <3>2
    <2>2. ASSUME NEW s \in initialized'
          PROVE  id'[s] < reservesCount' /\ reservesList'[id'[s]] = s
        <3>1. CASE s = r
            BY <1>1, <1>3, <3>1 DEF IInv, TypeOK
        <3>2. CASE s # r
            <4>1. s \in initialized /\ s \in Reserve
                BY <1>1, <3>2 DEF IInv, TypeOK
            <4>2. id[s] < reservesCount /\ reservesList[id[s]] = s
                BY <4>1 DEF IInv, ListNamesReserves
            <4> QED BY <1>1, <1>3, <3>2, <4>1, <4>2 DEF IInv, TypeOK
        <3> QED BY <3>1, <3>2
    <2> QED BY <2>1, <2>2 DEF ListNamesReserves
<1>6. \A s \in Reserve \ initialized' : id'[s] = 0
    BY <1>1 DEF IInv, TypeOK
<1>7. \A i \in reservesCount'..MaxNumberOfReserves - 1 : reservesList'[i] = NoReserve
    BY <1>1, <1>3 DEF IInv, TypeOK
<1> QED BY <1>4, <1>5, <1>6, <1>7 DEF IInv

-----------------------------------------------------------------------------
(***************************************************************************)
(* The other steps.                                                        *)
(***************************************************************************)

LEMMA OpenType ==
    ASSUME TypeOK, NEW r, Open(r)
    PROVE  configuration' \in [Reserve -> ReserveConfiguration]
<1> DEFINE opened == [configuration[r] EXCEPT !.active = TRUE, !.frozen = FALSE]
<1>1. configuration' = [configuration EXCEPT ![r] = opened]
    BY DEF Open, TypeOK
<1>2. CASE r \in Reserve
    <2>1. opened \in ReserveConfiguration
        BY <1>2 DEF TypeOK, ReserveConfiguration
    <2> QED BY <1>1, <2>1 DEF TypeOK
<1>3. CASE r \notin Reserve
    BY <1>1, <1>3 DEF TypeOK
<1> QED BY <1>2, <1>3

LEMMA DegradeIInv ==
    ASSUME IInv, NEW a \in Asset, DegradeAssetClass(a)
    PROVE  IInv'
<1> DEFINE class == assetClass[a]
<1>1. assetClass' \in [Asset -> 0..MaxAssetClass]
    <2>1. class < MaxAssetClass /\ assetClass' = [assetClass EXCEPT ![a] = class + 1]
        BY Zenon DEF DegradeAssetClass
    <2> QED BY <2>1 DEF IInv, TypeOK, MaxAssetClass
<1>2. configuration' \in [Reserve -> ReserveConfiguration]
    <2> DEFINE r == <<a, assetClass[a]>>
               degraded == [configuration[r] EXCEPT !.frozen = TRUE]
    <2>1. r \in Reserve
        BY DEF DegradeAssetClass, IInv, TypeOK, MaxAssetClass, Reserve, Tier
    <2>2. degraded \in ReserveConfiguration
        BY <2>1 DEF IInv, TypeOK, ReserveConfiguration
    <2>3. configuration' = [configuration EXCEPT ![r] = degraded]
        BY DEF DegradeAssetClass
    <2> QED BY <2>1, <2>2, <2>3 DEF IInv, TypeOK
<1>3. UNCHANGED <<initialized, tokenTier, id, reservesList, reservesCount>>
      /\ UNCHANGED poolVars
    BY DEF DegradeAssetClass
<1>4. TypeOK'
    BY <1>1, <1>2, <1>3 DEF IInv, TypeOK, poolVars
<1>5. ListNamesReserves'
    BY <1>3 DEF IInv, ListNamesReserves
<1> QED BY <1>3, <1>4, <1>5 DEF IInv

LEMMA ListIInv ==
    ASSUME IInv, NEW a \in Asset, Listing(a)
    PROVE  IInv'
<1>1. ASSUME NEW toldTier \in ToldTiers, InitReserve(a, toldTier)
      PROVE  IInv'
    <2>1. <<a, InitAssetTier>> \in Reserve /\ toldTier \in Tier
        BY RegistryAssumption DEF Reserve, Tier, InitAssetTier
    <2>2. configuration' \in [Reserve -> ReserveConfiguration]
        BY <1>1, OpenType DEF InitReserve, IInv
    <2> QED BY <1>1, <2>1, <2>2, ListingIInv DEF InitReserve
<1>2. ASSUME NEW toldTier \in ToldTiers, UpgradeAssetClass(a, toldTier)
      PROVE  IInv'
    <2> DEFINE class == assetClass[a]
    <2>a. class > 0
        BY <1>2, Zenon DEF UpgradeAssetClass
    <2>b. class \in 0..MaxAssetClass
        BY DEF IInv, TypeOK
    <2>c. class - 1 \in Tier
        BY <2>a, <2>b DEF Tier, MaxAssetClass
    <2>1. <<a, class - 1>> \in Reserve /\ toldTier \in Tier
        BY <2>c, RegistryAssumption DEF Reserve
    <2>2. configuration' \in [Reserve -> ReserveConfiguration]
        BY <1>2, OpenType DEF UpgradeAssetClass, IInv
    <2> QED BY <1>2, <2>1, <2>2, ListingIInv DEF UpgradeAssetClass
<1>3. CASE DegradeAssetClass(a)
    BY <1>3, DegradeIInv
<1> QED BY <1>1, <1>2, <1>3 DEF Listing

\* A setting changes configuration words and nothing else.
LEMMA SettingSteps ==
    ASSUME TypeOK, NEW r \in Observed, Setting(r)
    PROVE  /\ UNCHANGED <<listVars, poolVars>>
           /\ configuration' \in [Reserve -> ReserveConfiguration]
<1>1. r \in Reserve /\ configuration[r] \in ReserveConfiguration
    BY RegistryAssumption DEF TypeOK
<1>2. ASSUME NEW c \in ReserveConfiguration, SetConfiguration(r, c)
      PROVE  /\ UNCHANGED <<listVars, poolVars>>
             /\ configuration' \in [Reserve -> ReserveConfiguration]
    BY <1>1, <1>2 DEF SetConfiguration, TypeOK
<1>3. ASSUME NEW p \in CollateralParameters,
             ConfigureReserveAsCollateral(r, p.ltv, p.threshold, p.bonus)
      PROVE  /\ UNCHANGED <<listVars, poolVars>>
             /\ configuration' \in [Reserve -> ReserveConfiguration]
    <2>1. p.ltv \in Nat /\ p.threshold \in Nat /\ p.bonus \in Nat
        BY CollateralAssumption
    <2>2. [configuration[r] EXCEPT !.ltv = p.ltv, !.liquidationThreshold = p.threshold,
                                   !.liquidationBonus = p.bonus] \in ReserveConfiguration
        BY <1>1, <2>1 DEF ReserveConfiguration
    <2> QED BY <1>2, <1>3, <2>2 DEF ConfigureReserveAsCollateral
<1>4. CASE ActivateReserve(r) \/ DeactivateReserve(r)
    <2>1. /\ [configuration[r] EXCEPT !.active = TRUE] \in ReserveConfiguration
          /\ [configuration[r] EXCEPT !.active = FALSE] \in ReserveConfiguration
        BY <1>1 DEF ReserveConfiguration
    <2> QED BY <1>2, <1>4, <2>1 DEF ActivateReserve, DeactivateReserve
<1>5. ASSUME NEW on \in BOOLEAN, SetReserveFreeze(r, on) \/ SetBorrowing(r, on)
      PROVE  /\ UNCHANGED <<listVars, poolVars>>
             /\ configuration' \in [Reserve -> ReserveConfiguration]
    <2>1. /\ [configuration[r] EXCEPT !.frozen = on] \in ReserveConfiguration
          /\ [configuration[r] EXCEPT !.borrowingEnabled = on] \in ReserveConfiguration
        BY <1>1 DEF ReserveConfiguration
    <2> QED BY <1>2, <1>5, <2>1 DEF SetReserveFreeze, SetBorrowing
<1>6. ASSUME NEW factor \in ReserveFactors, SetReserveFactor(r, factor)
      PROVE  /\ UNCHANGED <<listVars, poolVars>>
             /\ configuration' \in [Reserve -> ReserveConfiguration]
    <2>0. factor \in Nat
        BY FactorAssumption
    <2>1. [configuration[r] EXCEPT !.reserveFactor = factor] \in ReserveConfiguration
        BY <1>1, <2>0 DEF ReserveConfiguration
    <2> QED BY <1>2, <1>6, <2>1 DEF SetReserveFactor
<1> QED BY <1>3, <1>4, <1>5, <1>6 DEF Setting

\* A call of a user changes what is in a reserve and nothing else.
LEMMA UseSteps ==
    ASSUME TypeOK, NEW r \in Observed, Use(r)
    PROVE  /\ UNCHANGED <<listVars, configuration>>
           /\ configuration[r].active
           /\ available' \ {r} = available \ {r}
           /\ earning' \ {r} = earning \ {r}
           /\ available' \subseteq Observed
           /\ owed' \subseteq Observed
           /\ earning' \subseteq Observed
<1>1. /\ UNCHANGED <<listVars, configuration>>
      /\ configuration[r].active
      /\ earning' \ {r} = earning \ {r}
      /\ earning' \subseteq Observed
    BY DEF Use, Deposit, Withdraw, Borrow, Repay, InUse, UpdateRate, TypeOK
<1>2. /\ available' \ {r} = available \ {r}
      /\ available' \subseteq Observed
      /\ owed' \subseteq Observed
    BY DEF Use, Deposit, Withdraw, Borrow, Repay, TypeOK
<1> QED BY <1>1, <1>2

LEMMA NextIInv == IInv /\ [Next]_vars => IInv'
<1> SUFFICES ASSUME IInv, [Next]_vars PROVE IInv'
    OBVIOUS
<1>1. ASSUME NEW a \in Asset, Listing(a) PROVE IInv'
    BY <1>1, ListIInv
<1>2. ASSUME UNCHANGED listVars, TypeOK' PROVE IInv'
    BY <1>2 DEF listVars, IInv, ListNamesReserves
<1>3. ASSUME NEW r \in Observed, Setting(r) PROVE IInv'
    <2>1. /\ UNCHANGED <<listVars, poolVars>>
          /\ configuration' \in [Reserve -> ReserveConfiguration]
        BY <1>3, SettingSteps DEF IInv
    <2>2. TypeOK'
        BY <2>1 DEF IInv, TypeOK, listVars, poolVars
    <2> QED BY <1>2, <2>1, <2>2
<1>4. ASSUME NEW r \in Observed, Use(r) PROVE IInv'
    <2>1. /\ UNCHANGED <<listVars, configuration>>
          /\ available' \subseteq Observed
          /\ owed' \subseteq Observed
          /\ earning' \subseteq Observed
        BY <1>4, UseSteps DEF IInv
    <2>2. TypeOK'
        BY <2>1 DEF IInv, TypeOK, listVars
    <2> QED BY <1>2, <2>1, <2>2
<1>5. CASE UNCHANGED vars
    <2>1. TypeOK'
        BY <1>5 DEF IInv, TypeOK, vars
    <2> QED BY <1>2, <1>5, <2>1 DEF vars, listVars
<1> QED BY <1>1, <1>3, <1>4, <1>5 DEF Next

LEMMA Invariance == Spec => []IInv
BY InitIInv, NextIInv, PTL DEF Spec

\* The list of reserves names exactly the reserves with tokens, each at its id,
\* for any number of assets and any order of listings, upgrades and
\* degradations.
THEOREM ListNamesTheReserves == Spec => []ListNamesReserves
<1>1. IInv => ListNamesReserves
    BY DEF IInv
<1> QED BY <1>1, Invariance, PTL

\* The registry keeps its type: classes, ids and slots stay within the words
\* that hold them.
THEOREM RegistryTypeCorrect == Spec => []TypeOK
<1>1. IInv => TypeOK
    BY DEF IInv
<1> QED BY <1>1, Invariance, PTL

-----------------------------------------------------------------------------
(***************************************************************************)
(* Reserves that are switched off.                                         *)
(***************************************************************************)

\* Listing only switches reserves on.
LEMMA ListingKeepsActive ==
    ASSUME TypeOK, NEW a \in Asset, Listing(a), NEW r \in Reserve
    PROVE  configuration[r].active => configuration'[r].active
<1>1. configuration[r] \in ReserveConfiguration
    BY DEF TypeOK
<1>2. ASSUME NEW s, Open(s)
      PROVE  configuration[r].active => configuration'[r].active
    BY <1>1, <1>2 DEF Open, TypeOK, ReserveConfiguration
<1>3. CASE DegradeAssetClass(a)
    <2> DEFINE s == <<a, assetClass[a]>>
    <2>1. configuration' = [configuration EXCEPT ![s].frozen = TRUE]
        BY <1>3, Zenon DEF DegradeAssetClass
    <2> QED BY <1>1, <2>1 DEF TypeOK, ReserveConfiguration
<1> QED BY <1>2, <1>3 DEF Listing, InitReserve, UpgradeAssetClass

LEMMA InactiveStep ==
    ASSUME TypeOK, InactiveIsAtRest, [Next]_vars
    PROVE  InactiveIsAtRest'
<1>1. SUFFICES ASSUME NEW r \in Observed, ~configuration'[r].active
               PROVE  r \notin available' /\ r \notin earning'
    BY DEF InactiveIsAtRest
<1>2. r \in Reserve
    BY RegistryAssumption
<1>3. ASSUME NEW a \in Asset, Listing(a)
      PROVE  r \notin available' /\ r \notin earning'
    <2>1. ~configuration[r].active
        BY <1>1, <1>2, <1>3, ListingKeepsActive
    <2>2. UNCHANGED poolVars
        BY <1>3 DEF Listing, InitReserve, UpgradeAssetClass, DegradeAssetClass
    <2> QED BY <2>1, <2>2 DEF InactiveIsAtRest, poolVars
<1>4. ASSUME NEW s \in Observed, Setting(s)
      PROVE  r \notin available' /\ r \notin earning'
    <2>1. available' = available /\ earning' = earning
        BY <1>4, SettingSteps DEF poolVars
    <2>2. CASE ~configuration[r].active
        BY <2>1, <2>2 DEF InactiveIsAtRest
    <2>3. CASE configuration[r].active
        <3>1. configuration[s] \in ReserveConfiguration /\ s \in Reserve
            BY RegistryAssumption DEF TypeOK
        <3>2. ASSUME NEW c, SetConfiguration(s, c)
              PROVE  s = r /\ ~c.active
            BY <1>1, <1>2, <2>3, <3>1, <3>2 DEF SetConfiguration, TypeOK
        <3>3. DeactivateReserve(s) /\ s = r
            <4>1. ASSUME NEW p \in CollateralParameters,
                         ConfigureReserveAsCollateral(s, p.ltv, p.threshold, p.bonus)
                  PROVE  FALSE
                <5> DEFINE c == [configuration[s] EXCEPT !.ltv = p.ltv,
                                     !.liquidationThreshold = p.threshold,
                                     !.liquidationBonus = p.bonus]
                <5>1. SetConfiguration(s, c)
                    BY <4>1, Zenon DEF ConfigureReserveAsCollateral
                <5>2. c.active = configuration[s].active
                    BY <3>1 DEF ReserveConfiguration
                <5> QED BY <2>3, <3>2, <5>1, <5>2
            <4>2. ~ActivateReserve(s)
                BY <3>1, <3>2 DEF ActivateReserve, ReserveConfiguration
            <4>3. ASSUME NEW on \in BOOLEAN, SetReserveFreeze(s, on) \/ SetBorrowing(s, on)
                  PROVE  FALSE
                BY <2>3, <3>1, <3>2, <4>3
                   DEF SetReserveFreeze, SetBorrowing, ReserveConfiguration
            <4>4. ASSUME NEW factor \in ReserveFactors, SetReserveFactor(s, factor)
                  PROVE  FALSE
                BY <2>3, <3>1, <3>2, <4>4 DEF SetReserveFactor, ReserveConfiguration
            <4>5. DeactivateReserve(s)
                BY <1>4, <4>1, <4>2, <4>3, <4>4 DEF Setting
            <4> QED BY <3>2, <4>5 DEF DeactivateReserve
        <3> QED BY <2>1, <3>3 DEF DeactivateReserve, NoLiquidity
    <2> QED BY <2>2, <2>3
<1>5. ASSUME NEW s \in Observed, Use(s)
      PROVE  r \notin available' /\ r \notin earning'
    <2>1. /\ configuration' = configuration
          /\ configuration[s].active
          /\ available' \ {s} = available \ {s}
          /\ earning' \ {s} = earning \ {s}
        BY <1>5, UseSteps
    <2> QED BY <1>1, <2>1 DEF InactiveIsAtRest
<1>6. CASE UNCHANGED vars
    BY <1>1, <1>6 DEF InactiveIsAtRest, vars
<1> QED BY <1>3, <1>4, <1>5, <1>6 DEF Next

\* A reserve that is switched off holds no underlying and earns nothing: what is
\* deposited cannot be locked in by deactivateReserve, whatever was lent, repaid
\* or set before.
THEOREM InactiveRests == Spec => []InactiveIsAtRest
<1>1. Init => InactiveIsAtRest
    BY DEF Init, InactiveIsAtRest
<1>2. TypeOK /\ InactiveIsAtRest /\ [Next]_vars => InactiveIsAtRest'
    BY InactiveStep
<1> QED BY <1>1, <1>2, RegistryTypeCorrect, PTL DEF Spec

-----------------------------------------------------------------------------
(***************************************************************************)
(* The list implements a catalog.                                          *)
(***************************************************************************)

\* Listing a reserve appends it to the catalog.
LEMMA ListingAdds ==
    ASSUME IInv, NEW r \in Reserve, NEW toldTier \in Tier,
           InitData(r, toldTier), AddReserveToList(r)
    PROVE  Catalog!Add(r)
<1>1. /\ r \notin initialized
      /\ reservesCount < MaxNumberOfReserves
      /\ reservesList' = [reservesList EXCEPT ![reservesCount] = r]
      /\ reservesCount' = reservesCount + 1
    BY ListingSteps
<1>2. /\ MaxNumberOfReserves \in Nat /\ reservesCount \in Nat
      /\ reservesList \in [0..MaxNumberOfReserves - 1 -> Reserve \cup {NoReserve}]
    BY SizeAssumption DEF IInv, TypeOK
<1>3. Listed \in Seq(Reserve) /\ Len(Listed) = reservesCount
    <2>1. \A i \in 1..reservesCount : reservesList[i - 1] \in Reserve
        BY <1>2 DEF IInv, TypeOK, ListNamesReserves
    <2> QED BY <1>2, <2>1 DEF Listed
<1>4. \A i \in 1..Len(Listed) : Listed[i] # r
    BY <1>1, <1>2, <1>3 DEF Listed, IInv, ListNamesReserves
<1>5. Listed' = Append(Listed, r)
    <2>1. /\ Append(Listed, r) \in Seq(Reserve)
          /\ Len(Append(Listed, r)) = reservesCount + 1
          /\ \A i \in 1..reservesCount : Append(Listed, r)[i] = Listed[i]
          /\ Append(Listed, r)[reservesCount + 1] = r
        BY <1>3, AppendProperties
    <2>2. \A i \in 1..reservesCount + 1 :
              reservesList'[i - 1] = IF i = reservesCount + 1 THEN r ELSE Listed[i]
        BY <1>1, <1>2 DEF Listed
    <2>3. \A i \in 1..reservesCount + 1 : Append(Listed, r)[i] = Listed'[i]
        BY <1>1, <1>2, <2>1, <2>2 DEF Listed
    <2>4. \A i \in 1..reservesCount + 1 : reservesList'[i - 1] \in Reserve
        <3>1. \A i \in 1..reservesCount : Listed[i] \in Reserve
            BY <1>3, ElementOfSeq
        <3> QED BY <1>2, <2>2, <3>1
    <2>5. Listed' \in Seq(Reserve) /\ Len(Listed') = reservesCount + 1
        BY <1>1, <1>2, <2>4 DEF Listed
    <2> QED BY <2>1, <2>3, <2>5, SeqEqual
<1> QED BY <1>1, <1>3, <1>4, <1>5 DEF Catalog!Add

LEMMA CatalogStep == IInv /\ [Next]_vars => [Catalog!Next]_Listed
<1> SUFFICES ASSUME IInv, [Next]_vars PROVE Catalog!Next \/ UNCHANGED Listed
    OBVIOUS
<1>1. ASSUME NEW a \in Asset, NEW toldTier \in ToldTiers,
             InitReserve(a, toldTier) \/ UpgradeAssetClass(a, toldTier)
      PROVE  Catalog!Next
    <2>1. PICK r \in Reserve : InitData(r, toldTier) /\ AddReserveToList(r)
        <3>1. CASE InitReserve(a, toldTier)
            BY <3>1 DEF InitReserve, Reserve, Tier, InitAssetTier
        <3>2. CASE UpgradeAssetClass(a, toldTier)
            <4> DEFINE class == assetClass[a]
            <4>1. /\ class > 0
                  /\ InitData(<<a, class - 1>>, toldTier)
                  /\ AddReserveToList(<<a, class - 1>>)
                BY <3>2, Zenon DEF UpgradeAssetClass
            <4>2. class \in 0..MaxAssetClass
                BY DEF IInv, TypeOK
            <4>3. class - 1 \in Tier
                BY <4>1, <4>2 DEF Tier, MaxAssetClass
            <4>4. <<a, class - 1>> \in Reserve
                BY <4>3 DEF Reserve
            <4> QED BY <4>1, <4>4
        <3> QED BY <1>1, <3>1, <3>2
    <2>2. toldTier \in Tier
        BY RegistryAssumption
    <2> QED BY <2>1, <2>2, ListingAdds DEF Catalog!Next
<1>2. CASE UNCHANGED <<reservesList, reservesCount>>
    BY <1>2 DEF Listed
<1>3. ASSUME NEW a \in Asset, DegradeAssetClass(a)
      PROVE  UNCHANGED <<reservesList, reservesCount>>
    BY <1>3 DEF DegradeAssetClass
<1>4. ASSUME NEW r \in Observed, Setting(r) \/ Use(r)
      PROVE  UNCHANGED <<reservesList, reservesCount>>
    BY <1>4, SettingSteps, UseSteps DEF IInv, listVars
<1>5. CASE UNCHANGED vars
    BY <1>5, <1>2 DEF vars
<1> QED BY <1>1, <1>2, <1>3, <1>4, <1>5 DEF Next, Listing

\* The pool's list implements the catalog of the abstract specification: places
\* are given once, to one reserve each, and never moved or taken back.
THEOREM ListImplementsCatalog == Spec => ListIsACatalog
<1>1. Init => Catalog!Init
    BY DEF Init, Listed, Catalog!Init
<1> QED BY <1>1, CatalogStep, Invariance, PTL DEF Spec, ListIsACatalog, Catalog!Spec

=============================================================================
