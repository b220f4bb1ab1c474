------------------------------ MODULE MCTiers ------------------------------
(***************************************************************************)
(* One asset listed in two tiers and another in the safest: two users      *)
(* supply, borrow across tiers with and without CRT, delegate, repay for   *)
(* each other and move pTokens, while an admin freezes and pauses and the  *)
(* oracle changes its mind.  No time passes, so balances are exact.        *)
(***************************************************************************)
EXTENDS CounterProperties

CONSTANT MaxCalls      \* bound on the calls that change something

VARIABLE calls         \* how many there have been

OneTier == {<<"dai", 2>>, <<"eth", 2>>}
TwoTiers == {<<"dai", 2>>, <<"eth", 0>>}
ThreeTiers == TwoTiers \cup {<<"dai", 1>>}
MCLtv == [r \in Reserve |-> 7500]
MCLiquidationThreshold == [r \in Reserve |-> 8000]
MCReserveFactor == [r \in Reserve |-> 1000]
MCTokenUnit == [a \in {"dai", "eth"} |-> 1]
MCInitialWallet ==
    [a \in {"dai", "eth"} |->
        [u \in 1..NumUsers |-> IF (a = "dai") = (u = 1) THEN 200 ELSE 0]]
MCSmallWallet ==
    [a \in {"dai", "eth"} |->
        [u \in 1..NumUsers |-> IF (a = "dai") = (u = 1) THEN 100 ELSE 0]]
MCInitialCrt == [u \in 1..NumUsers |-> 80]
MCNoCrt == [u \in 1..NumUsers |-> 0]
MCInitialPrice == [a \in {"dai", "eth"} |-> 1]
MCPriceAnswers == [a \in {"dai", "eth"} |-> IF a = "eth" THEN {1, 2} ELSE {1}]
MCConstantPrices == [a \in {"dai", "eth"} |-> {}]
MCFreezable == {<<"dai", 1>>}

\* Scaled balances stay what they are worth.
ASSUME MCTiersRates == NoInterest

MCInit == Init /\ calls = 0

MCNext ==
    /\ calls < MaxCalls
    /\ Next
    /\ vars' # vars
    /\ calls' = calls + 1

MCSpec == MCInit /\ [][MCNext]_<<vars, calls>>

=============================================================================
