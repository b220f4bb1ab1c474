-------------------------- MODULE MCAssetRegistry --------------------------
(***************************************************************************)
(* Two assets and a list too small for all their tiers.                    *)
(***************************************************************************)
EXTENDS AssetRegistry

CONSTANT MaxCalls      \* bound on the calls that change something

VARIABLE calls         \* how many there have been

MCObserved == {<<"dai", 2>>, <<"dai", 1>>}
MCCollateralParameters ==
    {[ltv |-> 7500, threshold |-> 8000, bonus |-> 10500],
     [ltv |-> 0, threshold |-> 0, bonus |-> 0]}

MCInit == Init /\ calls = 0

MCNext ==
    /\ calls < MaxCalls
    /\ Next
    /\ vars' # vars
    /\ calls' = calls + 1

MCSpec == MCInit /\ [][MCNext]_<<vars, calls>>

=============================================================================
