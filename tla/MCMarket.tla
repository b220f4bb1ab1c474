------------------------------ MODULE MCMarket ------------------------------
(***************************************************************************)
(* One reserve over time: two users supply it, borrow from it and repay    *)
(* while interest accrues.                                                 *)
(***************************************************************************)
EXTENDS CountedMarket

CONSTANT MaxCalls      \* bound on the calls users make

Dai == <<"dai", 2>>
MCReserve == {Dai}
MCLtv == [r \in MCReserve |-> 7500]
MCLiquidationThreshold == [r \in MCReserve |-> 8000]
MCReserveFactor == [r \in MCReserve |-> 2000]
MCTokenUnit == [a \in {"dai"} |-> 1]
MCInitialWallet == [a \in {"dai"} |-> [u \in 1..NumUsers |-> IF u = 1 THEN 1000 ELSE 500]]
MCInitialCrt == [u \in 1..NumUsers |-> 0]
MCInitialPrice == [a \in {"dai"} |-> 1]
MCPriceAnswers == [a \in {"dai"} |-> {}]

\* The rates of this market cover what its suppliers are promised.
ASSUME MCMarketRates == RatesCoverEarnings

MCNext ==
    \/ calls < MaxCalls /\ UserCall /\ calls' = calls + 1
    \/ Tick /\ UNCHANGED calls

MCSpec == CountedInit /\ [][MCNext]_<<vars, calls>>

\* _mintToTreasury gives the treasury its share of the interest and the
\* strategy leaves suppliers the rest: suppliers and treasury together never
\* hold claims on more than the reserve has, up to one unit of rounding a call.
ClaimsBacked ==
    \A r \in Reserve : Claims(r, Promised) <= Assets(r) + calls

\* reserveFactor is "the reserve portion of the interest that goes to the
\* treasury of the market": with everyone minted a share of the interest
\* counted, the pTokens still stand for no more than the reserve has.
AllClaimsBacked ==
    \A r \in Reserve : Claims(r, Holder) <= Assets(r) + calls

=============================================================================
