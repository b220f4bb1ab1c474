--------------------------- MODULE CountedMarket ---------------------------
(***************************************************************************)
(* The pool with its calls counted.  Every call rounds a few amounts half  *)
(* up, to the advantage of one side or the other, so what the code         *)
(* promises of a balance sheet holds up to an error that grows with the    *)
(* calls made and the time gone by.  `calls` records the first, for the    *)
(* properties only.                                                        *)
(***************************************************************************)
EXTENDS CounterProperties

CONSTANT Rays          \* a bound on what a reserve comes to, in rays of units

ASSUME RaysAssumption == Rays \in Nat

VARIABLE calls         \* how many calls users have made

CountedInit == Init /\ calls = 0

CountedNext ==
    \/ UserCall /\ calls' = calls + 1
    \/ (UserSetting \/ Environment) /\ UNCHANGED calls

CountedSpec == CountedInit /\ [][CountedNext]_<<vars, calls>>

\* Everyone who is promised a part of the interest by the parameters: the
\* suppliers and the treasury, but not the vault of the CRT, which is minted a
\* second share (see AllClaimsBacked of MCMarket).
Promised == Holder \ {CrtVault}

\* The roundings there can have been, in units of the debt's index: at most
\* 2 * Rays + 5 a call, and 3 * Rays + 1 in a second of an overall rate that is
\* rounded up and a borrow rate whose fraction of a ray
\* calculateCompoundedInterest drops.
Roundings(n, time) == (2 * Rays + 5) * n + (3 * Rays + 1) * time

\* A market of realistic size: no reserve comes to more than Rays rays of its
\* smallest unit (one ray of Dai is a billion Dai), and there are less roundings
\* than a ray has units.
ModestAmounts ==
    /\ \A r \in Reserve :
          /\ ScaledSupply(r, Promised) <= Rays * RAY
          /\ debtSupply[r] <= Rays * RAY
          /\ cash[r] + RayMul(debtSupply[r], reserves[r].variableBorrowIndex) <= Rays * RAY
    /\ Roundings(calls, now) <= 2 * RAY

\* What suppliers and the treasury hold is backed, by underlying or by debt, up
\* to the roundings: every call mints and burns for what it moves, and the
\* strategy, linear for suppliers, and the treasury's share hand out no more
\* than the interest borrowers owe, which compounds.
ClaimsBackedUpToRounding ==
    \A r \in Reserve :
        RAY * Claims(r, Promised)
            <= RAY * Assets(r)
               + Roundings(calls + 1, now) * NormalizedDebt(reserves[r], now)

=============================================================================
