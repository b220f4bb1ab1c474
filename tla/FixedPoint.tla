----------------------------- MODULE FixedPoint -----------------------------
(***************************************************************************)
(* The fixed-point arithmetic of the protocol (PercentageMath, WadRayMath, *)
(* MathUtils).  A percentage is a number of basis points, exactly as in    *)
(* the code; a ray is a fraction of RAY, which the code sets to 1e27 and   *)
(* an instance sets to something TLC's integers hold.                      *)
(*                                                                         *)
(* A library function that reverts on some arguments comes with a          *)
(* predicate saying when it does not.  The 256-bit overflow reverts are    *)
(* left out: amounts and indexes stay far below them.                      *)
(***************************************************************************)
EXTENDS Integers

CONSTANTS RAY,               \* WadRayMath.RAY
          SECONDS_PER_YEAR   \* MathUtils.SECONDS_PER_YEAR, in ticks of `now`

ASSUME RAYAssumption == RAY \in Nat \ {0}
ASSUME YearAssumption == SECONDS_PER_YEAR \in Nat \ {0}

PERCENTAGE_FACTOR == 10000

\* percentMul truncates, and refuses a non-zero product of at most 10000.
PercentMulDefined(amount, bps) ==
    amount = 0 \/ bps = 0 \/ amount * bps > PERCENTAGE_FACTOR
PercentMul(amount, bps) == (amount * bps) \div PERCENTAGE_FACTOR

\* percentDiv answers 0 for a percentage of 0, and refuses more than 100%.
PercentDivDefined(amount, bps) ==
    amount = 0 \/ bps <= PERCENTAGE_FACTOR
PercentDiv(amount, bps) ==
    IF bps = 0 THEN 0 ELSE (amount * PERCENTAGE_FACTOR) \div bps

\* percentMul(amount, bps) answers, with at least bound, for a positive amount
\* and bound: `bps` may be too large to form the product with.
PercentMulAtLeast(amount, bps, bound) ==
    /\ bps > PERCENTAGE_FACTOR \div amount
    /\ bps >= (bound * PERCENTAGE_FACTOR + amount - 1) \div amount

\* a.wadDiv(b) * 10000 / WAD: the ratio of two amounts in basis points.  One
\* wad is far finer than a basis point, so only the truncation shows.
RatioInBps(a, b) == (a * PERCENTAGE_FACTOR) \div b

\* Rays are rounded half up.
RayMul(a, b) == (a * b + RAY \div 2) \div RAY
RayDiv(a, b) == (a * RAY + b \div 2) \div b

\* Growth of one ray over `elapsed` at a yearly `rate`: linear for suppliers,
\* and for borrowers the first terms of the binomial expansion.
LinearInterest(rate, elapsed) ==
    (rate * elapsed) \div SECONDS_PER_YEAR + RAY

CompoundedInterest(rate, elapsed) ==
    LET perSecond == rate \div SECONDS_PER_YEAR
        squared == RayMul(perSecond, perSecond)
        cubed == RayMul(squared, perSecond)
        minusTwo == IF elapsed > 2 THEN elapsed - 2 ELSE 0
    IN  IF elapsed = 0
        THEN RAY
        ELSE RAY + perSecond * elapsed
                 + (elapsed * (elapsed - 1) * squared) \div 2
                 + (elapsed * (elapsed - 1) * minusTwo * cubed) \div 6

=============================================================================
