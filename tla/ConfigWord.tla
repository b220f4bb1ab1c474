----------------------------- MODULE ConfigWord -----------------------------
(***************************************************************************)
(* How the pool writes the configuration word of a reserve                 *)
(* (ReserveConfiguration.sol).  Words and numbers are sets of bit          *)
(* positions, as in ConfigParser.                                          *)
(***************************************************************************)
EXTENDS Naturals

Word == SUBSET (0..255)

\* A number that fits into a field of this many bits: MAX_VALID_...
Number(width) == SUBSET (0..width - 1)

\* The binary digits of n.
Bits(n, width) == {bit \in 0..width - 1 : (n \div 2^bit) % 2 = 1}

\* (word & MASK) | (value << first), where MASK has 0 bits from first to last.
Store(word, first, last, value) ==
    (word \ first..last) \cup {bit + first : bit \in value}

Flag(on) == IF on THEN {0} ELSE {}

setLtv(word, ltv) == Store(word, 0, 15, ltv)
setLiquidationThreshold(word, threshold) == Store(word, 16, 31, threshold)
setLiquidationBonus(word, bonus) == Store(word, 32, 47, bonus)
setDecimals(word, decimals) == Store(word, 48, 55, decimals)
setActive(word, active) == Store(word, 56, 56, Flag(active))
setFrozen(word, frozen) == Store(word, 57, 57, Flag(frozen))
setBorrowingEnabled(word, enabled) == Store(word, 58, 58, Flag(enabled))
setStableRateBorrowingEnabled(word, enabled) == Store(word, 59, 59, Flag(enabled))

\* A slip: the factor a byte too far to the left.
setReserveFactorLeft(word, factor) == Store(word, 72, 87, factor)

setReserveFactor(word, factor) == Store(word, 64, 79, factor)

=============================================================================
