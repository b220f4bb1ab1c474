---------------------------- MODULE ConfigParser ----------------------------
(***************************************************************************)
(* How the scripts read the configuration word of a reserve                *)
(* (scripts/configParser.ts).  The word is the set of positions of its 1   *)
(* bits, and so is every number read from it.  The masks have 0 bits at    *)
(* the places of their field: & ~MASK is set difference.                   *)
(***************************************************************************)
EXTENDS Naturals, FiniteSetsExt

Masked(first, last) == 0..255 \ first..last

LTV_MASK                     == Masked(0, 15)
LIQUIDATION_THRESHOLD_MASK   == Masked(16, 31)
LIQUIDATION_BONUS_MASK       == Masked(32, 47)
DECIMALS_MASK                == Masked(48, 55)
ACTIVE_MASK                  == Masked(56, 56)
FROZEN_MASK                  == Masked(57, 57)
BORROWING_MASK               == Masked(58, 58)
STABLE_BORROWING_MASK        == Masked(59, 59)
PAUSED_MASK                  == Masked(60, 60)
BORROWABLE_IN_ISOLATION_MASK == Masked(61, 61)
SILOED_BORROWING_MASK        == Masked(62, 62)
RESERVE_FACTOR_MASK          == Masked(64, 79)
BORROW_CAP_MASK              == Masked(80, 115)
SUPPLY_CAP_MASK              == Masked(116, 151)
LIQUIDATION_PROTOCOL_FEE_MASK == Masked(152, 167)
EMODE_CATEGORY_MASK          == Masked(168, 175)
UNBACKED_MINT_CAP_MASK       == Masked(176, 211)
DEBT_CEILING_MASK            == Masked(212, 251)

\* The number the scripts make of what they read: Number(...)
Value(bits) == SumSet({2^bit : bit \in bits})

\* word >> start
Shifted(word, start) == {bit - start : bit \in word}

getLtv(config) == config \ LTV_MASK
getLiquidationThreshold(config) == Shifted(config \ LIQUIDATION_THRESHOLD_MASK, 16)
getLiquidationBonus(config) == Shifted(config \ LIQUIDATION_BONUS_MASK, 32)
getDecimals(config) == Shifted(config \ DECIMALS_MASK, 48)
getActive(config) == config \ ACTIVE_MASK # {}
getFrozen(config) == config \ FROZEN_MASK # {}
getPaused(config) == config \ PAUSED_MASK # {}
getBorrowableInIsolation(config) == config \ BORROWABLE_IN_ISOLATION_MASK # {}
getSiloedBorrowing(config) == config \ SILOED_BORROWING_MASK # {}
getBorrowingEnabled(config) == config \ BORROWING_MASK # {}
getStableRateBorrowingEnabled(config) == config \ STABLE_BORROWING_MASK # {}
getReserveFactor(config) == Shifted(config \ RESERVE_FACTOR_MASK, 64)
getBorrowCap(config) == Shifted(config \ BORROW_CAP_MASK, 80)
getSupplyCap(config) == Shifted(config \ SUPPLY_CAP_MASK, 116)
getDebtCeiling(config) == Shifted(config \ DEBT_CEILING_MASK, 212)
getLiquidationProtocolFee(config) == Shifted(config \ LIQUIDATION_PROTOCOL_FEE_MASK, 152)
getUnbackedMintCap(config) == Shifted(config \ UNBACKED_MINT_CAP_MASK, 176)
getEModeCategory(config) == Shifted(config \ EMODE_CATEGORY_MASK, 168)

\* The features of the word's AAVE ancestor that this pool has no setter for.
Unset(config) ==
    /\ ~getPaused(config)
    /\ ~getBorrowableInIsolation(config)
    /\ ~getSiloedBorrowing(config)
    /\ getBorrowCap(config) = {}
    /\ getSupplyCap(config) = {}
    /\ getDebtCeiling(config) = {}
    /\ getLiquidationProtocolFee(config) = {}
    /\ getUnbackedMintCap(config) = {}
    /\ getEModeCategory(config) = {}

=============================================================================
