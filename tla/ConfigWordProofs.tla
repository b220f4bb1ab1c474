-------------------------- MODULE ConfigWordProofs --------------------------
(***************************************************************************)
(* The scripts read what the pool has written: for every word and every    *)
(* number that fits, a getter of ConfigParser returns what the setter of   *)
(* ConfigWord put there, and the other setters leave it alone.  A number   *)
(* of 16 bits is what its bits add up to.                                  *)
(***************************************************************************)
EXTENDS ConfigWord, ConfigParser, SumProofs

LEMMA NumberBits ==
    ASSUME NEW first \in Nat, NEW last \in Nat, NEW value \in Number(last - first + 1),
           NEW bit \in value
    PROVE  bit \in Nat /\ bit + first \in first..last
<1>1. bit \in 0..(last - first + 1) - 1
  BY DEF Number
<1> QED  BY <1>1

\* A field is read back: what is stored from `first' to `last' is what is left
\* under the mask with 0 bits there, moved down.
LEMMA FieldRead ==
    ASSUME NEW first \in Nat, NEW last \in Nat, last <= 255,
           NEW word \in Word, NEW value \in Number(last - first + 1)
    PROVE  Shifted(Store(word, first, last, value) \ Masked(first, last), first) = value
<1> DEFINE stored == {bit + first : bit \in value}
           read == Store(word, first, last, value) \ Masked(first, last)
<1>1. ASSUME NEW bit \in stored PROVE bit \in first..last
  BY <1>1, NumberBits
<1>2. ASSUME NEW bit \in read PROVE bit \in stored
  <2>1. bit \in Store(word, first, last, value) /\ bit \notin Masked(first, last)
    OBVIOUS
  <2>2. CASE bit \in stored
    BY <2>2
  <2>3. CASE bit \in word /\ bit \notin first..last
    <3>1. bit \in 0..255
      BY <2>3 DEF Word
    <3> QED  BY <2>1, <2>3, <3>1 DEF Masked
  <2> QED  BY <2>1, <2>2, <2>3 DEF Store
<1>3. ASSUME NEW bit \in stored PROVE bit \in read
  BY <1>1, <1>3 DEF Store, Masked
<1>4. read = stored
  BY <1>2, <1>3
<1>5. ASSUME NEW bit \in Shifted(stored, first) PROVE bit \in value
  <2>1. PICK b \in value : bit = (b + first) - first
    BY <1>5 DEF Shifted
  <2>2. b \in Nat
    BY NumberBits
  <2> QED  BY <2>1, <2>2
<1>6. ASSUME NEW bit \in value PROVE bit \in Shifted(stored, first)
  <2>1. bit \in Nat
    BY NumberBits
  <2>2. bit = (bit + first) - first
    BY <2>1
  <2> QED  BY <2>2 DEF Shifted
<1>7. Shifted(stored, first) = value
  BY <1>5, <1>6
<1> QED  BY <1>4, <1>7

\* A field apart is not disturbed.
LEMMA FieldKept ==
    ASSUME NEW first \in Nat, NEW last \in Nat, last <= 255,
           NEW word \in Word, NEW value \in Number(last - first + 1),
           NEW from \in Nat, NEW to \in Nat, to < first \/ last < from, to <= 255
    PROVE  Store(word, first, last, value) \ Masked(from, to) = word \ Masked(from, to)
<1> DEFINE stored == {bit + first : bit \in value}
<1>1. ASSUME NEW bit \in stored PROVE bit \in first..last
  BY <1>1, NumberBits
<1>2. ASSUME NEW bit \in word, bit \notin Masked(from, to) PROVE bit \notin first..last
  BY <1>2 DEF Masked, Word
<1>3. ASSUME NEW bit \in stored PROVE bit \in Masked(from, to)
  BY <1>1, <1>3 DEF Masked
<1>4. Store(word, first, last, value) = (word \ first..last) \cup stored
  BY DEF Store
<1> HIDE DEF stored
<1> QED  BY <1>2, <1>3, <1>4

\* A word stays a word.
LEMMA WordKept ==
    ASSUME NEW first \in Nat, NEW last \in Nat, last <= 255,
           NEW word \in Word, NEW value \in Number(last - first + 1)
    PROVE  Store(word, first, last, value) \in Word
<1> SUFFICES ASSUME NEW bit \in Store(word, first, last, value) PROVE bit \in 0..255
  BY DEF Word
<1>1. CASE bit \in word
  BY <1>1 DEF Word
<1>2. CASE bit \in {b + first : b \in value}
  <2>1. PICK b \in value : bit = b + first
    BY <1>2
  <2>2. bit \in first..last
    BY <2>1, NumberBits
  <2> QED  BY <2>2
<1> QED  BY <1>1, <1>2 DEF Store

LEMMA FlagFits == ASSUME NEW on \in BOOLEAN PROVE Flag(on) \in Number(1)
BY DEF Flag, Number

-----------------------------------------------------------------------------

\* The getter and setter of every number the scripts configure agree.
THEOREM NumbersReadBack ==
    ASSUME NEW word \in Word, NEW n \in Number(16), NEW d \in Number(8)
    PROVE  /\ getLtv(setLtv(word, n)) = n
           /\ getLiquidationThreshold(setLiquidationThreshold(word, n)) = n
           /\ getLiquidationBonus(setLiquidationBonus(word, n)) = n
           /\ getDecimals(setDecimals(word, d)) = d
           /\ getReserveFactor(setReserveFactor(word, n)) = n
<1>1. ASSUME NEW first \in Nat, first <= 240
      PROVE  Shifted(Store(word, first, first + 15, n) \ Masked(first, first + 15), first) = n
  <2>1. (first + 15) - first + 1 = 16
    BY <1>1
  <2> QED  BY <1>1, <2>1, FieldRead
<1>2. getLtv(setLtv(word, n)) = n
  <2>1. Shifted(getLtv(setLtv(word, n)), 0) = n
    BY <1>1 DEF getLtv, setLtv, LTV_MASK
  <2>2. getLtv(setLtv(word, n)) \subseteq Nat
    <3>1. setLtv(word, n) \in Word
      BY WordKept DEF setLtv
    <3> QED  BY <3>1 DEF getLtv, Word
  <2>3. Shifted(getLtv(setLtv(word, n)), 0) = getLtv(setLtv(word, n))
    <3>1. \A bit \in getLtv(setLtv(word, n)) : bit - 0 = bit
      BY <2>2
    <3> HIDE DEF getLtv, setLtv
    <3> QED  BY <3>1 DEF Shifted
  <2> QED  BY <2>1, <2>3
<1>3. getLiquidationThreshold(setLiquidationThreshold(word, n)) = n
  BY <1>1 DEF getLiquidationThreshold, setLiquidationThreshold, LIQUIDATION_THRESHOLD_MASK
<1>4. getLiquidationBonus(setLiquidationBonus(word, n)) = n
  BY <1>1 DEF getLiquidationBonus, setLiquidationBonus, LIQUIDATION_BONUS_MASK
<1>5. getDecimals(setDecimals(word, d)) = d
  <2>1. 55 - 48 + 1 = 8
    OBVIOUS
  <2> QED  BY <2>1, FieldRead DEF getDecimals, setDecimals, DECIMALS_MASK
<1>6. getReserveFactor(setReserveFactor(word, n)) = n
  BY <1>1 DEF getReserveFactor, setReserveFactor, RESERVE_FACTOR_MASK
<1> QED  BY <1>2, <1>3, <1>4, <1>5, <1>6

\* And so do those of every flag.
THEOREM FlagsReadBack ==
    ASSUME NEW word \in Word, NEW on \in BOOLEAN
    PROVE  /\ getActive(setActive(word, on)) = on
           /\ getFrozen(setFrozen(word, on)) = on
           /\ getBorrowingEnabled(setBorrowingEnabled(word, on)) = on
           /\ getStableRateBorrowingEnabled(setStableRateBorrowingEnabled(word, on)) = on
<1>1. ASSUME NEW place \in Nat, place <= 255
      PROVE  (Store(word, place, place, Flag(on)) \ Masked(place, place) # {}) <=> on
  <2>1. Flag(on) \in Number(place - place + 1)
    BY <1>1 DEF Flag, Number
  <2>2. Shifted(Store(word, place, place, Flag(on)) \ Masked(place, place), place) = Flag(on)
    BY <1>1, <2>1, FieldRead
  <2> QED  BY <2>2 DEF Shifted, Flag
<1>2. getActive(setActive(word, on)) = on
  BY <1>1 DEF getActive, setActive, ACTIVE_MASK
<1>3. getFrozen(setFrozen(word, on)) = on
  BY <1>1 DEF getFrozen, setFrozen, FROZEN_MASK
<1>4. getBorrowingEnabled(setBorrowingEnabled(word, on)) = on
  BY <1>1 DEF getBorrowingEnabled, setBorrowingEnabled, BORROWING_MASK
<1>5. getStableRateBorrowingEnabled(setStableRateBorrowingEnabled(word, on)) = on
  BY <1>1 DEF getStableRateBorrowingEnabled, setStableRateBorrowingEnabled, STABLE_BORROWING_MASK
<1> QED  BY <1>2, <1>3, <1>4, <1>5

-----------------------------------------------------------------------------

\* All the scripts read of a word.
Settings(word) ==
    [ltv |-> getLtv(word),
     liquidationThreshold |-> getLiquidationThreshold(word),
     liquidationBonus |-> getLiquidationBonus(word),
     decimals |-> getDecimals(word),
     active |-> getActive(word),
     frozen |-> getFrozen(word),
     borrowingEnabled |-> getBorrowingEnabled(word),
     stableRateBorrowingEnabled |-> getStableRateBorrowingEnabled(word),
     reserveFactor |-> getReserveFactor(word)]

\* A setter changes its own setting and no other.
THEOREM SettersKeepApart ==
    ASSUME NEW word \in Word, NEW n \in Number(16), NEW d \in Number(8), NEW on \in BOOLEAN
    PROVE  /\ Settings(setLtv(word, n)) = [Settings(word) EXCEPT !.ltv = n]
           /\ Settings(setLiquidationThreshold(word, n)) = [Settings(word) EXCEPT !.liquidationThreshold = n]
           /\ Settings(setLiquidationBonus(word, n)) = [Settings(word) EXCEPT !.liquidationBonus = n]
           /\ Settings(setDecimals(word, d)) = [Settings(word) EXCEPT !.decimals = d]
           /\ Settings(setActive(word, on)) = [Settings(word) EXCEPT !.active = on]
           /\ Settings(setFrozen(word, on)) = [Settings(word) EXCEPT !.frozen = on]
           /\ Settings(setBorrowingEnabled(word, on)) = [Settings(word) EXCEPT !.borrowingEnabled = on]
           /\ Settings(setStableRateBorrowingEnabled(word, on)) = [Settings(word) EXCEPT !.stableRateBorrowingEnabled = on]
           /\ Settings(setReserveFactor(word, n)) = [Settings(word) EXCEPT !.reserveFactor = n]
<1>1. Settings(setLtv(word, n)) = [Settings(word) EXCEPT !.ltv = n]
  <2>1. n \in Number(15 - 0 + 1)
    BY DEF Number
  <2>2. ASSUME NEW from \in Nat, NEW to \in Nat, to < 0 \/ 15 < from, to <= 255
        PROVE  setLtv(word, n) \ Masked(from, to) = word \ Masked(from, to)
    BY <2>1, <2>2, FieldKept DEF setLtv
  <2>3. /\ setLtv(word, n) \ LIQUIDATION_THRESHOLD_MASK = word \ LIQUIDATION_THRESHOLD_MASK
        /\ setLtv(word, n) \ LIQUIDATION_BONUS_MASK = word \ LIQUIDATION_BONUS_MASK
        /\ setLtv(word, n) \ DECIMALS_MASK = word \ DECIMALS_MASK
        /\ setLtv(word, n) \ ACTIVE_MASK = word \ ACTIVE_MASK
        /\ setLtv(word, n) \ FROZEN_MASK = word \ FROZEN_MASK
        /\ setLtv(word, n) \ BORROWING_MASK = word \ BORROWING_MASK
        /\ setLtv(word, n) \ STABLE_BORROWING_MASK = word \ STABLE_BORROWING_MASK
        /\ setLtv(word, n) \ RESERVE_FACTOR_MASK = word \ RESERVE_FACTOR_MASK
    BY <2>2 DEF LIQUIDATION_THRESHOLD_MASK,
           LIQUIDATION_BONUS_MASK,
           DECIMALS_MASK,
           ACTIVE_MASK,
           FROZEN_MASK,
           BORROWING_MASK,
           STABLE_BORROWING_MASK,
           RESERVE_FACTOR_MASK
  <2>4. /\ getLiquidationThreshold(setLtv(word, n)) = getLiquidationThreshold(word)
        /\ getLiquidationBonus(setLtv(word, n)) = getLiquidationBonus(word)
        /\ getDecimals(setLtv(word, n)) = getDecimals(word)
        /\ getActive(setLtv(word, n)) = getActive(word)
        /\ getFrozen(setLtv(word, n)) = getFrozen(word)
        /\ getBorrowingEnabled(setLtv(word, n)) = getBorrowingEnabled(word)
        /\ getStableRateBorrowingEnabled(setLtv(word, n)) = getStableRateBorrowingEnabled(word)
        /\ getReserveFactor(setLtv(word, n)) = getReserveFactor(word)
    BY <2>3 DEF getLiquidationThreshold,
           getLiquidationBonus,
           getDecimals,
           getActive,
           getFrozen,
           getBorrowingEnabled,
           getStableRateBorrowingEnabled,
           getReserveFactor
  <2>5. getLtv(setLtv(word, n)) = n
    BY NumbersReadBack
  <2> QED  BY <2>4, <2>5 DEF Settings
<1>2. Settings(setLiquidationThreshold(word, n)) = [Settings(word) EXCEPT !.liquidationThreshold = n]
  <2>1. n \in Number(31 - 16 + 1)
    BY DEF Number
  <2>2. ASSUME NEW from \in Nat, NEW to \in Nat, to < 16 \/ 31 < from, to <= 255
        PROVE  setLiquidationThreshold(word, n) \ Masked(from, to) = word \ Masked(from, to)
    BY <2>1, <2>2, FieldKept DEF setLiquidationThreshold
  <2>3. /\ setLiquidationThreshold(word, n) \ LTV_MASK = word \ LTV_MASK
        /\ setLiquidationThreshold(word, n) \ LIQUIDATION_BONUS_MASK = word \ LIQUIDATION_BONUS_MASK
        /\ setLiquidationThreshold(word, n) \ DECIMALS_MASK = word \ DECIMALS_MASK
        /\ setLiquidationThreshold(word, n) \ ACTIVE_MASK = word \ ACTIVE_MASK
        /\ setLiquidationThreshold(word, n) \ FROZEN_MASK = word \ FROZEN_MASK
        /\ setLiquidationThreshold(word, n) \ BORROWING_MASK = word \ BORROWING_MASK
        /\ setLiquidationThreshold(word, n) \ STABLE_BORROWING_MASK = word \ STABLE_BORROWING_MASK
        /\ setLiquidationThreshold(word, n) \ RESERVE_FACTOR_MASK = word \ RESERVE_FACTOR_MASK
    BY <2>2 DEF LTV_MASK,
           LIQUIDATION_BONUS_MASK,
           DECIMALS_MASK,
           ACTIVE_MASK,
           FROZEN_MASK,
           BORROWING_MASK,
           STABLE_BORROWING_MASK,
           RESERVE_FACTOR_MASK
  <2>4. /\ getLtv(setLiquidationThreshold(word, n)) = getLtv(word)
        /\ getLiquidationBonus(setLiquidationThreshold(word, n)) = getLiquidationBonus(word)
        /\ getDecimals(setLiquidationThreshold(word, n)) = getDecimals(word)
        /\ getActive(setLiquidationThreshold(word, n)) = getActive(word)
        /\ getFrozen(setLiquidationThreshold(word, n)) = getFrozen(word)
        /\ getBorrowingEnabled(setLiquidationThreshold(word, n)) = getBorrowingEnabled(word)
        /\ getStableRateBorrowingEnabled(setLiquidationThreshold(word, n)) = getStableRateBorrowingEnabled(word)
        /\ getReserveFactor(setLiquidationThreshold(word, n)) = getReserveFactor(word)
    BY <2>3 DEF getLtv,
           getLiquidationBonus,
           getDecimals,
           getActive,
           getFrozen,
           getBorrowingEnabled,
           getStableRateBorrowingEnabled,
           getReserveFactor
  <2>5. getLiquidationThreshold(setLiquidationThreshold(word, n)) = n
    BY NumbersReadBack
  <2> QED  BY <2>4, <2>5 DEF Settings
<1>3. Settings(setLiquidationBonus(word, n)) = [Settings(word) EXCEPT !.liquidationBonus = n]
  <2>1. n \in Number(47 - 32 + 1)
    BY DEF Number
  <2>2. ASSUME NEW from \in Nat, NEW to \in Nat, to < 32 \/ 47 < from, to <= 255
        PROVE  setLiquidationBonus(word, n) \ Masked(from, to) = word \ Masked(from, to)
    BY <2>1, <2>2, FieldKept DEF setLiquidationBonus
  <2>3. /\ setLiquidationBonus(word, n) \ LTV_MASK = word \ LTV_MASK
        /\ setLiquidationBonus(word, n) \ LIQUIDATION_THRESHOLD_MASK = word \ LIQUIDATION_THRESHOLD_MASK
        /\ setLiquidationBonus(word, n) \ DECIMALS_MASK = word \ DECIMALS_MASK
        /\ setLiquidationBonus(word, n) \ ACTIVE_MASK = word \ ACTIVE_MASK
        /\ setLiquidationBonus(word, n) \ FROZEN_MASK = word \ FROZEN_MASK
        /\ setLiquidationBonus(word, n) \ BORROWING_MASK = word \ BORROWING_MASK
        /\ setLiquidationBonus(word, n) \ STABLE_BORROWING_MASK = word \ STABLE_BORROWING_MASK
        /\ setLiquidationBonus(word, n) \ RESERVE_FACTOR_MASK = word \ RESERVE_FACTOR_MASK
    BY <2>2 DEF LTV_MASK,
           LIQUIDATION_THRESHOLD_MASK,
           DECIMALS_MASK,
           ACTIVE_MASK,
           FROZEN_MASK,
           BORROWING_MASK,
           STABLE_BORROWING_MASK,
           RESERVE_FACTOR_MASK
  <2>4. /\ getLtv(setLiquidationBonus(word, n)) = getLtv(word)
        /\ getLiquidationThreshold(setLiquidationBonus(word, n)) = getLiquidationThreshold(word)
        /\ getDecimals(setLiquidationBonus(word, n)) = getDecimals(word)
        /\ getActive(setLiquidationBonus(word, n)) = getActive(word)
        /\ getFrozen(setLiquidationBonus(word, n)) = getFrozen(word)
        /\ getBorrowingEnabled(setLiquidationBonus(word, n)) = getBorrowingEnabled(word)
        /\ getStableRateBorrowingEnabled(setLiquidationBonus(word, n)) = getStableRateBorrowingEnabled(word)
        /\ getReserveFactor(setLiquidationBonus(word, n)) = getReserveFactor(word)
    BY <2>3 DEF getLtv,
           getLiquidationThreshold,
           getDecimals,
           getActive,
           getFrozen,
           getBorrowingEnabled,
           getStableRateBorrowingEnabled,
           getReserveFactor
  <2>5. getLiquidationBonus(setLiquidationBonus(word, n)) = n
    BY NumbersReadBack
  <2> QED  BY <2>4, <2>5 DEF Settings
<1>4. Settings(setDecimals(word, d)) = [Settings(word) EXCEPT !.decimals = d]
  <2>1. d \in Number(55 - 48 + 1)
    BY DEF Number
  <2>2. ASSUME NEW from \in Nat, NEW to \in Nat, to < 48 \/ 55 < from, to <= 255
        PROVE  setDecimals(word, d) \ Masked(from, to) = word \ Masked(from, to)
    BY <2>1, <2>2, FieldKept DEF setDecimals
  <2>3. /\ setDecimals(word, d) \ LTV_MASK = word \ LTV_MASK
        /\ setDecimals(word, d) \ LIQUIDATION_THRESHOLD_MASK = word \ LIQUIDATION_THRESHOLD_MASK
        /\ setDecimals(word, d) \ LIQUIDATION_BONUS_MASK = word \ LIQUIDATION_BONUS_MASK
        /\ setDecimals(word, d) \ ACTIVE_MASK = word \ ACTIVE_MASK
        /\ setDecimals(word, d) \ FROZEN_MASK = word \ FROZEN_MASK
        /\ setDecimals(word, d) \ BORROWING_MASK = word \ BORROWING_MASK
        /\ setDecimals(word, d) \ STABLE_BORROWING_MASK = word \ STABLE_BORROWING_MASK
        /\ setDecimals(word, d) \ RESERVE_FACTOR_MASK = word \ RESERVE_FACTOR_MASK
    BY <2>2 DEF LTV_MASK,
           LIQUIDATION_THRESHOLD_MASK,
           LIQUIDATION_BONUS_MASK,
           ACTIVE_MASK,
           FROZEN_MASK,
           BORROWING_MASK,
           STABLE_BORROWING_MASK,
           RESERVE_FACTOR_MASK
  <2>4. /\ getLtv(setDecimals(word, d)) = getLtv(word)
        /\ getLiquidationThreshold(setDecimals(word, d)) = getLiquidationThreshold(word)
        /\ getLiquidationBonus(setDecimals(word, d)) = getLiquidationBonus(word)
        /\ getActive(setDecimals(word, d)) = getActive(word)
        /\ getFrozen(setDecimals(word, d)) = getFrozen(word)
        /\ getBorrowingEnabled(setDecimals(word, d)) = getBorrowingEnabled(word)
        /\ getStableRateBorrowingEnabled(setDecimals(word, d)) = getStableRateBorrowingEnabled(word)
        /\ getReserveFactor(setDecimals(word, d)) = getReserveFactor(word)
    BY <2>3 DEF getLtv,
           getLiquidationThreshold,
           getLiquidationBonus,
           getActive,
           getFrozen,
           getBorrowingEnabled,
           getStableRateBorrowingEnabled,
           getReserveFactor
  <2>5. getDecimals(setDecimals(word, d)) = d
    BY NumbersReadBack
  <2> QED  BY <2>4, <2>5 DEF Settings
<1>5. Settings(setActive(word, on)) = [Settings(word) EXCEPT !.active = on]
  <2>1. Flag(on) \in Number(56 - 56 + 1)
    BY DEF Flag, Number
  <2>2. ASSUME NEW from \in Nat, NEW to \in Nat, to < 56 \/ 56 < from, to <= 255
        PROVE  setActive(word, on) \ Masked(from, to) = word \ Masked(from, to)
    BY <2>1, <2>2, FieldKept DEF setActive
  <2>3. /\ setActive(word, on) \ LTV_MASK = word \ LTV_MASK
        /\ setActive(word, on) \ LIQUIDATION_THRESHOLD_MASK = word \ LIQUIDATION_THRESHOLD_MASK
        /\ setActive(word, on) \ LIQUIDATION_BONUS_MASK = word \ LIQUIDATION_BONUS_MASK
        /\ setActive(word, on) \ DECIMALS_MASK = word \ DECIMALS_MASK
        /\ setActive(word, on) \ FROZEN_MASK = word \ FROZEN_MASK
        /\ setActive(word, on) \ BORROWING_MASK = word \ BORROWING_MASK
        /\ setActive(word, on) \ STABLE_BORROWING_MASK = word \ STABLE_BORROWING_MASK
        /\ setActive(word, on) \ RESERVE_FACTOR_MASK = word \ RESERVE_FACTOR_MASK
    BY <2>2 DEF LTV_MASK,
           LIQUIDATION_THRESHOLD_MASK,
           LIQUIDATION_BONUS_MASK,
           DECIMALS_MASK,
           FROZEN_MASK,
           BORROWING_MASK,
           STABLE_BORROWING_MASK,
           RESERVE_FACTOR_MASK
  <2>4. /\ getLtv(setActive(word, on)) = getLtv(word)
        /\ getLiquidationThreshold(setActive(word, on)) = getLiquidationThreshold(word)
        /\ getLiquidationBonus(setActive(word, on)) = getLiquidationBonus(word)
        /\ getDecimals(setActive(word, on)) = getDecimals(word)
        /\ getFrozen(setActive(word, on)) = getFrozen(word)
        /\ getBorrowingEnabled(setActive(word, on)) = getBorrowingEnabled(word)
        /\ getStableRateBorrowingEnabled(setActive(word, on)) = getStableRateBorrowingEnabled(word)
        /\ getReserveFactor(setActive(word, on)) = getReserveFactor(word)
    BY <2>3 DEF getLtv,
           getLiquidationThreshold,
           getLiquidationBonus,
           getDecimals,
           getFrozen,
           getBorrowingEnabled,
           getStableRateBorrowingEnabled,
           getReserveFactor
  <2>5. getActive(setActive(word, on)) = on
    BY FlagsReadBack
  <2> QED  BY <2>4, <2>5 DEF Settings
<1>6. Settings(setFrozen(word, on)) = [Settings(word) EXCEPT !.frozen = on]
  <2>1. Flag(on) \in Number(57 - 57 + 1)
    BY DEF Flag, Number
  <2>2. ASSUME NEW from \in Nat, NEW to \in Nat, to < 57 \/ 57 < from, to <= 255
        PROVE  setFrozen(word, on) \ Masked(from, to) = word \ Masked(from, to)
    BY <2>1, <2>2, FieldKept DEF setFrozen
  <2>3. /\ setFrozen(word, on) \ LTV_MASK = word \ LTV_MASK
        /\ setFrozen(word, on) \ LIQUIDATION_THRESHOLD_MASK = word \ LIQUIDATION_THRESHOLD_MASK
        /\ setFrozen(word, on) \ LIQUIDATION_BONUS_MASK = word \ LIQUIDATION_BONUS_MASK
        /\ setFrozen(word, on) \ DECIMALS_MASK = word \ DECIMALS_MASK
        /\ setFrozen(word, on) \ ACTIVE_MASK = word \ ACTIVE_MASK
        /\ setFrozen(word, on) \ BORROWING_MASK = word \ BORROWING_MASK
        /\ setFrozen(word, on) \ STABLE_BORROWING_MASK = word \ STABLE_BORROWING_MASK
        /\ setFrozen(word, on) \ RESERVE_FACTOR_MASK = word \ RESERVE_FACTOR_MASK
    BY <2>2 DEF LTV_MASK,
           LIQUIDATION_THRESHOLD_MASK,
           LIQUIDATION_BONUS_MASK,
           DECIMALS_MASK,
           ACTIVE_MASK,
           BORROWING_MASK,
           STABLE_BORROWING_MASK,
           RESERVE_FACTOR_MASK
  <2>4. /\ getLtv(setFrozen(word, on)) = getLtv(word)
        /\ getLiquidationThreshold(setFrozen(word, on)) = getLiquidationThreshold(word)
        /\ getLiquidationBonus(setFrozen(word, on)) = getLiquidationBonus(word)
        /\ getDecimals(setFrozen(word, on)) = getDecimals(word)
        /\ getActive(setFrozen(word, on)) = getActive(word)
        /\ getBorrowingEnabled(setFrozen(word, on)) = getBorrowingEnabled(word)
        /\ getStableRateBorrowingEnabled(setFrozen(word, on)) = getStableRateBorrowingEnabled(word)
        /\ getReserveFactor(setFrozen(word, on)) = getReserveFactor(word)
    BY <2>3 DEF getLtv,
           getLiquidationThreshold,
           getLiquidationBonus,
           getDecimals,
           getActive,
           getBorrowingEnabled,
           getStableRateBorrowingEnabled,
           getReserveFactor
  <2>5. getFrozen(setFrozen(word, on)) = on
    BY FlagsReadBack
  <2> QED  BY <2>4, <2>5 DEF Settings
<1>7. Settings(setBorrowingEnabled(word, on)) = [Settings(word) EXCEPT !.borrowingEnabled = on]
  <2>1. Flag(on) \in Number(58 - 58 + 1)
    BY DEF Flag, Number
  <2>2. ASSUME NEW from \in Nat, NEW to \in Nat, to < 58 \/ 58 < from, to <= 255
        PROVE  setBorrowingEnabled(word, on) \ Masked(from, to) = word \ Masked(from, to)
    BY <2>1, <2>2, FieldKept DEF setBorrowingEnabled
  <2>3. /\ setBorrowingEnabled(word, on) \ LTV_MASK = word \ LTV_MASK
        /\ setBorrowingEnabled(word, on) \ LIQUIDATION_THRESHOLD_MASK = word \ LIQUIDATION_THRESHOLD_MASK
        /\ setBorrowingEnabled(word, on) \ LIQUIDATION_BONUS_MASK = word \ LIQUIDATION_BONUS_MASK
        /\ setBorrowingEnabled(word, on) \ DECIMALS_MASK = word \ DECIMALS_MASK
        /\ setBorrowingEnabled(word, on) \ ACTIVE_MASK = word \ ACTIVE_MASK
        /\ setBorrowingEnabled(word, on) \ FROZEN_MASK = word \ FROZEN_MASK
        /\ setBorrowingEnabled(word, on) \ STABLE_BORROWING_MASK = word \ STABLE_BORROWING_MASK
        /\ setBorrowingEnabled(word, on) \ RESERVE_FACTOR_MASK = word \ RESERVE_FACTOR_MASK
    BY <2>2 DEF LTV_MASK,
           LIQUIDATION_THRESHOLD_MASK,
           LIQUIDATION_BONUS_MASK,
           DECIMALS_MASK,
           ACTIVE_MASK,
           FROZEN_MASK,
           STABLE_BORROWING_MASK,
           RESERVE_FACTOR_MASK
  <2>4. /\ getLtv(setBorrowingEnabled(word, on)) = getLtv(word)
        /\ getLiquidationThreshold(setBorrowingEnabled(word, on)) = getLiquidationThreshold(word)
        /\ getLiquidationBonus(setBorrowingEnabled(word, on)) = getLiquidationBonus(word)
        /\ getDecimals(setBorrowingEnabled(word, on)) = getDecimals(word)
        /\ getActive(setBorrowingEnabled(word, on)) = getActive(word)
        /\ getFrozen(setBorrowingEnabled(word, on)) = getFrozen(word)
        /\ getStableRateBorrowingEnabled(setBorrowingEnabled(word, on)) = getStableRateBorrowingEnabled(word)
        /\ getReserveFactor(setBorrowingEnabled(word, on)) = getReserveFactor(word)
    BY <2>3 DEF getLtv,
           getLiquidationThreshold,
           getLiquidationBonus,
           getDecimals,
           getActive,
           getFrozen,
           getStableRateBorrowingEnabled,
           getReserveFactor
  <2>5. getBorrowingEnabled(setBorrowingEnabled(word, on)) = on
    BY FlagsReadBack
  <2> QED  BY <2>4, <2>5 DEF Settings
<1>8. Settings(setStableRateBorrowingEnabled(word, on)) = [Settings(word) EXCEPT !.stableRateBorrowingEnabled = on]
  <2>1. Flag(on) \in Number(59 - 59 + 1)
    BY DEF Flag, Number
  <2>2. ASSUME NEW from \in Nat, NEW to \in Nat, to < 59 \/ 59 < from, to <= 255
        PROVE  setStableRateBorrowingEnabled(word, on) \ Masked(from, to) = word \ Masked(from, to)
    BY <2>1, <2>2, FieldKept DEF setStableRateBorrowingEnabled
  <2>3. /\ setStableRateBorrowingEnabled(word, on) \ LTV_MASK = word \ LTV_MASK
        /\ setStableRateBorrowingEnabled(word, on) \ LIQUIDATION_THRESHOLD_MASK = word \ LIQUIDATION_THRESHOLD_MASK
        /\ setStableRateBorrowingEnabled(word, on) \ LIQUIDATION_BONUS_MASK = word \ LIQUIDATION_BONUS_MASK
        /\ setStableRateBorrowingEnabled(word, on) \ DECIMALS_MASK = word \ DECIMALS_MASK
        /\ setStableRateBorrowingEnabled(word, on) \ ACTIVE_MASK = word \ ACTIVE_MASK
        /\ setStableRateBorrowingEnabled(word, on) \ FROZEN_MASK = word \ FROZEN_MASK
        /\ setStableRateBorrowingEnabled(word, on) \ BORROWING_MASK = word \ BORROWING_MASK
        /\ setStableRateBorrowingEnabled(word, on) \ RESERVE_FACTOR_MASK = word \ RESERVE_FACTOR_MASK
    BY <2>2 DEF LTV_MASK,
           LIQUIDATION_THRESHOLD_MASK,
           LIQUIDATION_BONUS_MASK,
           DECIMALS_MASK,
           ACTIVE_MASK,
           FROZEN_MASK,
           BORROWING_MASK,
           RESERVE_FACTOR_MASK
  <2>4. /\ getLtv(setStableRateBorrowingEnabled(word, on)) = getLtv(word)
        /\ getLiquidationThreshold(setStableRateBorrowingEnabled(word, on)) = getLiquidationThreshold(word)
        /\ getLiquidationBonus(setStableRateBorrowingEnabled(word, on)) = getLiquidationBonus(word)
        /\ getDecimals(setStableRateBorrowingEnabled(word, on)) = getDecimals(word)
        /\ getActive(setStableRateBorrowingEnabled(word, on)) = getActive(word)
        /\ getFrozen(setStableRateBorrowingEnabled(word, on)) = getFrozen(word)
        /\ getBorrowingEnabled(setStableRateBorrowingEnabled(word, on)) = getBorrowingEnabled(word)
        /\ getReserveFactor(setStableRateBorrowingEnabled(word, on)) = getReserveFactor(word)
    BY <2>3 DEF getLtv,
           getLiquidationThreshold,
           getLiquidationBonus,
           getDecimals,
           getActive,
           getFrozen,
           getBorrowingEnabled,
           getReserveFactor
  <2>5. getStableRateBorrowingEnabled(setStableRateBorrowingEnabled(word, on)) = on
    BY FlagsReadBack
  <2> QED  BY <2>4, <2>5 DEF Settings
<1>9. Settings(setReserveFactor(word, n)) = [Settings(word) EXCEPT !.reserveFactor = n]
  <2>1. n \in Number(79 - 64 + 1)
    BY DEF Number
  <2>2. ASSUME NEW from \in Nat, NEW to \in Nat, to < 64 \/ 79 < from, to <= 255
        PROVE  setReserveFactor(word, n) \ Masked(from, to) = word \ Masked(from, to)
    BY <2>1, <2>2, FieldKept DEF setReserveFactor
  <2>3. /\ setReserveFactor(word, n) \ LTV_MASK = word \ LTV_MASK
        /\ setReserveFactor(word, n) \ LIQUIDATION_THRESHOLD_MASK = word \ LIQUIDATION_THRESHOLD_MASK
        /\ setReserveFactor(word, n) \ LIQUIDATION_BONUS_MASK = word \ LIQUIDATION_BONUS_MASK
        /\ setReserveFactor(word, n) \ DECIMALS_MASK = word \ DECIMALS_MASK
        /\ setReserveFactor(word, n) \ ACTIVE_MASK = word \ ACTIVE_MASK
        /\ setReserveFactor(word, n) \ FROZEN_MASK = word \ FROZEN_MASK
        /\ setReserveFactor(word, n) \ BORROWING_MASK = word \ BORROWING_MASK
        /\ setReserveFactor(word, n) \ STABLE_BORROWING_MASK = word \ STABLE_BORROWING_MASK
    BY <2>2 DEF LTV_MASK,
           LIQUIDATION_THRESHOLD_MASK,
           LIQUIDATION_BONUS_MASK,
           DECIMALS_MASK,
           ACTIVE_MASK,
           FROZEN_MASK,
           BORROWING_MASK,
           STABLE_BORROWING_MASK
  <2>4. /\ getLtv(setReserveFactor(word, n)) = getLtv(word)
        /\ getLiquidationThreshold(setReserveFactor(word, n)) = getLiquidationThreshold(word)
        /\ getLiquidationBonus(setReserveFactor(word, n)) = getLiquidationBonus(word)
        /\ getDecimals(setReserveFactor(word, n)) = getDecimals(word)
        /\ getActive(setReserveFactor(word, n)) = getActive(word)
        /\ getFrozen(setReserveFactor(word, n)) = getFrozen(word)
        /\ getBorrowingEnabled(setReserveFactor(word, n)) = getBorrowingEnabled(word)
        /\ getStableRateBorrowingEnabled(setReserveFactor(word, n)) = getStableRateBorrowingEnabled(word)
    BY <2>3 DEF getLtv,
           getLiquidationThreshold,
           getLiquidationBonus,
           getDecimals,
           getActive,
           getFrozen,
           getBorrowingEnabled,
           getStableRateBorrowingEnabled
  <2>5. getReserveFactor(setReserveFactor(word, n)) = n
    BY NumbersReadBack
  <2> QED  BY <2>4, <2>5 DEF Settings
<1> QED  BY <1>1, <1>2, <1>3, <1>4, <1>5, <1>6, <1>7, <1>8, <1>9

-----------------------------------------------------------------------------

\* The bits that have a setter.
KnownBit == 0..59 \cup 64..79

LEMMA BitsFit == ASSUME NEW n, NEW width \in Nat PROVE Bits(n, width) \subseteq 0..width - 1
BY DEF Bits

LEMMA StoreKnown ==
    ASSUME NEW first \in Nat, NEW last \in Nat, first..last \subseteq KnownBit,
           NEW word \in SUBSET KnownBit, NEW value \in SUBSET (0..last - first)
    PROVE  Store(word, first, last, value) \subseteq KnownBit
<1> SUFFICES ASSUME NEW bit \in Store(word, first, last, value) PROVE bit \in KnownBit
  OBVIOUS
<1>1. CASE bit \in word
  BY <1>1
<1>2. CASE bit \in {b + first : b \in value}
  <2>1. PICK b \in value : bit = b + first
    BY <1>2
  <2>2. bit \in first..last
    BY <2>1
  <2> QED  BY <2>2
<1> QED  BY <1>1, <1>2 DEF Store

LEMMA SettersKnown ==
    ASSUME NEW word \in SUBSET KnownBit, NEW n, NEW on \in BOOLEAN
    PROVE  /\ setLtv(word, Bits(n, 16)) \subseteq KnownBit
           /\ setLiquidationThreshold(word, Bits(n, 16)) \subseteq KnownBit
           /\ setLiquidationBonus(word, Bits(n, 16)) \subseteq KnownBit
           /\ setDecimals(word, Bits(n, 8)) \subseteq KnownBit
           /\ setActive(word, on) \subseteq KnownBit
           /\ setFrozen(word, on) \subseteq KnownBit
           /\ setBorrowingEnabled(word, on) \subseteq KnownBit
           /\ setStableRateBorrowingEnabled(word, on) \subseteq KnownBit
           /\ setReserveFactor(word, Bits(n, 16)) \subseteq KnownBit
<1>1. Bits(n, 16) \in SUBSET (0..15) /\ Bits(n, 8) \in SUBSET (0..7) /\ Flag(on) \in SUBSET (0..0)
  BY BitsFit DEF Flag
<1>2. /\ 0..15 \subseteq KnownBit /\ 16..31 \subseteq KnownBit /\ 32..47 \subseteq KnownBit
      /\ 48..55 \subseteq KnownBit /\ 56..56 \subseteq KnownBit /\ 57..57 \subseteq KnownBit
      /\ 58..58 \subseteq KnownBit /\ 59..59 \subseteq KnownBit /\ 64..79 \subseteq KnownBit
  BY DEF KnownBit
<1>3. ASSUME NEW first \in Nat, NEW last \in Nat, first..last \subseteq KnownBit,
             NEW value \in SUBSET (0..15), last - first = 15
      PROVE  Store(word, first, last, value) \subseteq KnownBit
  BY <1>3, StoreKnown
<1>4. ASSUME NEW first \in Nat, first..first \subseteq KnownBit
      PROVE  Store(word, first, first, Flag(on)) \subseteq KnownBit
  <2>1. Flag(on) \in SUBSET (0..first - first)
    BY <1>1
  <2> QED  BY <1>4, <2>1, StoreKnown
<1>5. /\ setLtv(word, Bits(n, 16)) \subseteq KnownBit
      /\ setLiquidationThreshold(word, Bits(n, 16)) \subseteq KnownBit
      /\ setLiquidationBonus(word, Bits(n, 16)) \subseteq KnownBit
      /\ setReserveFactor(word, Bits(n, 16)) \subseteq KnownBit
  <2>1. 15 - 0 = 15 /\ 31 - 16 = 15 /\ 47 - 32 = 15 /\ 79 - 64 = 15
    OBVIOUS
  <2>2. Store(word, 0, 15, Bits(n, 16)) \subseteq KnownBit
    BY <1>1, <1>2, <1>3, <2>1
  <2>3. Store(word, 16, 31, Bits(n, 16)) \subseteq KnownBit
    BY <1>1, <1>2, <1>3, <2>1
  <2>4. Store(word, 32, 47, Bits(n, 16)) \subseteq KnownBit
    BY <1>1, <1>2, <1>3, <2>1
  <2>5. Store(word, 64, 79, Bits(n, 16)) \subseteq KnownBit
    BY <1>1, <1>2, <1>3, <2>1
  <2> QED  BY <2>2, <2>3, <2>4, <2>5
           DEF setLtv, setLiquidationThreshold, setLiquidationBonus, setReserveFactor
<1>6. /\ setActive(word, on) \subseteq KnownBit
      /\ setFrozen(word, on) \subseteq KnownBit
      /\ setBorrowingEnabled(word, on) \subseteq KnownBit
      /\ setStableRateBorrowingEnabled(word, on) \subseteq KnownBit
  BY <1>2, <1>4 DEF setActive, setFrozen, setBorrowingEnabled, setStableRateBorrowingEnabled
<1>7. setDecimals(word, Bits(n, 8)) \subseteq KnownBit
  <2>1. Bits(n, 8) \in SUBSET (0..55 - 48)
    BY <1>1
  <2> QED  BY <1>2, <2>1, StoreKnown DEF setDecimals
<1> QED  BY <1>5, <1>6, <1>7

\* A word of known bits reads as 0 in every field without a setter.
LEMMA KnownIsUnset == ASSUME NEW word \in SUBSET KnownBit PROVE Unset(word)
<1>1. ASSUME NEW first \in Nat, NEW last \in Nat, NEW bit \in word,
             (60 <= first /\ last <= 63) \/ 80 <= first, bit \notin Masked(first, last)
      PROVE  FALSE
  BY <1>1 DEF KnownBit, Masked
<1>2. ASSUME NEW first \in Nat, NEW last \in Nat,
             (60 <= first /\ last <= 63) \/ 80 <= first
      PROVE  word \ Masked(first, last) = {}
  BY <1>1, <1>2
<1>3. /\ word \ PAUSED_MASK = {} /\ word \ BORROWABLE_IN_ISOLATION_MASK = {}
      /\ word \ SILOED_BORROWING_MASK = {} /\ word \ BORROW_CAP_MASK = {}
      /\ word \ SUPPLY_CAP_MASK = {} /\ word \ DEBT_CEILING_MASK = {}
      /\ word \ LIQUIDATION_PROTOCOL_FEE_MASK = {} /\ word \ UNBACKED_MINT_CAP_MASK = {}
      /\ word \ EMODE_CATEGORY_MASK = {}
  BY <1>2 DEF PAUSED_MASK, BORROWABLE_IN_ISOLATION_MASK, SILOED_BORROWING_MASK,
              BORROW_CAP_MASK, SUPPLY_CAP_MASK, DEBT_CEILING_MASK,
              LIQUIDATION_PROTOCOL_FEE_MASK, UNBACKED_MINT_CAP_MASK, EMODE_CATEGORY_MASK
<1>4. ASSUME NEW start PROVE Shifted({}, start) = {}
  BY DEF Shifted
<1> QED  BY <1>3, <1>4 DEF Unset, getPaused, getBorrowableInIsolation, getSiloedBorrowing,
              getBorrowCap, getSupplyCap, getDebtCeiling, getLiquidationProtocolFee,
              getUnbackedMintCap, getEModeCategory

-----------------------------------------------------------------------------
(***************************************************************************)
(* The settings a loan rests on.                                           *)
(***************************************************************************)

LEMMA KnownIsWord == ASSUME NEW word \in SUBSET KnownBit PROVE word \in Word
BY DEF KnownBit, Word

LEMMA BitsAreNumber == ASSUME NEW n PROVE Bits(n, 16) \in Number(16) /\ Bits(n, 8) \in Number(8)
BY BitsFit DEF Number

\* The settings a loan rests on.
Loan(word) == <<getLtv(word), getLiquidationBonus(word), getBorrowingEnabled(word)>>

\* Each setter changes the settings loans are judged by only where its name says so.
LEMMA LoanSettings ==
    ASSUME NEW word \in Word, NEW n \in Number(16), NEW d \in Number(8), NEW on \in BOOLEAN
    PROVE  /\ Loan(setLtv(word, n)) = <<n, getLiquidationBonus(word), getBorrowingEnabled(word)>>
           /\ Loan(setLiquidationThreshold(word, n)) = Loan(word)
           /\ Loan(setLiquidationBonus(word, n)) = <<getLtv(word), n, getBorrowingEnabled(word)>>
           /\ Loan(setDecimals(word, d)) = Loan(word)
           /\ Loan(setActive(word, on)) = Loan(word)
           /\ Loan(setFrozen(word, on)) = Loan(word)
           /\ Loan(setBorrowingEnabled(word, on)) = <<getLtv(word), getLiquidationBonus(word), on>>
           /\ Loan(setStableRateBorrowingEnabled(word, on)) = Loan(word)
           /\ Loan(setReserveFactor(word, n)) = Loan(word)
<1> DEFINE T(w) == Settings(w)
<1>1. \A w : Loan(w) = <<T(w).ltv, T(w).liquidationBonus, T(w).borrowingEnabled>>
  BY DEF Settings, Loan
<1>2. \A v : /\ [T(word) EXCEPT !.ltv = v].ltv = v
             /\ [T(word) EXCEPT !.ltv = v].liquidationBonus = T(word).liquidationBonus
             /\ [T(word) EXCEPT !.ltv = v].borrowingEnabled = T(word).borrowingEnabled
  BY DEF Settings
<1>3. \A v : /\ [T(word) EXCEPT !.liquidationBonus = v].ltv = T(word).ltv
             /\ [T(word) EXCEPT !.liquidationBonus = v].liquidationBonus = v
             /\ [T(word) EXCEPT !.liquidationBonus = v].borrowingEnabled = T(word).borrowingEnabled
  BY DEF Settings
<1>4. \A v : /\ [T(word) EXCEPT !.borrowingEnabled = v].ltv = T(word).ltv
             /\ [T(word) EXCEPT !.borrowingEnabled = v].liquidationBonus = T(word).liquidationBonus
             /\ [T(word) EXCEPT !.borrowingEnabled = v].borrowingEnabled = v
  BY DEF Settings
<1>5. \A v : \A t \in {[T(word) EXCEPT !.liquidationThreshold = v], [T(word) EXCEPT !.decimals = v],
                       [T(word) EXCEPT !.active = v], [T(word) EXCEPT !.frozen = v],
                       [T(word) EXCEPT !.stableRateBorrowingEnabled = v],
                       [T(word) EXCEPT !.reserveFactor = v]} :
             /\ t.ltv = T(word).ltv /\ t.liquidationBonus = T(word).liquidationBonus
             /\ t.borrowingEnabled = T(word).borrowingEnabled
  BY DEF Settings
<1>6. /\ T(word).ltv = getLtv(word) /\ T(word).liquidationBonus = getLiquidationBonus(word)
      /\ T(word).borrowingEnabled = getBorrowingEnabled(word)
  BY DEF Settings
<1>7. /\ T(setLtv(word, n)) = [T(word) EXCEPT !.ltv = n]
      /\ T(setLiquidationThreshold(word, n)) = [T(word) EXCEPT !.liquidationThreshold = n]
      /\ T(setLiquidationBonus(word, n)) = [T(word) EXCEPT !.liquidationBonus = n]
      /\ T(setDecimals(word, d)) = [T(word) EXCEPT !.decimals = d]
      /\ T(setActive(word, on)) = [T(word) EXCEPT !.active = on]
      /\ T(setFrozen(word, on)) = [T(word) EXCEPT !.frozen = on]
      /\ T(setBorrowingEnabled(word, on)) = [T(word) EXCEPT !.borrowingEnabled = on]
      /\ T(setStableRateBorrowingEnabled(word, on)) = [T(word) EXCEPT !.stableRateBorrowingEnabled = on]
      /\ T(setReserveFactor(word, n)) = [T(word) EXCEPT !.reserveFactor = n]
  BY SettersKeepApart
<1> HIDE DEF T
<1>8. Loan(setLtv(word, n)) = <<n, getLiquidationBonus(word), getBorrowingEnabled(word)>>
  BY <1>1, <1>2, <1>6, <1>7
<1>9. Loan(setLiquidationBonus(word, n)) = <<getLtv(word), n, getBorrowingEnabled(word)>>
  BY <1>1, <1>3, <1>6, <1>7
<1>10. Loan(setBorrowingEnabled(word, on)) = <<getLtv(word), getLiquidationBonus(word), on>>
  BY <1>1, <1>4, <1>6, <1>7
<1>11. ASSUME NEW v, NEW t \in {[T(word) EXCEPT !.liquidationThreshold = v], [T(word) EXCEPT !.decimals = v],
                       [T(word) EXCEPT !.active = v], [T(word) EXCEPT !.frozen = v],
                       [T(word) EXCEPT !.stableRateBorrowingEnabled = v],
                       [T(word) EXCEPT !.reserveFactor = v]},
              NEW w, T(w) = t
       PROVE  Loan(w) = Loan(word)
  BY <1>1, <1>5, <1>11
<1>12. /\ Loan(setLiquidationThreshold(word, n)) = Loan(word)
       /\ Loan(setDecimals(word, d)) = Loan(word)
       /\ Loan(setActive(word, on)) = Loan(word)
       /\ Loan(setFrozen(word, on)) = Loan(word)
       /\ Loan(setStableRateBorrowingEnabled(word, on)) = Loan(word)
       /\ Loan(setReserveFactor(word, n)) = Loan(word)
  BY <1>7, <1>11, Zenon
<1> QED BY <1>8, <1>9, <1>10, <1>12, Zenon

LEMMA FactorWord ==
    ASSUME NEW word \in SUBSET KnownBit, NEW n
    PROVE  Loan(setReserveFactor(word, Bits(n, 16))) = Loan(word)
<1>1. word \in Word /\ {} \in Number(8) /\ Bits(n, 16) \in Number(16) /\ TRUE \in BOOLEAN
  BY KnownIsWord, BitsAreNumber DEF Number
<1> QED BY <1>1, LoanSettings

-----------------------------------------------------------------------------
(***************************************************************************)
(* Numbers in a word: the bits of a number add up to it.                   *)
(***************************************************************************)

LEMMA SomeBit ==
    ASSUME NEW n \in Nat, NEW b \in 0..15, (n \div 2^b) % 2 = 1
    PROVE  Bits(n, 16) # {}
<1>1. b \in 0..16 - 1
  OBVIOUS
<1>2. b \in {bit \in 0..16 - 1 : (n \div 2^bit) % 2 = 1}
  BY <1>1, Zenon
<1> QED BY <1>2 DEF Bits

LEMMA NoBits == Value({}) = 0
<1>1. {2^bit : bit \in {}} = {}
  OBVIOUS
<1> QED BY <1>1, SumSetEmpty DEF Value

\* The powers of 2 that bits of a setting stand for.
Power == [i \in 0..16 |-> 2^i]

LEMMA Powers ==
    /\ Power[0] = 1 /\ Power[1] = 2 /\ Power[2] = 4 /\ Power[3] = 8
    /\ Power[4] = 16 /\ Power[5] = 32 /\ Power[6] = 64 /\ Power[7] = 128
    /\ Power[8] = 256 /\ Power[9] = 512 /\ Power[10] = 1024 /\ Power[11] = 2048
    /\ Power[12] = 4096 /\ Power[13] = 8192 /\ Power[14] = 16384 /\ Power[15] = 32768
    /\ Power[16] = 65536
<1>1. Power[0] = 1
  BY DEF Power
<1>2. Power[1] = 2
  BY DEF Power
<1>3. Power[2] = 4
  BY DEF Power
<1>4. Power[3] = 8
  BY DEF Power
<1>5. Power[4] = 16
  BY DEF Power
<1>6. Power[5] = 32
  BY DEF Power
<1>7. Power[6] = 64
  BY DEF Power
<1>8. Power[7] = 128
  BY DEF Power
<1>9. Power[8] = 256
  BY DEF Power
<1>10. Power[9] = 512
  BY DEF Power
<1>11. Power[10] = 1024
  BY DEF Power
<1>12. Power[11] = 2048
  BY DEF Power
<1>13. Power[12] = 4096
  BY DEF Power
<1>14. Power[13] = 8192
  BY DEF Power
<1>15. Power[14] = 16384
  BY DEF Power
<1>16. Power[15] = 32768
  BY DEF Power
<1>17. Power[16] = 65536
  BY DEF Power
<1> QED BY <1>1, <1>2, <1>3, <1>4, <1>5, <1>6, <1>7, <1>8, <1>9,
           <1>10, <1>11, <1>12, <1>13, <1>14, <1>15, <1>16, <1>17

LEMMA PowersDiffer ==
    /\ \A i \in 0..15 : Power[i] \in Nat \ {0}
    /\ \A i \in 0..15 : Power[i] <= 32768 /\ Power[i + 1] = 2 * Power[i]
    /\ \A i, j \in 0..15 : i < j => Power[i] < Power[j]
<1> SUFFICES ASSUME NEW i \in 0..15
             PROVE  /\ Power[i] \in Nat \ {0}
                    /\ Power[i] <= 32768 /\ Power[i + 1] = 2 * Power[i]
                    /\ \A j \in 0..15 : i < j => Power[i] < Power[j]
  OBVIOUS
<1>1. \A k \in 0..15 : k \in {0, 1, 2, 3, 4, 5, 6, 7, 8, 9, 10, 11, 12, 13, 14, 15}
  OBVIOUS
<1>2. Power[i] \in Nat \ {0} /\ Power[i] <= 32768
  BY <1>1, Powers
<1>3. Power[i + 1] = 2 * Power[i]
  BY <1>1, Powers
<1>4. ASSUME NEW j \in 0..15, i < j PROVE Power[i] < Power[j]
  BY <1>1, <1>4, Powers
<1> QED BY <1>2, <1>3, <1>4

\* The bits below bit k of a number, and what bit k adds.
LEMMA NextBit ==
    ASSUME NEW n \in Nat, NEW k \in 0..15, Value(Bits(n, k)) \in Nat
    PROVE  /\ (n \div Power[k]) % 2 = 1 =>
                  Value(Bits(n, k + 1)) = Value(Bits(n, k)) + Power[k]
           /\ (n \div Power[k]) % 2 # 1 => Value(Bits(n, k + 1)) = Value(Bits(n, k))
<1> DEFINE Digit(bit) == (n \div 2^bit) % 2 = 1
           Worth(bits) == {2^bit : bit \in bits}
           lower == Bits(n, k)
<1>1. \A bits : Value(bits) = SumSet(Worth(bits))
  BY Zenon DEF Value
<1>2. Worth(lower \cup {k}) = Worth(lower) \cup {2^k}
  OBVIOUS
<1>3. Power[k] = 2^k
  BY DEF Power
<1>4. \A width : Bits(n, width) = {bit \in 0..width - 1 : Digit(bit)}
  BY Zenon DEF Bits
<1>5. (n \div Power[k]) % 2 = 1 <=> Digit(k)
  BY <1>3
<1> HIDE DEF Digit
<1>6. 0..k + 1 - 1 = (0..k - 1) \cup {k}
  OBVIOUS
<1>7. lower \subseteq 0..k - 1 /\ lower \subseteq 0..15
  BY <1>4
<1>8. Worth(lower) \subseteq {Power[bit] : bit \in lower}
  BY <1>7 DEF Power
<1>9. Worth(lower) \subseteq Nat /\ IsFiniteSet(Worth(lower)) /\ Power[k] \in Nat \ Worth(lower)
  <2>1. \A x \in Worth(lower) : x \in Nat /\ x <= 32768 /\ x < Power[k]
    <3>1. \A bit \in lower : bit \in 0..15 /\ bit < k
      BY <1>7
    <3>2. \A bit \in lower : Power[bit] \in Nat /\ Power[bit] <= 32768 /\ Power[bit] < Power[k]
      <4> SUFFICES ASSUME NEW bit \in lower
                   PROVE  Power[bit] \in Nat /\ Power[bit] <= 32768 /\ Power[bit] < Power[k]
        OBVIOUS
      <4>1. bit \in 0..15 /\ bit < k
        BY <3>1
      <4> QED BY <4>1, PowersDiffer
    <3> HIDE DEF Worth
    <3> QED BY <1>8, <3>2
  <2>2. Power[k] \in Nat
    BY PowersDiffer
  <2> HIDE DEF Worth
  <2>3. IsFiniteSet(Worth(lower))
    BY <2>1, FS_BoundedSetOfNaturals
  <2> QED BY <2>1, <2>2, <2>3
<1>10. CASE Digit(k)
  <2>1. Bits(n, k + 1) = lower \cup {k}
    BY <1>4, <1>6, <1>10
  <2> HIDE DEF lower, Worth
  <2>2. SumSet(Worth(lower) \cup {Power[k]}) = SumSet(Worth(lower)) + Power[k]
    BY <1>9, SumSetAdd
  <2>3. Value(Bits(n, k + 1)) = Value(lower) + Power[k]
    BY <1>1, <1>2, <1>3, <2>1, <2>2
  <2> QED BY <1>5, <1>10, <2>3 DEF lower
<1>11. CASE ~Digit(k)
  <2>1. Bits(n, k + 1) = lower
    BY <1>4, <1>6, <1>11
  <2> QED BY <1>5, <1>11, <2>1
<1> QED BY <1>10, <1>11

\* A quotient is known by its bounds.
LEMMA QuotientBounds ==
    ASSUME NEW a \in Nat, NEW b \in Nat \ {0}
    PROVE  /\ a \div b \in Nat
           /\ b * (a \div b) <= a /\ a < b * (a \div b) + b
           /\ \A q \in Nat : b * q <= a /\ a < b * q + b => a \div b = q
<1>1. /\ a \div b \in Int
      /\ a = b * (a \div b) + (a % b)
      /\ a % b \in 0..b - 1
  OBVIOUS
<1> DEFINE d == a \div b
           r == a % b
<1>2. d \in Int /\ r \in 0..b - 1 /\ a = b * d + r
  BY <1>1
<1> HIDE DEF d, r
<1>3. d \in Nat
  BY <1>2
<1>4. ASSUME NEW q \in Nat, b * q <= a, a < b * q + b PROVE d = q
  <2>1. CASE d < q
    <3>1. q = d + 1 + (q - d - 1) /\ q - d - 1 \in Nat
      BY <1>3, <2>1
    <3>2. b * q = b * d + b + b * (q - d - 1) /\ b * (q - d - 1) >= 0
      BY <1>3, <3>1
    <3> QED BY <1>2, <1>3, <1>4, <3>2
  <2>2. CASE q < d
    <3>1. d = q + 1 + (d - q - 1) /\ d - q - 1 \in Nat
      BY <1>3, <2>2
    <3>2. b * d = b * q + b + b * (d - q - 1) /\ b * (d - q - 1) >= 0
      BY <1>3, <3>1
    <3> QED BY <1>2, <1>3, <1>4, <3>2
  <2> QED BY <1>3, <2>1, <2>2
<1> QED BY <1>2, <1>3, <1>4 DEF d

LEMMA DivTwice ==
    ASSUME NEW n \in Nat, NEW m \in Nat \ {0}
    PROVE  n \div (2 * m) = (n \div m) \div 2
<1> DEFINE q == n \div m
           h == q \div 2
<1>1. q \in Nat /\ m * q <= n /\ n < m * q + m
  BY QuotientBounds
<1>2. h \in Nat /\ 2 * h <= q /\ q < 2 * h + 2
  <2> HIDE DEF q
  <2> QED BY <1>1, QuotientBounds
<1> HIDE DEF h, q
<1>3. m * (2 * h) <= m * q /\ m * (q + 1) <= m * (2 * h + 2)
  <2>1. q + 1 <= 2 * h + 2 /\ 2 * h \in Nat /\ 2 * h + 2 \in Nat /\ q + 1 \in Nat
    BY <1>1, <1>2
  <2>2. \A a, b \in Nat : a <= b => m * a <= m * b
    OBVIOUS
  <2> QED BY <1>1, <1>2, <2>1, <2>2
<1>4. m * (2 * h) = (2 * m) * h /\ m * (2 * h + 2) = (2 * m) * h + 2 * m
      /\ m * (q + 1) = m * q + m
  BY <1>1, <1>2
<1>5. (2 * m) * h \in Nat /\ m * q \in Nat /\ 2 * m \in Nat \ {0}
  BY <1>1, <1>2
<1>6. (2 * m) * h <= n /\ n < (2 * m) * h + 2 * m
  BY <1>1, <1>3, <1>4, <1>5
<1>7. n \div (2 * m) = h
  BY <1>2, <1>5, <1>6, QuotientBounds
<1> QED BY <1>7 DEF h, q

\* The bits below k and what is left above them.
AddUp(n, k) ==
    /\ Value(Bits(n, k)) \in Nat
    /\ Value(Bits(n, k)) + Power[k] * (n \div Power[k]) = n

LEMMA BitsAddUp ==
    ASSUME NEW n \in Nat, NEW k \in 0..15, AddUp(n, k)
    PROVE  AddUp(n, k + 1)
<1> DEFINE m == Power[k]
           low == Value(Bits(n, k))
           q == n \div m
           h == q \div 2
           next == Value(Bits(n, k + 1))
<1>1. m \in Nat \ {0} /\ Power[k + 1] = 2 * m
  BY PowersDiffer
<1>2. low \in Nat /\ low + m * q = n
  BY DEF AddUp
<1>3. (q % 2 = 1 => next = low + m) /\ (q % 2 # 1 => next = low)
  BY <1>2, NextBit
<1> HIDE DEF m, low, next
<1>4. q \in Nat
  BY <1>1, QuotientBounds
<1>5. n \div (2 * m) = h
  BY <1>1, DivTwice
<1> HIDE DEF q
<1>6. h \in Nat /\ (q % 2 = 1 => q = 2 * h + 1) /\ (q % 2 # 1 => q = 2 * h)
  BY <1>4
<1> HIDE DEF h
<1>7. m * (2 * h) = (2 * m) * h /\ m * (2 * h + 1) = (2 * m) * h + m /\ (2 * m) * h \in Nat
  BY <1>1, <1>6
<1>8. next \in Nat /\ next + (2 * m) * h = n
  <2>1. CASE q % 2 = 1
    <3>1. m * q = (2 * m) * h + m /\ next = low + m
      BY <1>3, <1>6, <1>7, <2>1
    <3> QED BY <1>1, <1>2, <1>7, <3>1
  <2>2. CASE q % 2 # 1
    <3>1. m * q = (2 * m) * h /\ next = low
      BY <1>3, <1>6, <1>7, <2>2
    <3> QED BY <1>2, <1>7, <3>1
  <2> QED BY <2>1, <2>2
<1> QED BY <1>1, <1>5, <1>8 DEF next, AddUp

\* A setting that has 16 bits is read back as it was given.
LEMMA BitsKeepValue ==
    ASSUME NEW n \in Nat, n < 65536
    PROVE  Value(Bits(n, 16)) = n
<1>1. AddUp(n, 0)
  <2>1. Bits(n, 0) = {} /\ Power[0] = 1 /\ n \div 1 = n
    BY Powers DEF Bits
  <2> QED BY <2>1, NoBits DEF AddUp
<1>2. ASSUME NEW k \in 0..15, AddUp(n, k) PROVE AddUp(n, k + 1)
  BY <1>2, BitsAddUp
<1>3. ASSUME NEW k \in {0, 4, 8, 12}, AddUp(n, k) PROVE AddUp(n, k + 4)
  <2>1. AddUp(n, k + 1)
    BY <1>2, <1>3
  <2>2. k + 1 \in 0..15 /\ k + 1 + 1 = k + 2
    OBVIOUS
  <2>3. AddUp(n, k + 2)
    BY <1>2, <2>1, <2>2
  <2>4. k + 2 \in 0..15 /\ k + 2 + 1 = k + 3
    OBVIOUS
  <2>5. AddUp(n, k + 3)
    BY <1>2, <2>3, <2>4
  <2>6. k + 3 \in 0..15 /\ k + 3 + 1 = k + 4
    OBVIOUS
  <2> QED BY <1>2, <2>5, <2>6
<1>4. AddUp(n, 8)
  <2>1. AddUp(n, 4)
    BY <1>1, <1>3
  <2> QED BY <1>3, <2>1
<1>5. AddUp(n, 16)
  <2>1. AddUp(n, 12)
    BY <1>3, <1>4
  <2> QED BY <1>3, <2>1
<1>6. Power[16] = 65536
  BY Powers
<1>7. n \div 65536 = 0
  <2>1. 65536 * 0 <= n /\ n < 65536 * 0 + 65536 /\ 0 \in Nat /\ 65536 \in Nat \ {0}
    OBVIOUS
  <2>2. \A b \in Nat \ {0} : b * 0 <= n /\ n < b * 0 + b => n \div b = 0
    BY QuotientBounds
  <2> QED BY <2>1, <2>2
<1>8. Value(Bits(n, 16)) \in Nat /\ Value(Bits(n, 16)) + 65536 * (n \div 65536) = n
  BY <1>5, <1>6 DEF AddUp
<1> QED BY <1>7, <1>8

=============================================================================
