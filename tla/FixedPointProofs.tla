-------------------------- MODULE FixedPointProofs --------------------------
(***************************************************************************)
(* Facts about rays that hold for every RAY: how far rounding may go, that *)
(* compounding never loses what was there, and what interest and the       *)
(* protocol's share of it add to the two sides of a balance sheet.         *)
(***************************************************************************)
EXTENDS FixedPoint, TLAPS

\* Division of natural numbers truncates.
LEMMA DivBounds ==
    ASSUME NEW a \in Nat, NEW b \in Nat \ {0}
    PROVE  /\ a \div b \in Nat
           /\ b * (a \div b) <= a
           /\ a < b * (a \div b) + b
  <1>1. /\ a \div b \in Int
        /\ a = b * (a \div b) + (a % b)
        /\ a % b \in 0..(b - 1)
    BY SMT
  <1>2. a \div b >= 0
    BY SMT
  <1> QED BY <1>1, <1>2

\* A quotient is the largest number whose product stays within the dividend.
LEMMA DivAtLeast ==
    ASSUME NEW a \in Nat, NEW b \in Nat \ {0}, NEW q \in Nat, q * b <= a
    PROVE  q <= a \div b
  OBVIOUS

LEMMA MulMono ==
    ASSUME NEW a \in Nat, NEW b \in Nat, NEW c \in Nat, b <= c
    PROVE  a * b <= a * c
  OBVIOUS

\* A common factor can be dropped.
LEMMA MulCancel ==
    ASSUME NEW a \in Nat, NEW b \in Nat, NEW c \in Nat \ {0}, c * a <= c * b
    PROVE  a <= b
  <1>1. ASSUME b + 1 <= a PROVE FALSE
    <2>1. c * (b + 1) <= c * a
      BY <1>1, MulMono
    <2> QED BY <2>1
  <1> QED BY <1>1

-----------------------------------------------------------------------------
(***************************************************************************)
(* Rounding half up is off by half a unit at most.                         *)
(***************************************************************************)

LEMMA RayMulBounds ==
    ASSUME NEW a \in Nat, NEW b \in Nat
    PROVE  /\ RayMul(a, b) \in Nat
           /\ RAY * RayMul(a, b) <= a * b + RAY \div 2
           /\ a * b + RAY \div 2 < RAY * RayMul(a, b) + RAY
  <1>1. RAY \in Nat \ {0} /\ RAY \div 2 \in Nat
    BY RAYAssumption, DivBounds
  <1>2. a * b + RAY \div 2 \in Nat
    BY <1>1
  <1> QED BY <1>1, <1>2, DivBounds DEF RayMul

LEMMA RayDivBounds ==
    ASSUME NEW a \in Nat, NEW b \in Nat \ {0}
    PROVE  /\ RayDiv(a, b) \in Nat
           /\ b * RayDiv(a, b) <= a * RAY + b \div 2
           /\ a * RAY + b \div 2 < b * RayDiv(a, b) + b
  <1>1. RAY \in Nat /\ b \div 2 \in Nat
    BY RAYAssumption, DivBounds
  <1>2. a * RAY + b \div 2 \in Nat
    BY <1>1
  <1> QED BY <1>2, DivBounds DEF RayDiv

\* An amount is worth its scaled amount, give or take one unit of the index.
LEMMA ScaledIsWorth ==
    ASSUME NEW amount \in Nat, NEW index \in Nat \ {0}, NEW most \in Nat, index <= most
    PROVE  /\ RayDiv(amount, index) * index <= amount * RAY + most
           /\ amount * RAY <= RayDiv(amount, index) * index + most
  <1> DEFINE scaled == RayDiv(amount, index)
  <1>1. RAY \in Nat /\ index \div 2 \in Nat /\ 2 * (index \div 2) <= index
    BY RAYAssumption, DivBounds
  <1>2. /\ scaled \in Nat
        /\ index * scaled <= amount * RAY + index \div 2
        /\ amount * RAY + index \div 2 < index * scaled + index
    BY RayDivBounds
  <1> HIDE DEF scaled
  <1>3. scaled * index <= amount * RAY + most /\ amount * RAY <= scaled * index + most
    BY <1>1, <1>2
  <1> QED BY <1>3 DEF scaled

LEMMA RayMulMono ==
    ASSUME NEW a \in Nat, NEW b \in Nat, NEW c \in Nat, a <= b
    PROVE  /\ RayMul(a, c) <= RayMul(b, c)
           /\ RayMul(c, a) <= RayMul(c, b)
  <1>1. RAY \in Nat \ {0} /\ RAY \div 2 \in Nat
    BY RAYAssumption, DivBounds
  <1>2. c * a <= c * b /\ a * c = c * a /\ b * c = c * b
    BY MulMono
  <1>3. /\ RayMul(c, a) \in Nat
        /\ RAY * RayMul(c, a) <= c * a + RAY \div 2
    BY RayMulBounds
  <1>4. /\ c * b + RAY \div 2 \in Nat
        /\ RayMul(c, a) * RAY <= c * b + RAY \div 2
    BY <1>1, <1>2, <1>3
  <1>5. RayMul(c, a) <= RayMul(c, b)
    BY <1>1, <1>3, <1>4, DivAtLeast DEF RayMul
  <1>6. RayMul(a, c) = RayMul(c, a) /\ RayMul(b, c) = RayMul(c, b)
    BY <1>2 DEF RayMul
  <1> QED BY <1>5, <1>6

\* Multiplying by at least one ray loses nothing.
LEMMA RayMulGrows ==
    ASSUME NEW a \in Nat, NEW b \in Nat, RAY <= a
    PROVE  b <= RayMul(a, b)
  <1>1. RAY \in Nat \ {0} /\ RAY \div 2 \in Nat
    BY RAYAssumption, DivBounds
  <1>2. b * RAY <= b * a /\ b * a = a * b
    BY <1>1, MulMono
  <1>3. b * RAY <= a * b + RAY \div 2 /\ a * b + RAY \div 2 \in Nat
    BY <1>1, <1>2
  <1> QED BY <1>1, <1>3, DivAtLeast DEF RayMul

\* One ray is the unit.
LEMMA RayMulOne ==
    ASSUME NEW b \in Nat
    PROVE  RayMul(RAY, b) = b
  <1>1. RAY \in Nat \ {0} /\ RAY \div 2 \in Nat /\ RAY \div 2 < RAY
    BY RAYAssumption, DivBounds
  <1>2. /\ RayMul(RAY, b) \in Nat
        /\ RAY * RayMul(RAY, b) <= RAY * b + RAY \div 2
    BY <1>1, RayMulBounds
  <1>3. b <= RayMul(RAY, b)
    BY <1>1, RayMulGrows
  <1>4. ASSUME b + 1 <= RayMul(RAY, b) PROVE FALSE
    <2>1. RAY * (b + 1) <= RAY * RayMul(RAY, b)
      BY <1>1, <1>2, <1>4, MulMono
    <2>2. RAY * (b + 1) = RAY * b + RAY
      BY <1>1
    <2> QED BY <1>1, <1>2, <2>1, <2>2
  <1> QED BY <1>2, <1>3, <1>4

(***************************************************************************)
(* The rounding of a repayment.  Paying all that the debt token reports    *)
(* burns all scaled debt, although the amount is rounded once when it is   *)
(* reported, at index i, and once when it is burned, at index j: half up   *)
(* at both ends is enough as long as j is neither below a ray nor above i. *)
(***************************************************************************)
LEMMA FullPaymentBurnsAll ==
    ASSUME NEW s \in Nat, NEW i \in Nat, NEW j \in Nat, RAY <= j, j <= i
    PROVE  s <= RayDiv(RayMul(s, i), j)
  <1> DEFINE m == RayMul(s, i)
             h == RAY \div 2
             k == j \div 2
  <1>1. RAY \in Nat \ {0} /\ j \in Nat \ {0}
    BY RAYAssumption
  <1>2. /\ h \in Nat /\ 2 * h <= RAY /\ RAY < 2 * h + 2
        /\ k \in Nat /\ 2 * k <= j /\ j < 2 * k + 2
    BY <1>1, DivBounds
  <1>3. m \in Nat /\ s * i + h < RAY * m + RAY
    BY RayMulBounds
  <1>4. s * j <= s * i /\ s * j \in Nat /\ s * i \in Nat
    BY MulMono
  <1>5. RAY * m = m * RAY /\ m * RAY \in Nat
    BY <1>1, <1>3
  <1> HIDE DEF m, h, k
  <1>6. s * j <= m * RAY + k
    BY <1>1, <1>2, <1>3, <1>4, <1>5
  <1>7. m * RAY + k \in Nat
    BY <1>2, <1>5
  <1>8. s <= (m * RAY + k) \div j
    BY <1>1, <1>6, <1>7, DivAtLeast
  <1> QED BY <1>8 DEF RayDiv, m, k

\* What a payment burns is worth no more than the payment, up to the value of
\* one scaled unit.
LEMMA BurnedIsPaidFor ==
    ASSUME NEW a \in Nat, NEW j \in Nat \ {0}
    PROVE  RayMul(RayDiv(a, j), j) <= a + RayMul(1, j)
  <1> DEFINE q == RayDiv(a, j)
             h == RAY \div 2
             k == j \div 2
             m == RayMul(q, j)
             u == RayMul(1, j)
  <1>1. RAY \in Nat \ {0} /\ h \in Nat /\ k \in Nat /\ k <= j
    BY RAYAssumption, DivBounds
  <1>2. q \in Nat /\ j * q <= a * RAY + k
    BY RayDivBounds
  <1>3. m \in Nat /\ RAY * m <= q * j + h
    BY <1>2, RayMulBounds
  <1>4. u \in Nat /\ 1 * j + h < RAY * u + RAY
    BY RayMulBounds
  <1> HIDE DEF q, h, k, m, u
  <1>5. q * j = j * q /\ RAY * (a + u + 1) = a * RAY + RAY * u + RAY
    BY <1>1, <1>2, <1>4
  <1>6. ASSUME a + u + 1 <= m PROVE FALSE
    <2>1. RAY * (a + u + 1) <= RAY * m
      BY <1>1, <1>3, <1>4, <1>6, MulMono
    <2>2. /\ RAY * m \in Int /\ RAY * (a + u + 1) \in Int /\ a * RAY \in Int
          /\ RAY * u \in Int /\ j * q \in Int
      BY <1>1, <1>2, <1>3, <1>4
    <2> QED BY <1>1, <1>2, <1>3, <1>4, <1>5, <2>1, <2>2
  <1>7. m <= a + u
    BY <1>3, <1>4, <1>6
  <1> QED BY <1>7 DEF m, u, q

-----------------------------------------------------------------------------
(***************************************************************************)
(* Growth over time.                                                       *)
(***************************************************************************)

LEMMA LinearAtLeastRay ==
    ASSUME NEW rate \in Nat, NEW elapsed \in Nat
    PROVE  /\ LinearInterest(rate, elapsed) \in Nat
           /\ RAY <= LinearInterest(rate, elapsed)
  <1>1. rate * elapsed \in Nat
    OBVIOUS
  <1>2. (rate * elapsed) \div SECONDS_PER_YEAR \in Nat
    BY <1>1, YearAssumption, DivBounds
  <1> QED BY <1>2, RAYAssumption DEF LinearInterest

LEMMA CompoundedAtLeastLinear ==
    ASSUME NEW rate \in Nat, NEW elapsed \in Nat
    PROVE  /\ CompoundedInterest(rate, elapsed) \in Nat
           /\ RAY + (rate \div SECONDS_PER_YEAR) * elapsed <= CompoundedInterest(rate, elapsed)
  <1> DEFINE perSecond == rate \div SECONDS_PER_YEAR
             squared == RayMul(perSecond, perSecond)
             cubed == RayMul(squared, perSecond)
             minusTwo == IF elapsed > 2 THEN elapsed - 2 ELSE 0
             one == perSecond * elapsed
             two == (elapsed * (elapsed - 1) * squared) \div 2
             three == (elapsed * (elapsed - 1) * minusTwo * cubed) \div 6
  <1>0. RAY \in Nat
    BY RAYAssumption
  <1>1. perSecond \in Nat
    BY YearAssumption, DivBounds
  <1>2. squared \in Nat
    BY <1>1, RayMulBounds
  <1>3. cubed \in Nat /\ minusTwo \in Nat
    BY <1>1, <1>2, RayMulBounds
  <1> HIDE DEF perSecond, squared, cubed, minusTwo
  <1> DEFINE grown == CompoundedInterest(rate, elapsed)
  <1> SUFFICES grown \in Nat /\ RAY + perSecond * elapsed <= grown
    BY DEF perSecond
  <1>4. CASE elapsed = 0
    <2>1. grown = RAY /\ perSecond * elapsed = 0
      BY <1>1, <1>4 DEF CompoundedInterest
    <2> QED BY <1>0, <2>1
  <1>5. CASE elapsed # 0
    <2>1. elapsed - 1 \in Nat
      BY <1>5
    <2>2. elapsed * (elapsed - 1) \in Nat
      BY <2>1
    <2>3. elapsed * (elapsed - 1) * squared \in Nat
      BY <1>2, <2>2
    <2>4. elapsed * (elapsed - 1) * minusTwo \in Nat
      BY <1>3, <2>2
    <2>5. elapsed * (elapsed - 1) * minusTwo * cubed \in Nat
      BY <1>3, <2>4
    <2>6. one \in Nat /\ two \in Nat /\ three \in Nat
      BY <1>1, <2>3, <2>5, DivBounds
    <2>7. CompoundedInterest(rate, elapsed) = RAY + one + two + three
      BY <1>5 DEF CompoundedInterest, perSecond, squared, cubed, minusTwo
    <2>8. one = perSecond * elapsed
      OBVIOUS
    <2> HIDE DEF one, two, three
    <2> QED BY <1>0, <2>6, <2>7, <2>8
  <1> QED BY <1>4, <1>5

\* So it is at least one ray.
LEMMA CompoundedAtLeastRay ==
    ASSUME NEW rate \in Nat, NEW elapsed \in Nat
    PROVE  /\ CompoundedInterest(rate, elapsed) \in Nat
           /\ RAY <= CompoundedInterest(rate, elapsed)
  <1>1. (rate \div SECONDS_PER_YEAR) * elapsed \in Nat /\ RAY \in Nat
    <2>1. rate \div SECONDS_PER_YEAR \in Nat
      BY YearAssumption, DivBounds
    <2> DEFINE perSecond == rate \div SECONDS_PER_YEAR
    <2> HIDE DEF perSecond
    <2>2. perSecond * elapsed \in Nat
      BY <2>1 DEF perSecond
    <2> QED BY <2>2, RAYAssumption DEF perSecond
  <1> DEFINE grown == (rate \div SECONDS_PER_YEAR) * elapsed
  <1>2. CompoundedInterest(rate, elapsed) \in Nat /\ RAY + grown <= CompoundedInterest(rate, elapsed)
    BY CompoundedAtLeastLinear
  <1> HIDE DEF grown
  <1> QED BY <1>1, <1>2 DEF grown

-----------------------------------------------------------------------------
(***************************************************************************)
(* How the operators grow.                                                 *)
(***************************************************************************)

\* A supply rate that stays within the whole rays per second of the borrow rate
\* grows linearly to no more than the borrow rate compounds to.
LEMMA LinearWithinCompounded ==
    ASSUME NEW rate \in Nat, NEW borrowRate \in Nat, NEW elapsed \in Nat,
           rate <= SECONDS_PER_YEAR * (borrowRate \div SECONDS_PER_YEAR)
    PROVE  LinearInterest(rate, elapsed) <= CompoundedInterest(borrowRate, elapsed)
  <1> DEFINE perSecond == borrowRate \div SECONDS_PER_YEAR
             squared == RayMul(perSecond, perSecond)
             cubed == RayMul(squared, perSecond)
             minusTwo == IF elapsed > 2 THEN elapsed - 2 ELSE 0
             earned == (rate * elapsed) \div SECONDS_PER_YEAR
             two == (elapsed * (elapsed - 1) * squared) \div 2
             three == (elapsed * (elapsed - 1) * minusTwo * cubed) \div 6
  <1>1. RAY \in Nat /\ SECONDS_PER_YEAR \in Nat \ {0}
    BY RAYAssumption, YearAssumption
  <1>2. perSecond \in Nat
    BY <1>1, DivBounds
  <1>3. squared \in Nat /\ minusTwo \in Nat
    BY <1>2, RayMulBounds
  <1>4. cubed \in Nat
    BY <1>2, <1>3, RayMulBounds
  <1>5. /\ earned \in Nat
        /\ SECONDS_PER_YEAR * earned <= rate * elapsed
    <2>1. rate * elapsed \in Nat
      OBVIOUS
    <2> QED BY <1>1, <2>1, DivBounds
  <1>6. rate <= SECONDS_PER_YEAR * perSecond
    OBVIOUS
  <1>7. LinearInterest(rate, elapsed) = earned + RAY
    BY DEF LinearInterest
  <1>8. elapsed # 0 => CompoundedInterest(borrowRate, elapsed)
                           = RAY + perSecond * elapsed + two + three
    BY DEF CompoundedInterest
  <1>9. elapsed = 0 => CompoundedInterest(borrowRate, elapsed) = RAY
    BY DEF CompoundedInterest
  <1> HIDE DEF perSecond, squared, cubed, minusTwo, earned
  <1>10. earned <= perSecond * elapsed
    <2>1. rate * elapsed <= (SECONDS_PER_YEAR * perSecond) * elapsed
      <3>1. SECONDS_PER_YEAR * perSecond \in Nat
        BY <1>1, <1>2
      <3>2. elapsed * rate <= elapsed * (SECONDS_PER_YEAR * perSecond)
        BY <1>6, <3>1, MulMono
      <3> QED BY <3>1, <3>2
    <2>2. (SECONDS_PER_YEAR * perSecond) * elapsed = SECONDS_PER_YEAR * (perSecond * elapsed)
      BY <1>1, <1>2
    <2>3. perSecond * elapsed \in Nat
      BY <1>2
    <2> DEFINE paid == perSecond * elapsed
    <2>4. SECONDS_PER_YEAR * earned <= SECONDS_PER_YEAR * paid
      BY <1>1, <1>5, <2>1, <2>2, <2>3
    <2>5. paid \in Nat
      BY <2>3
    <2> HIDE DEF paid
    <2>6. ASSUME paid + 1 <= earned PROVE FALSE
      <3>1. SECONDS_PER_YEAR * (paid + 1) <= SECONDS_PER_YEAR * earned
        BY <1>1, <1>5, <2>5, <2>6, MulMono
      <3>2. SECONDS_PER_YEAR * (paid + 1) = SECONDS_PER_YEAR * paid + SECONDS_PER_YEAR
        BY <1>1, <2>5
      <3>3. SECONDS_PER_YEAR * paid \in Nat
        BY <1>1, <2>5
      <3> QED BY <1>1, <1>5, <2>4, <3>1, <3>2, <3>3
    <2>7. earned <= paid
      BY <1>5, <2>5, <2>6
    <2> QED BY <2>7 DEF paid
  <1>11. CASE elapsed = 0
    <2>1. perSecond * elapsed = 0
      BY <1>2, <1>11
    <2>2. earned = 0
      BY <1>5, <1>10, <2>1
    <2> QED BY <1>1, <1>7, <1>9, <1>11, <2>2
  <1>12. CASE elapsed # 0
    <2>1. elapsed * (elapsed - 1) \in Nat
      BY <1>12
    <2>2. elapsed * (elapsed - 1) * squared \in Nat
      BY <1>3, <2>1
    <2>3. elapsed * (elapsed - 1) * minusTwo \in Nat
      BY <1>3, <2>1
    <2>4. elapsed * (elapsed - 1) * minusTwo * cubed \in Nat
      BY <1>4, <2>3
    <2>5. two \in Nat /\ three \in Nat
      BY <2>2, <2>4, DivBounds
    <2>6. perSecond * elapsed \in Nat
      BY <1>2
    <2> HIDE DEF two, three
    <2> QED BY <1>1, <1>5, <1>7, <1>8, <1>10, <1>12, <2>5, <2>6
  <1> QED BY <1>11, <1>12

LEMMA RayMulZero ==
    ASSUME NEW b \in Nat
    PROVE  RayMul(0, b) = 0 /\ RayMul(b, 0) = 0
  <1>1. RAY \in Nat \ {0} /\ RAY \div 2 \in Nat /\ RAY \div 2 < RAY
    BY RAYAssumption, DivBounds
  <1>2. (RAY \div 2) \div RAY = 0
    BY <1>1
  <1>3. 0 * b = 0 /\ b * 0 = 0
    OBVIOUS
  <1> QED BY <1>1, <1>2, <1>3 DEF RayMul

LEMMA RayMulUnit ==
    ASSUME NEW a \in Nat
    PROVE  RayMul(a, RAY) = a
  <1>1. a * RAY = RAY * a
    BY RAYAssumption
  <1> QED BY <1>1, RayMulOne DEF RayMul

LEMMA DivMono ==
    ASSUME NEW a \in Nat, NEW b \in Nat, NEW c \in Nat \ {0}, a <= b
    PROVE  a \div c <= b \div c
  <1>1. a \div c \in Nat /\ c * (a \div c) <= a
    BY DivBounds
  <1> DEFINE q == a \div c
  <1>2. q \in Nat /\ q * c = c * q
    BY <1>1
  <1>3. q * c <= b
    BY <1>1, <1>2
  <1> HIDE DEF q
  <1>4. q <= b \div c
    BY <1>2, <1>3, DivAtLeast
  <1> QED BY <1>4 DEF q

LEMMA ProductMono ==
    ASSUME NEW a \in Nat, NEW b \in Nat, NEW c \in Nat, NEW d \in Nat,
           a <= b, c <= d
    PROVE  a * c <= b * d /\ a * c \in Nat /\ b * d \in Nat
  <1>1. a * c <= a * d
    BY MulMono
  <1>2. d * a <= d * b
    BY MulMono
  <1>3. d * a = a * d /\ d * b = b * d
    OBVIOUS
  <1>4. a * c \in Nat /\ a * d \in Nat /\ b * d \in Nat
    OBVIOUS
  <1> QED BY <1>1, <1>2, <1>3, <1>4

LEMMA LinearMono ==
    ASSUME NEW rate \in Nat, NEW d \in Nat, NEW e \in Nat, d <= e
    PROVE  LinearInterest(rate, d) <= LinearInterest(rate, e)
  <1>1. rate * d <= rate * e /\ rate * d \in Nat /\ rate * e \in Nat
    BY MulMono
  <1> DEFINE a == rate * d
             b == rate * e
  <1>2. a \in Nat /\ b \in Nat /\ a <= b
    BY <1>1
  <1> HIDE DEF a, b
  <1>3. /\ a \div SECONDS_PER_YEAR <= b \div SECONDS_PER_YEAR
        /\ a \div SECONDS_PER_YEAR \in Nat /\ b \div SECONDS_PER_YEAR \in Nat
    BY <1>2, DivMono, DivBounds, YearAssumption
  <1>4. /\ LinearInterest(rate, d) = a \div SECONDS_PER_YEAR + RAY
        /\ LinearInterest(rate, e) = b \div SECONDS_PER_YEAR + RAY
    BY DEF LinearInterest, a, b
  <1> DEFINE x == a \div SECONDS_PER_YEAR
             y == b \div SECONDS_PER_YEAR
  <1> HIDE DEF x, y
  <1>5. x <= y /\ x \in Nat /\ y \in Nat
    BY <1>3 DEF x, y
  <1>6. x + RAY <= y + RAY
    BY <1>5, RAYAssumption
  <1> QED BY <1>4, <1>6 DEF x, y

LEMMA CompoundedMono ==
    ASSUME NEW rate \in Nat, NEW d \in Nat, NEW e \in Nat, d <= e
    PROVE  CompoundedInterest(rate, d) <= CompoundedInterest(rate, e)
  <1> DEFINE perSecond == rate \div SECONDS_PER_YEAR
             squared == RayMul(perSecond, perSecond)
             cubed == RayMul(squared, perSecond)
             Less(t) == IF t > 2 THEN t - 2 ELSE 0
             Two(t) == t * (t - 1) * squared
             Three(t) == t * (t - 1) * Less(t) * cubed
  <1>1. RAY \in Nat
    BY RAYAssumption
  <1>2. perSecond \in Nat
    BY YearAssumption, DivBounds
  <1>3. squared \in Nat
    BY <1>2, RayMulBounds
  <1>4. cubed \in Nat
    BY <1>2, <1>3, RayMulBounds
  <1>5. \A t \in Nat \ {0} : CompoundedInterest(rate, t) =
            RAY + perSecond * t + Two(t) \div 2 + Three(t) \div 6
    BY DEF CompoundedInterest
  <1>6. CASE d = 0
    <2>1. CompoundedInterest(rate, d) = RAY
      BY <1>6 DEF CompoundedInterest
    <2> QED BY <2>1, CompoundedAtLeastRay
  <1>7. CASE d # 0
    <2> HIDE DEF perSecond, squared, cubed
    <2>1. d \in Nat \ {0} /\ e \in Nat \ {0}
      BY <1>7
    <2>2. d - 1 \in Nat /\ e - 1 \in Nat /\ d - 1 <= e - 1
      BY <2>1
    <2>3. Less(d) \in Nat /\ Less(e) \in Nat /\ Less(d) <= Less(e)
      OBVIOUS
    <2>4. perSecond * d <= perSecond * e /\ perSecond * d \in Nat /\ perSecond * e \in Nat
      BY <1>2, ProductMono
    <2> DEFINE dd == d * (d - 1)
               ee == e * (e - 1)
    <2>5. dd <= ee /\ dd \in Nat /\ ee \in Nat
      BY <2>2, ProductMono
    <2> HIDE DEF dd, ee, Less
    <2>6. dd * squared <= ee * squared /\ dd * squared \in Nat /\ ee * squared \in Nat
      BY <1>3, <2>5, ProductMono
    <2> DEFINE ddl == dd * Less(d)
               eel == ee * Less(e)
    <2>7. ddl <= eel /\ ddl \in Nat /\ eel \in Nat
      BY <2>3, <2>5, ProductMono
    <2> HIDE DEF ddl, eel
    <2>8. ddl * cubed <= eel * cubed /\ ddl * cubed \in Nat /\ eel * cubed \in Nat
      BY <1>4, <2>7, ProductMono
    <2>9. /\ Two(d) <= Two(e) /\ Two(d) \in Nat /\ Two(e) \in Nat
          /\ Three(d) <= Three(e) /\ Three(d) \in Nat /\ Three(e) \in Nat
      BY <2>6, <2>8 DEF dd, ee, ddl, eel
    <2> HIDE DEF Two, Three
    <2>10. /\ Two(d) \div 2 <= Two(e) \div 2
           /\ Three(d) \div 6 <= Three(e) \div 6
           /\ Two(d) \div 2 \in Nat /\ Two(e) \div 2 \in Nat
           /\ Three(d) \div 6 \in Nat /\ Three(e) \div 6 \in Nat
      BY <2>9, DivMono, DivBounds
    <2>11. /\ CompoundedInterest(rate, d)
                  = RAY + perSecond * d + Two(d) \div 2 + Three(d) \div 6
           /\ CompoundedInterest(rate, e)
                  = RAY + perSecond * e + Two(e) \div 2 + Three(e) \div 6
      BY <1>5, <2>1
    <2> DEFINE d1 == perSecond * d
               e1 == perSecond * e
               d2 == Two(d) \div 2
               e2 == Two(e) \div 2
               d3 == Three(d) \div 6
               e3 == Three(e) \div 6
    <2>12. /\ d1 \in Nat /\ e1 \in Nat /\ d1 <= e1
           /\ d2 \in Nat /\ e2 \in Nat /\ d2 <= e2
           /\ d3 \in Nat /\ e3 \in Nat /\ d3 <= e3
      BY <2>4, <2>10
    <2> HIDE DEF d1, e1, d2, e2, d3, e3
    <2>13. RAY + d1 + d2 + d3 <= RAY + e1 + e2 + e3
      BY <1>1, <2>12
    <2> QED BY <2>11, <2>13 DEF d1, e1, d2, e2, d3, e3
  <1> QED BY <1>6, <1>7

\* Without a rate nothing compounds.
LEMMA CompoundedNoRate ==
    ASSUME NEW elapsed \in Nat
    PROVE  CompoundedInterest(0, elapsed) = RAY
  <1>1. RAY \in Nat
    BY RAYAssumption
  <1>2. 0 \div SECONDS_PER_YEAR = 0
    BY YearAssumption
  <1>3. RayMul(0, 0) = 0
    BY RayMulZero
  <1> DEFINE minusTwo == IF elapsed > 2 THEN elapsed - 2 ELSE 0
  <1>4. /\ 0 * elapsed = 0
        /\ (elapsed * (elapsed - 1) * 0) \div 2 = 0
        /\ (elapsed * (elapsed - 1) * minusTwo * 0) \div 6 = 0
    <2>1. minusTwo \in Int /\ elapsed * (elapsed - 1) \in Int
      OBVIOUS
    <2> HIDE DEF minusTwo
    <2>2. elapsed * (elapsed - 1) * minusTwo \in Int
      BY <2>1
    <2> QED BY <2>1, <2>2
  <1> HIDE DEF minusTwo
  <1>5. CompoundedInterest(0, elapsed) =
            IF elapsed = 0 THEN RAY
            ELSE RAY + 0 * elapsed + (elapsed * (elapsed - 1) * 0) \div 2
                     + (elapsed * (elapsed - 1) * minusTwo * 0) \div 6
    BY <1>2, <1>3 DEF CompoundedInterest, minusTwo
  <1> QED BY <1>1, <1>4, <1>5

LEMMA RayDivUnit ==
    ASSUME NEW a \in Nat
    PROVE  RayDiv(a, RAY) = a
  <1> DEFINE half == RAY \div 2
  <1>1. /\ RAY \in Nat \ {0} /\ half \in Nat /\ half < RAY
        /\ a * RAY \in Nat
    BY RAYAssumption, DivBounds
  <1>2. /\ RayDiv(a, RAY) \in Nat
        /\ RAY * RayDiv(a, RAY) <= a * RAY + half
    BY <1>1, RayDivBounds
  <1>3. a <= RayDiv(a, RAY)
    <2> HIDE DEF half
    <2>1. a * RAY <= a * RAY + half /\ a * RAY + half \in Nat
      BY <1>1
    <2>2. a <= (a * RAY + half) \div RAY
      BY <1>1, <2>1, DivAtLeast
    <2> QED BY <2>2 DEF RayDiv, half
  <1> DEFINE q == RayDiv(a, RAY)
  <1> HIDE DEF half, q
  <1>4. ASSUME a + 1 <= q PROVE FALSE
    <2>1. RAY * (a + 1) <= RAY * q
      BY <1>1, <1>2, <1>4, MulMono DEF q
    <2>2. RAY * (a + 1) = a * RAY + RAY
      BY <1>1
    <2>3. RAY * q \in Nat
      BY <1>1, <1>2 DEF q
    <2> QED BY <1>1, <1>2, <2>1, <2>2, <2>3 DEF q
  <1> QED BY <1>2, <1>3, <1>4 DEF q

-----------------------------------------------------------------------------
(***************************************************************************)
(* Interest on the two sides of a balance sheet, in numbers.               *)
(***************************************************************************)

\* What suppliers earn at the rate of the strategy on the whole sheet of a reserve, its
\* underlying and its debt, is their part of what the debt bears: the
\* utilisation that scales the rate down is the debt's share of the sheet, and
\* the overall rate is the borrow rate but for its roundings.
LEMMA RateOnSheet ==
    ASSUME NEW borrowRate \in Nat, NEW overall \in Nat, NEW kept \in Nat,
           NEW elapsed \in Nat, NEW owed \in Nat, NEW sheet \in Nat,
           NEW utilization \in Nat, owed <= sheet,
           2 * (owed * overall) <= 2 * (owed * borrowRate) + RAY + owed,
           overall <= borrowRate + RAY,
           2 * (sheet * utilization) <= 2 * (owed * RAY) + sheet
    PROVE  LET rate == PercentMul(RayMul(overall, utilization), kept)
               growth == (rate * elapsed) \div SECONDS_PER_YEAR
               perSecond == borrowRate \div SECONDS_PER_YEAR
           IN  2 * (PERCENTAGE_FACTOR * (RAY * (growth * sheet)))
                   <= (kept * elapsed)
                          * ((perSecond + 1) * (2 * (owed * RAY) + sheet)
                             + 3 * (sheet * RAY) + RAY * RAY)
  <1> DEFINE whole == RayMul(overall, utilization)
             rate == PercentMul(whole, kept)
             earned == rate * elapsed
             growth == earned \div SECONDS_PER_YEAR
             perSecond == borrowRate \div SECONDS_PER_YEAR
             F == PERCENTAGE_FACTOR
             Y == SECONDS_PER_YEAR
             base == 2 * (owed * RAY) + sheet
             extra == 3 * (sheet * RAY) + RAY * RAY
             bound == (perSecond + 1) * base + extra
  <1>1. RAY \in Nat /\ Y \in Nat \ {0} /\ F \in Nat \ {0} /\ RAY \div 2 \in Nat
        /\ 2 * (RAY \div 2) <= RAY
    BY RAYAssumption, YearAssumption, DivBounds DEF PERCENTAGE_FACTOR
  <1>2. whole \in Nat /\ RAY * whole <= overall * utilization + RAY \div 2
    BY RayMulBounds
  <1> HIDE DEF whole
  <1>3. rate \in Nat /\ F * rate <= whole * kept
    <2>1. whole * kept \in Nat
      BY <1>2
    <2> QED BY <1>1, <2>1, DivBounds DEF PercentMul
  <1> HIDE DEF rate
  <1>4. growth \in Nat /\ Y * growth <= rate * elapsed
    <2>1. earned \in Nat
      BY <1>3
    <2> HIDE DEF earned
    <2>2. growth \in Nat /\ Y * growth <= earned
      BY <1>1, <2>1, DivBounds
    <2> QED BY <2>2 DEF earned
  <1>5. perSecond \in Nat /\ borrowRate <= Y * (perSecond + 1)
    <2>1. perSecond \in Nat /\ borrowRate < Y * perSecond + Y
      BY <1>1, DivBounds
    <2> HIDE DEF perSecond
    <2> QED BY <1>1, <2>1
  <1>6. base \in Nat /\ extra \in Nat
    BY <1>1
  <1> HIDE DEF growth, perSecond, F, Y, base, extra
  <1>7. bound \in Nat
    BY <1>1, <1>5, <1>6
  <1>8. (2 * (RAY * sheet)) * (F * (Y * growth)) <= (2 * (RAY * sheet)) * (F * (rate * elapsed))
    <2>1. F * (Y * growth) <= F * (rate * elapsed)
      BY <1>1, <1>3, <1>4, MulMono
    <2> QED BY <1>1, <1>3, <1>4, <2>1, MulMono
  <1>9. (2 * (RAY * sheet) * elapsed) * (F * rate) <= (2 * (RAY * sheet) * elapsed) * (whole * kept)
    BY <1>1, <1>2, <1>3, MulMono
  <1>10. (kept * elapsed * sheet) * (2 * (RAY * whole))
             <= (kept * elapsed * sheet) * (2 * (overall * utilization) + RAY)
    <2>1. 2 * (RAY * whole) <= 2 * (overall * utilization) + RAY
      BY <1>1, <1>2
    <2> QED BY <1>1, <1>2, <2>1, MulMono
  <1>11. (kept * elapsed) * (overall * (2 * (sheet * utilization)) + sheet * RAY)
             <= (kept * elapsed) * (borrowRate * base + extra)
    <2>1. overall * (2 * (sheet * utilization)) <= overall * base
      BY <1>1, <1>6, MulMono DEF base
    <2>2. RAY * (2 * (owed * overall)) <= RAY * (2 * (owed * borrowRate) + RAY + owed)
      BY <1>1, MulMono
    <2>3. sheet * overall <= sheet * (borrowRate + RAY) /\ RAY * owed <= RAY * sheet
      BY <1>1, MulMono
    <2>4. overall * (2 * (sheet * utilization)) + sheet * RAY <= borrowRate * base + extra
      BY <1>1, <2>1, <2>2, <2>3 DEF base, extra
    <2> QED BY <1>1, <1>6, <2>4, MulMono
  <1>12. (kept * elapsed) * (base * borrowRate) <= (kept * elapsed) * (base * (Y * (perSecond + 1)))
    <2>1. base * borrowRate <= base * (Y * (perSecond + 1))
      BY <1>1, <1>5, <1>6, MulMono
    <2> QED BY <1>1, <1>5, <1>6, <2>1, MulMono
  <1>13. (kept * elapsed * extra) * 1 <= (kept * elapsed * extra) * Y
    <2>1. kept * elapsed * extra \in Nat /\ 1 \in Nat /\ 1 <= Y
      BY <1>1, <1>6
    <2> QED BY <1>1, <2>1, MulMono
  <1>14. Y * (2 * (F * (RAY * (growth * sheet)))) <= Y * ((kept * elapsed) * bound)
    BY <1>1, <1>2, <1>3, <1>4, <1>5, <1>6, <1>8, <1>9, <1>10, <1>11, <1>12, <1>13
  <1>15. /\ 2 * (F * (RAY * (growth * sheet))) \in Nat
         /\ (kept * elapsed) * bound \in Nat
    BY <1>1, <1>4, <1>7
  <1> DEFINE left == 2 * (F * (RAY * (growth * sheet)))
             right == (kept * elapsed) * bound
  <1>16. left <= right
    <2>1. left \in Nat /\ right \in Nat /\ Y * left <= Y * right
      BY <1>14, <1>15
    <2> HIDE DEF left, right
    <2> QED BY <1>1, <2>1, MulCancel
  <1>17. right = (kept * elapsed) * ((perSecond + 1) * base + 3 * (sheet * RAY) + RAY * RAY)
    <2>1. (perSecond + 1) * base \in Nat /\ sheet * RAY \in Nat /\ RAY * RAY \in Nat
      BY <1>1, <1>5, <1>6
    <2>2. bound = (perSecond + 1) * base + 3 * (sheet * RAY) + RAY * RAY
      BY <2>1 DEF extra
    <2> QED BY <2>2
  <1> QED BY <1>16, <1>17, Zenon DEF left, growth, perSecond, F, Y, base, rate, whole, earned

\* An accrual in numbers: growth and perSecond * elapsed are what the two indexes
\* grow by, per ray; see InterestOnSheet for what the names stand for.
Accrual(R, F, kept, elapsed, L, B, D, P, n, growth, perSecond, owed, sheet, newL, newB, K) ==
    /\ R \in Nat /\ F \in Nat /\ kept \in Nat /\ elapsed \in Nat /\ L \in Nat /\ B \in Nat
    /\ D \in Nat /\ P \in Nat /\ n \in Nat /\ growth \in Nat /\ perSecond \in Nat
    /\ owed \in Nat /\ sheet \in Nat /\ newL \in Nat /\ newB \in Nat /\ K \in Nat
    /\ kept <= F /\ R <= B /\ B <= newB /\ 1 <= F /\ 1 <= R
    /\ growth <= perSecond * elapsed
    /\ 2 * (R * newL) <= 2 * ((R + growth) * L) + R
    /\ 2 * ((R + perSecond * elapsed) * B) <= 2 * (R * newB) + R
    /\ 2 * (P * L) <= 2 * (R * sheet) + R + 2 * (n * B)
    /\ 2 * (F * (R * (growth * sheet)))
           <= (kept * elapsed)
                  * ((perSecond + 1) * (2 * (owed * R) + sheet) + 3 * (sheet * R) + R * R)
    /\ 2 * (owed * R) <= 2 * (D * B) + R
    /\ P <= K * R /\ D <= K * R /\ sheet <= K * R /\ owed <= sheet /\ n <= 2 * R

LEMMA GrowthOnSheet ==
    ASSUME NEW R, NEW F, NEW kept, NEW elapsed, NEW L, NEW B, NEW D, NEW P, NEW n, NEW growth,
           NEW perSecond, NEW owed, NEW sheet, NEW newL, NEW newB, NEW K,
           Accrual(R, F, kept, elapsed, L, B, D, P, n, growth, perSecond, owed, sheet,
                   newL, newB, K)
    PROVE  F * (P * newL)
               <= F * (P * L) + kept * (D * (newB - B)) + F * (n * (newB - B))
                      + F * ((2 * K + 2 + (3 * K + 1) * elapsed) * newB)
  <1> DEFINE q == perSecond * elapsed
             up == newB - B
  <1> USE DEF Accrual
  <1>1. q \in Nat /\ up \in Nat
    OBVIOUS
  <1>2. growth <= q /\ 2 * (q * B) <= 2 * (R * up) + R
    OBVIOUS
  <1>3. 2 * (owed * R) + sheet \in Nat /\ sheet * R \in Nat
    OBVIOUS
  <1>4. (kept * elapsed)
            * ((perSecond + 1) * (2 * (owed * R) + sheet) + 3 * (sheet * R) + R * R)
            = kept * (q * (2 * (owed * R))) + kept * (elapsed * (2 * (owed * R)))
              + kept * (q * sheet) + kept * (elapsed * sheet)
              + 3 * (kept * (elapsed * (sheet * R))) + kept * (elapsed * (R * R))
    OBVIOUS
  <1>5. 2 * (F * (R * (growth * sheet)))
            <= kept * (q * (2 * (owed * R))) + kept * (elapsed * (2 * (owed * R)))
              + kept * (q * sheet) + kept * (elapsed * sheet)
              + 3 * (kept * (elapsed * (sheet * R))) + kept * (elapsed * (R * R))
    BY <1>4
  <1> HIDE DEF q
  \* What the new liquidity index adds to the claims.
  <1>6. 2 * (R * (P * newL)) <= 2 * (R * (P * L)) + 2 * (growth * (P * L)) + P * R
    <2>1. P * (2 * (R * newL)) <= P * (2 * ((R + growth) * L) + R)
      BY MulMono
    <2> QED BY <2>1
  <1>7. 2 * (growth * (P * L)) <= 2 * (R * (growth * sheet)) + growth * R + 2 * (growth * (n * B))
    <2>1. growth * (2 * (P * L)) <= growth * (2 * (R * sheet) + R + 2 * (n * B))
      BY MulMono
    <2> QED BY <2>1
  <1>8. 2 * (growth * (n * B)) <= n * (2 * (R * up) + R)
    <2>1. (n * B) * growth <= (n * B) * q
      BY <1>1, <1>2, MulMono
    <2>2. n * (2 * (q * B)) <= n * (2 * (R * up) + R)
      BY <1>1, <1>2, MulMono
    <2> QED BY <1>1, <2>1, <2>2
  <1>9. kept * (q * (2 * (owed * R))) <= kept * (D * (2 * (R * up) + R)) + kept * (q * R)
    <2>1. (kept * q) * (2 * (owed * R)) <= (kept * q) * (2 * (D * B) + R)
      BY <1>1, MulMono
    <2>2. (kept * D) * (2 * (q * B)) <= (kept * D) * (2 * (R * up) + R)
      BY <1>1, <1>2, MulMono
    <2> QED BY <1>1, <2>1, <2>2
  \* What is lost to rounding, as a multiple of the new borrow index.
  <1>10. q <= newB
    <2>1. ASSUME newB + 1 <= q PROVE FALSE
      <3>1. B * (newB + 1) <= B * q
        BY <1>1, <2>1, MulMono
      <3>2. up * R <= up * B
        BY <1>1, MulMono
      <3> QED BY <1>1, <1>2, <3>1, <3>2
    <2> QED BY <1>1, <2>1
  <1> DEFINE rest == D * R + q * R + elapsed * (2 * (owed * R)) + q * sheet + elapsed * sheet
                     + 3 * (elapsed * (sheet * R)) + elapsed * (R * R)
             lost == rest + growth * R + n * R + P * R
  <1>11. rest \in Nat /\ lost \in Nat
    BY <1>1
  <1>12. lost <= 2 * (R * ((2 * K + 2 + (3 * K + 1) * elapsed) * newB))
    <2>1. R <= newB
      OBVIOUS
    <2>2. D * R <= K * (R * newB)
      <3>1. R * D <= R * (K * R) /\ (K * R) * R <= (K * R) * newB
        BY <2>1, MulMono
      <3> QED BY <3>1
    <2>3. P * R <= K * (R * newB)
      <3>1. R * P <= R * (K * R) /\ (K * R) * R <= (K * R) * newB
        BY <2>1, MulMono
      <3> QED BY <3>1
    <2>4. q * R <= R * newB /\ growth * R <= R * newB
      <3>1. R * q <= R * newB /\ R * growth <= R * q
        BY <1>1, <1>2, <1>10, MulMono
      <3> QED BY <1>1, <3>1
    <2>5. q * sheet <= K * (R * newB)
      <3>1. q * sheet <= q * (K * R) /\ (K * R) * q <= (K * R) * newB
        BY <1>1, <1>10, MulMono
      <3> QED BY <1>1, <3>1
    <2>6. elapsed * (sheet * R) <= K * (elapsed * (R * newB))
      <3>1. (elapsed * R) * sheet <= (elapsed * R) * (K * R)
        BY MulMono
      <3>2. (elapsed * R * K) * R <= (elapsed * R * K) * newB
        BY <2>1, MulMono
      <3> QED BY <3>1, <3>2
    <2>7. elapsed * (2 * (owed * R)) <= 2 * (K * (elapsed * (R * newB)))
      <3>1. (elapsed * R) * owed <= (elapsed * R) * sheet
        BY MulMono
      <3> QED BY <2>6, <3>1
    <2>8. elapsed * sheet <= K * (elapsed * (R * newB))
      <3>1. (elapsed * sheet) * 1 <= (elapsed * sheet) * R
        BY MulMono
      <3> QED BY <2>6, <3>1
    <2>9. n * R <= 2 * (R * newB)
      <3>1. R * n <= R * (2 * R) /\ (2 * R) * R <= (2 * R) * newB
        BY <2>1, MulMono
      <3> QED BY <3>1
    <2>10. elapsed * (R * R) <= elapsed * (R * newB)
      <3>1. (elapsed * R) * R <= (elapsed * R) * newB
        BY <2>1, MulMono
      <3> QED BY <3>1
    <2> HIDE DEF up
    <2>11. lost <= (3 * K + 4) * (R * newB) + 6 * (K * (elapsed * (R * newB)))
                   + elapsed * (R * newB)
      BY <1>1, <2>2, <2>3, <2>4, <2>5, <2>6, <2>7, <2>8, <2>9, <2>10
    <2>12. K * (R * newB) \in Nat /\ elapsed * (R * newB) \in Nat
      OBVIOUS
    <2> QED BY <1>11, <2>11, <2>12
  <1>13. kept * rest <= F * rest
    <2> HIDE DEF rest
    <2>1. rest * kept <= rest * F
      BY <1>11, MulMono
    <2> QED BY <1>11, <2>1
  <1>14. F * lost <= F * (2 * (R * ((2 * K + 2 + (3 * K + 1) * elapsed) * newB)))
    <2> DEFINE most == 2 * (R * ((2 * K + 2 + (3 * K + 1) * elapsed) * newB))
    <2>1. most \in Nat /\ lost <= most
      BY <1>12
    <2> HIDE DEF lost, most
    <2>2. F * lost <= F * most
      BY <1>11, <2>1, MulMono
    <2> QED BY <2>2 DEF most
  <1>15. F * (2 * (R * (P * newL)))
             <= F * (2 * (R * (P * L))) + F * (2 * (R * (growth * sheet)))
                + F * (growth * R) + F * (n * (2 * (R * up) + R)) + F * (P * R)
    <2> DEFINE z == 2 * (R * (P * newL))
               y == 2 * (R * (P * L)) + 2 * (R * (growth * sheet))
                    + growth * R + n * (2 * (R * up) + R) + P * R
    <2>1. z <= y
      BY <1>1, <1>6, <1>7, <1>8
    <2>2. z \in Nat /\ y \in Nat
      BY <1>1
    <2>3. F * z <= F * y
      BY <2>1, <2>2, MulMono
    <2> QED BY <1>1, <2>3
  <1>16. 2 * (R * (F * (P * newL)))
             <= 2 * (R * (F * (P * L) + kept * (D * up) + F * (n * up)
                          + F * ((2 * K + 2 + (3 * K + 1) * elapsed) * newB)))
    <2> HIDE DEF up
    <2>1. 2 * (F * (R * (growth * sheet))) <= kept * (D * (2 * (R * up))) + kept * rest
      BY <1>1, <1>5, <1>9
    <2>2. F * lost = F * rest + F * (growth * R) + F * (n * R) + F * (P * R)
      <3> HIDE DEF rest
      <3> QED BY <1>11
    <2>3. kept * rest \in Nat /\ F * rest \in Nat /\ F * lost \in Nat
      <3> HIDE DEF rest, lost
      <3> QED BY <1>11
    <2> HIDE DEF rest, lost
    <2>4. F * (2 * (R * (P * newL)))
              <= F * (2 * (R * (P * L))) + kept * (D * (2 * (R * up)))
                 + F * (n * (2 * (R * up))) + F * lost
      BY <1>1, <1>13, <1>15, <2>1, <2>2, <2>3
    <2> QED BY <1>1, <1>14, <2>3, <2>4
  <1> DEFINE left == F * (P * newL)
             right == F * (P * L) + kept * (D * up) + F * (n * up)
                          + F * ((2 * K + 2 + (3 * K + 1) * elapsed) * newB)
  <1>17. left \in Nat /\ right \in Nat /\ R * left <= R * right
    <2> HIDE DEF up
    <2>1. left \in Nat /\ right \in Nat
      BY <1>1
    <2> QED BY <1>16, <2>1
  <1>18. left <= right
    <2> HIDE DEF left, right
    <2>1. R \in Nat \ {0}
      OBVIOUS
    <2> QED BY <1>17, <2>1, MulCancel
  <1> QED BY <1>18

\* The treasury's share of the interest is what suppliers do not keep of it, and
\* rounding errors.
LEMMA ShareOnSheet ==
    ASSUME NEW scaledDebt \in Nat, NEW before \in Nat, NEW after \in Nat,
           NEW index \in Nat \ {0}, NEW factor \in Nat, factor <= PERCENTAGE_FACTOR,
           before <= after, index <= after, RAY <= after
    PROVE  LET interest == RayMul(scaledDebt, after) - RayMul(scaledDebt, before)
               minted == RayDiv(PercentMul(interest, factor), index)
           IN  /\ minted \in Nat
               /\ PERCENTAGE_FACTOR * (minted * index)
                      <= factor * (scaledDebt * (after - before))
                         + 2 * (PERCENTAGE_FACTOR * after)
  <1> DEFINE owedNow == RayMul(scaledDebt, after)
             owedThen == RayMul(scaledDebt, before)
             interest == owedNow - owedThen
             share == PercentMul(interest, factor)
             minted == RayDiv(share, index)
             up == after - before
             F == PERCENTAGE_FACTOR
  <1>1. RAY \in Nat \ {0} /\ F \in Nat \ {0} /\ RAY \div 2 \in Nat /\ up \in Nat
        /\ index \div 2 \in Nat /\ 2 * (index \div 2) <= index
    BY RAYAssumption, DivBounds DEF PERCENTAGE_FACTOR
  <1>2. /\ owedNow \in Nat /\ RAY * owedNow <= scaledDebt * after + RAY \div 2
        /\ owedThen \in Nat /\ scaledDebt * before + RAY \div 2 < RAY * owedThen + RAY
        /\ owedThen <= owedNow
    BY RayMulBounds, RayMulMono
  <1> HIDE DEF owedNow, owedThen
  <1>3. interest \in Nat /\ RAY * interest <= scaledDebt * up + RAY
    BY <1>1, <1>2
  <1> HIDE DEF interest, up
  <1>4. share \in Nat /\ F * share <= interest * factor
    <2>1. interest * factor \in Nat
      BY <1>3
    <2> QED BY <1>1, <2>1, DivBounds DEF PercentMul
  <1> HIDE DEF share
  <1>5. minted \in Nat /\ index * minted <= share * RAY + index \div 2
    BY <1>4, RayDivBounds
  <1> HIDE DEF minted, F
  <1>6. F * (index * minted) <= F * (share * RAY + index \div 2)
    BY <1>1, <1>4, <1>5, MulMono
  <1>7. RAY * (F * share) <= RAY * (interest * factor)
    BY <1>1, <1>3, <1>4, MulMono
  <1>8. factor * (RAY * interest) <= factor * (scaledDebt * up + RAY)
    BY <1>1, <1>3, MulMono
  <1>9. factor * RAY <= F * after
    <2>1. RAY * factor <= RAY * F /\ F * RAY <= F * after
      BY <1>1, MulMono DEF F
    <2> QED BY <1>1, <2>1
  <1>10. F * (index \div 2) <= F * after
    <2>1. index \div 2 <= after
      BY <1>1
    <2> QED BY <1>1, <2>1, MulMono
  <1>11. F * (minted * index) <= factor * (scaledDebt * up) + 2 * (F * after)
    BY <1>1, <1>3, <1>4, <1>5, <1>6, <1>7, <1>8, <1>9, <1>10
  <1> QED BY <1>5, <1>11 DEF minted, share, interest, owedNow, owedThen, up, F

=============================================================================
