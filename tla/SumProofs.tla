------------------------------ MODULE SumProofs ------------------------------
(***************************************************************************)
(* Facts about SumFunctionOnSet(f, S), the sum of f[x] over a finite set.  *)
(* It picks the elements of S one by one with CHOOSE, so that it exists,   *)
(* that the order does not matter and what one changed value does to it    *)
(* have to be shown.  Each fact is shown by looking at the smallest subset *)
(* of S that would refute it.                                              *)
(***************************************************************************)
EXTENDS Integers, FiniteSets, FiniteSetsExt, Functions, FiniteSetTheorems, TLAPS

\* What the sum of f over S is read from: partial sums of every subset of S.
IsPartialSum(f, S, sum) ==
    sum = [s \in SUBSET S |->
              IF s = {} THEN 0
              ELSE LET x == CHOOSE x \in s : TRUE IN f[x] + sum[s \ {x}]]

\* A collection of subsets of a finite set has a smallest one.
LEMMA SmallestSubset ==
    ASSUME NEW S, IsFiniteSet(S), NEW Bad, Bad \subseteq SUBSET S, Bad # {}
    PROVE  \E T \in Bad : \A U \in Bad : U \subseteq T => U = T
  <1>1. IsWellFoundedOn(StrictSubsetOrdering(S), SUBSET S)
    BY FS_StrictSubsetOrderingWellFounded, FS_FiniteSubsetsOfFinite
  <1>2. \E T \in Bad : \A U \in Bad : ~(<<U, T>> \in StrictSubsetOrdering(S))
    BY <1>1, WFMin
  <1> QED BY <1>2 DEF StrictSubsetOrdering

LEMMA PartialSumUnique ==
    ASSUME NEW S, IsFiniteSet(S), NEW T, T \subseteq S, NEW f, NEW g, NEW h,
           IsPartialSum(f, S, g), IsPartialSum(f, T, h)
    PROVE  \A s \in SUBSET T : g[s] = h[s]
  <1> DEFINE Bad == {s \in SUBSET T : g[s] # h[s]}
  <1> SUFFICES ASSUME Bad # {} PROVE FALSE
    OBVIOUS
  <1>1. PICK s \in Bad : \A U \in Bad : U \subseteq s => U = s
    <2>1. Bad \subseteq SUBSET S
      OBVIOUS
    <2> HIDE DEF Bad
    <2> QED BY <2>1, SmallestSubset
  <1> DEFINE x == CHOOSE x \in s : TRUE
  <1>2. s \in SUBSET T /\ s \in SUBSET S /\ g[s] # h[s]
    BY <1>1
  <1>3. /\ g[s] = IF s = {} THEN 0 ELSE f[x] + g[s \ {x}]
        /\ h[s] = IF s = {} THEN 0 ELSE f[x] + h[s \ {x}]
    BY <1>2 DEF IsPartialSum
  <1>4. s # {} /\ x \in s
    BY <1>2, <1>3
  <1> HIDE DEF x
  <1>5. g[s \ {x}] = h[s \ {x}]
    BY <1>1, <1>2, <1>4
  <1> QED BY <1>2, <1>3, <1>4, <1>5

LEMMA SumDef ==
    ASSUME NEW f, NEW S
    PROVE  SumFunctionOnSet(f, S) = (CHOOSE sum : IsPartialSum(f, S, sum))[S]
  BY Zenon DEF SumFunctionOnSet, FoldFunctionOnSet, MapThenFoldSet, IsPartialSum

LEMMA PartialSumExists ==
    ASSUME NEW S, IsFiniteSet(S), NEW f
    PROVE  \E sum : IsPartialSum(f, S, sum)
  <1> DEFINE Bad == {T \in SUBSET S : ~ \E sum : IsPartialSum(f, T, sum)}
  <1> SUFFICES ASSUME Bad # {} PROVE FALSE
    OBVIOUS
  <1>1. PICK T \in Bad : \A U \in Bad : U \subseteq T => U = T
    <2>1. Bad \subseteq SUBSET S
      OBVIOUS
    <2> HIDE DEF Bad
    <2> QED BY <2>1, SmallestSubset
  <1> DEFINE Chosen(U) == CHOOSE sum : IsPartialSum(f, U, sum)
             Value(U) == Chosen(U)[U]
             sum == [s \in SUBSET T |->
                        IF s = {} THEN 0
                        ELSE LET x == CHOOSE x \in s : TRUE IN f[x] + Value(s \ {x})]
  <1>2. T \in SUBSET S /\ ~ \E total : IsPartialSum(f, T, total)
    BY <1>1
  <1>3. ASSUME NEW U \in SUBSET T, U # T PROVE IsPartialSum(f, U, Chosen(U))
    <2>1. U \in SUBSET S /\ U \notin Bad
      BY <1>1, <1>2, <1>3
    <2>2. \E total : IsPartialSum(f, U, total)
      BY <2>1
    <2> QED BY <2>2
  <1>4. ASSUME NEW s \in SUBSET T, s # T PROVE sum[s] = Value(s)
    <2>1. CASE s = {}
      <3>1. IsPartialSum(f, s, Chosen(s))
        BY <1>3, <1>4
      <3> HIDE DEF Chosen
      <3> QED BY <2>1, <3>1 DEF IsPartialSum
    <2>2. CASE s # {}
      <3> DEFINE x == CHOOSE x \in s : TRUE
      <3>1. x \in s
        BY <2>2
      <3>2. IsPartialSum(f, s, Chosen(s)) /\ IsPartialSum(f, s \ {x}, Chosen(s \ {x}))
        BY <1>3, <1>4, <3>1
      <3>3. sum[s] = f[x] + Value(s \ {x})
        BY <2>2
      <3>4. IsFiniteSet(s)
        BY <1>2, FS_Subset
      <3> HIDE DEF Chosen, sum, x
      <3>5. s \ {x} \in SUBSET s
        OBVIOUS
      <3>6. Chosen(s)[s \ {x}] = Chosen(s \ {x})[s \ {x}]
        BY <3>2, <3>4, <3>5, PartialSumUnique
      <3>7. Chosen(s)[s] = f[x] + Chosen(s)[s \ {x}]
        BY <2>2, <3>2 DEF IsPartialSum, x
      <3> QED BY <3>3, <3>6, <3>7
    <2> QED BY <2>1, <2>2
  <1>5. IsPartialSum(f, T, sum)
    <2>1. ASSUME NEW s \in SUBSET T, s # {}
          PROVE  LET x == CHOOSE x \in s : TRUE IN Value(s \ {x}) = sum[s \ {x}]
      <3> DEFINE x == CHOOSE x \in s : TRUE
      <3>1. x \in s
        BY <2>1
      <3> HIDE DEF x, sum, Value
      <3>2. s \ {x} \in SUBSET T /\ s \ {x} # T
        BY <3>1
      <3>3. sum[s \ {x}] = Value(s \ {x})
        BY <1>4, <3>2
      <3> QED BY <3>3 DEF x
    <2> DEFINE Step(s) == LET x == CHOOSE x \in s : TRUE IN f[x] + Value(s \ {x})
               Recur(s) == LET x == CHOOSE x \in s : TRUE IN f[x] + sum[s \ {x}]
               A(s) == IF s = {} THEN 0 ELSE Step(s)
               B(s) == IF s = {} THEN 0 ELSE Recur(s)
    <2>2. \A s \in SUBSET T : A(s) = B(s)
      <3>1. ASSUME NEW s \in SUBSET T, s # {} PROVE Step(s) = Recur(s)
        <4> HIDE DEF Value, sum
        <4> QED BY <2>1, <3>1
      <3> HIDE DEF Step, Recur
      <3> QED BY <3>1
    <2>3. sum = [s \in SUBSET T |-> A(s)]
      BY Zenon
    <2>4. [s \in SUBSET T |-> A(s)] = [s \in SUBSET T |-> B(s)]
      <3> HIDE DEF A, B
      <3> QED BY <2>2
    <2>5. sum = [s \in SUBSET T |-> B(s)]
      BY <2>3, <2>4, Zenon
    <2> HIDE DEF Value, sum
    <2> QED BY <2>5, Zenon DEF IsPartialSum
  <1> QED BY <1>2, <1>5

LEMMA SumOfNone ==
    ASSUME NEW f
    PROVE  SumFunctionOnSet(f, {}) = 0
  <1> DEFINE sum == CHOOSE sum : IsPartialSum(f, {}, sum)
  <1>1. IsPartialSum(f, {}, sum)
    BY PartialSumExists, FS_EmptySet
  <1>2. SumFunctionOnSet(f, {}) = sum[{}]
    BY SumDef
  <1> HIDE DEF sum
  <1> QED BY <1>1, <1>2 DEF IsPartialSum

LEMMA SumFirst ==
    ASSUME NEW f, NEW S, IsFiniteSet(S), S # {}
    PROVE  LET x == CHOOSE x \in S : TRUE
           IN  /\ x \in S
               /\ SumFunctionOnSet(f, S) = f[x] + SumFunctionOnSet(f, S \ {x})
  <1> DEFINE x == CHOOSE x \in S : TRUE
             whole == CHOOSE sum : IsPartialSum(f, S, sum)
             rest == CHOOSE sum : IsPartialSum(f, S \ {x}, sum)
  <1>1. x \in S
    OBVIOUS
  <1>2. IsFiniteSet(S \ {x})
    BY FS_RemoveElement
  <1>3. IsPartialSum(f, S, whole)
    BY PartialSumExists
  <1>4. IsPartialSum(f, S \ {x}, rest)
    BY <1>2, PartialSumExists
  <1>5. /\ SumFunctionOnSet(f, S) = whole[S]
        /\ SumFunctionOnSet(f, S \ {x}) = rest[S \ {x}]
    BY SumDef
  <1>6. whole[S] = f[x] + whole[S \ {x}]
    <2> HIDE DEF whole
    <2> QED BY <1>3 DEF IsPartialSum
  <1> HIDE DEF whole, rest, x
  <1>7. whole[S \ {x}] = rest[S \ {x}]
    BY <1>3, <1>4, PartialSumUnique
  <1> QED BY <1>1, <1>5, <1>6, <1>7 DEF x

-----------------------------------------------------------------------------
(***************************************************************************)
(* What the other proofs use.                                              *)
(***************************************************************************)

\* A sum of natural numbers is one.
LEMMA SumType ==
    ASSUME NEW S, IsFiniteSet(S), NEW f, \A x \in S : f[x] \in Nat
    PROVE  SumFunctionOnSet(f, S) \in Nat
  <1> DEFINE Bad == {T \in SUBSET S : SumFunctionOnSet(f, T) \notin Nat}
  <1> SUFFICES ASSUME Bad # {} PROVE FALSE
    OBVIOUS
  <1>1. PICK T \in Bad : \A U \in Bad : U \subseteq T => U = T
    <2>1. Bad \subseteq SUBSET S
      OBVIOUS
    <2> HIDE DEF Bad
    <2> QED BY <2>1, SmallestSubset
  <1>2. T \in SUBSET S /\ SumFunctionOnSet(f, T) \notin Nat /\ IsFiniteSet(T)
    BY <1>1, FS_Subset
  <1>3. T # {}
    BY <1>2, SumOfNone
  <1> DEFINE x == CHOOSE x \in T : TRUE
  <1>4. x \in T /\ SumFunctionOnSet(f, T) = f[x] + SumFunctionOnSet(f, T \ {x})
    BY <1>2, <1>3, SumFirst
  <1> HIDE DEF x
  <1>5. SumFunctionOnSet(f, T \ {x}) \in Nat
    BY <1>1, <1>2, <1>4
  <1> QED BY <1>2, <1>4, <1>5

\* It depends on nothing but the values it sums.
LEMMA SumSame ==
    ASSUME NEW S, IsFiniteSet(S), NEW f, NEW g, \A x \in S : f[x] = g[x]
    PROVE  SumFunctionOnSet(f, S) = SumFunctionOnSet(g, S)
  <1> DEFINE Bad == {T \in SUBSET S : SumFunctionOnSet(f, T) # SumFunctionOnSet(g, T)}
  <1> SUFFICES ASSUME Bad # {} PROVE FALSE
    OBVIOUS
  <1>1. PICK T \in Bad : \A U \in Bad : U \subseteq T => U = T
    <2>1. Bad \subseteq SUBSET S
      OBVIOUS
    <2> HIDE DEF Bad
    <2> QED BY <2>1, SmallestSubset
  <1>2. /\ T \in SUBSET S /\ IsFiniteSet(T)
        /\ SumFunctionOnSet(f, T) # SumFunctionOnSet(g, T)
    BY <1>1, FS_Subset
  <1>3. T # {}
    BY <1>2, SumOfNone
  <1> DEFINE x == CHOOSE x \in T : TRUE
  <1>4. /\ x \in T
        /\ SumFunctionOnSet(f, T) = f[x] + SumFunctionOnSet(f, T \ {x})
        /\ SumFunctionOnSet(g, T) = g[x] + SumFunctionOnSet(g, T \ {x})
    BY <1>2, <1>3, SumFirst
  <1> HIDE DEF x
  <1>5. SumFunctionOnSet(f, T \ {x}) = SumFunctionOnSet(g, T \ {x})
    BY <1>1, <1>2, <1>4
  <1> QED BY <1>2, <1>4, <1>5

\* Any element may be taken out first, not only the one CHOOSE picks.
LEMMA SumRemove ==
    ASSUME NEW S, IsFiniteSet(S), NEW f, \A x \in S : f[x] \in Nat, NEW e \in S
    PROVE  SumFunctionOnSet(f, S) = f[e] + SumFunctionOnSet(f, S \ {e})
  <1> DEFINE Splits(T, y) == SumFunctionOnSet(f, T) = f[y] + SumFunctionOnSet(f, T \ {y})
             Bad == {T \in SUBSET S : \E y \in T : ~Splits(T, y)}
  <1> SUFFICES ASSUME Bad # {} PROVE FALSE
    OBVIOUS
  <1>1. PICK T \in Bad : \A U \in Bad : U \subseteq T => U = T
    <2>1. Bad \subseteq SUBSET S
      OBVIOUS
    <2> HIDE DEF Bad
    <2> QED BY <2>1, SmallestSubset
  <1>2. T \in SUBSET S /\ IsFiniteSet(T)
    BY <1>1, FS_Subset
  <1>3. PICK y \in T : ~Splits(T, y)
    BY <1>1
  <1> DEFINE x == CHOOSE x \in T : TRUE
  <1>4. x \in T /\ SumFunctionOnSet(f, T) = f[x] + SumFunctionOnSet(f, T \ {x})
    BY <1>2, <1>3, SumFirst
  <1> HIDE DEF x
  <1>5. x # y
    BY <1>3, <1>4
  <1>6. \A z \in T : T \ {z} \in SUBSET S /\ T \ {z} \notin Bad
    BY <1>1, <1>2
  <1>7. \A z \in T : \A v \in T \ {z} : Splits(T \ {z}, v)
    BY <1>6
  <1>8. Splits(T \ {x}, y) /\ Splits(T \ {y}, x)
    BY <1>4, <1>5, <1>7
  <1>9. (T \ {x}) \ {y} = (T \ {y}) \ {x}
    OBVIOUS
  <1> DEFINE rest == SumFunctionOnSet(f, (T \ {x}) \ {y})
  <1>10. rest \in Nat /\ f[x] \in Nat /\ f[y] \in Nat
    <2>1. IsFiniteSet((T \ {x}) \ {y})
      BY <1>2, FS_Subset
    <2> QED BY <1>2, <1>4, <2>1, SumType
  <1>11. /\ SumFunctionOnSet(f, T) = f[x] + (f[y] + rest)
         /\ SumFunctionOnSet(f, T \ {y}) = f[x] + rest
    BY <1>4, <1>8, <1>9
  <1> HIDE DEF rest
  <1>12. SumFunctionOnSet(f, T) = f[y] + SumFunctionOnSet(f, T \ {y})
    BY <1>10, <1>11
  <1> QED BY <1>3, <1>12

\* When one value changes, the sum changes by as much.
LEMMA SumOneChanged ==
    ASSUME NEW S, IsFiniteSet(S), NEW e \in S, NEW f, NEW g,
           \A x \in S : f[x] \in Nat /\ g[x] \in Nat,
           \A x \in S \ {e} : f[x] = g[x]
    PROVE  SumFunctionOnSet(g, S) - SumFunctionOnSet(f, S) = g[e] - f[e]
  <1> DEFINE rest == SumFunctionOnSet(f, S \ {e})
  <1>1. IsFiniteSet(S \ {e})
    BY FS_RemoveElement
  <1>2. SumFunctionOnSet(f, S) = f[e] + rest
    BY SumRemove
  <1>3. SumFunctionOnSet(g, S) = g[e] + SumFunctionOnSet(g, S \ {e})
    BY SumRemove
  <1>4. SumFunctionOnSet(g, S \ {e}) = rest
    BY <1>1, SumSame
  <1>5. rest \in Nat
    BY <1>1, SumType
  <1> HIDE DEF rest
  <1> QED BY <1>2, <1>3, <1>4, <1>5

\* Nothing adds up to nothing.
LEMMA SumOfZeros ==
    ASSUME NEW S, IsFiniteSet(S), NEW f, \A x \in S : f[x] = 0
    PROVE  SumFunctionOnSet(f, S) = 0
  <1> DEFINE Bad == {T \in SUBSET S : SumFunctionOnSet(f, T) # 0}
  <1> SUFFICES ASSUME Bad # {} PROVE FALSE
    OBVIOUS
  <1>1. PICK T \in Bad : \A U \in Bad : U \subseteq T => U = T
    <2>1. Bad \subseteq SUBSET S
      OBVIOUS
    <2> HIDE DEF Bad
    <2> QED BY <2>1, SmallestSubset
  <1>2. T \in SUBSET S /\ SumFunctionOnSet(f, T) # 0 /\ IsFiniteSet(T)
    BY <1>1, FS_Subset
  <1>3. T # {}
    BY <1>2, SumOfNone
  <1> DEFINE x == CHOOSE x \in T : TRUE
  <1>4. x \in T /\ SumFunctionOnSet(f, T) = f[x] + SumFunctionOnSet(f, T \ {x})
    BY <1>2, <1>3, SumFirst
  <1> HIDE DEF x
  <1>5. SumFunctionOnSet(f, T \ {x}) = 0
    BY <1>1, <1>2, <1>4
  <1> QED BY <1>2, <1>4, <1>5

\* No part of a sum is more than the whole.
LEMMA SumAtLeastPart ==
    ASSUME NEW S, IsFiniteSet(S), NEW f, \A x \in S : f[x] \in Nat, NEW e \in S
    PROVE  f[e] <= SumFunctionOnSet(f, S)
  <1>1. SumFunctionOnSet(f, S) = f[e] + SumFunctionOnSet(f, S \ {e})
    BY SumRemove
  <1>2. SumFunctionOnSet(f, S \ {e}) \in Nat
    <2>1. IsFiniteSet(S \ {e})
      BY FS_RemoveElement
    <2> QED BY <2>1, SumType
  <1> QED BY <1>1, <1>2

\* A set of numbers up to n has a least one.
LEMMA LeastNumber ==
    ASSUME NEW n \in Nat, NEW B, B \subseteq 1..n, B # {}
    PROVE  \E m \in B : \A k \in B : m <= k
<1> DEFINE S == 1..n
           Bad == {1..m : m \in B}
<1>1. IsFiniteSet(S)
  BY FS_Interval
<1>2. Bad \subseteq SUBSET S /\ Bad # {}
  <2>1. \A m \in B : 1..m \subseteq S
    OBVIOUS
  <2>2. PICK m \in B : TRUE
    OBVIOUS
  <2>3. 1..m \in Bad
    OBVIOUS
  <2> HIDE DEF S
  <2> QED BY <2>1, <2>3
<1>3. \E T \in Bad : \A U \in Bad : U \subseteq T => U = T
  <2> HIDE DEF Bad, S
  <2> QED BY <1>1, <1>2, SmallestSubset
<1>4. PICK m \in B : \A U \in Bad : U \subseteq 1..m => U = 1..m
  BY <1>3
<1>5. ASSUME NEW k \in B, k < m PROVE FALSE
  <2>1. 1..k \in Bad /\ 1..k \subseteq 1..m /\ m \in 1..m /\ m \notin 1..k
    BY <1>5
  <2> QED BY <1>4, <2>1
<1> QED BY <1>5

-----------------------------------------------------------------------------
(***************************************************************************)
(* SumSet(S), the sum of a set of numbers, is that of the identity on it.  *)
(***************************************************************************)

\* A set of numbers adds up to what the values of the identity on it add up to.
LEMMA SumSetDef ==
    ASSUME NEW S
    PROVE  SumSet(S) = (CHOOSE sum :
               sum = [s \in SUBSET S |->
                          IF s = {} THEN 0
                          ELSE LET x == CHOOSE x \in s : TRUE IN x + sum[s \ {x}]])[S]
BY Zenon DEF SumSet, FoldSet, MapThenFoldSet

LEMMA SumSetIs ==
    ASSUME NEW S, NEW f, \A x \in S : f[x] = x
    PROVE  SumSet(S) = SumFunctionOnSet(f, S)
<1> DEFINE Partial(sum) ==
        sum = [s \in SUBSET S |->
                   IF s = {} THEN 0
                   ELSE LET x == CHOOSE x \in s : TRUE IN x + sum[s \ {x}]]
<1>1. ASSUME NEW sum PROVE Partial(sum) <=> IsPartialSum(f, S, sum)
  <2>1. ASSUME NEW s \in SUBSET S, s # {}
        PROVE  LET x == CHOOSE x \in s : TRUE IN x + sum[s \ {x}] = f[x] + sum[s \ {x}]
    <3> DEFINE x == CHOOSE x \in s : TRUE
    <3>1. x \in s
      BY <2>1
    <3>2. f[x] = x
      BY <2>1, <3>1
    <3> QED BY <3>2, Zenon
  <2>2. [s \in SUBSET S |-> IF s = {} THEN 0
                            ELSE LET x == CHOOSE x \in s : TRUE IN x + sum[s \ {x}]] =
        [s \in SUBSET S |-> IF s = {} THEN 0
                            ELSE LET x == CHOOSE x \in s : TRUE IN f[x] + sum[s \ {x}]]
    BY <2>1, Zenon
  <2> QED BY <2>2, Zenon DEF IsPartialSum
<1>2. (CHOOSE sum : Partial(sum)) = (CHOOSE sum : IsPartialSum(f, S, sum))
  <2> HIDE DEF Partial
  <2> QED BY <1>1, Zenon
<1>3. SumSet(S) = (CHOOSE sum : Partial(sum))[S]
  BY SumSetDef, Zenon
<1> HIDE DEF Partial
<1> QED BY <1>2, <1>3, SumDef, Zenon

LEMMA SumSetAdd ==
    ASSUME NEW S, IsFiniteSet(S), S \subseteq Nat, NEW m \in Nat \ S
    PROVE  SumSet(S \cup {m}) = SumSet(S) + m
<1> DEFINE T == S \cup {m}
           f == [x \in T |-> x]
<1>1. IsFiniteSet(T)
  BY FS_AddElement
<1>2. (\A x \in T : f[x] = x /\ f[x] \in Nat) /\ m \in T /\ T \ {m} = S
  OBVIOUS
<1> HIDE DEF f, T
<1>3. SumSet(T) = SumFunctionOnSet(f, T) /\ SumSet(S) = SumFunctionOnSet(f, S)
  BY <1>2, SumSetIs
<1>4. SumFunctionOnSet(f, T) = m + SumFunctionOnSet(f, S)
  BY <1>1, <1>2, SumRemove
<1>5. SumFunctionOnSet(f, S) \in Nat
  BY <1>2, SumType
<1> QED BY <1>3, <1>4, <1>5 DEF T

LEMMA SumSetEmpty == SumSet({}) = 0
<1>1. SumSet({}) = SumFunctionOnSet([x \in {} |-> x], {})
  BY SumSetIs
<1> QED BY <1>1, SumOfNone

=============================================================================
