------------------------------- MODULE SumProofs ------------------------------
(***************************************************************************)
(* Natural numbers, and sums over finite sets: MapThenSumSet is a fold     *)
(* that takes the elements in an order of its own, and its sum does not    *)
(* depend on that order.                                                   *)
(***************************************************************************)
EXTENDS Integers, FiniteSetsExt, FiniteSetTheorems, WellFoundedInduction, TLAPS

-----------------------------------------------------------------------------
(* Natural numbers. *)

(***************************************************************************)
(* A set of natural numbers that is not empty has a least element.         *)
(***************************************************************************)
LEMMA LeastNatural ==
  ASSUME NEW S \in SUBSET Nat, S # {}
  PROVE  \E x \in S : \A y \in S : x <= y
<1> DEFINE R == {p \in Nat \X Nat : p[1] < p[2]}
<1>1. OpToRel(<, Nat) = R BY Zenon DEF OpToRel
<1>2. IsWellFoundedOn(R, Nat) BY <1>1, NatLessThanWellFounded, Zenon
<1>3. \A a, b \in Nat : a < b => <<a, b>> \in R OBVIOUS
<1> HIDE DEF R
<1>4. PICK x \in S : \A y \in S : ~(<<y, x>> \in R) BY <1>2, WFMin
<1>5. ASSUME NEW y \in S PROVE x <= y
  <2>1. x \in Nat /\ y \in Nat OBVIOUS
  <2>2. ~(y < x) BY <1>3, <1>4, <2>1, Zenon
  <2> QED BY <2>1, <2>2
<1> QED BY <1>5

(***************************************************************************)
(* Induction, for a set instead of a predicate.                            *)
(***************************************************************************)
LEMMA Induction ==
  ASSUME NEW S \in SUBSET Nat, 0 \in S, \A n \in S : n + 1 \in S
  PROVE  \A n \in Nat : n \in S
<1> SUFFICES ASSUME Nat \ S # {} PROVE FALSE OBVIOUS
<1>1. PICK x \in Nat \ S : \A y \in Nat \ S : x <= y BY LeastNatural
<1>2. x # 0 /\ x - 1 \in Nat OBVIOUS
<1>3. x - 1 \in S BY <1>1, <1>2
<1>4. (x - 1) + 1 \in S BY <1>3
<1> QED BY <1>4

(***************************************************************************)
(* A bounded set of natural numbers that is not empty has its maximum.     *)
(***************************************************************************)
LEMMA MaxOfBounded ==
  ASSUME NEW S \in SUBSET Nat, S # {}, NEW b \in Nat, \A x \in S : x <= b
  PROVE  Max(S) \in S /\ \A y \in S : y <= Max(S)
<1> DEFINE T == {u \in Nat : \A x \in S : x <= u}
<1>1. T \in SUBSET Nat /\ T # {} OBVIOUS
<1>2. PICK m \in T : \A u \in T : m <= u BY <1>1, LeastNatural
<1>3. m \in S
  <2> SUFFICES ASSUME m \notin S PROVE FALSE OBVIOUS
  <2>1. \A x \in S : x <= m - 1 OBVIOUS
  <2>2. PICK x \in S : TRUE OBVIOUS
  <2>3. m \in Nat /\ x \in Nat /\ x <= m - 1 BY <2>1
  <2>4. m - 1 \in Nat BY <2>3
  <2> QED BY <1>2, <2>1, <2>4
<1>4. \E x \in S : \A y \in S : x >= y BY <1>3
<1> QED BY <1>4 DEF Max

-----------------------------------------------------------------------------
(* Sums. *)

Sum(f, S) == MapThenSumSet(LAMBDA x : f[x], S)

Some(d) == CHOOSE x \in d : TRUE

(***************************************************************************)
(* The function that the fold recurs with, and the same up to a size.      *)
(***************************************************************************)
Adds(f, S, g) ==
  g = [d \in SUBSET S |-> IF d = {} THEN 0 ELSE f[Some(d)] + g[d \ {Some(d)}]]

AddsAt(f, d, g) == g[d] = IF d = {} THEN 0 ELSE f[Some(d)] + g[d \ {Some(d)}]

AddsUpTo(f, S, n, g) == \A d \in SUBSET S : Cardinality(d) <= n => AddsAt(f, d, g)

(***************************************************************************)
(* The sizes of the subsets of a finite set.                               *)
(***************************************************************************)
LEMMA Sizes ==
  ASSUME NEW S, IsFiniteSet(S), NEW d \in SUBSET S
  PROVE  /\ IsFiniteSet(d) /\ Cardinality(d) \in Nat /\ Cardinality(d) <= Cardinality(S)
         /\ Cardinality(d) = 0 <=> d = {}
         /\ d # {} => Some(d) \in d
         /\ \A x \in d : Cardinality(d \ {x}) = Cardinality(d) - 1 /\ d \ {x} \in SUBSET S
<1>1. IsFiniteSet(d) /\ Cardinality(d) <= Cardinality(S) BY FS_Subset
<1>2. Cardinality(d) \in Nat BY <1>1, FS_CardinalityType
<1>3. Cardinality(d) = 0 <=> d = {} BY <1>1, FS_EmptySet
<1>4. d # {} => Some(d) \in d BY DEF Some
<1>5. \A x \in d : Cardinality(d \ {x}) = Cardinality(d) - 1 BY <1>1, FS_RemoveElement
<1> QED BY <1>1, <1>2, <1>3, <1>4, <1>5

(***************************************************************************)
(* That function exists: one that adds up the sets of at most n elements   *)
(* gives one for n + 1.                                                    *)
(***************************************************************************)
LEMMA AddsExists ==
  ASSUME NEW S, IsFiniteSet(S), NEW f
  PROVE  \E g : Adds(f, S, g)
<1> DEFINE N == {n \in Nat : \E g : AddsUpTo(f, S, n, g)}
           next(g) == [d \in SUBSET S |-> IF d = {} THEN 0 ELSE f[Some(d)] + g[d \ {Some(d)}]]
<1>1. 0 \in N
  <2> DEFINE g == [d \in SUBSET S |-> 0]
  <2>1. ASSUME NEW d \in SUBSET S, Cardinality(d) <= 0 PROVE AddsAt(f, d, g)
    <3>1. d = {} BY <2>1, Sizes
    <3> QED BY <3>1 DEF AddsAt
  <2> HIDE DEF g
  <2> QED BY <2>1 DEF AddsUpTo
<1>2. ASSUME NEW n \in N PROVE n + 1 \in N
  <2>1. n \in Nat OBVIOUS
  <2>2. PICK g : AddsUpTo(f, S, n, g) OBVIOUS
  <2> DEFINE h == next(g)
  <2>3. \A d \in SUBSET S : h[d] = IF d = {} THEN 0 ELSE f[Some(d)] + g[d \ {Some(d)}] OBVIOUS
  <2> HIDE DEF h
  <2>4. \A d \in SUBSET S : Cardinality(d) <= n => h[d] = g[d] BY <2>2, <2>3 DEF AddsUpTo, AddsAt
  <2>5. ASSUME NEW d \in SUBSET S, Cardinality(d) <= n + 1 PROVE AddsAt(f, d, h)
    <3>1. CASE d = {} BY <2>3, <3>1 DEF AddsAt
    <3>2. CASE d # {}
      <4>1. PICK x \in d : x = Some(d) BY <3>2, Sizes
      <4>2. d \ {x} \in SUBSET S /\ Cardinality(d \ {x}) = Cardinality(d) - 1 /\ Cardinality(d) \in Nat
        BY <4>1, Sizes
      <4>3. Cardinality(d \ {x}) <= n BY <2>1, <2>5, <4>2
      <4>4. h[d \ {x}] = g[d \ {x}] BY <2>4, <4>2, <4>3
      <4> QED BY <2>3, <3>2, <4>1, <4>4 DEF AddsAt
    <3> QED BY <3>1, <3>2
  <2>6. AddsUpTo(f, S, n + 1, h) BY <2>5 DEF AddsUpTo
  <2> QED BY <2>1, <2>6
<1> HIDE DEF next
<1>3. N \in SUBSET Nat OBVIOUS
<1>4. Cardinality(S) \in N
  <2>1. Cardinality(S) \in Nat BY FS_CardinalityType
  <2> HIDE DEF N
  <2> QED BY <1>1, <1>2, <1>3, <2>1, Induction
<1>5. PICK g : AddsUpTo(f, S, Cardinality(S), g) BY <1>4
<1>6. \A d \in SUBSET S : AddsAt(f, d, g) BY <1>5, Sizes DEF AddsUpTo
<1> DEFINE h == [d \in SUBSET S |-> g[d]]
<1>7. \A d \in SUBSET S : h[d] = g[d] OBVIOUS
<1>8. ASSUME NEW d \in SUBSET S PROVE h[d] = IF d = {} THEN 0 ELSE f[Some(d)] + h[d \ {Some(d)}]
  <2>1. d \ {Some(d)} \in SUBSET S OBVIOUS
  <2> QED BY <1>6, <1>7, <2>1 DEF AddsAt
<1>9. h = [d \in SUBSET S |-> h[d]] OBVIOUS
<1> HIDE DEF h
<1>10. h = [d \in SUBSET S |-> IF d = {} THEN 0 ELSE f[Some(d)] + h[d \ {Some(d)}]] BY <1>8, <1>9
<1> QED BY <1>10 DEF Adds

(***************************************************************************)
(* A sum is a value of any function that adds up a larger set.             *)
(***************************************************************************)
LEMMA AddsOnce ==
  ASSUME NEW S, IsFiniteSet(S), NEW T \in SUBSET S, NEW f, NEW e, \A x \in T : e[x] = f[x],
         NEW g, Adds(f, S, g), NEW h, Adds(e, T, h)
  PROVE  h[T] = g[T]
<1> DEFINE N == {n \in Nat : \A d \in SUBSET T : Cardinality(d) = n => h[d] = g[d]}
<1>1. ASSUME NEW d \in SUBSET T
      PROVE  /\ d \in SUBSET S
             /\ g[d] = IF d = {} THEN 0 ELSE f[Some(d)] + g[d \ {Some(d)}]
             /\ h[d] = IF d = {} THEN 0 ELSE e[Some(d)] + h[d \ {Some(d)}]
  <2>1. d \in SUBSET S OBVIOUS
  <2> QED BY <2>1 DEF Adds
<1>2. 0 \in N
  <2>1. \A d \in SUBSET T : Cardinality(d) = 0 => d = {} BY <1>1, Sizes
  <2> QED BY <1>1, <2>1
<1>3. ASSUME NEW n \in N PROVE n + 1 \in N
  <2>1. n \in Nat /\ n + 1 \in Nat OBVIOUS
  <2>2. ASSUME NEW d \in SUBSET T, Cardinality(d) = n + 1 PROVE h[d] = g[d]
    <3>1. d \in SUBSET S BY <1>1
    <3>2. d # {} BY <2>1, <2>2, <3>1, Sizes
    <3>3. PICK x \in d : x = Some(d) BY <3>1, <3>2, Sizes
    <3>4. Cardinality(d \ {x}) = n
      <4>1. Cardinality(d \ {x}) = Cardinality(d) - 1 BY <3>1, Sizes
      <4> QED BY <2>1, <2>2, <4>1
    <3>5. d \ {x} \in SUBSET T /\ x \in T OBVIOUS
    <3>6. h[d \ {x}] = g[d \ {x}] BY <3>4, <3>5
    <3> QED BY <1>1, <3>2, <3>3, <3>5, <3>6
  <2> QED BY <2>1, <2>2
<1>4. N \in SUBSET Nat OBVIOUS
<1> HIDE DEF N
<1>5. \A n \in Nat : n \in N BY <1>2, <1>3, <1>4, Induction
<1>6. Cardinality(T) \in N BY <1>5, Sizes
<1> QED BY <1>6 DEF N

(***************************************************************************)
(* The sum is what the recursion yields.                                   *)
(***************************************************************************)
LEMMA SumIs ==
  ASSUME NEW S, IsFiniteSet(S), NEW T \in SUBSET S, NEW f, NEW e, \A x \in T : e[x] = f[x],
         NEW g, Adds(f, S, g)
  PROVE  Sum(e, T) = g[T]
<1>1. IsFiniteSet(T) BY FS_Subset
<1>2. \E h : Adds(e, T, h) BY <1>1, AddsExists
<1>3. PICK h : Adds(e, T, h) /\ Sum(e, T) = h[T]
  BY <1>2 DEF Sum, MapThenSumSet, MapThenFoldSet, Adds, Some
<1> QED BY <1>3, AddsOnce

(***************************************************************************)
(* A function that adds up integers has integer values.                    *)
(***************************************************************************)
LEMMA AddsIntegers ==
  ASSUME NEW S, IsFiniteSet(S), NEW f, \A x \in S : f[x] \in Int, NEW g, Adds(f, S, g)
  PROVE  g[{}] = 0 /\ \A d \in SUBSET S : g[d] \in Int
<1> DEFINE N == {n \in Nat : \A d \in SUBSET S : Cardinality(d) = n => g[d] \in Int}
<1>1. \A d \in SUBSET S : g[d] = IF d = {} THEN 0 ELSE f[Some(d)] + g[d \ {Some(d)}]
  BY DEF Adds
<1>2. g[{}] = 0
  <2>1. {} \in SUBSET S OBVIOUS
  <2> QED BY <1>1, <2>1
<1>3. 0 \in N
  <2>1. \A d \in SUBSET S : Cardinality(d) = 0 => d = {} BY Sizes
  <2> QED BY <1>2, <2>1
<1>4. ASSUME NEW n \in N PROVE n + 1 \in N
  <2>1. n \in Nat /\ n + 1 \in Nat OBVIOUS
  <2>2. ASSUME NEW d \in SUBSET S, Cardinality(d) = n + 1 PROVE g[d] \in Int
    <3>1. d # {} BY <2>1, <2>2, Sizes
    <3>2. PICK p \in d : p = Some(d) BY <3>1, Sizes
    <3>3. Cardinality(d \ {p}) = n
      <4>1. Cardinality(d \ {p}) = Cardinality(d) - 1 BY Sizes
      <4> QED BY <2>1, <2>2, <4>1
    <3>4. d \ {p} \in SUBSET S /\ p \in S OBVIOUS
    <3>5. g[d \ {p}] \in Int /\ f[p] \in Int BY <3>3, <3>4
    <3>6. g[d] = f[p] + g[d \ {p}] BY <1>1, <3>1, <3>2
    <3> QED BY <3>5, <3>6
  <2> QED BY <2>1, <2>2
<1>5. N \in SUBSET Nat OBVIOUS
<1> HIDE DEF N
<1>6. \A n \in Nat : n \in N BY <1>3, <1>4, <1>5, Induction
<1>7. ASSUME NEW d \in SUBSET S PROVE g[d] \in Int
  <2>1. Cardinality(d) \in N BY <1>6, Sizes
  <2> QED BY <2>1 DEF N
<1> QED BY <1>2, <1>7

(***************************************************************************)
(* And any element may be taken first.                                     *)
(***************************************************************************)
LEMMA AddsInAnyOrder ==
  ASSUME NEW S, IsFiniteSet(S), NEW f, \A x \in S : f[x] \in Int, NEW g, Adds(f, S, g)
  PROVE  \A d \in SUBSET S : \A x \in d : g[d] = f[x] + g[d \ {x}]
<1> DEFINE Good(d) == \A x \in d : g[d] = f[x] + g[d \ {x}]
           N == {n \in Nat : \A d \in SUBSET S : Cardinality(d) = n => Good(d)}
<1>1. \A d \in SUBSET S : g[d] = IF d = {} THEN 0 ELSE f[Some(d)] + g[d \ {Some(d)}]
  BY DEF Adds
<1>2. 0 \in N
  <2>1. \A d \in SUBSET S : Cardinality(d) = 0 => d = {} BY Sizes
  <2> QED BY <2>1
<1>3. ASSUME NEW n \in N PROVE n + 1 \in N
  <2>1. n \in Nat /\ n + 1 \in Nat OBVIOUS
  <2>2. \A d \in SUBSET S : Cardinality(d) = n => Good(d) OBVIOUS
  <2>3. ASSUME NEW d \in SUBSET S, Cardinality(d) = n + 1 PROVE Good(d)
    <3>1. d # {} BY <2>1, <2>3, Sizes
    <3>2. PICK p \in d : p = Some(d) BY <3>1, Sizes
    <3>3. \A x \in d : d \ {x} \in SUBSET S /\ Cardinality(d \ {x}) = n
      <4>1. \A x \in d : Cardinality(d \ {x}) = Cardinality(d) - 1 BY Sizes
      <4>2. (n + 1) - 1 = n BY <2>1
      <4> QED BY <2>3, <4>1, <4>2
    <3>4. \A x \in d : Good(d \ {x}) BY <2>2, <3>3
    <3>5. g[d] = f[p] + g[d \ {p}] BY <1>1, <3>1, <3>2
    <3>6. ASSUME NEW x \in d PROVE g[d] = f[x] + g[d \ {x}]
      <4>1. CASE x = p BY <3>5, <4>1
      <4>2. CASE x # p
        <5> DEFINE c == (d \ {p}) \ {x}
        <5>1. x \in d \ {p} /\ p \in d \ {x} /\ (d \ {x}) \ {p} = c BY <4>2
        <5>2. g[d \ {p}] = f[x] + g[c] BY <3>4, <5>1
        <5>3. g[d \ {x}] = f[p] + g[c] BY <3>4, <5>1
        <5>4. c \in SUBSET S /\ x \in S /\ p \in S OBVIOUS
        <5>5. g[c] \in Int BY <5>4, AddsIntegers
        <5>6. f[x] \in Int /\ f[p] \in Int BY <5>4
        <5> HIDE DEF c
        <5> QED BY <3>5, <5>2, <5>3, <5>5, <5>6
      <4> QED BY <4>1, <4>2
    <3> QED BY <3>6
  <2> HIDE DEF Good
  <2> QED BY <2>1, <2>3
<1>4. N \in SUBSET Nat OBVIOUS
<1> HIDE DEF N
<1>5. \A n \in Nat : n \in N BY <1>2, <1>3, <1>4, Induction
<1>6. ASSUME NEW d \in SUBSET S PROVE Good(d)
  <2>1. Cardinality(d) \in N BY <1>5, Sizes
  <2> QED BY <2>1 DEF N
<1> QED BY <1>6

(***************************************************************************)
(* What the properties' sums rest on.  The sum of nothing is 0.            *)
(***************************************************************************)
LEMMA SumEmpty == ASSUME NEW f PROVE Sum(f, {}) = 0
<1>1. IsFiniteSet({}) BY FS_EmptySet
<1>2. PICK g : Adds(f, {}, g) BY <1>1, AddsExists
<1>3. Sum(f, {}) = g[{}] BY <1>1, <1>2, SumIs
<1>4. g[{}] = 0 BY <1>1, <1>2, AddsIntegers
<1> QED BY <1>3, <1>4

(***************************************************************************)
(* A sum of integers is an integer.                                        *)
(***************************************************************************)
LEMMA SumInteger ==
  ASSUME NEW S, IsFiniteSet(S), NEW f, \A x \in S : f[x] \in Int
  PROVE  Sum(f, S) \in Int
<1>1. PICK g : Adds(f, S, g) BY AddsExists
<1>2. Sum(f, S) = g[S] BY <1>1, SumIs
<1>3. g[S] \in Int BY <1>1, AddsIntegers
<1> QED BY <1>2, <1>3

(***************************************************************************)
(* One element more.                                                       *)
(***************************************************************************)
LEMMA SumTake ==
  ASSUME NEW S, IsFiniteSet(S), NEW f, \A y \in S : f[y] \in Int, NEW x \in S
  PROVE  Sum(f, S) = f[x] + Sum(f, S \ {x})
<1>1. PICK g : Adds(f, S, g) BY AddsExists
<1>2. S \ {x} \in SUBSET S /\ S \in SUBSET S OBVIOUS
<1>3. Sum(f, S) = g[S] BY <1>1, <1>2, SumIs
<1>4. Sum(f, S \ {x}) = g[S \ {x}] BY <1>1, <1>2, SumIs
<1>5. g[S] = f[x] + g[S \ {x}] BY <1>1, <1>2, AddsInAnyOrder
<1> QED BY <1>3, <1>4, <1>5

(***************************************************************************)
(* Only the values on the set count.                                       *)
(***************************************************************************)
LEMMA SumSame ==
  ASSUME NEW S, IsFiniteSet(S), NEW f, NEW e, \A x \in S : e[x] = f[x]
  PROVE  Sum(e, S) = Sum(f, S)
<1>1. PICK g : Adds(f, S, g) BY AddsExists
<1>2. Sum(f, S) = g[S] BY <1>1, SumIs
<1>3. Sum(e, S) = g[S] BY <1>1, SumIs
<1> QED BY <1>2, <1>3

(***************************************************************************)
(* A change of one value changes the sum by as much.                       *)
(***************************************************************************)
LEMMA SumMoves ==
  ASSUME NEW S, IsFiniteSet(S), NEW f, \A y \in S : f[y] \in Int,
         NEW x \in S, NEW c \in Int, NEW e, e[x] = f[x] + c, \A y \in S \ {x} : e[y] = f[y]
  PROVE  Sum(e, S) = Sum(f, S) + c
<1>1. IsFiniteSet(S \ {x}) BY FS_RemoveElement
<1>2. ASSUME NEW y \in S PROVE e[y] \in Int
  <2>1. CASE y = x
    <3>1. f[x] \in Int OBVIOUS
    <3>2. f[x] + c \in Int BY <3>1
    <3> QED BY <2>1, <3>2
  <2>2. CASE y # x BY <2>2
  <2> QED BY <2>1, <2>2
<1>3. Sum(f, S) = f[x] + Sum(f, S \ {x}) BY SumTake
<1>4. Sum(e, S) = e[x] + Sum(e, S \ {x}) BY <1>2, SumTake
<1>5. Sum(e, S \ {x}) = Sum(f, S \ {x}) BY <1>1, SumSame
<1>6. Sum(f, S \ {x}) \in Int BY <1>1, SumInteger
<1> QED BY <1>3, <1>4, <1>5, <1>6

(***************************************************************************)
(* Induction over the subsets of a finite set, one element at a time.      *)
(***************************************************************************)
LEMMA SetInduction ==
  ASSUME NEW S, IsFiniteSet(S), NEW N, {} \in N,
         \A d \in SUBSET S : \A x \in S \ d : d \in N => d \cup {x} \in N
  PROVE  \A d \in SUBSET S : d \in N
<1> DEFINE M == {n \in Nat : \A d \in SUBSET S : Cardinality(d) = n => d \in N}
<1>1. 0 \in M
  <2>1. \A d \in SUBSET S : Cardinality(d) = 0 => d = {} BY Sizes
  <2> QED BY <2>1
<1>2. ASSUME NEW n \in M PROVE n + 1 \in M
  <2>1. n \in Nat /\ n + 1 \in Nat OBVIOUS
  <2>2. ASSUME NEW d \in SUBSET S, Cardinality(d) = n + 1 PROVE d \in N
    <3>1. d # {} BY <2>1, <2>2, Sizes
    <3>2. PICK x \in d : TRUE BY <3>1
    <3>3. Cardinality(d \ {x}) = n
      <4>1. Cardinality(d \ {x}) = Cardinality(d) - 1 BY Sizes
      <4> QED BY <2>1, <2>2, <4>1
    <3>4. d \ {x} \in SUBSET S /\ x \in S \ (d \ {x}) /\ (d \ {x}) \cup {x} = d OBVIOUS
    <3>5. d \ {x} \in N BY <3>3, <3>4
    <3>6. (d \ {x}) \cup {x} \in N BY <3>4, <3>5
    <3> QED BY <3>4, <3>6
  <2> QED BY <2>1, <2>2
<1>3. M \in SUBSET Nat OBVIOUS
<1> HIDE DEF M
<1>4. \A n \in Nat : n \in M BY <1>1, <1>2, <1>3, Induction
<1>5. ASSUME NEW d \in SUBSET S PROVE d \in N
  <2>1. Cardinality(d) \in M BY <1>4, Sizes
  <2> QED BY <2>1 DEF M
<1> QED BY <1>5

Integral(f, S) == \A x \in S : f[x] \in Int

Grown(f, d, x) ==
  /\ Sum(f, d \cup {x}) = f[x] + Sum(f, d) /\ Sum(f, d) \in Int /\ f[x] \in Int
  /\ Cardinality(d \cup {x}) = Cardinality(d) + 1 /\ Cardinality(d) \in Nat

(***************************************************************************)
(* A set with one more element: its sum and its size.                      *)
(***************************************************************************)
LEMMA SumGrows ==
  ASSUME NEW S, IsFiniteSet(S), NEW d \in SUBSET S, NEW x \in S \ d, NEW f, Integral(f, S)
  PROVE  Grown(f, d, x)
<1> DEFINE e == d \cup {x}
<1>1. e \in SUBSET S /\ e \ {x} = d /\ x \in e OBVIOUS
<1>2. IsFiniteSet(e) /\ IsFiniteSet(d) BY <1>1, Sizes
<1>3. \A y \in S : f[y] \in Int BY DEF Integral
<1>4. Sum(f, e) = f[x] + Sum(f, e \ {x}) BY <1>1, <1>2, <1>3, SumTake
<1>5. Sum(f, d) \in Int /\ f[x] \in Int BY <1>2, <1>3, SumInteger
<1>6. Cardinality(e) = Cardinality(d) + 1 /\ Cardinality(d) \in Nat
  BY <1>2, FS_AddElement, FS_CardinalityType
<1> QED BY <1>1, <1>4, <1>5, <1>6 DEF Grown

(***************************************************************************)
(* A subset of terms that are not negative sums to no more.                *)
(***************************************************************************)
LEMMA SumOfPart ==
  ASSUME NEW S, IsFiniteSet(S), NEW f, \A x \in S : f[x] \in Nat, NEW T \in SUBSET S
  PROVE  Sum(f, T) \in Int /\ Sum(f, S) \in Int /\ 0 <= Sum(f, T) /\ Sum(f, T) <= Sum(f, S)
<1>0. IsFiniteSet(T) /\ \A x \in S : f[x] \in Int BY FS_Subset
<1>i. Integral(f, S) BY <1>0 DEF Integral
<1>1. Sum(f, T) \in Int /\ Sum(f, S) \in Int BY <1>0, SumInteger
<1> DEFINE N == {d \in SUBSET T : 0 <= Sum(f, d)}
<1>2. 0 <= Sum(f, T)
  <2>1. {} \in N BY SumEmpty
  <2>2. ASSUME NEW d \in SUBSET T, NEW x \in T \ d, d \in N PROVE d \cup {x} \in N
    <3>1. Integral(f, T) BY <1>0 DEF Integral
    <3>g. Grown(f, d, x) BY <1>0, <3>1, SumGrows
    <3>2. Sum(f, d \cup {x}) = f[x] + Sum(f, d) /\ Sum(f, d) \in Int BY <3>g DEF Grown
    <3>3. f[x] \in Nat /\ 0 <= Sum(f, d) BY <2>2
    <3>4. 0 <= Sum(f, d \cup {x}) BY <3>2, <3>3
    <3> QED BY <3>4
  <2> HIDE DEF N
  <2>3. T \in N BY <1>0, <2>1, <2>2, SetInduction
  <2> QED BY <2>3 DEF N
<1> DEFINE R == S \ T
           M == {d \in SUBSET R : Sum(f, T) <= Sum(f, T \cup d)}
<1>3. Sum(f, T) <= Sum(f, S)
  <2>1. {} \in M
    <3>1. T \cup {} = T OBVIOUS
    <3> QED BY <1>1, <3>1
  <2>2. ASSUME NEW d \in SUBSET R, NEW x \in R \ d, d \in M PROVE d \cup {x} \in M
    <3>1. T \cup d \in SUBSET S /\ x \in S \ (T \cup d) /\ T \cup (d \cup {x}) = (T \cup d) \cup {x} OBVIOUS
    <3>g. Grown(f, T \cup d, x) BY <1>i, <3>1, SumGrows
    <3>2. Sum(f, (T \cup d) \cup {x}) = f[x] + Sum(f, T \cup d) /\ Sum(f, T \cup d) \in Int
      BY <3>g DEF Grown
    <3>3. f[x] \in Nat /\ Sum(f, T) <= Sum(f, T \cup d) BY <2>2
    <3>4. Sum(f, T) <= Sum(f, (T \cup d) \cup {x}) BY <1>1, <3>2, <3>3
    <3>5. d \cup {x} \in SUBSET R OBVIOUS
    <3> QED BY <3>1, <3>4, <3>5
  <2>3. IsFiniteSet(R) BY FS_Subset
  <2>4. T \cup R = S OBVIOUS
  <2> HIDE DEF M, R
  <2>5. \A d \in SUBSET R : \A x \in R \ d : d \in M => d \cup {x} \in M BY <2>2
  <2>6. \A d \in SUBSET R : d \in M BY <2>1, <2>3, <2>5, SetInduction
  <2> QED BY <2>4, <2>6 DEF M
<1> QED BY <1>1, <1>2, <1>3

(***************************************************************************)
(* Rounding: when each term, less one, is within its share of c, the sum   *)
(* exceeds the sum of the shares by one for each term at most.             *)
(***************************************************************************)
LEMMA SumRounded ==
  ASSUME NEW S, IsFiniteSet(S), NEW c \in Nat, NEW f, NEW h,
         \A x \in S : f[x] \in Int /\ h[x] \in Int /\ c * (f[x] - 1) <= h[x]
  PROVE  c * (Sum(f, S) - Cardinality(S)) <= Sum(h, S)
<1> DEFINE N == {d \in SUBSET S : c * (Sum(f, d) - Cardinality(d)) <= Sum(h, d)}
<1>1. {} \in N
  <2>1. Sum(f, {}) = 0 /\ Sum(h, {}) = 0 /\ Cardinality({}) = 0 BY SumEmpty, FS_EmptySet
  <2> QED BY <2>1
<1>2. ASSUME NEW d \in SUBSET S, NEW x \in S \ d, d \in N PROVE d \cup {x} \in N
  <2>0. Integral(f, S) /\ Integral(h, S) BY DEF Integral
  <2>g. Grown(f, d, x) /\ Grown(h, d, x) BY <2>0, SumGrows
  <2>1. /\ Sum(f, d \cup {x}) = f[x] + Sum(f, d) /\ Sum(f, d) \in Int /\ f[x] \in Int
        /\ Cardinality(d \cup {x}) = Cardinality(d) + 1 /\ Cardinality(d) \in Nat
    BY <2>g DEF Grown
  <2>2. Sum(h, d \cup {x}) = h[x] + Sum(h, d) /\ Sum(h, d) \in Int /\ h[x] \in Int BY <2>g DEF Grown
  <2>3. c * (f[x] - 1) <= h[x] /\ c * (Sum(f, d) - Cardinality(d)) <= Sum(h, d) BY <1>2
  <2>4. \A a, b, n \in Int : c * ((a + b) - (n + 1)) = c * (a - 1) + c * (b - n) OBVIOUS
  <2>5. c * (Sum(f, d \cup {x}) - Cardinality(d \cup {x}))
          = c * (f[x] - 1) + c * (Sum(f, d) - Cardinality(d))
    BY <2>1, <2>4
  <2>6. \A a, b, u, v \in Int : a <= u /\ b <= v => a + b <= u + v OBVIOUS
  <2>7. c * (f[x] - 1) \in Int /\ c * (Sum(f, d) - Cardinality(d)) \in Int BY <2>1
  <2>8. c * (f[x] - 1) + c * (Sum(f, d) - Cardinality(d)) <= h[x] + Sum(h, d) BY <2>2, <2>3, <2>6, <2>7
  <2>9. c * (Sum(f, d \cup {x}) - Cardinality(d \cup {x})) <= Sum(h, d \cup {x}) BY <2>2, <2>5, <2>8
  <2>10. d \cup {x} \in SUBSET S OBVIOUS
  <2> QED BY <2>9, <2>10
<1> HIDE DEF N
<1>3. S \in N BY <1>1, <1>2, SetInduction
<1> QED BY <1>3 DEF N

(***************************************************************************)
(* A common factor.                                                        *)
(***************************************************************************)
LEMMA SumScaled ==
  ASSUME NEW S, IsFiniteSet(S), NEW c \in Nat, NEW f, NEW h,
         \A x \in S : f[x] \in Int /\ h[x] = c * f[x]
  PROVE  Sum(h, S) = c * Sum(f, S)
<1> DEFINE N == {d \in SUBSET S : Sum(h, d) = c * Sum(f, d)}
<1>1. {} \in N BY SumEmpty
<1>2. ASSUME NEW d \in SUBSET S, NEW x \in S \ d, d \in N PROVE d \cup {x} \in N
  <2>0. Integral(f, S) /\ Integral(h, S) BY DEF Integral
  <2>g. Grown(f, d, x) /\ Grown(h, d, x) BY <2>0, SumGrows
  <2>1. Sum(f, d \cup {x}) = f[x] + Sum(f, d) /\ Sum(f, d) \in Int /\ f[x] \in Int BY <2>g DEF Grown
  <2>2. Sum(h, d \cup {x}) = h[x] + Sum(h, d) BY <2>g DEF Grown
  <2>3. \A a, b \in Int : c * a + c * b = c * (a + b) OBVIOUS
  <2>4. Sum(h, d \cup {x}) = c * Sum(f, d \cup {x}) BY <1>2, <2>1, <2>2, <2>3
  <2>5. d \cup {x} \in SUBSET S OBVIOUS
  <2> QED BY <2>4, <2>5
<1> HIDE DEF N
<1>3. S \in N BY <1>1, <1>2, SetInduction
<1> QED BY <1>3 DEF N

(***************************************************************************)
(* Equal terms.                                                            *)
(***************************************************************************)
LEMMA SumConstant ==
  ASSUME NEW S, IsFiniteSet(S), NEW c \in Nat, NEW f, \A x \in S : f[x] = c
  PROVE  Sum(f, S) = c * Cardinality(S)
<1> DEFINE N == {d \in SUBSET S : Sum(f, d) = c * Cardinality(d)}
<1>1. {} \in N
  <2>1. Sum(f, {}) = 0 /\ Cardinality({}) = 0 BY SumEmpty, FS_EmptySet
  <2> QED BY <2>1
<1>2. ASSUME NEW d \in SUBSET S, NEW x \in S \ d, d \in N PROVE d \cup {x} \in N
  <2>1. Integral(f, S) BY DEF Integral
  <2>2. Grown(f, d, x) BY <2>1, SumGrows
  <2>3. /\ Sum(f, d \cup {x}) = f[x] + Sum(f, d)
        /\ Cardinality(d \cup {x}) = Cardinality(d) + 1 /\ Cardinality(d) \in Nat
    BY <2>2 DEF Grown
  <2>4. \A n \in Nat : c + c * n = c * (n + 1) OBVIOUS
  <2>5. Sum(f, d \cup {x}) = c * Cardinality(d \cup {x}) BY <1>2, <2>3, <2>4
  <2>6. d \cup {x} \in SUBSET S OBVIOUS
  <2> QED BY <2>5, <2>6
<1> HIDE DEF N
<1>3. S \in N BY <1>1, <1>2, SetInduction
<1> QED BY <1>3 DEF N

(***************************************************************************)
(* h lists the numbers that f lists, in the order of b.                    *)
(***************************************************************************)
Permutes(b, S, f, h) ==
  /\ b \in [S -> S]
  /\ \A x, y \in S : b[x] = b[y] => x = y
  /\ \A z \in S : \E x \in S : b[x] = z
  /\ \A x \in S : h[x] = f[b[x]]

(***************************************************************************)
(* A sum over numbers in another order.                                    *)
(***************************************************************************)
LEMMA SumReordered ==
  ASSUME NEW S, IsFiniteSet(S), NEW f, Integral(f, S), NEW b, NEW h, Permutes(b, S, f, h)
  PROVE  Sum(h, S) = Sum(f, S)
<1> USE DEF Permutes
<1> DEFINE Im(d) == {b[x] : x \in d}
           N == {d \in SUBSET S : Sum(h, d) = Sum(f, Im(d))}
<1>1. {} \in N
  <2>1. Im({}) = {} OBVIOUS
  <2>2. Sum(h, {}) = 0 /\ Sum(f, {}) = 0 BY SumEmpty
  <2>3. Sum(h, {}) = Sum(f, Im({})) BY <2>1, <2>2
  <2> QED BY <2>3
<1>2. ASSUME NEW d \in SUBSET S, NEW x \in S \ d, d \in N PROVE d \cup {x} \in N
  <2>1. Sum(h, d) = Sum(f, Im(d)) BY <1>2
  <2> HIDE DEF N
  <2>2. Integral(h, S) BY DEF Integral
  <2>3. Grown(h, d, x) BY <2>2, SumGrows
  <2>4. Im(d) \in SUBSET S /\ b[x] \in S \ Im(d) OBVIOUS
  <2>5. Im(d \cup {x}) = Im(d) \cup {b[x]} OBVIOUS
  <2> HIDE DEF Im
  <2>6. Grown(f, Im(d), b[x]) BY <2>4, SumGrows
  <2>7. Sum(h, d \cup {x}) = h[x] + Sum(h, d) BY <2>3 DEF Grown
  <2>8. Sum(f, Im(d) \cup {b[x]}) = f[b[x]] + Sum(f, Im(d)) BY <2>6 DEF Grown
  <2>9. h[x] = f[b[x]] OBVIOUS
  <2>10. Sum(h, d \cup {x}) = Sum(f, Im(d \cup {x})) BY <2>1, <2>5, <2>7, <2>8, <2>9
  <2>11. d \cup {x} \in SUBSET S OBVIOUS
  <2> QED BY <2>10, <2>11 DEF N
<1> HIDE DEF N
<1>3. S \in N BY <1>1, <1>2, SetInduction
<1>4. Im(S) = S OBVIOUS
<1>5. Sum(h, S) = Sum(f, Im(S)) BY <1>3 DEF N
<1> HIDE DEF Im
<1> QED BY <1>4, <1>5

(***************************************************************************)
(* The sum over one more number.                                           *)
(***************************************************************************)
LEMMA SumNext ==
  ASSUME NEW n \in Nat, NEW f, \A i \in 1 .. n : f[i] \in Int, NEW k \in Nat, k + 1 <= n
  PROVE  /\ Sum(f, 1 .. k) \in Int
         /\ Sum(f, 1 .. (k + 1)) = Sum(f, 1 .. k) + f[k + 1]
<1>1. IsFiniteSet(1 .. k) /\ IsFiniteSet(1 .. (k + 1)) BY FS_Interval
<1>2. \A i \in 1 .. (k + 1) : f[i] \in Int OBVIOUS
<1>3. \A i \in 1 .. k : f[i] \in Int OBVIOUS
<1>4. k + 1 \in 1 .. (k + 1) /\ (1 .. (k + 1)) \ {k + 1} = 1 .. k OBVIOUS
<1>5. Sum(f, 1 .. k) \in Int BY <1>1, <1>3, SumInteger
<1>6. Sum(f, 1 .. (k + 1)) = f[k + 1] + Sum(f, (1 .. (k + 1)) \ {k + 1}) BY <1>1, <1>2, <1>4, SumTake
<1>7. Sum(f, 1 .. (k + 1)) = f[k + 1] + Sum(f, 1 .. k) BY <1>4, <1>6, Zenon
<1>8. f[k + 1] \in Int BY <1>2, <1>4
<1> QED BY <1>5, <1>7, <1>8

(***************************************************************************)
(* g lists the last n of the m + n numbers that f lists.                   *)
(***************************************************************************)
RunsOn(f, g, m, n) ==
  /\ m \in Nat /\ n \in Nat
  /\ \A i \in 1 .. (m + n) : f[i] \in Int
  /\ \A j \in 1 .. n : g[j] = f[m + j]

(***************************************************************************)
(* The sum over a list and the one behind it.                              *)
(***************************************************************************)
LEMMA SumAppended ==
  ASSUME NEW m, NEW n, NEW f, NEW g, RunsOn(f, g, m, n)
  PROVE  /\ Sum(f, 1 .. m) \in Int /\ Sum(g, 1 .. n) \in Int
         /\ Sum(f, 1 .. (m + n)) = Sum(f, 1 .. m) + Sum(g, 1 .. n)
<1> USE DEF RunsOn
<1> DEFINE S == {k \in Nat : k <= n =>
                   Sum(g, 1 .. k) \in Int /\ Sum(f, 1 .. (m + k)) = Sum(f, 1 .. m) + Sum(g, 1 .. k)}
<1>1. \A j \in 1 .. n : g[j] \in Int
  <2> SUFFICES ASSUME NEW j \in 1 .. n PROVE g[j] \in Int OBVIOUS
  <2>1. m + j \in 1 .. (m + n) /\ g[j] = f[m + j] OBVIOUS
  <2> QED BY <2>1
<1>2. Sum(f, 1 .. m) \in Int
  <2>1. IsFiniteSet(1 .. m) BY FS_Interval
  <2>2. \A i \in 1 .. m : f[i] \in Int OBVIOUS
  <2> QED BY <2>1, <2>2, SumInteger
<1>3. 0 \in S
  <2>1. 1 .. 0 = {} /\ m + 0 = m OBVIOUS
  <2>2. Sum(g, 1 .. 0) = 0 BY <2>1, SumEmpty
  <2>3. Sum(f, 1 .. (m + 0)) = Sum(f, 1 .. m) BY <2>1
  <2> QED BY <1>2, <2>2, <2>3
<1>4. ASSUME NEW k \in S PROVE k + 1 \in S
  <2> SUFFICES ASSUME k + 1 <= n
               PROVE  /\ Sum(g, 1 .. (k + 1)) \in Int
                      /\ Sum(f, 1 .. (m + (k + 1))) = Sum(f, 1 .. m) + Sum(g, 1 .. (k + 1))
    OBVIOUS
  <2>1. k \in Nat /\ k + 1 \in 1 .. n /\ k <= n OBVIOUS
  <2>2. Sum(g, 1 .. k) \in Int /\ Sum(f, 1 .. (m + k)) = Sum(f, 1 .. m) + Sum(g, 1 .. k) BY <2>1
  <2> HIDE DEF S
  <2>3. Sum(g, 1 .. (k + 1)) = Sum(g, 1 .. k) + g[k + 1] BY <1>1, <2>1, SumNext
  <2>4. PICK p \in Nat : p = m + k /\ p + 1 = m + (k + 1) /\ p + 1 <= m + n BY <2>1
  <2>5. PICK q \in Nat : q = m + n OBVIOUS
  <2>6. \A i \in 1 .. q : f[i] \in Int BY <2>5
  <2>7. Sum(f, 1 .. (p + 1)) = Sum(f, 1 .. p) + f[p + 1] BY <2>4, <2>5, <2>6, SumNext
  <2>8. g[k + 1] = f[p + 1] BY <2>1, <2>4
  <2>9. g[k + 1] \in Int BY <1>1, <2>1
  <2>10. Sum(f, 1 .. (m + (k + 1))) = Sum(f, 1 .. (m + k)) + g[k + 1] BY <2>4, <2>7, <2>8
  <2> QED BY <1>2, <2>2, <2>3, <2>9, <2>10
<1>5. S \in SUBSET Nat OBVIOUS
<1> HIDE DEF S
<1>6. n \in S BY <1>3, <1>4, <1>5, Induction
<1> QED BY <1>2, <1>6 DEF S
=============================================================================
