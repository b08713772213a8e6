---------------------------- MODULE SumTheorems ----------------------------
(***************************************************************************)
(* Sums over finite sets, SumFunctionOnSet of the community module         *)
(* Functions: what taking an element out of the set, or changing the       *)
(* numbers, does to the sum.                                               *)
(*                                                                         *)
(* The sum is defined by a recursive function on the subsets of the set.   *)
(* That there is one, and only one, follows by induction over finite sets, *)
(* which is stated for the set of subsets that satisfy the claim.          *)
(***************************************************************************)
EXTENDS Integers, FiniteSets, Functions, FiniteSetTheorems, WellFoundedInduction, TLAPS

\* Induction over the subsets of a finite set: if good sets are closed under
\* "all strict subsets are good", then every subset is good.
LEMMA SubsetInduction ==
    ASSUME NEW S, IsFiniteSet(S), NEW Good,
           \A s \in SUBSET S : (\A t \in SUBSET s : t # s => t \in Good) => s \in Good
    PROVE  S \in Good
<1> DEFINE Bad == {s \in SUBSET S : s \notin Good}
<1> SUFFICES ASSUME Bad # {} PROVE FALSE
  OBVIOUS
<1>1. IsWellFoundedOn(StrictSubsetOrdering(S), SUBSET S)
  <2>1. FiniteSubsetsOf(S) = SUBSET S
    BY FS_FiniteSubsetsOfFinite
  <2>2. IsWellFoundedOn(StrictSubsetOrdering(S), FiniteSubsetsOf(S))
    BY FS_StrictSubsetOrderingWellFounded, Zenon
  <2> QED BY <2>1, <2>2
<1>2. PICK s \in Bad : \A t \in Bad : <<t, s>> \notin StrictSubsetOrdering(S)
  <2>1. Bad \subseteq SUBSET S
    OBVIOUS
  <2> HIDE DEF Bad
  <2> QED BY <1>1, <2>1, WFMin
<1>3. \A t \in SUBSET s : t # s => t \in Good
  BY <1>2 DEF StrictSubsetOrdering
<1> QED BY <1>2, <1>3

\* The element that the sum takes first, and the recursive function on subsets.
First(s) == CHOOSE x \in s : TRUE

Sums(iter, fun, S) ==
    iter = [s \in SUBSET S |-> IF s = {} THEN 0 ELSE fun[First(s)] + iter[s \ {First(s)}]]

TheSums(fun, S) == CHOOSE iter : Sums(iter, fun, S)

LEMMA SumIsIterated ==
    ASSUME NEW fun, NEW S
    PROVE  SumFunctionOnSet(fun, S) = TheSums(fun, S)[S]
  BY DEF SumFunctionOnSet, FoldFunctionOnSet, MapThenFoldSet, TheSums, Sums, First

\* What the equation says at one subset.
LEMMA SumsAt ==
    ASSUME NEW fun, NEW S, NEW iter, Sums(iter, fun, S), NEW s \in SUBSET S
    PROVE  /\ s = {} => iter[s] = 0
           /\ s # {} => iter[s] = fun[First(s)] + iter[s \ {First(s)}]
  BY DEF Sums

LEMMA FirstIn ==
    ASSUME NEW s, s # {}
    PROVE  First(s) \in s
  BY DEF First

\* Two such functions agree where both are defined.
LEMMA SumsAgree ==
    ASSUME NEW fun, NEW S, NEW i, Sums(i, fun, S), NEW T, NEW j, Sums(j, fun, T),
           NEW s \in SUBSET S, s \in SUBSET T, IsFiniteSet(s)
    PROVE  i[s] = j[s]
<1> DEFINE Good == {t \in SUBSET s : i[t] = j[t]}
<1>1. ASSUME NEW t \in SUBSET s, \A r \in SUBSET t : r # t => r \in Good
      PROVE  t \in Good
  <2>1. CASE t = {}
    BY <2>1, SumsAt
  <2>2. CASE t # {}
    <3>1. t \ {First(t)} \in Good
      BY <1>1, <2>2, FirstIn
    <3>2. t \in SUBSET S /\ t \in SUBSET T
      OBVIOUS
    <3> QED BY <2>2, <3>1, <3>2, SumsAt
  <2> QED BY <2>1, <2>2
<1> HIDE DEF Good
<1>2. s \in Good
  BY <1>1, SubsetInduction
<1> QED BY <1>2 DEF Good

\* There is such a function on every finite set.
LEMMA SumsExist ==
    ASSUME NEW fun, NEW S, IsFiniteSet(S)
    PROVE  Sums(TheSums(fun, S), fun, S)
<1> DEFINE Good == {s \in SUBSET S : Sums(TheSums(fun, s), fun, s)}
<1>1. ASSUME NEW s \in SUBSET S, \A t \in SUBSET s : t # s => t \in Good
      PROVE  s \in Good
  <2> DEFINE rest(t) == t \ {First(t)}
             at(t) == TheSums(fun, t)[t]
             it == [t \in SUBSET s |-> IF t = {} THEN 0 ELSE fun[First(t)] + at(rest(t))]
  <2>1. ASSUME NEW t \in SUBSET s, t # {}
        PROVE  it[rest(t)] = at(rest(t))
    <3> DEFINE r == rest(t)
    <3>1. r \in SUBSET s /\ r # s /\ r \in SUBSET S
      BY <2>1, FirstIn
    <3>2. Sums(TheSums(fun, r), fun, r)
      BY <1>1, <3>1
    <3>3. CASE r = {}
      <4>1. at(r) = 0
        BY <3>2, <3>3, SumsAt
      <4> QED BY <3>1, <3>3, <4>1
    <3>4. CASE r # {}
      <4> DEFINE q == rest(r)
      <4>1. q \in SUBSET r /\ q # s /\ q \in SUBSET s
        BY <3>1, <3>4, FirstIn
      <4>2. Sums(TheSums(fun, q), fun, q)
        BY <1>1, <4>1
      <4>3. IsFiniteSet(q)
        BY <3>1, <4>1, FS_Subset
      <4>4. TheSums(fun, r)[q] = TheSums(fun, q)[q]
        <5> HIDE DEF q, r
        <5>1. q \in SUBSET q
          OBVIOUS
        <5> QED BY <3>2, <4>1, <4>2, <4>3, <5>1, SumsAgree
      <4>5. TheSums(fun, r)[r] = fun[First(r)] + TheSums(fun, r)[q]
        BY <3>2, <3>4, SumsAt
      <4>6. it[r] = fun[First(r)] + at(q)
        BY <3>1, <3>4
      <4> QED BY <4>4, <4>5, <4>6
    <3> QED BY <3>3, <3>4
  <2>2. Sums(it, fun, s)
    <3>1. it = [t \in SUBSET s |-> IF t = {} THEN 0 ELSE fun[First(t)] + it[rest(t)]]
      <4> HIDE DEF rest
      <4>1. \A t \in SUBSET s : t # {} => it[rest(t)] = at(rest(t))
        BY <2>1
      <4> QED BY <4>1
    <3> QED BY <3>1 DEF Sums
  <2>3. Sums(TheSums(fun, s), fun, s)
    <3> HIDE DEF it
    <3> QED BY <2>2 DEF TheSums
  <2> QED BY <2>3
<1> HIDE DEF Good
<1>2. S \in Good
  BY <1>1, SubsetInduction
<1> QED BY <1>2 DEF Good

\* The empty sum.
LEMMA SumOfNone ==
    ASSUME NEW fun
    PROVE  SumFunctionOnSet(fun, {}) = 0
<1>1. Sums(TheSums(fun, {}), fun, {})
  BY SumsExist, FS_EmptySet
<1> QED BY <1>1, SumsAt, SumIsIterated

\* The sum as it is computed, one element after the other.
LEMMA SumStep ==
    ASSUME NEW fun, NEW S, IsFiniteSet(S), S # {}
    PROVE  SumFunctionOnSet(fun, S)
              = fun[First(S)] + SumFunctionOnSet(fun, S \ {First(S)})
<1> DEFINE T == S \ {First(S)}
<1>1. IsFiniteSet(T) /\ T \subseteq S
  BY FS_Subset
<1>2. Sums(TheSums(fun, S), fun, S) /\ Sums(TheSums(fun, T), fun, T)
  BY <1>1, SumsExist
<1>3. TheSums(fun, S)[S] = fun[First(S)] + TheSums(fun, S)[T]
  BY <1>2, SumsAt
<1>4. TheSums(fun, S)[T] = TheSums(fun, T)[T]
  <2> HIDE DEF T
  <2>1. T \in SUBSET T
    OBVIOUS
  <2> QED BY <1>1, <1>2, <2>1, SumsAgree
<1> QED BY <1>3, <1>4, SumIsIterated

\* A sum of integers is an integer.
LEMMA SumIsInt ==
    ASSUME NEW fun, NEW S, IsFiniteSet(S), \A x \in S : fun[x] \in Int
    PROVE  SumFunctionOnSet(fun, S) \in Int
<1> DEFINE Good == {s \in SUBSET S : SumFunctionOnSet(fun, s) \in Int}
<1>1. ASSUME NEW s \in SUBSET S, \A t \in SUBSET s : t # s => t \in Good
      PROVE  s \in Good
  <2>1. CASE s = {}
    BY <2>1, SumOfNone
  <2>2. CASE s # {}
    <3>1. s \ {First(s)} \in Good /\ fun[First(s)] \in Int
      BY <1>1, <2>2, FirstIn
    <3>2. IsFiniteSet(s)
      BY FS_Subset
    <3> QED BY <2>2, <3>1, <3>2, SumStep
  <2> QED BY <2>1, <2>2
<1> HIDE DEF Good
<1>2. S \in Good
  BY <1>1, SubsetInduction
<1> QED BY <1>2 DEF Good

\* Any element can be taken out of the set.
LEMMA SumTake ==
    ASSUME NEW fun, NEW S, IsFiniteSet(S), \A y \in S : fun[y] \in Int, NEW x \in S
    PROVE  SumFunctionOnSet(fun, S) = fun[x] + SumFunctionOnSet(fun, S \ {x})
<1> DEFINE Total(s) == SumFunctionOnSet(fun, s)
           Good == {s \in SUBSET S : \A y \in s : Total(s) = fun[y] + Total(s \ {y})}
<1>1. ASSUME NEW s \in SUBSET S, \A t \in SUBSET s : t # s => t \in Good
      PROVE  s \in Good
  <2> SUFFICES ASSUME NEW y \in s PROVE Total(s) = fun[y] + Total(s \ {y})
    OBVIOUS
  <2> DEFINE c == First(s)
  <2>1. c \in s
    BY FirstIn
  <2>2. \A t \in SUBSET s : IsFiniteSet(t) /\ Total(t) \in Int
    <3> SUFFICES ASSUME NEW t \in SUBSET s PROVE IsFiniteSet(t) /\ Total(t) \in Int
      OBVIOUS
    <3>1. IsFiniteSet(t)
      BY FS_Subset
    <3> QED BY <3>1, SumIsInt
  <2>3. Total(s) = fun[c] + Total(s \ {c})
    BY <2>2, SumStep
  <2>4. CASE y # c
    <3>1. s \ {c} \in Good /\ s \ {y} \in Good
      BY <1>1, <2>1
    <3>2. Total(s \ {c}) = fun[y] + Total((s \ {c}) \ {y})
      BY <2>4, <3>1
    <3>3. Total(s \ {y}) = fun[c] + Total((s \ {y}) \ {c})
      BY <2>1, <2>4, <3>1
    <3>4. (s \ {c}) \ {y} = (s \ {y}) \ {c}
      OBVIOUS
    <3>5. Total(s \ {y}) = fun[c] + Total((s \ {c}) \ {y})
      BY <3>3, <3>4
    <3> DEFINE rest == Total((s \ {c}) \ {y})
    <3>6. rest \in Int /\ fun[y] \in Int /\ fun[c] \in Int
      BY <2>1, <2>2
    <3>7. Total(s \ {c}) = fun[y] + rest /\ Total(s \ {y}) = fun[c] + rest
      BY <3>2, <3>5
    <3> HIDE DEF Total, Good, c, rest
    <3> QED BY <2>3, <3>6, <3>7
  <2> QED BY <2>3, <2>4
<1>2. S \in Good
  <2> HIDE DEF Good
  <2> QED BY <1>1, SubsetInduction
<1> QED BY <1>2

\* A new element adds its number.
LEMMA SumAdd ==
    ASSUME NEW fun, NEW S, IsFiniteSet(S), NEW x, x \notin S,
           \A y \in S \cup {x} : fun[y] \in Int
    PROVE  SumFunctionOnSet(fun, S \cup {x}) = fun[x] + SumFunctionOnSet(fun, S)
<1>1. IsFiniteSet(S \cup {x}) /\ (S \cup {x}) \ {x} = S
  BY FS_AddElement
<1> QED BY <1>1, SumTake

\* The sum depends only on the numbers of the elements of the set.
LEMMA SumSame ==
    ASSUME NEW fun, NEW other, NEW S, IsFiniteSet(S), \A x \in S : fun[x] = other[x]
    PROVE  SumFunctionOnSet(fun, S) = SumFunctionOnSet(other, S)
<1> DEFINE Good == {s \in SUBSET S : SumFunctionOnSet(fun, s) = SumFunctionOnSet(other, s)}
<1>1. ASSUME NEW s \in SUBSET S, \A t \in SUBSET s : t # s => t \in Good
      PROVE  s \in Good
  <2>1. CASE s = {}
    BY <2>1, SumOfNone
  <2>2. CASE s # {}
    <3>1. s \ {First(s)} \in Good /\ fun[First(s)] = other[First(s)]
      BY <1>1, <2>2, FirstIn
    <3>2. IsFiniteSet(s)
      BY FS_Subset
    <3> QED BY <2>2, <3>1, <3>2, SumStep
  <2> QED BY <2>1, <2>2
<1> HIDE DEF Good
<1>2. S \in Good
  BY <1>1, SubsetInduction
<1> QED BY <1>2 DEF Good

\* A sum of natural numbers is one, and bounds each of them.
LEMMA SumBounds ==
    ASSUME NEW fun, NEW S, IsFiniteSet(S), \A x \in S : fun[x] \in Nat
    PROVE  /\ SumFunctionOnSet(fun, S) \in Nat
           /\ \A x \in S : fun[x] <= SumFunctionOnSet(fun, S)
<1> DEFINE Good == {s \in SUBSET S : SumFunctionOnSet(fun, s) \in Nat}
<1>1. ASSUME NEW s \in SUBSET S, \A t \in SUBSET s : t # s => t \in Good
      PROVE  s \in Good
  <2>1. CASE s = {}
    BY <2>1, SumOfNone
  <2>2. CASE s # {}
    <3>1. s \ {First(s)} \in Good /\ fun[First(s)] \in Nat
      BY <1>1, <2>2, FirstIn
    <3>2. IsFiniteSet(s)
      BY FS_Subset
    <3> QED BY <2>2, <3>1, <3>2, SumStep
  <2> QED BY <2>1, <2>2
<1>2. SUBSET S \subseteq Good
  <2> SUFFICES ASSUME NEW s \in SUBSET S PROVE s \in Good
    OBVIOUS
  <2>1. IsFiniteSet(s)
    BY FS_Subset
  <2> HIDE DEF Good
  <2> QED BY <1>1, <2>1, SubsetInduction
<1>3. SumFunctionOnSet(fun, S) \in Nat
  BY <1>2
<1>4. ASSUME NEW x \in S
      PROVE  fun[x] <= SumFunctionOnSet(fun, S)
  <2>1. SumFunctionOnSet(fun, S \ {x}) \in Nat
    BY <1>2
  <2>2. SumFunctionOnSet(fun, S) = fun[x] + SumFunctionOnSet(fun, S \ {x})
    BY SumTake
  <2> QED BY <2>1, <2>2
<1> QED BY <1>3, <1>4

\* Larger numbers have a larger sum.
LEMMA SumMonotone ==
    ASSUME NEW fun, NEW other, NEW S, IsFiniteSet(S),
           \A x \in S : fun[x] \in Int /\ other[x] \in Int /\ fun[x] <= other[x]
    PROVE  SumFunctionOnSet(fun, S) <= SumFunctionOnSet(other, S)
<1> DEFINE Good == {s \in SUBSET S : SumFunctionOnSet(fun, s) <= SumFunctionOnSet(other, s)}
<1>1. ASSUME NEW s \in SUBSET S, \A t \in SUBSET s : t # s => t \in Good
      PROVE  s \in Good
  <2>1. CASE s = {}
    BY <2>1, SumOfNone
  <2>2. CASE s # {}
    <3> DEFINE t == s \ {First(s)}
    <3>1. t \in Good /\ First(s) \in S
      BY <1>1, <2>2, FirstIn
    <3>2. IsFiniteSet(s) /\ IsFiniteSet(t)
      BY FS_Subset
    <3>3. SumFunctionOnSet(fun, t) \in Int /\ SumFunctionOnSet(other, t) \in Int
      BY <3>2, SumIsInt
    <3>4. /\ SumFunctionOnSet(fun, s) = fun[First(s)] + SumFunctionOnSet(fun, t)
          /\ SumFunctionOnSet(other, s) = other[First(s)] + SumFunctionOnSet(other, t)
      BY <2>2, <3>2, SumStep
    <3> QED BY <3>1, <3>3, <3>4
  <2> QED BY <2>1, <2>2
<1> HIDE DEF Good
<1>2. S \in Good
  BY <1>1, SubsetInduction
<1> QED BY <1>2 DEF Good
=============================================================================
