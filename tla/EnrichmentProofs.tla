-------------------------- MODULE EnrichmentProofs --------------------------
(***************************************************************************)
(* Proofs about the scores and the jobs that follow them, for any coins,   *)
(* any series of candles, any books and trades and any number of runs that *)
(* overlap:                                                                *)
(*   - scoring keeps the order of the coins, counts nothing but candles    *)
(*     and labels the least liquid coin as illiquid;                       *)
(*   - the summaries of a book and of trades agree with themselves;        *)
(*   - the rows that are stored never go back to an older state;           *)
(*   - the records of the runs say what was stored.                        *)
(*                                                                         *)
(* The first half is about the operators: a sum over a finite set does not *)
(* depend on the order of its terms, a variance is not negative, what a    *)
(* normalisation does to an order.  Induction is over the subsets of a     *)
(* finite set, taken as a set (SmallerFirst), never over an operator.      *)
(***************************************************************************)
EXTENDS Enrichment, FiniteSetTheorems, SequenceTheorems, TLAPS

-----------------------------------------------------------------------------
(* Sums over finite sets *)

(* The order of the naturals, as the relation the induction runs along.    *)
LEMMA LessIsOrdered ==
  ASSUME NEW i \in Nat, NEW k \in Nat, i < k
  PROVE  <<i, k>> \in OpToRel(<, Nat)
BY Zenon DEF OpToRel

(* What holds of the empty set, and of a set when it holds of the set with *)
(* one element less, holds of every finite set.                            *)
LEMMA SmallerFirst ==
  ASSUME NEW S, IsFiniteSet(S), NEW P,
         \A s \in SUBSET S : (\A x \in s : s \ {x} \in P) => s \in P
  PROVE  \A s \in SUBSET S : s \in P
<1> SUFFICES ASSUME NEW t \in SUBSET S, t \notin P PROVE FALSE
  OBVIOUS
<1> DEFINE T == {Cardinality(s) : s \in (SUBSET S) \ P}
<1>1. \A s \in SUBSET S : IsFiniteSet(s) /\ Cardinality(s) \in Nat
  BY FS_Subset, FS_CardinalityType
<1>2. T \subseteq Nat /\ T # {}
  BY <1>1
<1>3. PICK n \in T : \A m \in T : ~ (<<m, n>> \in OpToRel(<, Nat))
  <2> HIDE DEF T
  <2> QED BY <1>2, NatLessThanWellFounded, WFMin, Zenon
<1>4. PICK s \in (SUBSET S) \ P : n = Cardinality(s)
  OBVIOUS
<1>5. PICK x \in s : s \ {x} \notin P
  OBVIOUS
<1>6. Cardinality(s \ {x}) = n - 1 /\ n > 0
  <2>1. Cardinality(s \ {x}) = Cardinality(s) - 1
    BY <1>1, FS_RemoveElement
  <2>2. Cardinality(s \ {x}) \in Nat
    BY <1>1
  <2> QED BY <1>1, <1>4, <2>1, <2>2
<1>7. n - 1 \in T
  BY <1>5, <1>6
<1>8. n \in Nat /\ n - 1 \in Nat /\ n - 1 < n
  BY <1>1, <1>4, <1>6
<1> HIDE DEF T
<1> QED BY <1>3, <1>7, <1>8, LessIsOrdered, Zenon

(* The element that a fold takes next.                                     *)
Any(s) == CHOOSE x \in s : TRUE

(* g[s] is the sum of f over s, for each subset s of S.                    *)
Adds(g, f, S) ==
    g = [s \in SUBSET S |->
            IF s = {} THEN 0 ELSE f[Any(s)] + g[s \ {Any(s)}]]
(* The sum of f over S.                                                    *)
Sum(f, S) == (CHOOSE g : Adds(g, f, S))[S]

(* The fold of the community modules is that sum.                          *)
LEMMA SumIsFold == ASSUME NEW f PROVE FoldFunction(+,0,f) = Sum(f, DOMAIN f)
BY DEF FoldFunction, FoldFunctionOnSet, MapThenFoldSet, Sum, Adds, Any

(* What is taken from a set is one of its elements.                        *)
LEMMA AnyFact == ASSUME NEW s, s # {} PROVE Any(s) \in s
BY DEF Any

(* Two sums of functions that agree where both are summed agree there.     *)
LEMMA SumsAgree ==
  ASSUME NEW f, NEW g, NEW S, Adds(g, f, S),
         NEW k, NEW h, NEW T, Adds(h, k, T),
         IsFiniteSet(S \cap T), \A x \in S \cap T : f[x] = k[x]
  PROVE  \A s \in SUBSET (S \cap T) : g[s] = h[s]
<1> DEFINE P == {s \in SUBSET (S \cap T) : g[s] = h[s]}
<1>1. ASSUME NEW s \in SUBSET (S \cap T), \A x \in s : s \ {x} \in P PROVE s \in P
  <2>1. /\ g[s] = IF s = {} THEN 0 ELSE f[Any(s)] + g[s \ {Any(s)}]
        /\ h[s] = IF s = {} THEN 0 ELSE k[Any(s)] + h[s \ {Any(s)}]
    BY Zenon DEF Adds
  <2>2. CASE s = {}
    BY <2>1, <2>2
  <2>3. CASE s # {}
    <3>1. Any(s) \in s
      BY <2>3, AnyFact
    <3>2. g[s \ {Any(s)}] = h[s \ {Any(s)}] /\ f[Any(s)] = k[Any(s)]
      BY <1>1, <3>1
    <3> QED BY <2>1, <2>3, <3>2
  <2> QED BY <2>2, <2>3
<1> HIDE DEF P
<1>2. \A s \in SUBSET (S \cap T) : s \in P
  BY <1>1, SmallerFirst, Zenon
<1> QED BY <1>2 DEF P

(* A sum over a set is one over each part of it.                           *)
LEMMA SumsRestrict ==
  ASSUME NEW f, NEW g, NEW S, Adds(g, f, S), NEW T \in SUBSET S
  PROVE  \E h : Adds(h, f, T)
<1> DEFINE h == [s \in SUBSET T |-> g[s]]
<1>1. ASSUME NEW s \in SUBSET T
      PROVE h[s] = IF s = {} THEN 0 ELSE f[Any(s)] + h[s \ {Any(s)}]
  <2>1. s \ {Any(s)} \in SUBSET T /\ s \in SUBSET S
    OBVIOUS
  <2>2. g[s] = IF s = {} THEN 0 ELSE f[Any(s)] + g[s \ {Any(s)}]
    BY <2>1, Zenon DEF Adds
  <2>3. h[s] = g[s] /\ h[s \ {Any(s)}] = g[s \ {Any(s)}]
    BY <2>1
  <2> QED BY <2>2, <2>3, Zenon
<1>2. h = [s \in SUBSET T |-> h[s]]
  OBVIOUS
<1> HIDE DEF h
<1>3. Adds(h, f, T)
  BY <1>1, <1>2, Zenon DEF Adds
<1> QED BY <1>3

(* Every finite set has its sums: the recursion is well founded.           *)
LEMMA SumsExist ==
  ASSUME NEW f, NEW S, IsFiniteSet(S)
  PROVE  \E g : Adds(g, f, S)
<1> DEFINE P == {s \in SUBSET S : \E g : Adds(g, f, s)}
<1>1. ASSUME NEW s \in SUBSET S, \A x \in s : s \ {x} \in P PROVE s \in P
  <2> DEFINE g == [u \in SUBSET s |->
                      IF u = {} THEN 0 ELSE f[Any(u)] + Sum(f, u \ {Any(u)})]
  <2>1. ASSUME NEW u \in SUBSET s, u # s
        PROVE  /\ IsFiniteSet(u)
               /\ Adds(CHOOSE h : Adds(h, f, u), f, u)
    <3>1. PICK x \in s : u \in SUBSET (s \ {x})
      BY <2>1
    <3>2. PICK h : Adds(h, f, s \ {x})
      BY <1>1
    <3>3. \E k : Adds(k, f, u)
      BY <3>1, <3>2, SumsRestrict
    <3> QED BY <3>3, FS_Subset
  <2>2. ASSUME NEW u \in SUBSET s, u # s, u # {}
        PROVE  Sum(f, u) = f[Any(u)] + Sum(f, u \ {Any(u)})
    <3> DEFINE v == u \ {Any(u)}
               hu == CHOOSE h : Adds(h, f, u)
               hv == CHOOSE h : Adds(h, f, v)
    <3>1. v \in SUBSET s /\ v # s /\ v \in SUBSET u /\ u \cap v = v /\ v \in SUBSET v
      BY <2>2
    <3>2. Adds(hu, f, u) /\ Adds(hv, f, v) /\ IsFiniteSet(v)
      BY <2>1, <2>2, <3>1, Zenon
    <3>3. hu[v] = hv[v]
      <4> HIDE DEF v, hu, hv
      <4> QED BY <3>1, <3>2, SumsAgree
    <3>4. u \in SUBSET u
      OBVIOUS
    <3>5. hu[u] = f[Any(u)] + hu[v]
      <4> HIDE DEF hu
      <4> QED BY <2>2, <3>2, <3>4, Zenon DEF Adds
    <3> QED BY <3>3, <3>5, Zenon DEF Sum
  <2>3. Sum(f, {}) = 0 \/ s = {}
    <3>1. SUFFICES ASSUME s # {} PROVE Sum(f, {}) = 0
      OBVIOUS
    <3>2. {} \in SUBSET s /\ {} \in SUBSET {}
      OBVIOUS
    <3>3. Adds(CHOOSE h : Adds(h, f, {}), f, {})
      BY <2>1, <3>1, <3>2, Zenon
    <3> QED BY <3>2, <3>3, Zenon DEF Adds, Sum
  <2>4. ASSUME NEW u \in SUBSET s
        PROVE  g[u] = IF u = {} THEN 0 ELSE f[Any(u)] + g[u \ {Any(u)}]
    <3>1. CASE u = {}
      BY <3>1
    <3>2. CASE u # {}
      <4> DEFINE v == u \ {Any(u)}
      <4>1. v \in SUBSET s /\ v # s
        BY <3>2, AnyFact
      <4>2. g[v] = Sum(f, v)
        <5>1. CASE v = {}
          BY <4>1, <5>1, <2>3
        <5>2. CASE v # {}
          <6>1. Sum(f, v) = f[Any(v)] + Sum(f, v \ {Any(v)})
            <7> HIDE DEF v
            <7> QED BY <2>2, <4>1, <5>2
          <6> HIDE DEF v
          <6>2. g[v] = f[Any(v)] + Sum(f, v \ {Any(v)})
            BY <4>1, <5>2
          <6> QED BY <6>1, <6>2, Zenon
        <5> QED BY <5>1, <5>2
      <4>3. g[u] = f[Any(u)] + Sum(f, v)
        BY <3>2
      <4> HIDE DEF g
      <4> QED BY <3>2, <4>2, <4>3, Zenon
    <3> QED BY <3>1, <3>2, Zenon
  <2>5. g = [u \in SUBSET s |-> g[u]]
    OBVIOUS
  <2> HIDE DEF g
  <2>6. Adds(g, f, s)
    BY <2>4, <2>5, Zenon DEF Adds
  <2> QED BY <2>6
<1> HIDE DEF P
<1>2. \A s \in SUBSET S : s \in P
  BY <1>1, SmallerFirst, Zenon
<1> QED BY <1>2 DEF P

(* The sum over a finite set, by its recursion.                            *)
LEMMA SumFact ==
  ASSUME NEW f, NEW S, IsFiniteSet(S)
  PROVE  Sum(f, S) = IF S = {} THEN 0 ELSE f[Any(S)] + Sum(f, S \ {Any(S)})
<1> DEFINE T == S \ {Any(S)}
           g == CHOOSE g : Adds(g, f, S)
           h == CHOOSE h : Adds(h, f, T)
<1>1. IsFiniteSet(T) /\ T \in SUBSET T /\ S \in SUBSET S /\ S \cap T = T
  BY FS_Subset
<1>2. Adds(g, f, S) /\ Adds(h, f, T)
  <2> HIDE DEF T
  <2> QED BY <1>1, SumsExist
<1>3. g[T] = h[T]
  <2> HIDE DEF T, g, h
  <2> QED BY <1>1, <1>2, SumsAgree
<1>4. g[S] = IF S = {} THEN 0 ELSE f[Any(S)] + g[T]
  <2> HIDE DEF g
  <2> QED BY <1>1, <1>2, Zenon DEF Adds
<1>5. Sum(f, S) = g[S] /\ Sum(f, T) = h[T]
  BY DEF Sum
<1> HIDE DEF g, h
<1> QED BY <1>3, <1>4, <1>5, Zenon

(* The sum depends on the values over the set only.                        *)
LEMMA SumSame ==
  ASSUME NEW f, NEW k, NEW S, IsFiniteSet(S), \A x \in S : f[x] = k[x]
  PROVE  Sum(f, S) = Sum(k, S)
<1> DEFINE g == CHOOSE g : Adds(g, f, S)
           h == CHOOSE h : Adds(h, k, S)
<1>1. Adds(g, f, S) /\ Adds(h, k, S)
  BY SumsExist
<1>2. S \cap S = S /\ S \in SUBSET S
  OBVIOUS
<1>3. g[S] = h[S]
  <2> HIDE DEF g, h
  <2> QED BY <1>1, <1>2, SumsAgree
<1> QED BY <1>3, Zenon DEF Sum

(* A sum of integers is one; of non-negative ones it is not negative.      *)
LEMMA SumTyped ==
  ASSUME NEW f, NEW S, IsFiniteSet(S), \A x \in S : f[x] \in Int
  PROVE  /\ Sum(f, S) \in Int
         /\ ((\A x \in S : f[x] >= 0) => Sum(f, S) >= 0)
<1> DEFINE P == {s \in SUBSET S : /\ Sum(f, s) \in Int
                                  /\ (\A x \in S : f[x] >= 0) => Sum(f, s) >= 0}
<1>1. ASSUME NEW s \in SUBSET S, \A x \in s : s \ {x} \in P PROVE s \in P
  <2>1. Sum(f, s) = IF s = {} THEN 0 ELSE f[Any(s)] + Sum(f, s \ {Any(s)})
    BY FS_Subset, SumFact
  <2>2. CASE s = {}
    BY <2>1, <2>2
  <2>3. CASE s # {}
    <3>1. Any(s) \in s /\ s \ {Any(s)} \in P
      BY <1>1, <2>3, AnyFact
    <3> QED BY <2>1, <2>3, <3>1
  <2> QED BY <2>2, <2>3
<1> HIDE DEF P
<1>2. \A s \in SUBSET S : s \in P
  BY <1>1, SmallerFirst, Zenon
<1> QED BY <1>2 DEF P

(* Any element may be taken out first.                                     *)
LEMMA SumWithout ==
  ASSUME NEW f, NEW S, IsFiniteSet(S), \A x \in S : f[x] \in Int, NEW y \in S
  PROVE  Sum(f, S) = f[y] + Sum(f, S \ {y})
<1> DEFINE P == {s \in SUBSET S : \A z \in s : Sum(f, s) = f[z] + Sum(f, s \ {z})}
<1>1. ASSUME NEW s \in SUBSET S, \A x \in s : s \ {x} \in P PROVE s \in P
  <2> SUFFICES ASSUME NEW z \in s PROVE Sum(f, s) = f[z] + Sum(f, s \ {z})
    OBVIOUS
  <2> DEFINE x == Any(s)
  <2>1. x \in s /\ Sum(f, s) = f[x] + Sum(f, s \ {x})
    BY AnyFact, FS_Subset, SumFact
  <2>2. CASE x = z
    BY <2>1, <2>2
  <2>3. CASE x # z
    <3> HIDE DEF x
    <3>1. Sum(f, s \ {x}) = f[z] + Sum(f, (s \ {x}) \ {z})
      BY <1>1, <2>1, <2>3
    <3>2. Sum(f, s \ {z}) = f[x] + Sum(f, (s \ {z}) \ {x})
      BY <1>1, <2>1, <2>3
    <3>3. (s \ {x}) \ {z} = (s \ {z}) \ {x}
      OBVIOUS
    <3>4. Sum(f, (s \ {z}) \ {x}) \in Int
      <4> DEFINE t == (s \ {z}) \ {x}
      <4>1. IsFiniteSet(t) /\ \A w \in t : f[w] \in Int
        BY FS_Subset
      <4>2. Sum(f, t) \in Int
        <5> HIDE DEF t
        <5> QED BY <4>1, SumTyped
      <4> QED BY <4>2
    <3>5. f[x] \in Int /\ f[z] \in Int
      BY <2>1
    <3>6. Sum(f, (s \ {x}) \ {z}) = Sum(f, (s \ {z}) \ {x})
      BY <3>3, Zenon
    <3> DEFINE rest == Sum(f, (s \ {z}) \ {x})
    <3>7. Sum(f, s) = f[x] + (f[z] + rest) /\ Sum(f, s \ {z}) = f[x] + rest
      BY <2>1, <3>1, <3>2, <3>6, Zenon
    <3>8. rest \in Int
      BY <3>4
    <3> HIDE DEF rest
    <3> QED BY <3>5, <3>7, <3>8
  <2> QED BY <2>2, <2>3
<1> HIDE DEF P
<1>2. \A s \in SUBSET S : s \in P
  BY <1>1, SmallerFirst, Zenon
<1> QED BY <1>2 DEF P

(* More terms, none negative, add up to no less.                           *)
LEMMA SumOfMore ==
  ASSUME NEW f, NEW S, IsFiniteSet(S), \A x \in S : f[x] \in Nat, NEW T \in SUBSET S
  PROVE  Sum(f, T) <= Sum(f, S)
<1> DEFINE P == {s \in SUBSET S : \A t \in SUBSET s : Sum(f, t) <= Sum(f, s)}
<1>0. ASSUME NEW s \in SUBSET S PROVE IsFiniteSet(s) /\ Sum(f, s) \in Int
  BY FS_Subset, SumTyped
<1>1. ASSUME NEW s \in SUBSET S, \A x \in s : s \ {x} \in P PROVE s \in P
  <2> SUFFICES ASSUME NEW t \in SUBSET s PROVE Sum(f, t) <= Sum(f, s)
    OBVIOUS
  <2>1. CASE t = s
    BY <1>0, <2>1
  <2>2. CASE t # s
    <3>1. PICK x \in s : t \in SUBSET (s \ {x})
      BY <2>2
    <3>2. Sum(f, t) <= Sum(f, s \ {x})
      BY <1>1, <3>1
    <3>3. Sum(f, s) = f[x] + Sum(f, s \ {x})
      BY <1>0, SumWithout
    <3> QED BY <1>0, <3>2, <3>3
  <2> QED BY <2>1, <2>2
<1> HIDE DEF P
<1>2. \A s \in SUBSET S : s \in P
  BY <1>1, SmallerFirst, Zenon
<1> QED BY <1>2 DEF P

-----------------------------------------------------------------------------
(* Extrema and the variance *)

(* A finite set of integers has a greatest element, which Max finds.       *)
LEMMA MaxFact ==
  ASSUME NEW S \in SUBSET Int, IsFiniteSet(S), S # {}
  PROVE  Max(S) \in S /\ \A y \in S : Max(S) >= y
<1> DEFINE P == {s \in SUBSET S : s = {} \/ \E x \in s : \A y \in s : x >= y}
<1>1. ASSUME NEW s \in SUBSET S, \A x \in s : s \ {x} \in P PROVE s \in P
  <2>1. CASE s = {}
    BY <2>1
  <2>2. CASE s # {}
    <3>1. PICK x \in s : TRUE
      BY <2>2
    <3>2. CASE s \ {x} = {}
      <4>1. \A y \in s : x >= y
        BY <3>2
      <4> QED BY <4>1
    <3>3. CASE s \ {x} # {}
      <4>1. PICK z \in s \ {x} : \A y \in s \ {x} : z >= y
        BY <1>1, <3>3
      <4>2. CASE z >= x
        <5>1. \A y \in s : z >= y
          BY <4>1, <4>2
        <5> QED BY <5>1
      <4>3. CASE ~ (z >= x)
        <5>1. \A y \in s : x >= y
          BY <4>1, <4>3
        <5> QED BY <5>1
      <4> QED BY <4>2, <4>3
    <3> QED BY <3>2, <3>3
  <2> QED BY <2>1, <2>2
<1> HIDE DEF P
<1>2. \A s \in SUBSET S : s \in P
  BY <1>1, SmallerFirst, Zenon
<1>3. \E x \in S : \A y \in S : x >= y
  BY <1>2 DEF P
<1> QED BY <1>3 DEF Max

(* A finite set of integers has a least element, which Min finds.          *)
LEMMA MinFact ==
  ASSUME NEW S \in SUBSET Int, IsFiniteSet(S), S # {}
  PROVE  Min(S) \in S /\ \A y \in S : Min(S) <= y
<1> DEFINE P == {s \in SUBSET S : s = {} \/ \E x \in s : \A y \in s : x <= y}
<1>1. ASSUME NEW s \in SUBSET S, \A x \in s : s \ {x} \in P PROVE s \in P
  <2>1. CASE s = {}
    BY <2>1
  <2>2. CASE s # {}
    <3>1. PICK x \in s : TRUE
      BY <2>2
    <3>2. CASE s \ {x} = {}
      <4>1. \A y \in s : x <= y
        BY <3>2
      <4> QED BY <4>1
    <3>3. CASE s \ {x} # {}
      <4>1. PICK z \in s \ {x} : \A y \in s \ {x} : z <= y
        BY <1>1, <3>3
      <4>2. CASE z <= x
        <5>1. \A y \in s : z <= y
          BY <4>1, <4>2
        <5> QED BY <5>1
      <4>3. CASE ~ (z <= x)
        <5>1. \A y \in s : x <= y
          BY <4>1, <4>3
        <5> QED BY <5>1
      <4> QED BY <4>2, <4>3
    <3> QED BY <3>2, <3>3
  <2> QED BY <2>1, <2>2
<1> HIDE DEF P
<1>2. \A s \in SUBSET S : s \in P
  BY <1>1, SmallerFirst, Zenon
<1>3. \E x \in S : \A y \in S : x <= y
  BY <1>2 DEF P
<1> QED BY <1>3 DEF Min

-----------------------------------------------------------------------------
(* The squares of the distances from y add up to no less than 0.           *)
LEMMA SquaresApart ==
  ASSUME NEW f, NEW S, IsFiniteSet(S), \A x \in S : f[x] \in Int,
         NEW sq, \A x \in S : sq[x] = f[x] * f[x], NEW y \in Int
  PROVE  Sum(sq, S) - 2 * (y * Sum(f, S)) + Cardinality(S) * (y * y) >= 0
<1> DEFINE P == {s \in SUBSET S :
             Sum(sq, s) - 2 * (y * Sum(f, s)) + Cardinality(s) * (y * y) >= 0}
<1>0. ASSUME NEW s \in SUBSET S
      PROVE  /\ IsFiniteSet(s) /\ Cardinality(s) \in Nat
             /\ Sum(f, s) \in Int /\ Sum(sq, s) \in Int
  <2>1. IsFiniteSet(s) /\ Cardinality(s) \in Nat
    BY FS_Subset, FS_CardinalityType
  <2>2. \A x \in s : f[x] \in Int /\ sq[x] \in Int
    OBVIOUS
  <2> QED BY <2>1, <2>2, SumTyped
<1>1. ASSUME NEW s \in SUBSET S, \A x \in s : s \ {x} \in P PROVE s \in P
  <2>1. CASE s = {}
    <3>1. Sum(f, s) = 0 /\ Sum(sq, s) = 0 /\ Cardinality(s) = 0
      BY <2>1, <1>0, SumFact, FS_EmptySet
    <3> QED BY <3>1
  <2>2. CASE s # {}
    <3>1. PICK x \in s : TRUE
      BY <2>2
    <3> DEFINE t == s \ {x}
    <3>2. /\ Sum(f, s) = f[x] + Sum(f, t)
          /\ Sum(sq, s) = f[x] * f[x] + Sum(sq, t)
      <4>1. \A z \in s : f[z] \in Int /\ sq[z] \in Int
        OBVIOUS
      <4>2. Sum(f, s) = f[x] + Sum(f, s \ {x})
        BY <4>1, <1>0, SumWithout
      <4>3. Sum(sq, s) = sq[x] + Sum(sq, s \ {x})
        BY <4>1, <1>0, SumWithout
      <4> QED BY <4>2, <4>3
    <3>3. Cardinality(s) = Cardinality(t) + 1
      BY <1>0, FS_RemoveElement
    <3>4. /\ t \in SUBSET S
          /\ Sum(sq, t) - 2 * (y * Sum(f, t)) + Cardinality(t) * (y * y) >= 0
      BY <1>1
    <3> HIDE DEF t
    <3>5. /\ Cardinality(t) \in Nat /\ Sum(f, t) \in Int /\ Sum(sq, t) \in Int
          /\ f[x] \in Int
      BY <1>0, <3>4
    <3>6. ASSUME NEW a \in Int, NEW b \in Int, NEW n \in Nat, NEW v \in Int,
                 a - 2 * (y * b) + n * (y * y) >= 0
          PROVE  (v * v + a) - 2 * (y * (v + b)) + (n + 1) * (y * y) >= 0
      <4>1. (v - y) * (v - y) >= 0
        OBVIOUS
      <4>2. (v * v + a) - 2 * (y * (v + b)) + (n + 1) * (y * y)
               = (a - 2 * (y * b) + n * (y * y)) + (v - y) * (v - y)
        OBVIOUS
      <4> QED BY <3>6, <4>1, <4>2
    <3>7. (f[x] * f[x] + Sum(sq, t)) - 2 * (y * (f[x] + Sum(f, t)))
             + (Cardinality(t) + 1) * (y * y) >= 0
      BY <3>4, <3>5, <3>6
    <3> QED BY <3>2, <3>3, <3>7
  <2> QED BY <2>1, <2>2
<1> HIDE DEF P
<1>2. \A s \in SUBSET S : s \in P
  BY <1>1, SmallerFirst, Zenon
<1> QED BY <1>2 DEF P

(* n times the sum of the squares is no less than the square of the sum:   *)
(* with it a standard deviation has a root to take (calc.go, std).         *)
LEMMA NoNegativeVariance ==
  ASSUME NEW f, NEW S, IsFiniteSet(S), \A x \in S : f[x] \in Int,
         NEW sq, \A x \in S : sq[x] = f[x] * f[x]
  PROVE  Cardinality(S) * Sum(sq, S) - Sum(f, S) * Sum(f, S) >= 0
<1> DEFINE P == {s \in SUBSET S :
             Cardinality(s) * Sum(sq, s) - Sum(f, s) * Sum(f, s) >= 0}
<1>0. ASSUME NEW s \in SUBSET S
      PROVE  /\ IsFiniteSet(s) /\ Cardinality(s) \in Nat
             /\ Sum(f, s) \in Int /\ Sum(sq, s) \in Int
  <2>1. IsFiniteSet(s) /\ Cardinality(s) \in Nat
    BY FS_Subset, FS_CardinalityType
  <2>2. \A x \in s : f[x] \in Int /\ sq[x] \in Int
    OBVIOUS
  <2> QED BY <2>1, <2>2, SumTyped
<1>1. ASSUME NEW s \in SUBSET S, \A x \in s : s \ {x} \in P PROVE s \in P
  <2>1. CASE s = {}
    <3>1. Sum(f, s) = 0 /\ Sum(sq, s) = 0 /\ Cardinality(s) = 0
      BY <2>1, <1>0, SumFact, FS_EmptySet
    <3> QED BY <3>1
  <2>2. CASE s # {}
    <3>1. PICK x \in s : TRUE
      BY <2>2
    <3> DEFINE t == s \ {x}
    <3>2. /\ Sum(f, s) = f[x] + Sum(f, t)
          /\ Sum(sq, s) = f[x] * f[x] + Sum(sq, t)
      <4>1. \A z \in s : f[z] \in Int /\ sq[z] \in Int
        OBVIOUS
      <4> QED BY <4>1, <1>0, SumWithout
    <3>3. Cardinality(s) = Cardinality(t) + 1
      BY <1>0, FS_RemoveElement
    <3>4. /\ t \in SUBSET S
          /\ Cardinality(t) * Sum(sq, t) - Sum(f, t) * Sum(f, t) >= 0
      BY <1>1
    <3> HIDE DEF t
    <3>5. /\ IsFiniteSet(t) /\ Cardinality(t) \in Nat
          /\ Sum(f, t) \in Int /\ Sum(sq, t) \in Int /\ f[x] \in Int
      BY <1>0, <3>4
    <3>6. Sum(sq, t) - 2 * (f[x] * Sum(f, t)) + Cardinality(t) * (f[x] * f[x]) >= 0
      <4>1. \A z \in t : f[z] \in Int /\ sq[z] = f[z] * f[z]
        BY <3>4
      <4> QED BY <3>5, <4>1, SquaresApart
    <3>7. ASSUME NEW a \in Int, NEW b \in Int, NEW n \in Nat, NEW v \in Int,
                 n * a - b * b >= 0, a - 2 * (v * b) + n * (v * v) >= 0
          PROVE  (n + 1) * (v * v + a) - (v + b) * (v + b) >= 0
      <4>1. (n + 1) * (v * v + a) - (v + b) * (v + b)
               = (n * a - b * b) + (a - 2 * (v * b) + n * (v * v))
        OBVIOUS
      <4> QED BY <3>7, <4>1
    <3>8. (Cardinality(t) + 1) * (f[x] * f[x] + Sum(sq, t))
             - (f[x] + Sum(f, t)) * (f[x] + Sum(f, t)) >= 0
      BY <3>4, <3>5, <3>6, <3>7
    <3> QED BY <3>2, <3>3, <3>8
  <2> QED BY <2>1, <2>2
<1> HIDE DEF P
<1>2. \A s \in SUBSET S : s \in P
  BY <1>1, SmallerFirst, Zenon
<1> QED BY <1>2 DEF P

-----------------------------------------------------------------------------
(* The series functions of Features *)

(* The ranges the roots and logarithms are looked for in are finite.       *)
LEMMA IntervalFinite ==
  /\ IsFiniteSet(0..9)
  /\ IsFiniteSet(0..130)
<1>1. 0 \in Int /\ 9 \in Int /\ 130 \in Int
  OBVIOUS
<1> QED BY <1>1, FS_Interval, Zenon

(* A score ranges from 0 to 100.                                           *)
LEMMA ClampFact ==
  ASSUME NEW v \in Int
  PROVE  Clamp(v) \in 0..100
BY DEF Clamp

(* Total is a sum over the positions.                                      *)
LEMMA TotalIsSum == ASSUME NEW f PROVE Total(f) = Sum(f, DOMAIN f)
BY SumIsFold DEF Total

(* The total of a series of naturals is one.                               *)
LEMMA TotalFact ==
  ASSUME NEW s \in Seq(Nat)
  PROVE  Total(s) \in Nat
<1>1. IsFiniteSet(DOMAIN s) /\ \A i \in DOMAIN s : s[i] \in Int /\ s[i] >= 0
  BY FS_Interval
<1>2. Sum(s, DOMAIN s) \in Int /\ Sum(s, DOMAIN s) >= 0
  BY <1>1, SumTyped
<1> QED BY <1>2, TotalIsSum

(* So is its mean, that of no values too.                                  *)
LEMMA MeanFact ==
  ASSUME NEW s \in Seq(Nat)
  PROVE  Mean(s) \in Nat
<1>1. CASE s = <<>>
  BY <1>1 DEF Mean
<1>2. CASE s # <<>>
  <2>1. Total(s) \in Nat /\ Len(s) \in Nat \ {0}
    BY <1>2, TotalFact
  <2> QED BY <1>2, <2>1 DEF Mean
<1> QED BY <1>1, <1>2

(* And its last value.                                                     *)
LEMMA LastFact ==
  ASSUME NEW s \in Seq(Nat)
  PROVE  Last(s) \in Nat
BY DEF Last

(* The end of a series is a series.                                        *)
LEMMA RecentFact ==
  ASSUME NEW s \in Seq(Nat), NEW n \in Nat
  PROVE  Recent(s, n) \in Seq(Nat)
BY DEF Recent

(* A return is a number: nothing is divided by a price of 0.               *)
LEMMA ReturnFact ==
  ASSUME NEW s \in Seq(Nat), NEW n \in Nat
  PROVE  ReturnN(s, n) \in Int
<1>1. CASE Len(s) <= n \/ s[Len(s) - n] = 0
  BY <1>1 DEF ReturnN
<1>2. CASE ~ (Len(s) <= n \/ s[Len(s) - n] = 0)
  <2>1. s[Len(s) - n] \in Nat \ {0}
    BY <1>2
  <2>2. Last(s) * 1000 \in Int
    BY LastFact
  <2>3. (Last(s) * 1000) \div s[Len(s) - n] \in Int
    BY <2>1, <2>2
  <2> QED BY <1>2, <2>3 DEF ReturnN
<1> QED BY <1>1, <1>2

(* The logarithm of a volume is found in the range it is looked for.       *)
LEMMA DecadesFact ==
  ASSUME NEW v \in Nat
  PROVE  Decades(v) \in 0..9
<1> DEFINE S == {k \in 0..9 : 10^k <= 1 + v}
<1>1. 10^0 = 1
  OBVIOUS
<1>2. S \in SUBSET Int /\ 0 \in S
  BY <1>1
<1>3. IsFiniteSet(S)
  <2>1. S \in SUBSET (0..9) /\ IsFiniteSet(0..9)
    <3>1. S \in SUBSET (0..9)
      OBVIOUS
    <3> QED BY <3>1, IntervalFinite
  <2> HIDE DEF S
  <2> QED BY <2>1, FS_Subset
<1>4. Max(S) \in S
  <2> HIDE DEF S
  <2> QED BY <1>2, <1>3, MaxFact
<1> QED BY <1>4 DEF Decades

(* The variance of a series of volumes is never negative, whatever the     *)
(* volumes.                                                                *)
LEMMA DeviationFact ==
  ASSUME NEW s \in Seq(Nat)
  PROVE  Deviation2(s) \in Nat
<1> DEFINE sq == [i \in DOMAIN s |-> s[i] * s[i]]
           S == DOMAIN s
<1>1. IsFiniteSet(S) /\ Cardinality(S) \in Nat
  BY FS_Interval, FS_CardinalityType
<1>2. \A i \in S : s[i] \in Int /\ sq[i] \in Int /\ sq[i] = s[i] * s[i]
  OBVIOUS
<1>3. DOMAIN sq = S
  OBVIOUS
<1>4. Deviation2(s) = Cardinality(S) * Sum(sq, S) - Sum(s, S) * Sum(s, S)
  BY <1>3, TotalIsSum, Zenon DEF Deviation2
<1> HIDE DEF sq, S
<1>5. Sum(s, S) \in Int /\ Sum(sq, S) \in Int
  BY <1>1, <1>2, SumTyped
<1>6. Cardinality(S) * Sum(sq, S) - Sum(s, S) * Sum(s, S) >= 0
  BY <1>1, <1>2, NoNegativeVariance
<1> QED BY <1>1, <1>4, <1>5, <1>6

(* A z-score stays within the bound it is looked for.                      *)
LEMMA ZScoreFact ==
  ASSUME NEW v \in Nat, NEW s \in Seq(Nat)
  PROVE  ZScore(v, s) \in -MaxZ..MaxZ
<1> DEFINE dev == Len(s) * v - Total(s)
           z2 == (100 * dev * dev) \div Deviation2(s)
           S == {k \in 0..MaxZ : k * k <= z2}
<1>1. CASE Deviation2(s) = 0
  BY <1>1 DEF ZScore, MaxZ
<1>2. CASE Deviation2(s) # 0
  <2>1. Deviation2(s) \in Nat \ {0}
    BY <1>2, DeviationFact
  <2>2. dev \in Int
    BY TotalFact
  <2> HIDE DEF dev
  <2>3. 100 * dev * dev \in Nat
    BY <2>2
  <2>4. z2 \in Nat
    BY <2>1, <2>3
  <2> HIDE DEF z2
  <2>5. S \in SUBSET (0..130) /\ 0 \in S
    <3>1. 0 * 0 <= z2
      BY <2>4
    <3> QED BY <3>1 DEF MaxZ
  <2>6. IsFiniteSet(0..130)
    BY IntervalFinite
  <2>9. ZScore(v, s) = IF dev < 0 THEN -Max(S) ELSE Max(S)
    BY <1>2 DEF ZScore, dev, z2
  <2> HIDE DEF S
  <2>7. Max(S) \in S
    <3>1. S \in SUBSET Int /\ S # {}
      BY <2>5
    <3>2. IsFiniteSet(S)
      BY <2>5, <2>6, FS_Subset
    <3> QED BY <3>1, <3>2, MaxFact
  <2>8. Max(S) \in 0..130
    BY <2>5, <2>7
  <2>10. ASSUME NEW m \in 0..130 PROVE -m \in -130..130 /\ m \in -130..130
    OBVIOUS
  <2>11. -Max(S) \in -130..130 /\ Max(S) \in -130..130
    BY <2>8, <2>10, Zenon
  <2> QED BY <2>9, <2>11 DEF MaxZ
<1> QED BY <1>1, <1>2

-----------------------------------------------------------------------------
(* The feature of one coin *)

(* The fields of a feature.                                                *)
Fields ==
    {"return4h", "return24h", "volumeZ", "volatility2", "adx", "fundingZ",
     "rank", "liquidity", "oiAnomaly", "volumeAnomaly", "momentum",
     "fundingAnomaly", "execution", "research", "label"}
(* f is a record of these fields.                                          *)
HasFields(f) == f = [x \in Fields |-> f[x]]

(* Scoring sets the research score and the label and no other field.       *)
LEMMA ScoredFact ==
  ASSUME NEW f, HasFields(f)
  PROVE  /\ HasFields(Scored(f))
         /\ \A x \in Fields \ {"research", "label"} : Scored(f)[x] = f[x]
         /\ Scored(f).research = ResearchScore(f)
         /\ Scored(f).label = Classify([f EXCEPT !.research = ResearchScore(f)])
<1> DEFINE s == [f EXCEPT !.research = ResearchScore(f)]
           t == [s EXCEPT !.label = Classify(s)]
<1>1. Scored(f) = t
  BY DEF Scored
<1>2. DOMAIN f = Fields
  BY DEF HasFields
<1>3. DOMAIN t = Fields /\ t = [x \in DOMAIN t |-> t[x]]
  BY <1>2
<1>4. \A x \in Fields \ {"research", "label"} : t[x] = f[x]
  BY <1>2
<1>5. t.research = ResearchScore(f) /\ t.label = Classify(s)
  BY <1>2 DEF Fields
<1> HIDE DEF t, s
<1>6. HasFields(t)
  BY <1>3, Zenon DEF HasFields
<1> QED BY <1>1, <1>4, <1>5, <1>6, Zenon DEF s

(* The columns of a series of candles are series of naturals.              *)
LEMMA ColumnFact ==
  ASSUME NEW s \in CandleSeries
  PROVE  Column(s, "close") \in Seq(Nat) /\ Column(s, "volume") \in Seq(Nat)
<1>1. \A i \in 1..Len(s) : s[i].close \in Nat /\ s[i].volume \in Nat
  <2>1. \A i \in 1..Len(s) : s[i] \in [high : Nat, low : Nat, close : Nat, volume : Nat]
    BY ElementOfSeq DEF CandleSeries
  <2> QED BY <2>1
<1>2. DOMAIN s = 1..Len(s) /\ Len(s) \in Nat
  BY DEF CandleSeries
<1>3. /\ Column(s, "close") \in [1..Len(s) -> Nat]
      /\ Column(s, "volume") \in [1..Len(s) -> Nat]
  BY <1>1, <1>2 DEF Column
<1> QED BY <1>2, <1>3, SeqDef, Zenon

(* No snapshots have no columns.                                           *)
LEMMA NoSnapshots ==
  ASSUME NEW field
  PROVE  Column(<<>>, field) = <<>>
BY DEF Column

(* Without snapshots open interest has not changed and funding is average. *)
LEMMA EmptyFact ==
  /\ ReturnN(<<>>, 24) = 0
  /\ ZScore(Last(<<>>), Recent(<<>>, 168)) = 0
<1>1. ReturnN(<<>>, 24) = 0
  BY DEF ReturnN
<1>2. Recent(<<>>, 168) = <<>>
  BY DEF Recent
<1>3. Deviation2(<<>>) = 0
  <2> DEFINE sq == [i \in DOMAIN <<>> |-> <<>>[i] * <<>>[i]]
  <2>1. DOMAIN <<>> = {} /\ DOMAIN sq = {}
    OBVIOUS
  <2>2. Cardinality({}) = 0
    BY FS_EmptySet
  <2>3. ASSUME NEW f PROVE Sum(f, {}) = 0
    BY FS_EmptySet, SumFact
  <2>4. Total(<<>>) = 0
    BY <2>1, <2>3, TotalIsSum
  <2>5. Total(sq) = 0
    <3> HIDE DEF sq
    <3> QED BY <2>1, <2>3, TotalIsSum
  <2>6. Deviation2(<<>>) = Cardinality(DOMAIN <<>>) * Total(sq) - Total(<<>>) * Total(<<>>)
    BY Zenon DEF Deviation2, sq
  <2> HIDE DEF sq
  <2> QED BY <2>1, <2>2, <2>4, <2>5, <2>6
<1> QED BY <1>1, <1>2, <1>3 DEF ZScore

(* The range of a score.                                                   *)
Points == 0..100
(* What the features job can make of a series of candles and no snapshots. *)
RawFeature(f) ==
    /\ HasFields(f)
    /\ f.return24h \in Int
    /\ f.liquidity \in Points /\ f.volumeAnomaly \in Points
    /\ f.momentum \in Points
    /\ f.oiAnomaly = 0 /\ f.fundingAnomaly = 0

(* Calculate makes such a feature of every series of candles.              *)
LEMMA CalculateFact ==
  ASSUME NEW candles \in CandleSeries, NEW spreadBps \in Int
  PROVE  /\ RawFeature(Calculate(candles, <<>>, spreadBps))
         /\ Calculate(candles, <<>>, spreadBps).execution = Clamp(100 - 8 * spreadBps)
<1> DEFINE closes == Column(candles, "close")
           volumes == Column(candles, "volume")
           week == Recent(volumes, 168)
           ois == Column(<<>>, "openInterest")
           fundings == Column(<<>>, "funding")
           volumeZ == ZScore(Last(volumes), week)
           oiChange == ReturnN(ois, 24)
           fundingZ == ZScore(Last(fundings), Recent(fundings, 168))
           liquidity == Clamp(100 - 5 * spreadBps
                                 + 8 * Decades(Mean(Recent(volumes, 24))))
           volumeAnomaly == Clamp((volumeZ * 25) \div 10)
           momentum == Clamp(Abs(ReturnN(closes, 24)) \div 2)
           return4h == ReturnN(closes, 4)
           return24h == ReturnN(closes, 24)
           volatility2 == Volatility2(Returns(Recent(closes, 24)))
           adx == ADX(Recent(candles, 24))
           oiAnomaly == Clamp((Abs(oiChange) * 3) \div 10)
           fundingAnomaly == Clamp(Abs(fundingZ) * 2)
           execution == Clamp(100 - 8 * spreadBps)
           f == [return4h |-> return4h, return24h |-> return24h,
                 volumeZ |-> volumeZ, volatility2 |-> volatility2, adx |-> adx,
                 fundingZ |-> fundingZ, rank |-> 0, liquidity |-> liquidity,
                 oiAnomaly |-> oiAnomaly, volumeAnomaly |-> volumeAnomaly,
                 momentum |-> momentum, fundingAnomaly |-> fundingAnomaly,
                 execution |-> execution, research |-> 0, label |-> ""]
<1>1. closes \in Seq(Nat) /\ volumes \in Seq(Nat)
  BY ColumnFact
<1>2. oiChange = 0 /\ fundingZ = 0
  BY NoSnapshots, EmptyFact, Zenon
<1>3. oiAnomaly = 0 /\ fundingAnomaly = 0
  <2>1. Abs(0) = 0
    BY DEF Abs
  <2>2. (0 * 3) \div 10 = 0 /\ 0 * 2 = 0 /\ Clamp(0) = 0
    BY DEF Clamp
  <2> QED BY <1>2, <2>1, <2>2, Zenon
<1> HIDE DEF oiChange, fundingZ, closes, volumes
<1>4. return24h \in Int
  BY <1>1, ReturnFact
<1>5. momentum \in 0..100
  <2>1. Abs(ReturnN(closes, 24)) \in Nat
    BY <1>4 DEF Abs
  <2>2. Abs(ReturnN(closes, 24)) \div 2 \in Int
    BY <2>1
  <2> QED BY <2>2, ClampFact
<1>6. liquidity \in 0..100
  <2>1. Decades(Mean(Recent(volumes, 24))) \in 0..9
    BY <1>1, RecentFact, MeanFact, DecadesFact
  <2>2. 100 - 5 * spreadBps + 8 * Decades(Mean(Recent(volumes, 24))) \in Int
    BY <2>1
  <2> QED BY <2>2, ClampFact
<1>7. volumeAnomaly \in 0..100
  <2>1. volumeZ \in -130..130
    BY <1>1, RecentFact, LastFact, ZScoreFact DEF MaxZ
  <2> HIDE DEF volumeZ
  <2>2. (volumeZ * 25) \div 10 \in Int
    BY <2>1
  <2> QED BY <2>2, ClampFact
<1>8. Calculate(candles, <<>>, spreadBps) = Scored(f)
  BY Zenon DEF Calculate, closes, volumes, oiChange, fundingZ
<1> HIDE DEF return4h, return24h, volumeZ, volatility2, adx, liquidity,
             oiAnomaly, volumeAnomaly, momentum, fundingAnomaly, execution
<1>9. HasFields(f)
  <2>1. DOMAIN f = Fields
    BY Zenon DEF Fields
  <2>2. f = [x \in DOMAIN f |-> f[x]]
    OBVIOUS
  <2> HIDE DEF f
  <2> QED BY <2>1, <2>2, Zenon DEF HasFields
<1>10. /\ f.return24h \in Int
       /\ f.liquidity \in 0..100 /\ f.volumeAnomaly \in 0..100
       /\ f.momentum \in 0..100
       /\ f.oiAnomaly = 0 /\ f.fundingAnomaly = 0
       /\ f.execution = execution
  BY <1>2, <1>3, <1>4, <1>5, <1>6, <1>7
<1> HIDE DEF f
<1>11. /\ HasFields(Scored(f))
       /\ \A x \in Fields \ {"research", "label"} : Scored(f)[x] = f[x]
  BY <1>9, ScoredFact
<1> QED BY <1>8, <1>10, <1>11 DEF RawFeature, Fields, execution, Points

-----------------------------------------------------------------------------
(* Normalisation and label *)

(* Rounding down keeps the order.                                          *)
LEMMA DivideMore ==
  ASSUME NEW a \in Int, NEW b \in Int, a <= b, NEW d \in Nat \ {0}
  PROVE  a \div d <= b \div d
OBVIOUS

(* So does the clamp.                                                      *)
LEMMA ClampMore ==
  ASSUME NEW a \in Int, NEW b \in Int, a <= b
  PROVE  Clamp(a) <= Clamp(b)
BY DEF Clamp

(* Normalize ranges from 0 to 100 and keeps the order; the least of        *)
(* several values is 0, and values that are all one are 50 (calc.go,       *)
(* normalize).                                                             *)
LEMMA NormalizeFact ==
  ASSUME NEW values \in SUBSET Int, IsFiniteSet(values), NEW v \in values
  PROVE  /\ Normalize(v, values) \in 0..100
         /\ \A w \in values : v <= w => Normalize(v, values) <= Normalize(w, values)
         /\ (\A w \in values : v <= w) /\ (\E w \in values : v < w)
               => Normalize(v, values) = 0
         /\ (\A w \in values : v = w) => Normalize(v, values) = 50
<1> DEFINE top == Max(values)
           low == Min(values)
           share(w) == ((w - low) * 100) \div (top - low)
<1>1. /\ top \in values /\ low \in values
      /\ \A w \in values : low <= w /\ w <= top
  BY MaxFact, MinFact
<1>2. \A w \in values : Normalize(w, values) = IF top = low THEN 50 ELSE Clamp(share(w))
  BY DEF Normalize
<1> HIDE DEF top, low
<1>3. CASE top = low
  BY <1>1, <1>2, <1>3
<1>4. CASE top # low
  <2>1. top - low \in Nat \ {0}
    BY <1>1, <1>4
  <2>2. \A w \in values : (w - low) * 100 \in Nat
    BY <1>1
  <2>3. \A w \in values : share(w) \in Int
    BY <2>1, <2>2
  <2>4. Clamp(share(v)) \in 0..100
    BY <2>3, ClampFact
  <2>5. ASSUME NEW w \in values, v <= w PROVE Clamp(share(v)) <= Clamp(share(w))
    <3>1. (v - low) * 100 <= (w - low) * 100
      BY <1>1, <2>5
    <3>2. share(v) <= share(w)
      BY <2>1, <2>2, <3>1, DivideMore
    <3> QED BY <2>3, <3>2, ClampMore
  <2>6. ASSUME \A w \in values : v <= w PROVE Clamp(share(v)) = 0
    <3>1. v = low
      BY <1>1, <2>6
    <3>2. (v - low) * 100 = 0
      BY <1>1, <3>1
    <3>3. share(v) = 0
      BY <2>1, <3>2
    <3> QED BY <3>3 DEF Clamp
  <2> HIDE DEF share
  <2>7. ~ (\A w \in values : v = w)
    BY <1>1, <1>4
  <2> QED BY <1>2, <1>4, <2>4, <2>5, <2>6, <2>7
<1> QED BY <1>3, <1>4

(* The first rule comes first: below 20 points of liquidity no other label *)
(* is given (calc.go, classify).                                           *)
LEMMA IlliquidFact ==
  ASSUME NEW f, f.liquidity < 20
  PROVE  Classify(f) = "ignore_low_liquidity"
<1> DEFINE rules ==
          <<<<f.execution < 25 \/ f.liquidity < 20, "ignore_low_liquidity">>,
            <<f.volatility2 < 400 /\ f.volumeZ > 8, "volatility_breakout_candidate">>,
            <<Abs(f.return24h) > 50 /\ f.adx > 20, "trend_candidate">>,
            <<f.return4h > 30 /\ f.rank > 70, "momentum_candidate">>,
            <<Abs(f.fundingZ) > 20 \/ Abs(f.return24h) > 120, "mean_reversion_candidate">>,
            <<f.volatility2 < 225, "squeeze_candidate">>,
            <<TRUE, "ignore_choppy">>>>
           S == {i \in DOMAIN rules : rules[i][1]}
<1>1. Classify(f) = rules[Min(S)][2]
  BY Zenon DEF Classify
<1>2. DOMAIN rules = 1..7
  OBVIOUS
<1>3. rules[1][1] /\ rules[1][2] = "ignore_low_liquidity"
  OBVIOUS
<1> HIDE DEF rules
<1>4. 1 \in S /\ \A i \in S : 1 <= i
  BY <1>2, <1>3
<1>5. Min(S) = 1
  <2>1. S \in SUBSET Int
    BY <1>2
  <2> HIDE DEF S
  <2>2. Min(S) \in S /\ \A i \in S : Min(S) <= i
    BY <1>4 DEF Min
  <2>3. Min(S) \in Int /\ Min(S) <= 1 /\ 1 <= Min(S)
    BY <1>4, <2>1, <2>2
  <2> QED BY <2>3
<1> QED BY <1>1, <1>3, <1>5

-----------------------------------------------------------------------------
(* The cross-section *)

(* The values of a field among the features.                               *)
Values(fs, field) == {fs[c][field] : c \in DOMAIN fs}

(* The values of a function over a finite set are finitely many.           *)
LEMMA ImageIsFinite ==
  ASSUME NEW S, IsFiniteSet(S), NEW h
  PROVE  IsFiniteSet({h[x] : x \in S})
<1> DEFINE T == {h[x] : x \in S}
           g == [x \in S |-> h[x]]
<1>1. g \in Surjection(S, T)
  BY DEF Surjection
<1> HIDE DEF g, T
<1>2. IsFiniteSet(T)
  BY <1>1, FS_Surjection
<1> QED BY <1>2 DEF T

(* The scores of c among those of the others.                              *)
Liquidity(fs, c) == Normalize(fs[c].liquidity, Values(fs, "liquidity"))
(* And the volume anomaly of c.                                            *)
Volume(fs, c) == Normalize(fs[c].volumeAnomaly, Values(fs, "volumeAnomaly"))

(* The research score of a feature that open interest counts 50 points for *)
(* and funding none.                                                       *)
Weighted(liquidity, volume, momentum, execution) ==
    25 * liquidity + 20 * 50 + 20 * volume + 15 * momentum + 10 * execution

(* It is the research score, and within its range.                         *)
LEMMA WeightedFact ==
  ASSUME NEW f, NEW l \in Points, NEW v \in Points, NEW m \in Points, NEW e \in Points,
         f.liquidity = l, f.oiAnomaly = 50, f.volumeAnomaly = v, f.momentum = m,
         f.fundingAnomaly = 0, f.execution = e
  PROVE  /\ ResearchScore(f) = Weighted(l, v, m, e)
         /\ ResearchScore(f) \in 0..10000
BY DEF ResearchScore, Weighted, Points

(* Features to be made comparable.                                         *)
Comparable(fs) ==
    /\ IsFiniteSet(DOMAIN fs)
    /\ \A c \in DOMAIN fs : RawFeature(fs[c]) /\ fs[c].execution \in Points

(* The values of a score to be made comparable are finitely many numbers.  *)
LEMMA ValuesFact ==
  ASSUME NEW fs, Comparable(fs),
         NEW field \in {"liquidity", "volumeAnomaly", "oiAnomaly"}
  PROVE  /\ Values(fs, field) \in SUBSET Int
         /\ IsFiniteSet(Values(fs, field))
         /\ \A c \in DOMAIN fs : fs[c][field] \in Values(fs, field)
<1>1. \A d \in DOMAIN fs : fs[d][field] \in Int
  BY DEF Comparable, RawFeature, Points
<1>2. /\ Values(fs, field) \in SUBSET Int
      /\ \A c \in DOMAIN fs : fs[c][field] \in Values(fs, field)
  BY <1>1 DEF Values
<1>3. IsFiniteSet(Values(fs, field))
  <2> DEFINE h == [d \in DOMAIN fs |-> fs[d][field]]
  <2>1. Values(fs, field) = {h[d] : d \in DOMAIN fs}
    BY DEF Values
  <2>2. IsFiniteSet(DOMAIN fs)
    BY DEF Comparable
  <2> HIDE DEF h
  <2> QED BY <2>1, <2>2, ImageIsFinite
<1> QED BY <1>2, <1>3

(* What NormalizeCrossSection makes of the feature of c.                   *)
LEMMA CrossSectionFact ==
  ASSUME NEW fs, Comparable(fs), NEW c \in DOMAIN fs,
         NEW g, g = NormalizeCrossSection(fs)[c]
  PROVE  /\ Liquidity(fs, c) \in Points /\ Volume(fs, c) \in Points
         /\ g.research = Weighted(Liquidity(fs, c), Volume(fs, c),
                                  fs[c].momentum, fs[c].execution)
         /\ g.research \in ResearchScores
         /\ (Liquidity(fs, c) < 20 => g.label = "ignore_low_liquidity")
<1> DEFINE f == fs[c]
           n == [f EXCEPT
                    !.rank          = Normalize(f.return24h, Values(fs, "return24h")),
                    !.liquidity     = Normalize(@, Values(fs, "liquidity")),
                    !.oiAnomaly     = Normalize(@, Values(fs, "oiAnomaly")),
                    !.volumeAnomaly = Normalize(@, Values(fs, "volumeAnomaly"))]
<1>0. /\ IsFiniteSet(DOMAIN fs)
      /\ \A d \in DOMAIN fs : RawFeature(fs[d]) /\ fs[d].execution \in Points
  BY DEF Comparable
<1>1. g = Scored(n)
  BY DEF NormalizeCrossSection, Values
<1>2. RawFeature(f) /\ f.execution \in Points
  BY <1>0
<1>3. HasFields(f) /\ DOMAIN f = Fields
  BY <1>2 DEF RawFeature, HasFields
<1>4. ASSUME NEW field \in {"liquidity", "volumeAnomaly", "oiAnomaly"}
      PROVE  /\ Values(fs, field) \in SUBSET Int /\ f[field] \in Values(fs, field)
             /\ IsFiniteSet(Values(fs, field))
  BY ValuesFact
<1>5. Liquidity(fs, c) \in Points /\ Volume(fs, c) \in Points
  BY <1>4, NormalizeFact DEF Liquidity, Volume, Points
<1>6. Normalize(f.oiAnomaly, Values(fs, "oiAnomaly")) = 50
  <2>1. \A v \in Values(fs, "oiAnomaly") : f.oiAnomaly = v
    BY <1>0 DEF Values, RawFeature
  <2> QED BY <1>4, <2>1, NormalizeFact
<1>7. /\ HasFields(n)
      /\ n.liquidity = Liquidity(fs, c) /\ n.oiAnomaly = 50
      /\ n.volumeAnomaly = Volume(fs, c)
      /\ n.momentum = f.momentum /\ n.fundingAnomaly = 0
      /\ n.execution = f.execution
  <2>1. DOMAIN n = Fields /\ n = [x \in DOMAIN n |-> n[x]]
    BY <1>3
  <2>2. /\ n.liquidity = Liquidity(fs, c) /\ n.oiAnomaly = 50
        /\ n.volumeAnomaly = Volume(fs, c)
    BY <1>3, <1>6 DEF Fields, Liquidity, Volume
  <2>3. /\ n.momentum = f.momentum /\ n.fundingAnomaly = f.fundingAnomaly
        /\ n.execution = f.execution
    BY <1>3 DEF Fields
  <2>4. f.fundingAnomaly = 0
    BY <1>2 DEF RawFeature
  <2> HIDE DEF n, f
  <2> QED BY <2>1, <2>2, <2>3, <2>4, Zenon DEF HasFields
<1> HIDE DEF n
<1>8. /\ g.research = ResearchScore(n)
      /\ g.label = Classify([n EXCEPT !.research = ResearchScore(n)])
  BY <1>1, <1>7, ScoredFact DEF Fields
<1>9. f.momentum \in Points
  BY <1>2 DEF RawFeature
<1>10. ASSUME Liquidity(fs, c) < 20 PROVE g.label = "ignore_low_liquidity"
  <2> DEFINE s == [n EXCEPT !.research = ResearchScore(n)]
  <2>1. s.liquidity = Liquidity(fs, c)
    BY <1>7
  <2> HIDE DEF s
  <2>2. Classify(s) = "ignore_low_liquidity"
    BY <1>10, <2>1, IlliquidFact
  <2> QED BY <1>8, <2>2 DEF s
<1>12. ResearchScore(n) = Weighted(Liquidity(fs, c), Volume(fs, c), f.momentum, f.execution)
  <2> HIDE DEF f
  <2> QED BY <1>2, <1>5, <1>7, <1>9, WeightedFact
<1>13. ResearchScore(n) \in 0..10000
  <2> HIDE DEF f
  <2> QED BY <1>2, <1>5, <1>7, <1>9, WeightedFact
<1>14. g.research = ResearchScore(n)
  BY <1>8
<1>15. g.research \in ResearchScores
  <2> DEFINE x == ResearchScore(n)
  <2>1. x \in ResearchScores
    BY <1>13 DEF ResearchScores
  <2> HIDE DEF x
  <2> QED BY <1>14, <2>1 DEF x
<1>16. g.research = Weighted(Liquidity(fs, c), Volume(fs, c),
                             fs[c].momentum, fs[c].execution)
  BY <1>12, <1>14, Zenon
<1> QED BY <1>5, <1>10, <1>15, <1>16

(* A feature whose research score keeps to its scale.                      *)
InScale(f) == f.research \in ResearchScores

(* That score is a number.                                                 *)
LEMMA ScaleIsInt ==
  ASSUME NEW f, InScale(f)
  PROVE  f.research \in Int
<1> DEFINE x == f.research
<1>1. x \in ResearchScores
  BY DEF InScale
<1> HIDE DEF x
<1>2. x \in Int
  BY <1>1 DEF ResearchScores
<1> QED BY <1>2 DEF x

(* Every feature made comparable is such a feature.                        *)
LEMMA ScoreInScale ==
  ASSUME NEW fs, Comparable(fs), NEW c \in DOMAIN fs
  PROVE  InScale(NormalizeCrossSection(fs)[c])
<1> DEFINE g == NormalizeCrossSection(fs)[c]
<1>1. g.research \in ResearchScores
  BY CrossSectionFact
<1> HIDE DEF g
<1>2. InScale(g)
  BY <1>1 DEF InScale
<1> QED BY <1>2 DEF g

-----------------------------------------------------------------------------
(* The depth of a book *)

(* SumOver is a sum over the positions.                                    *)
LEMMA SumOverIsSum == ASSUME NEW f PROVE SumOver(f) = Sum(f, DOMAIN f)
BY SumIsFold DEF SumOver

(* The distance of a price from the mid, as DepthWithin has it.            *)
Distance(px, mid2, bid) == (IF bid THEN mid2 - 2 * px ELSE 2 * px - mid2) * 10000
(* The levels not further from the mid than bps.                           *)
Within(levels, mid2, bps, bid) ==
    {i \in DOMAIN levels : /\ Distance(levels[i].px, mid2, bid) >= 0
                           /\ Distance(levels[i].px, mid2, bid) <= bps * mid2}
(* The value of each level.                                                *)
Value(levels) == [i \in DOMAIN levels |-> levels[i].px * levels[i].sz]

(* The levels of a side are finitely many, and none is empty.              *)
LEMMA LevelFact ==
  ASSUME NEW levels \in Levels
  PROVE  /\ DOMAIN levels = 1..Len(levels) /\ Len(levels) \in Nat
         /\ IsFiniteSet(DOMAIN levels)
         /\ \A i \in DOMAIN levels : levels[i].px \in Nat \ {0} /\ levels[i].sz \in Nat \ {0}
<1>1. DOMAIN levels = 1..Len(levels) /\ Len(levels) \in Nat
  BY DEF Levels
<1>2. \A i \in 1..Len(levels) : levels[i] \in [px : Nat \ {0}, sz : Nat \ {0}]
  BY ElementOfSeq DEF Levels
<1>3. IsFiniteSet(DOMAIN levels)
  BY <1>1, FS_Interval
<1> QED BY <1>1, <1>2, <1>3

(* So each has a value.                                                    *)
LEMMA ValueFact ==
  ASSUME NEW levels \in Levels, NEW i \in DOMAIN levels
  PROVE  Value(levels)[i] \in Nat \ {0}
<1>1. levels[i].px \in Nat \ {0} /\ levels[i].sz \in Nat \ {0}
  BY LevelFact
<1>2. ASSUME NEW a \in Nat \ {0}, NEW b \in Nat \ {0} PROVE a * b \in Nat \ {0}
  OBVIOUS
<1> QED BY <1>1, <1>2 DEF Value

(* The depth is the sum of the values within.                              *)
LEMMA DepthIsSum ==
  ASSUME NEW levels \in Levels, NEW mid2 \in Nat \ {0}, NEW bps, NEW bid
  PROVE  DepthWithin(levels, mid2, bps, bid)
            = Sum(Value(levels), Within(levels, mid2, bps, bid))
<1> DEFINE S == Within(levels, mid2, bps, bid)
           v == [i \in S |-> levels[i].px * levels[i].sz]
<1>1. DepthWithin(levels, mid2, bps, bid) = SumOver(v)
  BY DEF DepthWithin, Within, Distance
<1>2. S \in SUBSET DOMAIN levels /\ DOMAIN v = S
  BY DEF Within
<1>3. \A i \in S : v[i] = Value(levels)[i]
  BY <1>2 DEF Value
<1>4. IsFiniteSet(S)
  BY <1>2, LevelFact, FS_Subset
<1> HIDE DEF v, S
<1>5. Sum(v, S) = Sum(Value(levels), S)
  BY <1>3, <1>4, SumSame
<1> QED BY <1>1, <1>2, <1>5, SumOverIsSum DEF S

(* A depth is a natural and grows with the distance.                       *)
LEMMA DepthFact ==
  ASSUME NEW levels \in Levels, NEW mid2 \in Nat, NEW bps \in Nat, NEW bid \in BOOLEAN
  PROVE  /\ DepthWithin(levels, mid2, bps, bid) \in Nat
         /\ \A wide \in Nat :
               bps <= wide => DepthWithin(levels, mid2, bps, bid)
                                 <= DepthWithin(levels, mid2, wide, bid)
<1>1. CASE mid2 = 0
  BY <1>1 DEF DepthWithin
<1>2. CASE mid2 # 0
  <2> DEFINE S(b) == Within(levels, mid2, b, bid)
  <2>1. ASSUME NEW b \in Nat
        PROVE  /\ IsFiniteSet(S(b))
               /\ \A i \in S(b) : Value(levels)[i] \in Nat
               /\ DepthWithin(levels, mid2, b, bid) = Sum(Value(levels), S(b))
    <3>1. S(b) \in SUBSET DOMAIN levels
      BY DEF Within
    <3> QED BY <1>2, <3>1, LevelFact, FS_Subset, ValueFact, DepthIsSum
  <2>2. DepthWithin(levels, mid2, bps, bid) \in Nat
    <3>1. Sum(Value(levels), S(bps)) \in Int /\ Sum(Value(levels), S(bps)) >= 0
      <4> HIDE DEF S
      <4> QED BY <2>1, SumTyped
    <3> HIDE DEF S
    <3> QED BY <2>1, <3>1
  <2>3. ASSUME NEW wide \in Nat, bps <= wide
        PROVE  DepthWithin(levels, mid2, bps, bid) <= DepthWithin(levels, mid2, wide, bid)
    <3>1. S(bps) \in SUBSET S(wide)
      <4>1. bps * mid2 <= wide * mid2
        BY <2>3
      <4>2. \A i \in DOMAIN levels : Distance(levels[i].px, mid2, bid) \in Int
        BY LevelFact DEF Distance
      <4>3. bps * mid2 \in Int /\ wide * mid2 \in Int
        OBVIOUS
      <4> QED BY <4>1, <4>2, <4>3 DEF Within
    <3> HIDE DEF S
    <3>2. Sum(Value(levels), S(bps)) <= Sum(Value(levels), S(wide))
      BY <2>1, <3>1, SumOfMore
    <3> QED BY <2>1, <3>2
  <2> QED BY <2>2, <2>3
<1> QED BY <1>1, <1>2

(* A depth that reaches the best level is not 0.                           *)
LEMMA FirstLevelCounts ==
  ASSUME NEW levels \in Levels, NEW mid2 \in Nat \ {0}, NEW bps \in Nat, NEW bid \in BOOLEAN,
         1 \in Within(levels, mid2, bps, bid)
  PROVE  DepthWithin(levels, mid2, bps, bid) > 0
<1> DEFINE S == Within(levels, mid2, bps, bid)
           v == Value(levels)
<1>1. S \in SUBSET DOMAIN levels
  BY DEF Within
<1>2. IsFiniteSet(S) /\ \A i \in S : v[i] \in Nat \ {0}
  BY <1>1, LevelFact, FS_Subset, ValueFact
<1>3. DepthWithin(levels, mid2, bps, bid) = Sum(v, S)
  BY DepthIsSum
<1> HIDE DEF S, v
<1>4. Sum(v, S) = v[1] + Sum(v, S \ {1})
  BY <1>2, SumWithout DEF S
<1>5. IsFiniteSet(S \ {1}) /\ \A i \in S \ {1} : v[i] \in Int /\ v[i] >= 0
  BY <1>2, FS_Subset
<1>6. Sum(v, S \ {1}) \in Int /\ Sum(v, S \ {1}) >= 0
  BY <1>5, SumTyped
<1>7. v[1] \in Nat \ {0}
  BY <1>2 DEF S
<1> QED BY <1>3, <1>4, <1>6, <1>7

-----------------------------------------------------------------------------
(* The summaries *)

(* A side that is missing is one without levels.                           *)
LEMMA SideFact ==
  ASSUME NEW book, book.levels \in Seq(Levels), NEW i \in 1..2
  PROVE  /\ Side(book, i) \in Levels
         /\ BestPx(Side(book, i)) \in Nat
         /\ BestPx(Side(book, i)) > 0
               => 1 \in DOMAIN Side(book, i) /\ Side(book, i)[1].px = BestPx(Side(book, i))
<1>1. Side(book, i) \in Levels
  <2>1. CASE i <= Len(book.levels)
    <3>1. book.levels[i] \in Levels
      BY <2>1, ElementOfSeq
    <3> QED BY <2>1, <3>1 DEF Side
  <2>2. CASE ~ (i <= Len(book.levels))
    <3>1. <<>> \in Levels
      BY DEF Levels
    <3> QED BY <2>2, <3>1 DEF Side
  <2> QED BY <2>1, <2>2
<1> DEFINE s == Side(book, i)
<1> HIDE DEF s
<1>2. s \in Levels
  BY <1>1 DEF s
<1>3. CASE s = <<>>
  <2>1. BestPx(s) = 0
    BY <1>3 DEF BestPx
  <2> QED BY <1>2, <2>1 DEF s
<1>4. CASE s # <<>>
  <2>1. BestPx(s) = s[1].px
    BY <1>4 DEF BestPx
  <2>2. 1 \in DOMAIN s
    BY <1>2, <1>4 DEF Levels
  <2>3. s[1].px \in Nat \ {0}
    BY <1>2, <2>2, LevelFact
  <2> QED BY <1>2, <2>1, <2>2, <2>3 DEF s
<1> QED BY <1>3, <1>4

(* The spread is less than 20 basis points.                                *)
Narrow(bid, ask) == ((ask - bid) * 20000) \div (bid + ask) \in 0..19

(* Then both best prices are within 10 of the mid.                         *)
LEMMA NarrowSpread ==
  ASSUME NEW bid \in Nat \ {0}, NEW ask \in Nat, Narrow(bid, ask)
  PROVE  /\ ask > 0
         /\ Distance(bid, bid + ask, TRUE) >= 0
         /\ Distance(bid, bid + ask, TRUE) <= 10 * (bid + ask)
         /\ Distance(ask, bid + ask, FALSE) >= 0
         /\ Distance(ask, bid + ask, FALSE) <= 10 * (bid + ask)
<1> DEFINE m == bid + ask
           n == (ask - bid) * 20000
           q == n \div m
<1>1. m \in Nat \ {0} /\ n \in Int
  OBVIOUS
<1>2. q \in Int /\ q * m <= n /\ n < q * m + m
  <2> HIDE DEF m, n
  <2> QED BY <1>1
<1>3. 0 <= q * m /\ q * m <= 19 * m
  <2>1. 0 <= q /\ q <= 19
    BY DEF Narrow
  <2> HIDE DEF q, m
  <2> QED BY <1>1, <1>2, <2>1
<1>4. 0 <= n /\ n < 20 * m
  <2> HIDE DEF q, m, n
  <2> QED BY <1>1, <1>2, <1>3
<1>5. bid <= ask /\ (ask - bid) * 10000 <= 10 * (bid + ask)
  <2> HIDE DEF q
  <2> QED BY <1>4
<1> QED BY <1>5 DEF Distance

(* What SummariesAgree says of a book and of trades.                       *)
BookAgrees(s) ==
    /\ (s.bestBid > 0 /\ s.spreadBps \in 0..19
           => s.bidDepth10 > 0 /\ s.askDepth10 > 0)
    /\ s.bidDepth10 <= s.bidDepth50
    /\ s.bidDepth50 <= s.bidDepth100
    /\ s.askDepth10 <= s.askDepth50
    /\ s.askDepth50 <= s.askDepth100
    /\ s.imbalance50 \in -100..100

TradesAgree(s) ==
    /\ s.aggressiveRatio \in 0..100
    /\ s.largeTradeCount <= s.tradeCount

(* Every order book is summarised so (scheduler.go, orderbookSnapshot).    *)
LEMMA BookFact ==
  ASSUME NEW book, book.levels \in Seq(Levels), NEW clock,
         NEW s, s = OrderbookSnapshot(book, clock)
  PROVE  /\ BookAgrees(s)
         /\ s.time = IF book.time > 0 THEN book.time ELSE clock
<1> DEFINE bids == Side(book, 1)
           asks == Side(book, 2)
           bid == BestPx(bids)
           ask == BestPx(asks)
           mid2 == bid + ask
           bidDepth(bps) == DepthWithin(bids, mid2, bps, TRUE)
           askDepth(bps) == DepthWithin(asks, mid2, bps, FALSE)
<1>1. /\ s.time = IF book.time > 0 THEN book.time ELSE clock
      /\ s.bestBid = bid
      /\ s.spreadBps = IF mid2 = 0 THEN 0 ELSE ((ask - bid) * 20000) \div mid2
      /\ s.bidDepth10 = bidDepth(10) /\ s.askDepth10 = askDepth(10)
      /\ s.bidDepth50 = bidDepth(50) /\ s.askDepth50 = askDepth(50)
      /\ s.bidDepth100 = bidDepth(100) /\ s.askDepth100 = askDepth(100)
      /\ s.imbalance50 = IF bidDepth(50) + askDepth(50) = 0 THEN 0
                         ELSE ((bidDepth(50) - askDepth(50)) * 100)
                                 \div (bidDepth(50) + askDepth(50))
  BY DEF OrderbookSnapshot
<1>2. /\ bids \in Levels /\ asks \in Levels
      /\ bid \in Nat /\ ask \in Nat /\ mid2 \in Nat
      /\ (bid > 0 => 1 \in DOMAIN bids /\ bids[1].px = bid)
      /\ (ask > 0 => 1 \in DOMAIN asks /\ asks[1].px = ask)
  BY SideFact
<1> HIDE DEF bids, asks, bid, ask
<1>3. /\ bidDepth(10) <= bidDepth(50) /\ bidDepth(50) <= bidDepth(100)
      /\ askDepth(10) <= askDepth(50) /\ askDepth(50) <= askDepth(100)
      /\ bidDepth(50) \in Nat /\ askDepth(50) \in Nat
  <2> HIDE DEF mid2
  <2>1. 10 \in Nat /\ 50 \in Nat /\ 100 \in Nat /\ 10 <= 50 /\ 50 <= 100
    OBVIOUS
  <2> QED BY <1>2, <2>1, DepthFact
<1>4. s.imbalance50 \in -100..100
  <2> HIDE DEF bidDepth, askDepth
  <2>1. CASE bidDepth(50) + askDepth(50) = 0
    BY <1>1, <2>1
  <2>2. CASE bidDepth(50) + askDepth(50) # 0
    <3> DEFINE a == bidDepth(50)
               b == askDepth(50)
    <3>1. s.imbalance50 = ((a - b) * 100) \div (a + b)
      BY <1>1, <2>2
    <3>2. a \in Nat /\ b \in Nat /\ a + b # 0
      BY <1>3, <2>2
    <3> HIDE DEF a, b
    <3>3. ((a - b) * 100) \div (a + b) \in -100..100
      BY <3>2
    <3> QED BY <3>1, <3>3
  <2> QED BY <2>1, <2>2
<1>5. ASSUME s.bestBid > 0, s.spreadBps \in 0..19
      PROVE  bidDepth(10) > 0 /\ askDepth(10) > 0
  <2>1. bid \in Nat \ {0} /\ mid2 \in Nat \ {0}
    BY <1>1, <1>2, <1>5
  <2>2. Narrow(bid, ask)
    BY <1>1, <1>5, <2>1 DEF Narrow
  <2>3. /\ ask > 0
        /\ Distance(bid, mid2, TRUE) >= 0
        /\ Distance(bid, mid2, TRUE) <= 10 * mid2
        /\ Distance(ask, mid2, FALSE) >= 0
        /\ Distance(ask, mid2, FALSE) <= 10 * mid2
    BY <1>2, <2>1, <2>2, NarrowSpread
  <2>4. 1 \in Within(bids, mid2, 10, TRUE) /\ 1 \in Within(asks, mid2, 10, FALSE)
    <3>1. 1 \in DOMAIN bids /\ bids[1].px = bid /\ 1 \in DOMAIN asks /\ asks[1].px = ask
      BY <1>2, <2>1, <2>3
    <3> HIDE DEF mid2
    <3> QED BY <2>3, <3>1, Zenon DEF Within
  <2> HIDE DEF mid2
  <2> QED BY <1>2, <2>1, <2>4, FirstLevelCounts
<1> HIDE DEF bidDepth, askDepth
<1>6. BookAgrees(s)
  BY <1>1, <1>3, <1>4, <1>5 DEF BookAgrees
<1> QED BY <1>1, <1>6

(* A list of n trades, all of the time at.                                 *)
Stamped(trades, n, at) ==
    /\ DOMAIN trades = 1..n
    /\ Len(trades) = n
    /\ \A i \in 1..n : trades[i].time = at /\ trades[i].sz \in Nat

(* Every list of trades of one time is summarised so (scheduler.go,        *)
(* tradeSnapshot).                                                         *)
LEMMA TradesFact ==
  ASSUME NEW trades, NEW n \in Nat, NEW at \in Nat, Stamped(trades, n, at),
         NEW clock, NEW s, s = TradeSnapshot(trades, clock)
  PROVE  /\ TradesAgree(s)
         /\ s.tradeCount = n
         /\ (n > 0 => s.time = IF at > 0 THEN at ELSE clock)
<1> DEFINE D == DOMAIN trades
           sizes == [i \in D |-> trades[i].sz]
           buys == {i \in D : trades[i].side \in {"B", "buy"}}
           stamped == {i \in D : trades[i].time > 0}
           size(S) == SumOver([i \in S |-> trades[i].sz])
           large == {i \in D : trades[i].sz > Large}
<1>0. /\ DOMAIN trades = 1..n /\ Len(trades) = n
      /\ \A i \in 1..n : trades[i].time = at /\ trades[i].sz \in Nat
  BY DEF Stamped
<1>1. IsFiniteSet(D) /\ Cardinality(D) = n
  BY <1>0, FS_Interval
<1>2. /\ s.time = IF stamped = {} THEN clock ELSE trades[Max(stamped)].time
      /\ s.tradeCount = n
      /\ s.aggressiveRatio = IF size(D) = 0 THEN 0 ELSE (size(buys) * 100) \div size(D)
      /\ s.largeTradeCount = Cardinality(large)
  BY <1>0 DEF TradeSnapshot
<1>3. ASSUME NEW S \in SUBSET D
      PROVE  size(S) = Sum(sizes, S)
  <2> DEFINE f == [i \in S |-> trades[i].sz]
  <2>1. IsFiniteSet(S)
    BY <1>1, FS_Subset
  <2>2. \A i \in S : f[i] = sizes[i]
    OBVIOUS
  <2>3. DOMAIN f = S
    OBVIOUS
  <2>4. size(S) = Sum(f, DOMAIN f)
    BY SumOverIsSum
  <2> HIDE DEF f, size, sizes
  <2> QED BY <2>1, <2>2, <2>3, <2>4, SumSame
<1>4. s.aggressiveRatio \in 0..100
  <2>1. buys \in SUBSET D /\ D \in SUBSET D
    OBVIOUS
  <2>2. \A i \in D : sizes[i] \in Nat
    BY <1>0
  <2>3. size(buys) = Sum(sizes, buys) /\ size(D) = Sum(sizes, D)
    BY <2>1, <1>3
  <2> HIDE DEF size, sizes, buys, D
  <2>4. Sum(sizes, buys) <= Sum(sizes, D)
    BY <1>1, <2>1, <2>2, SumOfMore
  <2>5. IsFiniteSet(buys)
    BY <1>1, <2>1, FS_Subset
  <2>6. Sum(sizes, buys) \in Nat /\ Sum(sizes, D) \in Nat
    <3>1. \A i \in D : sizes[i] \in Int /\ sizes[i] >= 0
      BY <2>2
    <3>2. \A i \in buys : sizes[i] \in Int /\ sizes[i] >= 0
      BY <2>1, <3>1
    <3>3. Sum(sizes, buys) \in Int /\ Sum(sizes, buys) >= 0
      BY <2>5, <3>2, SumTyped
    <3>4. Sum(sizes, D) \in Int /\ Sum(sizes, D) >= 0
      BY <1>1, <3>1, SumTyped
    <3> QED BY <3>3, <3>4
  <2> DEFINE a == Sum(sizes, buys)
             d == Sum(sizes, D)
  <2>7. s.aggressiveRatio = IF d = 0 THEN 0 ELSE (a * 100) \div d
    BY <1>2, <2>3
  <2>8. a \in Nat /\ d \in Nat /\ a <= d
    BY <2>4, <2>6
  <2> HIDE DEF a, d
  <2>9. d # 0 => (a * 100) \div d \in 0..100
    BY <2>8
  <2> QED BY <2>7, <2>9
<1>5. s.largeTradeCount <= s.tradeCount
  <2>1. large \in SUBSET D
    OBVIOUS
  <2> HIDE DEF large, D
  <2> QED BY <1>1, <1>2, <2>1, FS_Subset
<1>6. ASSUME n > 0
      PROVE  s.time = IF at > 0 THEN at ELSE clock
  <2>1. CASE at > 0
    <3>1. stamped = 1..n /\ stamped # {}
      BY <1>0, <1>6, <2>1
    <3>2. Max(stamped) \in stamped
      <4>1. IsFiniteSet(1..n)
        BY <1>0, <1>1
      <4> HIDE DEF stamped
      <4>2. stamped \in SUBSET Int
        BY <3>1
      <4>3. IsFiniteSet(stamped)
        BY <3>1, <4>1, Zenon
      <4> QED BY <3>1, <4>2, <4>3, MaxFact
    <3> HIDE DEF stamped
    <3> QED BY <1>0, <1>2, <1>6, <2>1, <3>1, <3>2
  <2>2. CASE ~ (at > 0)
    <3>1. stamped = {}
      BY <1>0, <1>6, <2>2
    <3> HIDE DEF stamped
    <3> QED BY <1>2, <2>2, <3>1
  <2> QED BY <2>1, <2>2
<1> HIDE DEF size, stamped, large
<1> QED BY <1>2, <1>4, <1>5, <1>6 DEF TradesAgree

-----------------------------------------------------------------------------
(* The constants and the summaries of upstream *)

(* The trades of a version, and the moments of the clock.                  *)
Trades == Seq([side : STRING, sz : Nat])
Moments == 1..MaxTime

(* What is assumed of the constants, piece by piece.                       *)
LEMMA CoinsFact ==
  /\ Coins \in SUBSET Nat /\ IsFiniteSet(Coins)
  /\ Cardinality(Coins) \in Nat
<1>1. Coins \in SUBSET Nat /\ IsFiniteSet(Coins)
  BY EnrichmentAssumption
<1> QED BY <1>1, FS_CardinalityType

(* The bounds.                                                             *)
LEMMA BoundsFact ==
  /\ ShortlistSize \in Int
  /\ MaxTime \in Nat \ {0} /\ MaxFaults \in Nat
BY EnrichmentAssumption

(* Every series is one of candles.                                         *)
LEMMA SeriesFact ==
  /\ \A s \in DOMAIN Series : Series[s] \in CandleSeries
  /\ DOMAIN Series \in SUBSET (Nat \ {0})
<1>1. DOMAIN Series = 1..Len(Series) /\ Len(Series) \in Nat
  BY EnrichmentAssumption
<1>2. \A s \in DOMAIN Series : Series[s] \in CandleSeries
  BY <1>1, EnrichmentAssumption, ElementOfSeq
<1> QED BY <1>1, <1>2

(* Upstream has a book and trades at every version.                        *)
LEMMA VersionsFact ==
  /\ Versions = Moments /\ 1 \in Moments
  /\ \A v \in Versions : BookOf[v] \in Seq(Levels) /\ TradesOf[v] \in Trades
<1>1. Versions = Moments /\ 1 \in Moments
  BY EnrichmentAssumption DEF Versions, Moments
<1>2. \A v \in Versions : BookOf[v] \in Seq(Levels) /\ TradesOf[v] \in Trades
  BY EnrichmentAssumption DEF Versions, Trades
<1> QED BY <1>1, <1>2

(* What both jobs make of one state of upstream agrees.                    *)
SnapAgrees(snap) ==
    /\ BookAgrees(snap.l2book)
    /\ TradesAgree(snap.recent_trades)
    /\ (snap.recent_trades.tradeCount > 0 => snap.l2book.time = snap.recent_trades.time)

(* Whatever upstream says and whenever it answers, the summaries agree,    *)
(* and they have its time if it gives one.                                 *)
LEMMA SummaryFact ==
  ASSUME NEW v \in Versions, NEW at \in 0..MaxTime, NEW n \in Moments
  PROVE  /\ SnapAgrees(Summary[v][at][n])
         /\ Summary[v][at][n].l2book.time = IF at > 0 THEN at ELSE n
<1> DEFINE book == [levels |-> BookOf[v], time |-> at]
           trades == [i \in DOMAIN TradesOf[v] |->
                         [time |-> at, side |-> TradesOf[v][i].side,
                          sz |-> TradesOf[v][i].sz]]
           b == BookSummary(v, at, n)
           t == TradeSummary(v, at, n)
           count == Len(TradesOf[v])
<1>1. Summary[v][at][n] = [l2book |-> b, recent_trades |-> t]
  BY DEF Summary, Moments, Versions
<1>2. BookOf[v] \in Seq(Levels) /\ TradesOf[v] \in Trades
  BY VersionsFact
<1>3. book.levels \in Seq(Levels) /\ book.time = at
  BY <1>2
<1>4. count \in Nat /\ DOMAIN TradesOf[v] = 1..count
  BY <1>2 DEF Trades
<1>9. \A i \in 1..count : TradesOf[v][i] \in [side : STRING, sz : Nat]
  <2> DEFINE list == TradesOf[v]
  <2>1. list \in Seq([side : STRING, sz : Nat])
    BY <1>2 DEF Trades
  <2> HIDE DEF list
  <2>2. \A i \in 1..Len(list) : list[i] \in [side : STRING, sz : Nat]
    BY <2>1, ElementOfSeq
  <2> QED BY <2>2 DEF list
<1>5. ASSUME NEW i \in 1..count
      PROVE  trades[i].time = at /\ trades[i].sz \in Nat
  <2>1. TradesOf[v][i].sz \in Nat
    BY <1>9
  <2> QED BY <1>4, <2>1
<1>12. DOMAIN trades = 1..count
  BY <1>4
<1>6. Len(trades) = count
  BY <1>4, <1>12
<1>10. b = OrderbookSnapshot(book, n)
  BY DEF BookSummary, book
<1>11. t = TradeSnapshot(trades, n)
  BY DEF TradeSummary, trades
<1> HIDE DEF book, trades, count, b, t
<1>7. BookAgrees(b) /\ b.time = IF at > 0 THEN at ELSE n
  BY <1>3, <1>10, BookFact
<1>8. /\ TradesAgree(t) /\ t.tradeCount = count
      /\ (count > 0 => t.time = IF at > 0 THEN at ELSE n)
  <2>1. Stamped(trades, count, at)
    BY <1>5, <1>6, <1>12 DEF Stamped
  <2>2. at \in Nat
    OBVIOUS
  <2> QED BY <1>4, <1>11, <2>1, <2>2, TradesFact
<1> QED BY <1>1, <1>7, <1>8 DEF SnapAgrees

-----------------------------------------------------------------------------
(* The inductive invariant, and the shortlist *)

(* The features of the last scoring before they were made comparable.      *)
LastScoring == [c \in Compared |-> Calculated[seen[c]]]

(* A row a run can have of its coin: of the present state of upstream, or  *)
(* of an older one and stamped before the present one.                     *)
Known(row) ==
    /\ row.coin \in markets
    /\ row.version \in 1..live[row.coin].version
    /\ At(row) \in 1..now
    /\ row.version < live[row.coin].version => At(row) < live[row.coin].time
    /\ SnapAgrees(row.snap)

(* All rows there are, stored or in hand.                                  *)
KnownRows == {stored[c] : c \in DOMAIN stored} \cup UNION {rows[r] : r \in Runners}

(* Of two rows of a coin the one of the older state has the earlier time.  *)
InOrder(row, other) ==
    row.coin = other.coin /\ row.version < other.version => At(row) < At(other)

(* The clock counts the changes upstream.                                  *)
UpstreamInv ==
    /\ now \in Moments
    /\ markets \in SUBSET Coins
    /\ live \in [Coins -> [version : Moments, time : 0..MaxTime]]
    /\ \A c \in Coins : live[c].version <= now /\ live[c].time <= now
    /\ faults \in 0..MaxFaults

(* The features of the coins compared last are those of one scoring, also  *)
(* while the shortlist is read.                                            *)
ScoresInv ==
    /\ seen \in [Coins -> {0} \cup DOMAIN Series]
    /\ \A c \in Coins : seen[c] # 0 => c \in markets
    /\ \A c \in DOMAIN features : c \in markets /\ InScale(features[c])
    /\ \A c \in Compared :
          c \in DOMAIN features /\ features[c] = NormalizeCrossSection(LastScoring)[c]

(* All rows are known, and in order with each other.                       *)
RowsInv ==
    /\ \A row \in KnownRows : Known(row)
    /\ \A row, other \in KnownRows : InOrder(row, other)
    /\ \A c \in DOMAIN stored : stored[c].coin = c

(* What run r has in hand: a row for each of some coins, and others to ask for. *)
InHand(r) ==
    /\ \A i, k \in DOMAIN todo[r] : i # k => todo[r][i] # todo[r][k]
    /\ \A i \in DOMAIN todo[r] :
          todo[r][i] \in markets /\ \A row \in rows[r] : row.coin # todo[r][i]
    /\ \A row, other \in rows[r] : row.coin = other.coin => row = other
    /\ ~Busy(r) => rows[r] = {}

(* The runs, each with what it has in hand.                                *)
RunsInv ==
    /\ record \in [Runners -> Record]
    /\ todo \in [Runners -> Seq(Coins)]
    /\ DOMAIN rows = Runners /\ rows = [r \in Runners |-> rows[r]]
    /\ \A r \in Runners : InHand(r)

(* The features of the series: from candles alone, all of one spread.      *)
LEMMA CalculatedFact ==
  ASSUME NEW s \in DOMAIN Series
  PROVE  /\ RawFeature(Calculated[s])
         /\ Calculated[s].execution = Clamp(84)
<1>1. Series[s] \in CandleSeries
  BY SeriesFact
<1>2. Calculated[s] = Calculate(Series[s], <<>>, 2)
  BY DEF Calculated
<1>3. 2 \in Int /\ 100 - 8 * 2 = 84
  OBVIOUS
<1>4. \A n \in Int : /\ RawFeature(Calculate(Series[s], <<>>, n))
                    /\ Calculate(Series[s], <<>>, n).execution = Clamp(100 - 8 * n)
  BY <1>1, CalculateFact
<1>5. RawFeature(Calculated[s]) /\ Calculated[s].execution = Clamp(100 - 8 * 2)
  BY <1>2, <1>3, <1>4, Zenon
<1> QED BY <1>3, <1>5, Zenon

(* What ComputeFeatures makes comparable can be made so, and execution     *)
(* counts the same for all: the spread is fixed.                           *)
LEMMA ScoringFact ==
  ASSUME NEW S \in SUBSET Coins, NEW fs, DOMAIN fs = S,
         \A c \in S : \E s \in DOMAIN Series : fs[c] = Calculated[s]
  PROVE  /\ Comparable(fs)
         /\ \A c \in DOMAIN fs : fs[c].execution = Clamp(84)
<1>1. IsFiniteSet(S)
  BY CoinsFact, FS_Subset
<1>2. Clamp(84) \in Points
  BY DEF Clamp, Points
<1>3. ASSUME NEW c \in S
      PROVE  RawFeature(fs[c]) /\ fs[c].execution = Clamp(84)
  <2>1. PICK s \in DOMAIN Series : fs[c] = Calculated[s]
    OBVIOUS
  <2> QED BY <2>1, CalculatedFact, Zenon
<1> QED BY <1>1, <1>2, <1>3, Zenon DEF Comparable

(* The shortlist: distinct markets.                                        *)
Above(c) == {d \in markets : \/ Score(d) > Score(c)
                             \/ Score(d) = Score(c) /\ d <= c}

(* Two elements are finitely many.                                         *)
LEMMA PairIsFinite ==
  ASSUME NEW a, NEW b
  PROVE  IsFiniteSet({a, b})
<1>1. IsFiniteSet({b})
  BY FS_Singleton
<1>2. IsFiniteSet({b} \cup {a})
  BY <1>1, FS_AddElement
<1>3. {a, b} = {b} \cup {a}
  OBVIOUS
<1> QED BY <1>2, <1>3, Zenon

(* The elements of a sequence make it one.                                 *)
LEMMA ElementsMakeSeq ==
  ASSUME NEW S, NEW n \in Nat, NEW f \in [1..n -> S]
  PROVE  f \in Seq(S)
<1>1. f \in UNION {[1..m -> S] : m \in Nat}
  BY Zenon
<1> QED BY <1>1, SeqDef, Zenon

(* Ranks are positions: each from 1 to the number of markets, no two the   *)
(* same.                                                                   *)
LEMMA RankFact ==
  ASSUME markets \in SUBSET Coins, \A c \in DOMAIN features : InScale(features[c])
  PROVE  /\ IsFiniteSet(markets) /\ Cardinality(markets) \in Nat
         /\ \A c \in markets : Rank(c) \in 1..Cardinality(markets)
         /\ \A c, d \in markets : Rank(c) = Rank(d) => c = d
<1>1. IsFiniteSet(markets) /\ Cardinality(markets) \in Nat
  BY CoinsFact, FS_Subset, FS_CardinalityType
<1>2. ASSUME NEW c \in markets PROVE Score(c) \in Int /\ c \in Nat
  <2>1. c \in Nat
    BY CoinsFact
  <2>2. CASE c \in DOMAIN features
    <3>1. features[c].research \in Int
      BY <2>2, ScaleIsInt
    <3>2. Score(c) = features[c].research
      BY <2>2 DEF Score
    <3> QED BY <2>1, <3>1, <3>2
  <2>3. CASE c \notin DOMAIN features
    BY <2>1, <2>3 DEF Score
  <2> QED BY <2>2, <2>3
<1>3. \A c \in markets : Rank(c) = Cardinality(Above(c))
  BY DEF Rank, Above
<1>4. ASSUME NEW c \in markets
      PROVE  /\ Above(c) \in SUBSET markets /\ c \in Above(c)
             /\ IsFiniteSet(Above(c)) /\ Cardinality(Above(c)) \in Nat \ {0}
             /\ Cardinality(Above(c)) <= Cardinality(markets)
  <2>1. Above(c) \in SUBSET markets /\ c \in Above(c)
    <3>1. Score(c) \in Int /\ c \in Nat /\ c <= c
      BY <1>2
    <3> QED BY <3>1, Zenon DEF Above
  <2>2. IsFiniteSet(Above(c)) /\ Cardinality(Above(c)) <= Cardinality(markets)
    BY <1>1, <2>1, FS_Subset
  <2>3. Cardinality(Above(c)) \in Nat /\ Cardinality(Above(c)) # 0
    BY <2>1, <2>2, FS_CardinalityType, FS_EmptySet
  <2> QED BY <2>1, <2>2, <2>3
<1>5. ASSUME NEW c \in markets, NEW d \in markets, Rank(c) = Rank(d)
      PROVE  c = d
  <2>1. Above(c) \in SUBSET Above(d) \/ Above(d) \in SUBSET Above(c)
    BY <1>2 DEF Above
  <2>2. Cardinality(Above(c)) = Cardinality(Above(d))
    BY <1>3, <1>5
  <2>3. Above(c) = Above(d)
    BY <1>4, <2>1, <2>2, FS_Subset
  <2>4. c \in Above(d) /\ d \in Above(c)
    BY <1>4, <2>3
  <2> QED BY <1>2, <2>4 DEF Above
<1> QED BY <1>1, <1>3, <1>4, <1>5

(* The shortlist names active coins, none of them twice.                   *)
LEMMA ShortlistFact ==
  ASSUME markets \in SUBSET Coins, \A c \in DOMAIN features : InScale(features[c])
  PROVE  /\ ShortlistCoins \in Seq(markets)
         /\ \A i, k \in DOMAIN ShortlistCoins :
               i # k => ShortlistCoins[i] # ShortlistCoins[k]
<1> DEFINE n == Cardinality(markets)
           m == Min({Limit, n})
           rank == [c \in markets |-> Rank(c)]
<1>1. /\ IsFiniteSet(markets) /\ n \in Nat
      /\ \A c \in markets : Rank(c) \in 1..n
      /\ \A c, d \in markets : Rank(c) = Rank(d) => c = d
  BY RankFact
<1>2. m \in Nat /\ m <= n
  <2>1. Limit \in Nat
    BY BoundsFact DEF Limit
  <2>2. {Limit, n} \in SUBSET Int /\ {Limit, n} # {} /\ IsFiniteSet({Limit, n})
    <3>2. IsFiniteSet({Limit, n})
      BY PairIsFinite
    <3> HIDE DEF n
    <3> QED BY <1>1, <2>1, <3>2
  <2>3. m \in {Limit, n} /\ m <= n
    BY <2>2, MinFact
  <2> QED BY <1>1, <2>1, <2>3
<1>3. ASSUME NEW i \in 1..m
      PROVE  \E c \in markets : Rank(c) = i
  <2>1. rank \in Injection(markets, 1..n)
    <3>1. rank \in [markets -> 1..n]
      BY <1>1
    <3>2. \A c, d \in markets : rank[c] = rank[d] => c = d
      BY <1>1
    <3> HIDE DEF rank, n
    <3> QED BY <3>1, <3>2 DEF Injection, IsInjective
  <2>2. IsFiniteSet(1..n) /\ Cardinality(1..n) = n
    <3> HIDE DEF n
    <3> QED BY <1>1, FS_Interval
  <2>3. rank \in Surjection(markets, 1..n)
    BY <1>1, <2>1, <2>2, FS_Injection
  <2>4. i \in 1..n
    BY <1>1, <1>2
  <2> QED BY <2>3, <2>4 DEF Surjection
<1>4. \A i \in 1..m : ShortlistCoins[i] \in markets /\ Rank(ShortlistCoins[i]) = i
  BY <1>3 DEF ShortlistCoins
<1>5. DOMAIN ShortlistCoins = 1..m /\ ShortlistCoins \in [1..m -> markets]
  BY <1>4 DEF ShortlistCoins
<1>6. ShortlistCoins \in Seq(markets)
  <2> HIDE DEF m
  <2> QED BY <1>2, <1>5, ElementsMakeSeq
<1> HIDE DEF m
<1>7. ASSUME NEW i \in DOMAIN ShortlistCoins, NEW k \in DOMAIN ShortlistCoins,
             ShortlistCoins[i] = ShortlistCoins[k]
      PROVE  i = k
  BY <1>4, <1>5, <1>7
<1> QED BY <1>6, <1>7

-----------------------------------------------------------------------------
(* Upstream and the scores, step by step *)

(* It holds initially.                                                     *)
LEMMA UpstreamInit == Init => UpstreamInv
<1> SUFFICES ASSUME Init PROVE UpstreamInv
  OBVIOUS
<1> QED BY BoundsFact, VersionsFact DEF Init, UpstreamInv, Moments

(* No step takes the clock past its bound or a version past the clock.     *)
LEMMA UpstreamStep ==
  ASSUME UpstreamInv, [Next]_vars
  PROVE  UpstreamInv'
<1> USE BoundsFact
<1>1. ASSUME NEW c \in Coins, NewMarket(c) PROVE UpstreamInv'
  BY <1>1 DEF NewMarket, UpstreamInv
<1>2. ASSUME NEW c \in Coins, Change(c) PROVE UpstreamInv'
  BY <1>2 DEF Change, UpstreamInv, Moments
<1>3. CASE ComputeFeatures
  BY <1>3 DEF ComputeFeatures, UpstreamInv
<1>4. ASSUME NEW r \in Runners, Run(r) PROVE UpstreamInv'
  <2>1. UNCHANGED <<now, markets, live>> /\ (faults' = faults \/ Fault(r))
    BY <1>4 DEF Run, Begin, ShortlistFails, Fetch, FetchFails, Insert, InsertFails,
                Killed, Fault
  <2>2. faults' \in 0..MaxFaults
    BY <2>1 DEF Fault, UpstreamInv
  <2> QED BY <2>1, <2>2 DEF UpstreamInv
<1>5. CASE UNCHANGED vars
  BY <1>5 DEF vars, UpstreamInv
<1> QED BY <1>1, <1>2, <1>3, <1>4, <1>5 DEF Next

(* The steps other than ComputeFeatures.                                   *)
LEMMA ScoresFrame ==
  ASSUME [Next]_vars, UpstreamInv
  PROVE  \/ ComputeFeatures
         \/ UNCHANGED <<seen, features>> /\ markets \in SUBSET markets'
<1>1. ASSUME NEW c \in Coins, NewMarket(c) \/ Change(c)
      PROVE  UNCHANGED <<seen, features>> /\ markets \in SUBSET markets'
  BY <1>1 DEF NewMarket, Change
<1>2. ASSUME NEW r \in Runners, Run(r)
      PROVE  UNCHANGED <<seen, features>> /\ markets \in SUBSET markets'
  BY <1>2 DEF Run, Begin, ShortlistFails, Fetch, FetchFails, Insert, InsertFails,
              Killed, Fault
<1>3. CASE UNCHANGED vars
  BY <1>3 DEF vars
<1> QED BY <1>1, <1>2, <1>3 DEF Next

(* The coins that were compared, read off the series they were scored      *)
(* from.                                                                   *)
LEMMA ComparedFact == Compared = {c \in Coins : seen[c] # 0 /\ Len(Series[seen[c]]) >= 2}
BY Zenon DEF Compared, ScorableIn

(* It holds initially.                                                     *)
LEMMA ScoresInit == Init => ScoresInv
<1> SUFFICES ASSUME Init PROVE ScoresInv
  OBVIOUS
<1>1. seen = [c \in Coins |-> 0] /\ DOMAIN features = {}
  BY DEF Init
<1>2. Compared = {}
  BY <1>1, ComparedFact
<1> QED BY <1>1, <1>2 DEF ScoresInv

(* A scoring replaces the features of the coins it compares all at once;   *)
(* no other step touches one.                                              *)
LEMMA ScoresStep ==
  ASSUME UpstreamInv, ScoresInv, [Next]_vars
  PROVE  ScoresInv'
<1>1. CASE UNCHANGED <<seen, features>> /\ markets \in SUBSET markets'
  <2>1. Compared' = Compared /\ LastScoring' = LastScoring
    BY <1>1 DEF Compared, LastScoring
  <2> QED BY <1>1, <2>1 DEF ScoresInv
<1>2. CASE ComputeFeatures
  <2>1. PICK candles \in [markets -> DOMAIN Series] :
           /\ \A c \in markets : candles[c] >= seen[c]
           /\ seen' = Over(candles, seen)
           /\ features' =
                Over(NormalizeCrossSection(
                        [c \in ScorableIn(candles) |-> Calculated[candles[c]]]),
                     features)
    BY <1>2 DEF ComputeFeatures
  <2> DEFINE S == ScorableIn(candles)
             fs == [c \in S |-> Calculated[candles[c]]]
             new == NormalizeCrossSection(fs)
  <2>2. /\ S \in SUBSET markets /\ markets \in SUBSET Coins
        /\ S = {c \in markets : candles[c] # 0 /\ Len(Series[candles[c]]) >= 2}
        /\ \A c \in markets : candles[c] \in DOMAIN Series
    BY DEF UpstreamInv, ScorableIn
  <2>3. UNCHANGED markets
    BY <1>2 DEF ComputeFeatures
  <2>4. /\ seen' \in [Coins -> {0} \cup DOMAIN Series]
        /\ \A c \in markets : seen'[c] = candles[c]
        /\ \A c \in Coins \ markets : seen'[c] = 0
    <3>1. DOMAIN candles = markets /\ DOMAIN seen = Coins
      BY DEF ScoresInv
    <3>2. seen' = [c \in Coins |-> IF c \in markets THEN candles[c] ELSE seen[c]]
      BY <2>1, <2>2, <3>1 DEF Over
    <3> QED BY <2>2, <3>2 DEF ScoresInv
  <2>5. Compared' = S
    <3>1. Compared' = {c \in Coins : seen'[c] # 0 /\ Len(Series[seen'[c]]) >= 2}
      BY Zenon DEF Compared, ScorableIn
    <3> HIDE DEF S
    <3> QED BY <2>2, <2>4, <3>1
  <2>6. LastScoring' = fs
    <3>1. LastScoring' = [c \in Compared' |-> Calculated[seen'[c]]]
      BY DEF LastScoring
    <3>2. \A c \in S : seen'[c] = candles[c]
      BY <2>2, <2>4
    <3> HIDE DEF S
    <3> QED BY <2>5, <3>1, <3>2
  <2>7. \A c \in S : InScale(new[c])
    <3>1. \A c \in S : \E s \in DOMAIN Series : fs[c] = Calculated[s]
      BY <2>2
    <3>2. S \in SUBSET Coins /\ DOMAIN fs = S
      BY <2>2
    <3> HIDE DEF S, fs
    <3>3. Comparable(fs)
      BY <3>1, <3>2, ScoringFact
    <3> QED BY <3>2, <3>3, ScoreInScale
  <2>8. DOMAIN new = S
    BY DEF NormalizeCrossSection
  <2>9. features' = Over(new, features)
    BY <2>1
  <2> HIDE DEF S, new
  <2>10. /\ DOMAIN features' = S \cup DOMAIN features
         /\ \A c \in DOMAIN features' :
               features'[c] = IF c \in S THEN new[c] ELSE features[c]
    BY <2>8, <2>9 DEF Over
  <2>11. \A c \in DOMAIN features' : c \in markets /\ InScale(features'[c])
    BY <2>2, <2>7, <2>10 DEF ScoresInv
  <2>12. \A c \in Compared' :
            c \in DOMAIN features' /\ features'[c] = NormalizeCrossSection(LastScoring')[c]
    BY <2>5, <2>6, <2>10 DEF new
  <2>13. \A c \in Coins : seen'[c] # 0 => c \in markets'
    BY <2>3, <2>4
  <2> QED BY <2>3, <2>4, <2>11, <2>12, <2>13 DEF ScoresInv
<1> QED BY <1>1, <1>2, ScoresFrame

-----------------------------------------------------------------------------
(* What a step does to the rows *)

(* What is stored after a batch is what was there, or of the batch and not *)
(* older than what was there.                                              *)
LEMMA WithFact ==
  ASSUME NEW written, NEW c \in DOMAIN With(written)
  PROVE  \/ c \in DOMAIN stored /\ With(written)[c] = stored[c]
         \/ /\ With(written)[c] \in written
            /\ With(written)[c].coin = c
            /\ c \in DOMAIN stored => At(With(written)[c]) >= At(stored[c])
<1> DEFINE latest(row) ==
             row.coin \notin DOMAIN stored \/ At(row) >= At(stored[row.coin])
           chosen == {row \in written : latest(row)}
           new == [d \in {row.coin : row \in chosen} |->
                      CHOOSE row \in chosen : row.coin = d]
<1>1. With(written) = Over(new, stored)
  BY DEF With
<1>2. ASSUME NEW d \in DOMAIN new PROVE new[d] \in chosen /\ new[d].coin = d
  <2>1. \E row \in chosen : row.coin = d
    OBVIOUS
  <2>2. new[d] = CHOOSE row \in chosen : row.coin = d
    OBVIOUS
  <2> HIDE DEF new, chosen
  <2> QED BY <2>1, <2>2
<1>3. \A row \in chosen : row \in written /\ latest(row)
  OBVIOUS
<1> HIDE DEF new, chosen
<1>4. CASE c \in DOMAIN new
  <2>1. With(written)[c] = new[c]
    BY <1>1, <1>4 DEF Over
  <2> QED BY <1>2, <1>3, <1>4, <2>1
<1>5. CASE c \notin DOMAIN new
  <2>1. c \in DOMAIN stored /\ With(written)[c] = stored[c]
    BY <1>1, <1>5 DEF Over
  <2> QED BY <2>1
<1> QED BY <1>4, <1>5

(* A batch takes no row away.                                              *)
LEMMA WithKeeps ==
  ASSUME NEW written
  PROVE  DOMAIN stored \in SUBSET DOMAIN With(written)
BY DEF With, Over

(* The steps that bring no new row and leave upstream alone.               *)
RowsFrame ==
    /\ KnownRows' \in SUBSET KnownRows
    /\ UNCHANGED <<now, markets, live>>
    /\ \A c \in DOMAIN stored' : stored'[c].coin = c
    /\ \A c \in DOMAIN stored :
          c \in DOMAIN stored' /\ (stored'[c] = stored[c] \/ At(stored'[c]) >= At(stored[c]))

(* A run that stores nothing brings no row.                                *)
LEMMA NothingStored ==
  ASSUME RowsInv, RunsInv, NEW r \in Runners, UNCHANGED <<now, markets, live, stored>>,
         rows' = rows \/ rows' = [rows EXCEPT ![r] = {}]
  PROVE  RowsFrame
<1>1. \A q \in Runners : rows'[q] \in SUBSET rows[q]
  BY DEF RunsInv
<1>2. KnownRows' \in SUBSET KnownRows
  BY <1>1 DEF KnownRows
<1>3. \A c \in DOMAIN stored' : stored'[c].coin = c
  BY DEF RowsInv
<1> QED BY <1>2, <1>3 DEF RowsFrame

(* Nor does one that stores what it has in hand.                           *)
LEMMA BatchStored ==
  ASSUME RowsInv, RunsInv, NEW r \in Runners, UNCHANGED <<now, markets, live>>,
         stored' = With(rows[r]), rows' = [rows EXCEPT ![r] = {}]
  PROVE  RowsFrame
<1>1. \A q \in Runners : rows'[q] \in SUBSET rows[q]
  BY DEF RunsInv
<1>2. ASSUME NEW c \in DOMAIN stored'
      PROVE  /\ stored'[c] \in KnownRows
             /\ stored'[c].coin = c
             /\ c \in DOMAIN stored =>
                   stored'[c] = stored[c] \/ At(stored'[c]) >= At(stored[c])
  <2>1. CASE c \in DOMAIN stored /\ stored'[c] = stored[c]
    BY <2>1 DEF KnownRows, RowsInv
  <2>2. CASE /\ stored'[c] \in rows[r] /\ stored'[c].coin = c
             /\ c \in DOMAIN stored => At(stored'[c]) >= At(stored[c])
    BY <2>2 DEF KnownRows
  <2> QED BY <2>1, <2>2, WithFact
<1>3. KnownRows' \in SUBSET KnownRows
  BY <1>1, <1>2 DEF KnownRows
<1>4. DOMAIN stored \in SUBSET DOMAIN stored'
  BY WithKeeps
<1> QED BY <1>2, <1>3, <1>4 DEF RowsFrame

(* A run brings a row only with an answer.                                 *)
LEMMA RunRows ==
  ASSUME RowsInv, RunsInv, NEW r \in Runners, Run(r)
  PROVE  Fetch(r) \/ RowsFrame
<1>1. CASE Begin(r) \/ FetchFails(r)
  BY <1>1, NothingStored DEF Begin, FetchFails
<1>2. CASE ShortlistFails(r) \/ Killed(r)
  BY <1>2, NothingStored DEF ShortlistFails, Killed, Finish, Fault
<1>3. CASE Insert(r)
  BY <1>3, BatchStored DEF Insert, Finish
<1>4. CASE InsertFails(r)
  <2>1. /\ UNCHANGED <<now, markets, live>>
        /\ rows' = [rows EXCEPT ![r] = {}]
        /\ UNCHANGED stored \/ stored' = With(rows[r])
    BY <1>4 DEF InsertFails, Finish, Fault
  <2> QED BY <2>1, NothingStored, BatchStored
<1> QED BY <1>1, <1>2, <1>3, <1>4 DEF Run

(* The row that a run fetches is of the present state of upstream.         *)
Fetched(row, c) ==
    /\ row.coin = c /\ c \in markets
    /\ row.version = live[c].version
    /\ At(row) = IF live[c].time > 0 THEN live[c].time ELSE now
    /\ SnapAgrees(row.snap)

(* An answer brings a row of the present state.                            *)
LEMMA FetchFact ==
  ASSUME UpstreamInv, RunsInv, NEW r \in Runners, Fetch(r)
  PROVE  \E row : /\ Fetched(row, Head(todo[r]))
                  /\ rows' = [rows EXCEPT ![r] = @ \cup {row}]
<1> DEFINE c == Head(todo[r])
           v == live[c].version
           at == live[c].time
           snap == Summary[v][at][now]
           row == [coin |-> c, version |-> v, snap |-> snap]
<1>1. c \in markets /\ c \in Coins
  <2>1. todo[r] # <<>> /\ todo[r] \in Seq(Coins)
    BY DEF Fetch, Asking, RunsInv
  <2>2. 1 \in DOMAIN todo[r] /\ c = todo[r][1]
    BY <2>1
  <2>3. todo[r][1] \in markets
    BY <2>2 DEF RunsInv, InHand
  <2> QED BY <2>2, <2>3 DEF UpstreamInv
<1>2. v \in Versions /\ at \in 0..MaxTime /\ now \in Moments
  BY <1>1, VersionsFact DEF UpstreamInv
<1>3. rows' = [rows EXCEPT ![r] = @ \cup {row}]
  BY DEF Fetch
<1> HIDE DEF c, v, at
<1>4. SnapAgrees(snap) /\ snap.l2book.time = IF at > 0 THEN at ELSE now
  BY <1>2, SummaryFact
<1> HIDE DEF snap
<1>5. row.coin = c /\ row.version = v /\ row.snap = snap
  OBVIOUS
<1> HIDE DEF row
<1>6. Fetched(row, c)
  BY <1>1, <1>4, <1>5 DEF Fetched, At, v, at
<1> QED BY <1>3, <1>6 DEF c

-----------------------------------------------------------------------------
(* The rows keep the order of upstream *)

(* It holds initially.                                                     *)
LEMMA RowsInit == Init => RowsInv
<1> SUFFICES ASSUME Init PROVE RowsInv
  OBVIOUS
<1>1. DOMAIN stored = {} /\ \A r \in Runners : rows[r] = {}
  BY DEF Init
<1>2. KnownRows = {}
  BY <1>1 DEF KnownRows
<1> QED BY <1>1, <1>2 DEF RowsInv

(* What is known stays known while upstream moves on.                      *)
LEMMA KnownStays ==
  ASSUME UpstreamInv, NEW row, Known(row), markets \in SUBSET markets',
         \/ UNCHANGED <<now, live>>
         \/ \E c \in Coins : Change(c)
  PROVE  Known(row)'
<1>1. CASE UNCHANGED <<now, live>>
  BY <1>1 DEF Known
<1>2. ASSUME NEW c \in Coins, Change(c) PROVE Known(row)'
  <2>1. /\ live' = [live EXCEPT ![c] = [version |-> @.version + 1, time |-> now + 1]]
        /\ now' = now + 1
    BY <1>2 DEF Change
  <2>2. row.coin \in Coins
    BY DEF Known, UpstreamInv
  <2>3. now \in Int /\ live[row.coin].version \in Int /\ live[row.coin].time \in Int
    BY <2>2 DEF UpstreamInv, Moments
  <2>4. /\ row.version \in 1..live[row.coin].version
        /\ At(row) \in 1..now
        /\ row.version < live[row.coin].version => At(row) < live[row.coin].time
        /\ row.coin \in markets /\ SnapAgrees(row.snap)
    BY DEF Known
  <2>5. CASE row.coin = c
    <3>1. /\ live'[row.coin].version = live[row.coin].version + 1
          /\ live'[row.coin].time = now + 1
      BY <2>1, <2>2, <2>5 DEF UpstreamInv
    <3>2. /\ row.version \in 1..live'[row.coin].version
          /\ At(row) \in 1..now'
          /\ At(row) < live'[row.coin].time
      BY <2>1, <2>3, <2>4, <3>1
    <3> QED BY <2>4, <3>2 DEF Known
  <2>6. CASE row.coin # c
    <3>1. live'[row.coin] = live[row.coin]
      BY <2>1, <2>2, <2>6 DEF UpstreamInv
    <3>2. At(row) \in 1..now'
      BY <2>1, <2>3, <2>4
    <3> QED BY <2>4, <3>1, <3>2 DEF Known
  <2> QED BY <2>5, <2>6
<1> QED BY <1>1, <1>2

(* A row of the present state of upstream comes after all that is known.   *)
LEMMA FetchedIsKnown ==
  ASSUME UpstreamInv, NEW c, NEW row, Fetched(row, c)
  PROVE  /\ Known(row)
         /\ InOrder(row, row)
<1>1. c \in Coins
  BY DEF Fetched, UpstreamInv
<1>2. /\ now \in Int /\ live[c].version \in Int /\ live[c].time \in Int
      /\ 1 <= live[c].version /\ 0 <= live[c].time /\ live[c].time <= now /\ 1 <= now
  BY <1>1 DEF UpstreamInv, Moments
<1>3. /\ row.coin = c /\ c \in markets /\ row.version = live[c].version
      /\ At(row) = IF live[c].time > 0 THEN live[c].time ELSE now
      /\ SnapAgrees(row.snap)
  BY DEF Fetched
<1>4. row.version \in 1..live[row.coin].version /\ ~(row.version < live[row.coin].version)
  BY <1>2, <1>3
<1>5. At(row) \in 1..now
  BY <1>2, <1>3
<1>6. InOrder(row, row)
  BY <1>2, <1>3 DEF InOrder
<1> QED BY <1>3, <1>4, <1>5, <1>6 DEF Known

(* Such a row is in order with all that are known.                         *)
LEMMA FetchedIsLatest ==
  ASSUME UpstreamInv, NEW c, NEW row, Fetched(row, c), NEW other, Known(other)
  PROVE  InOrder(other, row) /\ InOrder(row, other)
<1>1. c \in Coins
  BY DEF Fetched, UpstreamInv
<1>2. /\ now \in Int /\ live[c].version \in Int /\ live[c].time \in Int
      /\ 0 <= live[c].time
  BY <1>1 DEF UpstreamInv, Moments
<1>3. /\ row.coin = c /\ row.version = live[c].version
      /\ At(row) = IF live[c].time > 0 THEN live[c].time ELSE now
  BY DEF Fetched
<1>4. ASSUME other.coin = c
      PROVE  /\ other.version \in 1..live[c].version
             /\ At(other) \in 1..now
             /\ other.version < live[c].version => At(other) < live[c].time
  BY <1>4 DEF Known
<1>5. InOrder(other, row)
  <2> SUFFICES ASSUME other.coin = row.coin, other.version < row.version
               PROVE  At(other) < At(row)
    BY DEF InOrder
  <2> QED BY <1>2, <1>3, <1>4
<1>6. InOrder(row, other)
  <2> SUFFICES ASSUME other.coin = row.coin PROVE ~(row.version < other.version)
    BY Zenon DEF InOrder
  <2> QED BY <1>2, <1>3, <1>4
<1> QED BY <1>5, <1>6

(* Every step keeps the rows in order: through answers, batches, failures  *)
(* and the overlap of two runs.                                            *)
LEMMA RowsStep ==
  ASSUME UpstreamInv, RowsInv, RunsInv, [Next]_vars
  PROVE  RowsInv'
<1>1. ASSUME UNCHANGED <<stored, rows>>, markets \in SUBSET markets',
             UNCHANGED <<now, live>> \/ \E c \in Coins : Change(c)
      PROVE  RowsInv'
  <2>1. KnownRows' = KnownRows
    BY <1>1 DEF KnownRows
  <2>2. \A row \in KnownRows : Known(row)'
    BY <1>1, KnownStays DEF RowsInv
  <2>3. \A row, other \in KnownRows : InOrder(row, other)
    BY DEF RowsInv
  <2>4. \A c \in DOMAIN stored' : stored'[c].coin = c
    BY <1>1 DEF RowsInv
  <2> QED BY <2>1, <2>2, <2>3, <2>4 DEF RowsInv
<1>2. CASE RowsFrame
  <2>1. KnownRows' \in SUBSET KnownRows /\ UNCHANGED <<now, markets, live>>
    BY <1>2 DEF RowsFrame
  <2>2. \A row \in KnownRows : Known(row)'
    BY <2>1, KnownStays DEF RowsInv
  <2>3. \A row, other \in KnownRows : InOrder(row, other)
    BY DEF RowsInv
  <2>4. \A c \in DOMAIN stored' : stored'[c].coin = c
    BY <1>2 DEF RowsFrame
  <2> QED BY <2>1, <2>2, <2>3, <2>4 DEF RowsInv
<1>3. ASSUME NEW r \in Runners, Fetch(r)
      PROVE  RowsInv'
  <2> DEFINE c == Head(todo[r])
  <2>1. PICK row : Fetched(row, c) /\ rows' = [rows EXCEPT ![r] = @ \cup {row}]
    BY <1>3, FetchFact
  <2>2. UNCHANGED <<now, markets, live, stored>>
    BY <1>3 DEF Fetch
  <2> HIDE DEF c
  <2>3. KnownRows' \in SUBSET (KnownRows \cup {row})
    <3>1. \A q \in Runners : rows'[q] \in SUBSET (rows[q] \cup {row})
      BY <2>1 DEF RunsInv
    <3> QED BY <2>2, <3>1 DEF KnownRows
  <2>4. Known(row) /\ InOrder(row, row)
    BY <2>1, FetchedIsKnown
  <2>5. \A other \in KnownRows : InOrder(row, other) /\ InOrder(other, row)
    BY <2>1, FetchedIsLatest DEF RowsInv
  <2>6. \A other \in KnownRows' : Known(other)'
    <3>1. \A other : Known(other) => Known(other)'
      BY <2>2, KnownStays
    <3> QED BY <2>3, <2>4, <3>1 DEF RowsInv
  <2>7. \A x, y \in KnownRows' : InOrder(x, y)
    BY <2>3, <2>4, <2>5 DEF RowsInv
  <2>8. \A d \in DOMAIN stored' : stored'[d].coin = d
    BY <2>2 DEF RowsInv
  <2> QED BY <2>6, <2>7, <2>8 DEF RowsInv
<1>4. CASE UNCHANGED vars
  BY <1>1, <1>4 DEF vars
<1>5. ASSUME NEW c \in Coins, NewMarket(c) \/ Change(c) PROVE RowsInv'
  BY <1>1, <1>5 DEF NewMarket, Change
<1>6. CASE ComputeFeatures
  BY <1>1, <1>6 DEF ComputeFeatures
<1> QED BY <1>2, <1>3, <1>4, <1>5, <1>6, RunRows DEF Next

-----------------------------------------------------------------------------
(* The runs and their records *)

(* It holds initially.                                                     *)
LEMMA RunsInit == Init => RunsInv
<1> SUFFICES ASSUME Init PROVE RunsInv
  OBVIOUS
<1>1. /\ rows = [r \in Runners |-> {}] /\ todo = [r \in Runners |-> <<>>]
      /\ record = [r \in Runners |-> NoRecord]
  BY DEF Init
<1>2. NoRecord \in Record
  BY CoinsFact DEF NoRecord, Record
<1> QED BY <1>1, <1>2 DEF RunsInv, InHand

(* There is no more than one row for each coin.                            *)
LEMMA InHandFinite ==
  ASSUME UpstreamInv, RowsInv, RunsInv, NEW r \in Runners
  PROVE  /\ IsFiniteSet(rows[r])
         /\ Cardinality(rows[r]) \in 0..Cardinality(Coins)
<1> DEFINE f == [row \in rows[r] |-> row.coin]
<1>1. \A row \in rows[r] : row.coin \in Coins
  BY DEF RowsInv, KnownRows, Known, UpstreamInv
<1>2. \A row, other \in rows[r] : row.coin = other.coin => row = other
  BY DEF RunsInv, InHand
<1>3. f \in [rows[r] -> Coins]
  BY <1>1
<1>4. \A row, other \in rows[r] : f[row] = f[other] => row = other
  BY <1>2
<1> HIDE DEF f
<1>5. f \in Injection(rows[r], Coins)
  BY <1>3, <1>4 DEF Injection, IsInjective
<1>6. IsFiniteSet(rows[r]) /\ Cardinality(rows[r]) <= Cardinality(Coins)
  BY <1>5, CoinsFact, FS_Injection
<1>7. Cardinality(rows[r]) \in Nat
  BY <1>6, FS_CardinalityType
<1> QED BY <1>6, <1>7, CoinsFact

(* A run that is over has nothing in hand.                                 *)
LEMMA OverFact ==
  ASSUME RunsInv, NEW r \in Runners, NEW status \in {"succeeded", "failed"},
         NEW reported \in 0..Cardinality(Coins), NEW kept \in 0..Cardinality(Coins),
         markets' = markets, Finish(r, status, reported, kept)
  PROVE  RunsInv'
<1> DEFINE new == [status |-> status, reported |-> reported, kept |-> kept]
<1>1. new \in Record
  BY DEF Record
<1>2. /\ record' = [record EXCEPT ![r] = new]
      /\ todo' = [todo EXCEPT ![r] = <<>>]
      /\ rows' = [rows EXCEPT ![r] = {}]
  BY DEF Finish
<1> HIDE DEF new
<1>3. record' \in [Runners -> Record] /\ todo' \in [Runners -> Seq(Coins)]
  BY <1>1, <1>2 DEF RunsInv
<1>4. DOMAIN rows' = Runners /\ rows' = [q \in Runners |-> rows'[q]]
  BY <1>2 DEF RunsInv
<1>5. ASSUME NEW q \in Runners PROVE InHand(q)'
  <2>1. CASE q = r
    BY <1>2, <2>1 DEF RunsInv, InHand
  <2>2. CASE q # r
    <3>1. record'[q] = record[q] /\ todo'[q] = todo[q] /\ rows'[q] = rows[q]
      BY <1>2, <2>2 DEF RunsInv
    <3> QED BY <3>1 DEF RunsInv, InHand, Busy
  <2> QED BY <2>1, <2>2
<1> QED BY <1>3, <1>4, <1>5 DEF RunsInv

(* Steps that do not touch the runs.                                       *)
LEMMA RunsFrame ==
  ASSUME RunsInv, UNCHANGED <<todo, rows, record>>, markets \in SUBSET markets'
  PROVE  RunsInv'
<1>1. ASSUME NEW q \in Runners PROVE InHand(q)'
  BY DEF RunsInv, InHand, Busy
<1> QED BY <1>1 DEF RunsInv

(* A run begins with the shortlist and nothing in hand.                    *)
LEMMA BeginStep ==
  ASSUME UpstreamInv, ScoresInv, RunsInv, NEW r \in Runners, Begin(r)
  PROVE  RunsInv'
<1> DEFINE new == [status |-> "running", reported |-> 0, kept |-> 0]
<1>1. new \in Record
  BY CoinsFact DEF Record
<1>2. /\ record' = [record EXCEPT ![r] = new]
      /\ todo' = [todo EXCEPT ![r] = ShortlistCoins]
      /\ rows' = rows /\ markets' = markets /\ rows[r] = {}
  BY DEF Begin, RunsInv, InHand
<1> HIDE DEF new
<1>3. /\ ShortlistCoins \in Seq(markets)
      /\ \A i, k \in DOMAIN ShortlistCoins :
            i # k => ShortlistCoins[i] # ShortlistCoins[k]
  BY ShortlistFact DEF UpstreamInv, ScoresInv
<1>4. \A i \in DOMAIN ShortlistCoins : ShortlistCoins[i] \in markets
  BY <1>3
<1>5. ShortlistCoins \in Seq(Coins)
  <2>1. markets \in SUBSET Coins
    BY DEF UpstreamInv
  <2> QED BY <1>3, <2>1
<1> HIDE DEF ShortlistCoins
<1>6. record' \in [Runners -> Record] /\ todo' \in [Runners -> Seq(Coins)]
  BY <1>1, <1>2, <1>5 DEF RunsInv
<1>7. DOMAIN rows' = Runners /\ rows' = [q \in Runners |-> rows'[q]]
  BY <1>2 DEF RunsInv
<1>8. ASSUME NEW q \in Runners PROVE InHand(q)'
  <2>1. CASE q = r
    <3>1. todo'[q] = ShortlistCoins /\ rows'[q] = {}
      BY <1>2, <2>1 DEF RunsInv
    <3> QED BY <1>2, <1>3, <1>4, <3>1 DEF InHand
  <2>2. CASE q # r
    <3>1. record'[q] = record[q] /\ todo'[q] = todo[q] /\ rows'[q] = rows[q]
      BY <1>2, <2>2 DEF RunsInv
    <3> QED BY <1>2, <3>1 DEF RunsInv, InHand, Busy
  <2> QED BY <2>1, <2>2
<1> QED BY <1>6, <1>7, <1>8 DEF RunsInv

(* A coin that was asked for has a row or is skipped.                      *)
LEMMA FetchStep ==
  ASSUME UpstreamInv, RunsInv, NEW r \in Runners, Fetch(r) \/ FetchFails(r)
  PROVE  RunsInv'
<1> DEFINE c == Head(todo[r])
           rest == Tail(todo[r])
<1>1. /\ Busy(r) /\ todo[r] # <<>>
      /\ todo' = [todo EXCEPT ![r] = rest]
      /\ UNCHANGED <<markets, record>>
  BY DEF Fetch, FetchFails, Asking
<1>2. \/ rows' = rows
      \/ \E row : row.coin = c /\ rows' = [rows EXCEPT ![r] = @ \cup {row}]
  <2>1. CASE FetchFails(r)
    BY <2>1 DEF FetchFails
  <2>2. CASE Fetch(r)
    BY <2>2, FetchFact DEF Fetched
  <2> QED BY <2>1, <2>2
<1>3. todo[r] \in Seq(Coins)
  BY DEF RunsInv
<1>4. /\ rest \in Seq(Coins) /\ Len(rest) = Len(todo[r]) - 1
      /\ DOMAIN rest = 1..Len(rest) /\ DOMAIN todo[r] = 1..Len(todo[r])
      /\ Len(todo[r]) \in Nat \ {0}
      /\ \A i \in DOMAIN rest :
            i + 1 \in DOMAIN todo[r] /\ i + 1 # 1 /\ rest[i] = todo[r][i + 1]
      /\ 1 \in DOMAIN todo[r] /\ c = todo[r][1]
  BY <1>1, <1>3
<1>5. InHand(r)
  BY DEF RunsInv
<1> HIDE DEF c, rest
<1>6. \A i \in DOMAIN rest : rest[i] # c
  BY <1>4, <1>5 DEF InHand
<1>7. \A i, k \in DOMAIN rest : i # k => rest[i] # rest[k]
  <2> SUFFICES ASSUME NEW i \in DOMAIN rest, NEW k \in DOMAIN rest, i # k
               PROVE  rest[i] # rest[k]
    OBVIOUS
  <2>1. i + 1 # k + 1
    BY <1>4
  <2> QED BY <1>4, <1>5, <2>1 DEF InHand
<1>8. \A i \in DOMAIN rest :
         rest[i] \in markets /\ \A row \in rows[r] : row.coin # rest[i]
  BY <1>4, <1>5 DEF InHand
<1>9. \A row \in rows[r] : row.coin # c
  BY <1>4, <1>5 DEF InHand
<1>10. rows'[r] = rows[r] \/ \E row : row.coin = c /\ rows'[r] = rows[r] \cup {row}
  BY <1>2 DEF RunsInv
<1>11. \A row, other \in rows[r] : row.coin = other.coin => row = other
  BY <1>5 DEF InHand
<1>12. todo'[r] = rest /\ record'[r] = record[r] /\ Busy(r)'
  BY <1>1 DEF RunsInv, Busy
<1>13. InHand(r)'
  <2>1. \A i \in DOMAIN rest :
           rest[i] \in markets /\ \A row \in rows'[r] : row.coin # rest[i]
    BY <1>6, <1>8, <1>10
  <2>2. \A row, other \in rows'[r] : row.coin = other.coin => row = other
    BY <1>9, <1>10, <1>11
  <2> QED BY <1>1, <1>7, <1>12, <2>1, <2>2 DEF InHand
<1>14. ASSUME NEW q \in Runners, q # r PROVE InHand(q)'
  <2>1. record'[q] = record[q] /\ todo'[q] = todo[q] /\ rows'[q] = rows[q]
    BY <1>1, <1>2, <1>14 DEF RunsInv
  <2> QED BY <1>1, <2>1 DEF RunsInv, InHand, Busy
<1>15. record' \in [Runners -> Record] /\ todo' \in [Runners -> Seq(Coins)]
  BY <1>1, <1>4 DEF RunsInv
<1>16. DOMAIN rows' = Runners /\ rows' = [q \in Runners |-> rows'[q]]
  BY <1>2 DEF RunsInv
<1> QED BY <1>13, <1>14, <1>15, <1>16 DEF RunsInv

(* How a run ends: what its record says was in hand.                       *)
LEMMA EndFact ==
  ASSUME UpstreamInv, RowsInv, RunsInv, NEW r \in Runners,
         ShortlistFails(r) \/ Insert(r) \/ InsertFails(r) \/ Killed(r)
  PROVE  /\ markets' = markets
         /\ \E status \in {"succeeded", "failed"},
               reported \in 0..Cardinality(Coins), kept \in 0..Cardinality(Coins) :
                  /\ Finish(r, status, reported, kept)
                  /\ status = "succeeded" => reported = kept
                  /\ status = "failed" /\ kept > 0 => reported < kept
<1> DEFINE n == Cardinality(rows[r])
           most == Cardinality(Coins)
<1>1. n \in 0..most /\ most \in Nat
  BY InHandFinite, CoinsFact
<1>2. markets' = markets
  BY DEF ShortlistFails, Insert, InsertFails, Killed, Fault
<1> HIDE DEF most
<1>3. CASE ShortlistFails(r) \/ Killed(r)
  <2>1. Finish(r, "failed", 0, 0) /\ 0 \in 0..most
    BY <1>1, <1>3 DEF ShortlistFails, Killed
  <2> QED BY <1>2, <2>1 DEF most
<1>4. CASE Insert(r)
  <2>1. Finish(r, "succeeded", n, n)
    BY <1>4 DEF Insert
  <2> HIDE DEF n
  <2> QED BY <1>1, <1>2, <2>1 DEF most
<1>5. CASE InsertFails(r)
  <2>1. PICK k \in 0..n - 1 : Finish(r, "failed", k, 0) \/ Finish(r, "failed", k, n)
    BY <1>5 DEF InsertFails
  <2> HIDE DEF n
  <2>2. k \in 0..most /\ 0 \in 0..most /\ k < n
    BY <1>1
  <2> QED BY <1>1, <1>2, <2>1, <2>2 DEF most
<1> QED BY <1>3, <1>4, <1>5

(* Every step keeps what the runs have in hand.                            *)
LEMMA RunsStep ==
  ASSUME UpstreamInv, ScoresInv, RowsInv, RunsInv, [Next]_vars
  PROVE  RunsInv'
<1>1. ASSUME NEW r \in Runners,
             ShortlistFails(r) \/ Insert(r) \/ InsertFails(r) \/ Killed(r)
      PROVE  RunsInv'
  BY <1>1, EndFact, OverFact
<1>2. ASSUME NEW r \in Runners, Run(r) PROVE RunsInv'
  BY <1>1, <1>2, BeginStep, FetchStep DEF Run
<1>3. ASSUME NEW c \in Coins, NewMarket(c) \/ Change(c) PROVE RunsInv'
  BY <1>3, RunsFrame DEF NewMarket, Change
<1>4. CASE ComputeFeatures
  BY <1>4, RunsFrame DEF ComputeFeatures
<1>5. CASE UNCHANGED vars
  BY <1>5, RunsFrame DEF vars
<1> QED BY <1>2, <1>3, <1>4, <1>5 DEF Next

(* What a record says of the run, kept by every step.                      *)
LEMMA RecordsStep ==
  ASSUME UpstreamInv, RowsInv, RunsInv, RecordsCountRows, [Next]_vars
  PROVE  RecordsCountRows'
<1>1. CASE record' = record
  BY <1>1 DEF RecordsCountRows
<1>2. ASSUME NEW r \in Runners, Begin(r) PROVE RecordsCountRows'
  <2>1. record' = [record EXCEPT ![r] = [status |-> "running", reported |-> 0, kept |-> 0]]
    BY <1>2 DEF Begin
  <2> QED BY <2>1 DEF RecordsCountRows, RunsInv
<1>3. ASSUME NEW r \in Runners,
             ShortlistFails(r) \/ Insert(r) \/ InsertFails(r) \/ Killed(r)
      PROVE  RecordsCountRows'
  <2>1. PICK status \in {"succeeded", "failed"}, reported \in 0..Cardinality(Coins),
             kept \in 0..Cardinality(Coins) :
                /\ Finish(r, status, reported, kept)
                /\ status = "succeeded" => reported = kept
                /\ status = "failed" /\ kept > 0 => reported < kept
    BY <1>3, EndFact
  <2>2. record' = [record EXCEPT ![r] =
                     [status |-> status, reported |-> reported, kept |-> kept]]
    BY <2>1 DEF Finish
  <2> QED BY <2>1, <2>2 DEF RecordsCountRows, RunsInv
<1>4. ASSUME NEW r \in Runners, Run(r) PROVE RecordsCountRows'
  BY <1>1, <1>2, <1>3, <1>4 DEF Run, Fetch, FetchFails
<1>5. CASE ComputeFeatures \/ UNCHANGED vars \/ \E c \in Coins : NewMarket(c) \/ Change(c)
  BY <1>1, <1>5 DEF ComputeFeatures, NewMarket, Change, vars
<1> QED BY <1>4, <1>5 DEF Next

-----------------------------------------------------------------------------
(* Theorems *)

(* The inductive invariant.                                                *)
Inv == UpstreamInv /\ ScoresInv /\ RowsInv /\ RunsInv /\ RecordsCountRows

(* Every state of the job is a state of the invariant.                     *)
THEOREM EnrichmentInvariant == SafeSpec => []Inv
<1>1. Init => Inv
  <2> SUFFICES ASSUME Init PROVE Inv
    OBVIOUS
  <2>1. RecordsCountRows
    BY DEF Init, NoRecord, RecordsCountRows
  <2> QED BY <2>1, UpstreamInit, ScoresInit, RowsInit, RunsInit DEF Inv
<1>2. Inv /\ [Next]_vars => Inv'
  BY UpstreamStep, ScoresStep, RowsStep, RunsStep, RecordsStep DEF Inv
<1> QED BY <1>1, <1>2, PTL DEF SafeSpec

(* A known row is a row.                                                   *)
LEMMA KeyOfKnown ==
  ASSUME UpstreamInv, NEW row, Known(row)
  PROVE  Key(row) \in Row /\ row.coin \in markets
<1>1. row.coin \in Coins /\ row.coin \in markets
  BY DEF Known, UpstreamInv
<1>2. row.version \in Versions
  BY <1>1, VersionsFact, BoundsFact DEF Known, UpstreamInv, Moments
<1>3. At(row) \in 1..MaxTime
  BY BoundsFact DEF Known, UpstreamInv, Moments
<1> QED BY <1>1, <1>2, <1>3 DEF Key, Row

(* The variables have their types: the scores their range, the rows an     *)
(* active coin, a version and a time (TypeOK).                             *)
THEOREM EnrichmentTypeCorrect == SafeSpec => []TypeOK
<1>1. Inv => TypeOK
  <2> SUFFICES ASSUME Inv PROVE TypeOK
    OBVIOUS
  <2> USE DEF Inv
  <2>1. /\ now \in 1..MaxTime /\ markets \subseteq Coins /\ faults \in 0..MaxFaults
        /\ live \in [Coins -> [version : Versions, time : 0..MaxTime]]
    BY VersionsFact DEF UpstreamInv, Moments
  <2>2. /\ seen \in [Coins -> {0} \cup DOMAIN Series]
        /\ DOMAIN features \subseteq markets
    BY DEF ScoresInv
  <2>3. \A c \in DOMAIN features : features[c].research \in ResearchScores
    <3>1. \A f : InScale(f) => f.research \in ResearchScores
      BY DEF InScale
    <3>2. \A c \in DOMAIN features : InScale(features[c])
      BY DEF ScoresInv
    <3> QED BY <3>1, <3>2, Zenon
  <2>4. \A c \in DOMAIN stored : Known(stored[c]) /\ stored[c].coin = c
    BY DEF RowsInv, KnownRows
  <2>5. /\ DOMAIN stored \subseteq markets
        /\ \A c \in DOMAIN stored : Key(stored[c]) \in Row /\ stored[c].coin = c
    BY <2>4, KeyOfKnown
  <2>6. ASSUME NEW r \in Runners
        PROVE  /\ \A i \in DOMAIN todo[r] : todo[r][i] \in markets
               /\ \A row \in rows[r] : Key(row) \in Row
    <3>1. \A row \in rows[r] : Known(row)
      BY DEF RowsInv, KnownRows
    <3> QED BY <3>1, KeyOfKnown DEF RunsInv, InHand
  <2>7. record \in [Runners -> Record]
    BY DEF RunsInv
  <2> QED BY <2>1, <2>2, <2>3, <2>5, <2>6, <2>7, Zenon DEF TypeOK
<1> QED BY <1>1, EnrichmentInvariant, PTL

(* A run recorded as succeeded has stored as many rows as it says; a       *)
(* failed one that stored its batch says less (store.go:168-191, 204-227). *)
THEOREM RecordsAreTrue == SafeSpec => []RecordsCountRows
<1>1. Inv => RecordsCountRows
  BY DEF Inv
<1> QED BY <1>1, EnrichmentInvariant, PTL

(* The stored summaries agree with each other, for every book and list of  *)
(* trades upstream can give (scheduler.go:232-316).                        *)
THEOREM SummariesAreSound == SafeSpec => []SummariesAgree
<1>1. Inv => SummariesAgree
  <2> SUFFICES ASSUME Inv, NEW c \in DOMAIN stored
               PROVE  LET book == stored[c].snap.l2book
                          trades == stored[c].snap.recent_trades
                      IN /\ book.bestBid > 0 /\ book.spreadBps \in 0..19
                               => book.bidDepth10 > 0 /\ book.askDepth10 > 0
                         /\ book.bidDepth10 <= book.bidDepth50
                         /\ book.bidDepth50 <= book.bidDepth100
                         /\ book.askDepth10 <= book.askDepth50
                         /\ book.askDepth50 <= book.askDepth100
                         /\ book.imbalance50 \in -100..100
                         /\ trades.aggressiveRatio \in 0..100
                         /\ trades.largeTradeCount <= trades.tradeCount
                         /\ trades.tradeCount > 0 => book.time = trades.time
    BY Zenon DEF SummariesAgree
  <2> DEFINE snap == stored[c].snap
  <2>1. SnapAgrees(snap)
    BY DEF Inv, RowsInv, KnownRows, Known
  <2> HIDE DEF snap
  <2>2. /\ BookAgrees(snap.l2book)
        /\ TradesAgree(snap.recent_trades)
        /\ (snap.recent_trades.tradeCount > 0
              => snap.l2book.time = snap.recent_trades.time)
    BY <2>1, Zenon DEF SnapAgrees
  <2> QED BY <2>2, Zenon DEF BookAgrees, TradesAgree, snap
<1> QED BY <1>1, EnrichmentInvariant, PTL

(* The features of the last scoring, and what they were made of.           *)
LEMMA LastScoringFact ==
  ASSUME ScoresInv
  PROVE  /\ DOMAIN LastScoring = Compared
         /\ Comparable(LastScoring)
         /\ \A c \in Compared : /\ LastScoring[c] = Calculated[seen[c]]
                                /\ LastScoring[c].execution = Clamp(84)
<1>1. DOMAIN LastScoring = Compared /\ Compared \in SUBSET Coins
  BY ComparedFact DEF LastScoring
<1>2. \A c \in Compared : seen[c] \in DOMAIN Series /\ LastScoring[c] = Calculated[seen[c]]
  BY ComparedFact DEF LastScoring, ScoresInv
<1> QED BY <1>1, <1>2, ScoringFact

(* The research score grows with each of its parts.                        *)
LEMMA MoreWeighs ==
  ASSUME NEW l \in Points, NEW v \in Points, NEW m \in Points, NEW e \in Points,
         NEW l2 \in Points, NEW v2 \in Points, NEW m2 \in Points,
         l >= l2, v >= v2, m >= m2
  PROVE  Weighted(l, v, m, e) >= Weighted(l2, v2, m2, e)
BY DEF Weighted, Points

(* The greater raw score is the greater one among all.                     *)
LEMMA NormalizedMore ==
  ASSUME NEW fs, Comparable(fs), NEW c \in DOMAIN fs, NEW d \in DOMAIN fs
  PROVE  /\ fs[c].liquidity >= fs[d].liquidity => Liquidity(fs, c) >= Liquidity(fs, d)
         /\ fs[c].volumeAnomaly >= fs[d].volumeAnomaly => Volume(fs, c) >= Volume(fs, d)
<1>1. ASSUME NEW field \in {"liquidity", "volumeAnomaly"}, fs[c][field] >= fs[d][field]
      PROVE  Normalize(fs[c][field], Values(fs, field))
                >= Normalize(fs[d][field], Values(fs, field))
  <2> DEFINE values == Values(fs, field)
             v == fs[c][field]
             w == fs[d][field]
  <2>1. values \in SUBSET Int /\ IsFiniteSet(values) /\ v \in values /\ w \in values
    BY ValuesFact
  <2>2. w <= v
    <3> HIDE DEF v, w, values
    <3>1. v >= w
      BY <1>1 DEF v, w
    <3> QED BY <2>1, <3>1
  <2> HIDE DEF v, w, values
  <2>3. Normalize(w, values) <= Normalize(v, values)
    BY <2>1, <2>2, NormalizeFact
  <2>4. Normalize(w, values) \in 0..100 /\ Normalize(v, values) \in 0..100
    BY <2>1, NormalizeFact
  <2>5. Normalize(v, values) >= Normalize(w, values)
    BY <2>3, <2>4
  <2> QED BY <2>5 DEF v, w, values
<1> QED BY <1>1 DEF Liquidity, Volume

(* Of two coins of one scoring, the one that is as good or better in each  *)
(* raw score has no lower research score (calc.go:98-109).                 *)
THEOREM DominanceIsKept == SafeSpec => []DominanceKept
<1>1. Inv => DominanceKept
  <2> SUFFICES ASSUME Inv, NEW c \in Compared, NEW d \in Compared,
                      \A field \in {"liquidity", "volumeAnomaly", "momentum"} :
                         Raw(c, field) >= Raw(d, field)
               PROVE  features[c].research >= features[d].research
    BY DEF DominanceKept
  <2> DEFINE fs == LastScoring
  <2>1. /\ DOMAIN fs = Compared /\ Comparable(fs)
        /\ \A x \in Compared : /\ fs[x] = Calculated[seen[x]]
                               /\ fs[x].execution = Clamp(84)
    BY LastScoringFact DEF Inv
  <2>2. \A x \in Compared : features[x] = NormalizeCrossSection(fs)[x]
    BY DEF Inv, ScoresInv
  <2>3. /\ fs[c].liquidity >= fs[d].liquidity
        /\ fs[c].volumeAnomaly >= fs[d].volumeAnomaly
        /\ fs[c].momentum >= fs[d].momentum
    BY <2>1 DEF Raw
  <2> HIDE DEF fs
  <2> DEFINE l(x) == Liquidity(fs, x)
             v(x) == Volume(fs, x)
             m(x) == fs[x].momentum
             e == Clamp(84)
  <2>4. ASSUME NEW x \in Compared
        PROVE  /\ l(x) \in Points /\ v(x) \in Points /\ m(x) \in Points /\ e \in Points
               /\ features[x].research = Weighted(l(x), v(x), m(x), e)
    <3>1. l(x) \in Points /\ v(x) \in Points
      BY <2>1, CrossSectionFact
    <3>2. m(x) \in Points /\ e \in Points
      BY <2>1 DEF Comparable, RawFeature
    <3>3. NormalizeCrossSection(fs)[x].research
             = Weighted(l(x), v(x), m(x), fs[x].execution)
      BY <2>1, CrossSectionFact
    <3> QED BY <2>1, <2>2, <3>1, <3>2, <3>3
  <2>5. l(c) >= l(d) /\ v(c) >= v(d)
    BY <2>1, <2>3, NormalizedMore
  <2>6. m(c) >= m(d)
    BY <2>3
  <2> HIDE DEF l, v, m, e
  <2>7. Weighted(l(c), v(c), m(c), e) >= Weighted(l(d), v(d), m(d), e)
    BY <2>4, <2>5, <2>6, MoreWeighs
  <2> QED BY <2>4, <2>7
<1> QED BY <1>1, EnrichmentInvariant, PTL

(* The least liquid coin of a scoring is labelled as illiquid, however     *)
(* liquid it is (calc.go:107, 112).                                        *)
THEOREM LeastLiquidIsIgnored == SafeSpec => []LeastLiquidIgnored
<1>1. Inv => LeastLiquidIgnored
  <2> SUFFICES ASSUME Inv, NEW c \in Compared,
                      \A d \in Compared : Raw(c, "liquidity") <= Raw(d, "liquidity"),
                      \E d \in Compared : Raw(c, "liquidity") < Raw(d, "liquidity")
               PROVE  features[c].label = "ignore_low_liquidity"
    BY Zenon DEF LeastLiquidIgnored
  <2> DEFINE fs == LastScoring
             values == Values(fs, "liquidity")
             v == fs[c].liquidity
  <2>1. /\ DOMAIN fs = Compared /\ Comparable(fs)
        /\ \A x \in Compared : fs[x] = Calculated[seen[x]]
    BY LastScoringFact DEF Inv
  <2>2. features[c] = NormalizeCrossSection(fs)[c]
    BY DEF Inv, ScoresInv
  <2> HIDE DEF fs
  <2>3. values = {fs[d].liquidity : d \in Compared}
    BY <2>1 DEF Values
  <2>4. values \in SUBSET Int /\ IsFiniteSet(values) /\ v \in values
    BY <2>1, ValuesFact
  <2>5. (\A w \in values : v <= w) /\ (\E w \in values : v < w)
    <3>1. \A d \in Compared : Raw(d, "liquidity") = fs[d].liquidity
      BY <2>1 DEF Raw
    <3> HIDE DEF values
    <3> QED BY <2>3, <3>1
  <2>6. Normalize(v, values) = 0
    <3> HIDE DEF v, values
    <3> QED BY <2>4, <2>5, NormalizeFact
  <2>7. Liquidity(fs, c) = 0
    BY <2>6 DEF Liquidity
  <2>8. Liquidity(fs, c) < 20
    BY <2>7
  <2>9. NormalizeCrossSection(fs)[c].label = "ignore_low_liquidity"
    BY <2>1, <2>8, CrossSectionFact
  <2> QED BY <2>2, <2>9
<1> QED BY <1>1, EnrichmentInvariant, PTL

(* However runs overlap, a stored row never goes back to an older state of *)
(* upstream (scheduler.go:233-236, 292-294).                               *)
THEOREM BooksStayInOrder == SafeSpec => BooksInOrder
<1> DEFINE Kept == \A c \in DOMAIN stored : stored'[c].version >= stored[c].version
<1>1. Inv /\ Inv' /\ [Next]_vars => [Kept]_vars
  <2> SUFFICES ASSUME Inv, Inv', [Next]_vars, ~UNCHANGED vars PROVE Kept
    OBVIOUS
  <2>1. \A c \in DOMAIN stored : Known(stored[c]) /\ stored[c] \in KnownRows
    BY DEF Inv, RowsInv, KnownRows
  <2>2. \A c \in DOMAIN stored : stored[c].version \in Int
    BY <2>1 DEF Known, Inv, UpstreamInv
  <2>3. ASSUME stored' = stored PROVE Kept
    BY <2>2, <2>3
  <2>4. ASSUME RowsFrame PROVE Kept
    <3> SUFFICES ASSUME NEW c \in DOMAIN stored
                 PROVE  stored'[c].version >= stored[c].version
      OBVIOUS
    <3>1. /\ stored'[c] = stored[c] \/ At(stored'[c]) >= At(stored[c])
          /\ stored'[c] \in KnownRows /\ stored'[c].coin = stored[c].coin
      BY <2>4 DEF RowsFrame, KnownRows, Inv, RowsInv
    <3>2. CASE stored'[c] = stored[c]
      BY <2>2, <3>2
    <3>3. CASE At(stored'[c]) >= At(stored[c])
      <4>1. InOrder(stored'[c], stored[c]) /\ Known(stored'[c]) /\ Known(stored[c])
        BY <2>1, <3>1 DEF Inv, RowsInv
      <4>2. /\ stored'[c].version \in Int /\ stored[c].version \in Int
            /\ At(stored'[c]) \in Int /\ At(stored[c]) \in Int
        BY <4>1 DEF Known
      <4> QED BY <3>1, <3>3, <4>1, <4>2 DEF InOrder
    <3> QED BY <3>1, <3>2, <3>3
  <2>5. ASSUME NEW r \in Runners, Run(r) PROVE Kept
    <3>1. CASE Fetch(r)
      BY <2>3, <3>1 DEF Fetch
    <3> QED BY <2>4, <2>5, <3>1, RunRows DEF Inv
  <2>6. CASE ComputeFeatures \/ \E c \in Coins : NewMarket(c) \/ Change(c)
    BY <2>3, <2>6 DEF ComputeFeatures, NewMarket, Change
  <2> QED BY <2>5, <2>6 DEF Next
<1> QED BY <1>1, EnrichmentInvariant, PTL DEF SafeSpec, BooksInOrder

=============================================================================
