------------------------------ MODULE FiniteSums ------------------------------
(***************************************************************************)
(* Sums over finite sets, as the module Folds computes them: by a function *)
(* of the subsets that takes away one element after the other, in the      *)
(* order of CHOOSE. Which order that is makes no difference, and a sum of  *)
(* cardinalities is that of a disjoint union.                              *)
(***************************************************************************)
EXTENDS Integers, FiniteSetTheorems, TLAPS

\* Induction, for a set of numbers: the least number outside it has a predecessor.
LEMMA NumbersFrom0 ==
  ASSUME NEW N \in SUBSET Nat, 0 \in N, \A n \in N : n + 1 \in N
  PROVE  N = Nat
<1> DEFINE Rest == Nat \ N
           Less == OpToRel(<, Nat)
<1>1. SUFFICES ASSUME Rest # {} PROVE FALSE
  OBVIOUS
<1>2. IsWellFoundedOn(Less, Nat)
  BY NatLessThanWellFounded
<1>3. Rest \subseteq Nat
  OBVIOUS
<1> HIDE DEF Rest, Less
<1>4. PICK m \in Rest : \A y \in Rest : ~(<<y, m>> \in Less)
  BY <1>1, <1>2, <1>3, WFMin
<1>5. m \in Nat /\ m # 0
  BY <1>4 DEF Rest
<1>6. m - 1 \in Nat /\ <<m - 1, m>> \in Less
  BY <1>5 DEF Less, OpToRel
<1>7. m - 1 \in N
  BY <1>4, <1>6 DEF Rest
<1>8. m \in N
  BY <1>5, <1>7
<1> QED
  BY <1>4, <1>8 DEF Rest

-----------------------------------------------------------------------------
Pick(s) == CHOOSE x \in s : TRUE

SumsUp(h, g, S) ==
  h = [s \in SUBSET S |-> IF s = {} THEN 0 ELSE g[Pick(s)] + h[s \ {Pick(s)}]]

LEMMA PickIn == ASSUME NEW s, s # {} PROVE Pick(s) \in s
BY DEF Pick

\* There is such a function.
LEMMA SumsExist ==
  ASSUME NEW S, IsFiniteSet(S), NEW g
  PROVE  \E h : SumsUp(h, g, S)
<1> DEFINE Small(n) == {s \in SUBSET S : Cardinality(s) <= n}
           Is(h, n) == h = [s \in Small(n) |-> IF s = {} THEN 0 ELSE g[Pick(s)] + h[s \ {Pick(s)}]]
           N == {n \in Nat : \E h : Is(h, n)}
<1>1. \A s \in SUBSET S : IsFiniteSet(s) /\ Cardinality(s) \in Nat /\ Cardinality(s) <= Cardinality(S)
  BY FS_Subset, FS_CardinalityType
<1>2. \A s \in SUBSET S : Cardinality(s) <= 0 => s = {}
  BY <1>1, FS_EmptySet
<1>3. 0 \in N
  <2>1. Is([s \in Small(0) |-> 0], 0)
    BY <1>2
  <2> QED
    BY <2>1
<1>4. ASSUME NEW n \in N PROVE n + 1 \in N
  <2>1. PICK h : Is(h, n)
    OBVIOUS
  <2> DEFINE h2 == [s \in Small(n + 1) |-> IF s = {} THEN 0 ELSE g[Pick(s)] + h[s \ {Pick(s)}]]
  <2>2. ASSUME NEW s \in Small(n + 1), s # {} PROVE s \ {Pick(s)} \in Small(n)
    <3>1. Pick(s) \in s
      BY <2>2, PickIn
    <3>2. Cardinality(s \ {Pick(s)}) = Cardinality(s) - 1
      BY <1>1, <3>1, FS_RemoveElement
    <3> QED
      BY <1>1, <3>2
  <2>3. ASSUME NEW s \in Small(n) PROVE h2[s] = h[s]
    <3>1. s \in Small(n + 1)
      BY <1>1
    <3> QED
      BY <2>1, <3>1
  <2>4. Is(h2, n + 1)
    BY <2>2, <2>3
  <2>5. n + 1 \in Nat
    OBVIOUS
  <2> HIDE DEF h2, Is
  <2> QED
    BY <2>4, <2>5
<1>5. N = Nat
  <2> HIDE DEF N
  <2> QED
    BY <1>3, <1>4, NumbersFrom0 DEF N
<1>6. Cardinality(S) \in N
  BY <1>1, <1>5
<1>7. PICK h : Is(h, Cardinality(S))
  BY <1>6
<1>8. Small(Cardinality(S)) = SUBSET S
  BY <1>1
<1> QED
  BY <1>7, <1>8 DEF SumsUp

IntValued(g, S) == \A x \in S : g[x] \in Int

RestSums(h, g, S) ==
  \A s \in SUBSET S : h[s] \in Int /\ \A x \in s : h[s] = g[x] + h[s \ {x}]

\* Taking away the chosen elements first is taking away any element first.
LEMMA SumOfRest ==
  ASSUME NEW S, IsFiniteSet(S), NEW g, NEW h, SumsUp(h, g, S), IntValued(g, S)
  PROVE  RestSums(h, g, S)
<1> DEFINE Fine(s) == h[s] \in Int /\ \A x \in s : h[s] = g[x] + h[s \ {x}]
           N == {n \in Nat : \A s \in SUBSET S : Cardinality(s) <= n => Fine(s)}
<1>1. \A s \in SUBSET S : IsFiniteSet(s) /\ Cardinality(s) \in Nat
  BY FS_Subset, FS_CardinalityType
<1>2. \A s \in SUBSET S : Cardinality(s) <= 0 => s = {}
  BY <1>1, FS_EmptySet
<1>3. \A s \in SUBSET S : h[s] = IF s = {} THEN 0 ELSE g[Pick(s)] + h[s \ {Pick(s)}]
  <2>1. h = [s \in SUBSET S |-> IF s = {} THEN 0 ELSE g[Pick(s)] + h[s \ {Pick(s)}]]
    BY DEF SumsUp
  <2> QED
    BY <2>1
<1>4. ASSUME NEW s \in SUBSET S, NEW x \in s
      PROVE  s \ {x} \in SUBSET S /\ Cardinality(s \ {x}) = Cardinality(s) - 1
  BY <1>1, FS_RemoveElement
<1>5. 0 \in N
  <2>1. h[{}] = 0
    BY <1>3
  <2>2. Fine({})
    BY <2>1
  <2> HIDE DEF Fine
  <2> QED
    BY <1>2, <2>2
<1>6. ASSUME NEW n \in N PROVE n + 1 \in N
  <2>1. n \in Nat /\ n + 1 \in Nat /\ \A s \in SUBSET S : Cardinality(s) <= n => Fine(s)
    OBVIOUS
  <2> HIDE DEF N
  <2>2. ASSUME NEW s \in SUBSET S, Cardinality(s) = n + 1 PROVE Fine(s)
    <3> DEFINE p == Pick(s)
    <3>1. s # {}
      <4>1. Cardinality(s) # 0
        BY <2>1, <2>2
      <4> QED
        BY <4>1, FS_EmptySet
    <3> USE DEF IntValued
    <3>2. p \in s /\ p \in S /\ h[s] = g[p] + h[s \ {p}]
      BY <1>3, <3>1, PickIn
    <3> HIDE DEF p
    <3>3. ASSUME NEW x \in s
          PROVE  s \ {x} \in SUBSET S /\ Cardinality(s \ {x}) <= n
      BY <1>4, <2>1, <2>2
    <3>4. \A x \in s : Fine(s \ {x})
      BY <2>1, <3>3
    <3>5. h[s] \in Int
      <4>1. g[p] \in Int /\ h[s \ {p}] \in Int
        BY <3>2, <3>4
      <4> QED
        BY <3>2, <4>1
    <3>6. ASSUME NEW x \in s PROVE h[s] = g[x] + h[s \ {x}]
      <4>1. CASE x = p
        BY <3>2, <4>1
      <4>2. CASE x # p
        <5>1. h[s \ {p}] = g[x] + h[(s \ {p}) \ {x}]
          BY <3>2, <3>4, <4>2
        <5>2. h[s \ {x}] = g[p] + h[(s \ {x}) \ {p}]
          BY <3>2, <3>4, <4>2
        <5>3. (s \ {p}) \ {x} = (s \ {x}) \ {p}
          OBVIOUS
        <5>4. (s \ {p}) \ {x} \in SUBSET S /\ Cardinality((s \ {p}) \ {x}) <= n
          <6>1. Cardinality((s \ {p}) \ {x}) = Cardinality(s \ {p}) - 1
            BY <1>4, <3>2, <3>3, <4>2
          <6>2. Cardinality(s \ {p}) \in Nat /\ Cardinality(s \ {p}) <= n
            BY <1>1, <3>2, <3>3
          <6> QED
            BY <2>1, <6>1, <6>2
        <5>5. h[(s \ {p}) \ {x}] \in Int
          BY <2>1, <5>4
        <5>6. g[x] \in Int /\ g[p] \in Int
          BY <3>2
        <5>7. h[s \ {x}] = g[p] + h[(s \ {p}) \ {x}]
          BY <5>2, <5>3
        <5>8. h[s] = g[p] + (g[x] + h[(s \ {p}) \ {x}])
          BY <3>2, <5>1
        <5>9. h[s] = g[x] + (g[p] + h[(s \ {p}) \ {x}])
          BY <5>5, <5>6, <5>8
        <5> QED
          BY <5>7, <5>9
      <4> QED
        BY <4>1, <4>2
    <3> QED
      BY <3>5, <3>6
  <2>3. \A s \in SUBSET S : Cardinality(s) <= n + 1 => Cardinality(s) <= n \/ Cardinality(s) = n + 1
    BY <1>1, <2>1
  <2> HIDE DEF Fine
  <2>4. \A s \in SUBSET S : Cardinality(s) <= n + 1 => Fine(s)
    BY <2>1, <2>2, <2>3
  <2> QED
    BY <2>1, <2>4 DEF N
<1>7. N = Nat
  <2> HIDE DEF N
  <2> QED
    BY <1>5, <1>6, NumbersFrom0 DEF N
<1>8. ASSUME NEW s \in SUBSET S PROVE Fine(s)
  <2>1. Cardinality(s) \in N /\ Cardinality(s) <= Cardinality(s)
    BY <1>1, <1>7
  <2> HIDE DEF Fine
  <2> QED
    BY <2>1
<1> QED
  BY <1>8 DEF RestSums

\* A sum depends on the summands only.
LEMMA SumsAgree ==
  ASSUME NEW S, IsFiniteSet(S), NEW T, IsFiniteSet(T),
         NEW g, NEW h, SumsUp(h, g, S), NEW d, NEW i, SumsUp(i, d, T),
         NEW B, B \subseteq S \cap T, \A x \in B : g[x] = d[x]
  PROVE  \A s \in SUBSET B : h[s] = i[s]
<1> DEFINE N == {n \in Nat : \A s \in SUBSET B : Cardinality(s) = n => h[s] = i[s]}
<1>1. \A s \in SUBSET B : IsFiniteSet(s) /\ Cardinality(s) \in Nat
  BY FS_Subset, FS_CardinalityType
<1>2. \A s \in SUBSET B : /\ h[s] = IF s = {} THEN 0 ELSE g[Pick(s)] + h[s \ {Pick(s)}]
                          /\ i[s] = IF s = {} THEN 0 ELSE d[Pick(s)] + i[s \ {Pick(s)}]
  <2>1. /\ h = [s \in SUBSET S |-> IF s = {} THEN 0 ELSE g[Pick(s)] + h[s \ {Pick(s)}]]
        /\ i = [s \in SUBSET T |-> IF s = {} THEN 0 ELSE d[Pick(s)] + i[s \ {Pick(s)}]]
    BY DEF SumsUp
  <2>2. \A s \in SUBSET B : s \in SUBSET S /\ s \in SUBSET T
    OBVIOUS
  <2> QED
    BY <2>1, <2>2
<1>3. 0 \in N
  <2>1. \A s \in SUBSET B : Cardinality(s) = 0 => s = {}
    BY <1>1, FS_EmptySet
  <2> QED
    BY <1>2, <2>1
<1>4. ASSUME NEW n \in N PROVE n + 1 \in N
  <2>1. n \in Nat /\ n + 1 \in Nat /\ \A s \in SUBSET B : Cardinality(s) = n => h[s] = i[s]
    OBVIOUS
  <2> HIDE DEF N
  <2>2. ASSUME NEW s \in SUBSET B, Cardinality(s) = n + 1 PROVE h[s] = i[s]
    <3>1. s # {}
      <4>1. Cardinality(s) # 0
        BY <2>1, <2>2
      <4> QED
        BY <4>1, FS_EmptySet
    <3>2. Pick(s) \in s
      BY <3>1, PickIn
    <3>3. s \ {Pick(s)} \in SUBSET B /\ Cardinality(s \ {Pick(s)}) = Cardinality(s) - 1
      BY <1>1, <3>2, FS_RemoveElement
    <3>4. h[s \ {Pick(s)}] = i[s \ {Pick(s)}]
      BY <2>1, <2>2, <3>3
    <3>5. g[Pick(s)] = d[Pick(s)]
      BY <3>2
    <3> QED
      BY <1>2, <3>1, <3>4, <3>5
  <2>3. \A s \in SUBSET B : Cardinality(s) = n + 1 => h[s] = i[s]
    BY <2>2
  <2> QED
    BY <2>1, <2>3 DEF N
<1>5. N = Nat
  <2> HIDE DEF N
  <2> QED
    BY <1>3, <1>4, NumbersFrom0 DEF N
<1>6. ASSUME NEW s \in SUBSET B PROVE h[s] = i[s]
  <2>1. Cardinality(s) \in N
    BY <1>1, <1>5
  <2> QED
    BY <2>1
<1> QED
  BY <1>6

\* The elements of all G[x], each with its x.
Pairs(G, s) == UNION {{x} \X G[x] : x \in s}

\* A sum of sizes is the size of the disjoint union.
LEMMA SumOfSizes ==
  ASSUME NEW S, IsFiniteSet(S), NEW G, \A x \in S : IsFiniteSet(G[x]),
         NEW g, \A x \in S : g[x] = Cardinality(G[x]), NEW h, SumsUp(h, g, S)
  PROVE  \A s \in SUBSET S : IsFiniteSet(Pairs(G, s)) /\ h[s] = Cardinality(Pairs(G, s))
<1> DEFINE Fine(s) == IsFiniteSet(Pairs(G, s)) /\ h[s] = Cardinality(Pairs(G, s))
           N == {n \in Nat : \A s \in SUBSET S : Cardinality(s) = n => Fine(s)}
<1>1. \A s \in SUBSET S : IsFiniteSet(s) /\ Cardinality(s) \in Nat
  BY FS_Subset, FS_CardinalityType
<1>2. \A s \in SUBSET S : h[s] = IF s = {} THEN 0 ELSE g[Pick(s)] + h[s \ {Pick(s)}]
  <2>1. h = [s \in SUBSET S |-> IF s = {} THEN 0 ELSE g[Pick(s)] + h[s \ {Pick(s)}]]
    BY DEF SumsUp
  <2> QED
    BY <2>1
<1>3. 0 \in N
  <2>1. \A s \in SUBSET S : Cardinality(s) = 0 => s = {}
    BY <1>1, FS_EmptySet
  <2>2. Pairs(G, {}) = {}
    BY DEF Pairs
  <2>3. Fine({})
    BY <1>2, <2>2, FS_EmptySet
  <2> HIDE DEF Fine
  <2> QED
    BY <2>1, <2>3
<1>4. ASSUME NEW n \in N PROVE n + 1 \in N
  <2>1. n \in Nat /\ n + 1 \in Nat /\ \A s \in SUBSET S : Cardinality(s) = n => Fine(s)
    OBVIOUS
  <2> HIDE DEF N
  <2>2. ASSUME NEW s \in SUBSET S, Cardinality(s) = n + 1 PROVE Fine(s)
    <3> DEFINE p == Pick(s)
               rest == s \ {p}
    <3>1. s # {}
      BY <2>1, <2>2, FS_EmptySet
    <3>2. p \in s /\ p \in S /\ h[s] = g[p] + h[rest]
      BY <1>2, <3>1, PickIn
    <3> HIDE DEF p
    <3>3. rest \in SUBSET S /\ Cardinality(rest) = n
      <4>1. IsFiniteSet(s) /\ Cardinality(s) = n + 1
        BY <1>1, <2>2
      <4>2. Cardinality(rest) = Cardinality(s) - 1
        BY <3>2, <4>1, FS_RemoveElement
      <4> QED
        BY <2>1, <4>1, <4>2
    <3>4. IsFiniteSet(Pairs(G, rest)) /\ h[rest] = Cardinality(Pairs(G, rest))
      BY <2>1, <3>3
    <3>5. IsFiniteSet({p} \X G[p]) /\ Cardinality({p} \X G[p]) = g[p]
      <4>1. IsFiniteSet({p}) /\ Cardinality({p}) = 1
        BY FS_Singleton
      <4>2. IsFiniteSet(G[p]) /\ g[p] = Cardinality(G[p]) /\ Cardinality(G[p]) \in Nat
        BY <3>2, FS_CardinalityType
      <4>3. IsFiniteSet({p} \X G[p]) /\ Cardinality({p} \X G[p]) = Cardinality({p}) * Cardinality(G[p])
        BY <4>1, <4>2, FS_Product
      <4> QED
        BY <4>1, <4>2, <4>3
    <3>6. Pairs(G, s) = ({p} \X G[p]) \cup Pairs(G, rest)
      BY <3>2 DEF Pairs
    <3>7. ({p} \X G[p]) \cap Pairs(G, rest) = {}
      BY DEF Pairs
    <3>8. /\ IsFiniteSet(Pairs(G, s))
          /\ Cardinality(Pairs(G, s)) = Cardinality({p} \X G[p]) + Cardinality(Pairs(G, rest))
      <4>1. Cardinality({p} \X G[p]) \in Nat /\ Cardinality(Pairs(G, rest)) \in Nat
        BY <3>4, <3>5, FS_CardinalityType
      <4>2. /\ IsFiniteSet(({p} \X G[p]) \cup Pairs(G, rest))
            /\ Cardinality(({p} \X G[p]) \cup Pairs(G, rest)) =
                 Cardinality({p} \X G[p]) + Cardinality(Pairs(G, rest))
                   - Cardinality(({p} \X G[p]) \cap Pairs(G, rest))
        BY <3>4, <3>5, FS_Union
      <4>3. Cardinality(({p} \X G[p]) \cap Pairs(G, rest)) = 0
        BY <3>7, FS_EmptySet
      <4> HIDE DEF rest
      <4> QED
        BY <3>6, <4>1, <4>2, <4>3
    <3> QED
      BY <3>2, <3>4, <3>5, <3>8
  <2> HIDE DEF Fine
  <2> QED
    BY <2>1, <2>2 DEF N
<1>5. N = Nat
  <2> HIDE DEF N
  <2> QED
    BY <1>3, <1>4, NumbersFrom0 DEF N
<1>6. ASSUME NEW s \in SUBSET S PROVE Fine(s)
  <2>1. Cardinality(s) \in N
    BY <1>1, <1>5
  <2> HIDE DEF Fine
  <2> QED
    BY <2>1
<1> QED
  BY <1>6
=============================================================================
