---------------------------- MODULE SetInduction ----------------------------
(***************************************************************************)
(* Induction stated about sets instead of predicates, and sums over finite *)
(* sets: what the proofs about recursive functions and folds rest on.  All *)
(* of it follows from the well-foundedness of < on the naturals.           *)
(***************************************************************************)
EXTENDS Integers, FiniteSetTheorems, WellFoundedInduction, TLAPS

\* A set of naturals that is not empty has a least element.
LEMMA LeastElement ==
  ASSUME NEW S \in SUBSET Nat, S # {}
  PROVE  \E m \in S : \A k \in S : m <= k
<1> DEFINE Less == {ss \in Nat \X Nat : ss[1] < ss[2]}
<1>1. IsWellFoundedOn(Less, Nat)
  BY NatLessThanWellFounded, Zenon DEF OpToRel
<1>2. PICK m \in S : \A k \in S : ~ (<<k, m>> \in Less)
  <2> HIDE DEF Less
  <2> QED
    BY <1>1, WFMin
<1>3. ASSUME NEW k \in S
      PROVE  m <= k
  <2>1. ~ (<<k, m>> \in Less)
    BY <1>2
  <2>2. k \in Nat /\ m \in Nat
    OBVIOUS
  <2> QED
    BY <2>1, <2>2
<1> QED
  BY <1>3

\* A set that holds 0 and with every natural the next one holds all of them.
LEMMA NatSetInduction ==
  ASSUME NEW S, 0 \in S, \A n \in Nat : n \in S => n + 1 \in S
  PROVE  Nat \subseteq S
<1> DEFINE Rest == Nat \ S
<1>1. SUFFICES ASSUME Rest # {}
               PROVE  FALSE
  OBVIOUS
<1>2. PICK m \in Rest : \A k \in Rest : m <= k
  BY <1>1, LeastElement
<1>3. m # 0 /\ m - 1 \in Nat
  OBVIOUS
<1>4. m - 1 \in S
  BY <1>2, <1>3
<1>5. (m - 1) + 1 \in S
  BY <1>3, <1>4
<1> QED
  BY <1>3, <1>5

Some(s) == CHOOSE y \in s : TRUE

\* A set of subsets of a finite set that holds the empty one, and every other
\* one if it holds that without some element, holds all subsets.
LEMMA SubsetInduction ==
  ASSUME NEW S, IsFiniteSet(S), NEW G, {} \in G,
         \A s \in SUBSET S : s # {} /\ s \ {Some(s)} \in G => s \in G
  PROVE  SUBSET S \subseteq G
<1> DEFINE Good == {k \in Nat : \A s \in SUBSET S : Cardinality(s) = k => s \in G}
<1>1. \A s \in SUBSET S : IsFiniteSet(s) /\ Cardinality(s) \in Nat
  BY FS_Subset, FS_CardinalityType
<1>2. 0 \in Good
  BY <1>1, FS_EmptySet
<1>3. ASSUME NEW k \in Nat, k \in Good
      PROVE  k + 1 \in Good
  <2>1. ASSUME NEW s \in SUBSET S, Cardinality(s) = k + 1
        PROVE  s \in G
    <3> DEFINE x == Some(s)
    <3>1. s # {}
      BY <2>1, FS_EmptySet
    <3>2. x \in s
      BY <3>1 DEF Some
    <3>3. Cardinality(s \ {x}) = k
      BY <1>1, <2>1, <3>2, FS_RemoveElement
    <3>4. s \ {x} \in SUBSET S
      OBVIOUS
    <3>5. s \ {x} \in G
      BY <1>3, <3>3, <3>4
    <3> QED
      BY <3>1, <3>5
  <2> QED
    BY <2>1
<1>4. Nat \subseteq Good
  <2> HIDE DEF Good
  <2> QED
    BY <1>2, <1>3, NatSetInduction
<1> QED
  BY <1>1, <1>4
-----------------------------------------------------------------------------
(* Sums.                                                                   *)

\* The sums of f over the subsets of S, and over S itself.
PartialSums(f, S) ==
  LET iter[s \in SUBSET S] == IF s = {} THEN 0 ELSE f[Some(s)] + iter[s \ {Some(s)}] IN
  iter
SumOf(f, S) == PartialSums(f, S)[S]

\* The recursive function of PartialSums is defined: it meets its own equation.
LEMMA SumUnfolds ==
  ASSUME NEW S, IsFiniteSet(S), NEW f
  PROVE  /\ PartialSums(f, S)[{}] = 0
         /\ \A s \in SUBSET S :
              s # {} => PartialSums(f, S)[s] = f[Some(s)] + PartialSums(f, S)[s \ {Some(s)}]
<1> DEFINE Unfold(g) == [s \in SUBSET S |->
                           IF s = {} THEN 0 ELSE f[Some(s)] + g[s \ {Some(s)}]]
           Meets(g, k) == \A s \in SUBSET S : Cardinality(s) <= k => g[s] = Unfold(g)[s]
           UpTo(g, k) == g = [s \in SUBSET S |-> g[s]] /\ Meets(g, k)
           Good == {k \in Nat : \E g : UpTo(g, k)}
<1>1. \A s \in SUBSET S : IsFiniteSet(s) /\ Cardinality(s) \in Nat
  BY FS_Subset, FS_CardinalityType
<1>2. 0 \in Good
  <2>1. UpTo([s \in SUBSET S |-> 0], 0)
    <3>1. \A s \in SUBSET S : Cardinality(s) <= 0 => s = {}
      BY <1>1, FS_EmptySet
    <3> QED
      BY <3>1
  <2> QED
    BY <2>1
<1>3. ASSUME NEW k \in Nat, k \in Good
      PROVE  k + 1 \in Good
  <2>1. PICK g : UpTo(g, k)
    BY <1>3
  <2> DEFINE h == Unfold(g)
  <2>2. h = [s \in SUBSET S |-> h[s]]
    OBVIOUS
  <2>3. ASSUME NEW s \in SUBSET S, Cardinality(s) <= k + 1
        PROVE  h[s] = Unfold(h)[s]
    <3>1. CASE s = {}
      BY <3>1
    <3>2. CASE s # {}
      <4> DEFINE r == s \ {Some(s)}
      <4>1. Some(s) \in s
        BY <3>2 DEF Some
      <4>2. r \in SUBSET S /\ Cardinality(r) <= k
        BY <1>1, <2>3, <4>1, FS_RemoveElement
      <4>3. g[r] = h[r]
        <5> HIDE DEF r
        <5> QED
          BY <2>1, <4>2
      <4> QED
        BY <3>2, <4>3
    <3> QED
      BY <3>1, <3>2
  <2>4. UpTo(h, k + 1)
    <3> HIDE DEF h, Unfold
    <3> QED
      BY <2>2, <2>3
  <2>5. \E t : UpTo(t, k + 1)
    <3> HIDE DEF UpTo, h
    <3> QED
      BY <2>4
  <2> HIDE DEF UpTo
  <2> QED
    BY <2>5
<1>4. PICK g : g = Unfold(g)
  <2>1. Cardinality(S) \in Good
    <3> HIDE DEF Good
    <3>1. Nat \subseteq Good
      BY <1>2, <1>3, NatSetInduction
    <3> QED
      BY <1>1, <3>1
  <2>2. PICK g : UpTo(g, Cardinality(S))
    BY <2>1
  <2>3. \A s \in SUBSET S : Cardinality(s) <= Cardinality(S)
    BY FS_Subset
  <2>4. g = Unfold(g)
    BY <2>2, <2>3
  <2> HIDE DEF Unfold
  <2> QED
    BY <2>4
<1>5. PartialSums(f, S) = CHOOSE t : t = Unfold(t)
  BY DEF PartialSums
<1>6. PartialSums(f, S) = Unfold(PartialSums(f, S))
  <2> HIDE DEF Unfold
  <2> QED
    BY <1>4, <1>5
<1> QED
  BY <1>6

\* Two functions that agree off d differ in their sums by what they differ at d.
LEMMA SumsAtPoint ==
  ASSUME NEW S, IsFiniteSet(S), NEW f \in [S -> Nat], NEW g \in [S -> Nat], NEW d \in S,
         \A e \in S : e # d => f[e] = g[e]
  PROVE  /\ SumOf(f, S) \in Nat /\ SumOf(g, S) \in Nat
         /\ SumOf(f, S) + g[d] = SumOf(g, S) + f[d]
<1> DEFINE A == PartialSums(f, S)
           B == PartialSums(g, S)
           At(t, s) == IF d \in s THEN t[d] ELSE 0
           Good == {s \in SUBSET S : /\ A[s] \in Nat /\ B[s] \in Nat
                                     /\ A[s] + At(g, s) = B[s] + At(f, s)}
<1>1. {} \in Good
  BY SumUnfolds
<1>2. ASSUME NEW s \in SUBSET S, s # {}, s \ {Some(s)} \in Good
      PROVE  s \in Good
  <2>0. PICK x : x = Some(s)
    OBVIOUS
  <2>1. x \in s /\ x \in S
    BY <1>2, <2>0 DEF Some
  <2>2. A[s] = f[x] + A[s \ {x}] /\ B[s] = g[x] + B[s \ {x}]
    <3>1. A[s] = f[Some(s)] + A[s \ {Some(s)}]
      BY <1>2, SumUnfolds
    <3>2. B[s] = g[Some(s)] + B[s \ {Some(s)}]
      BY <1>2, SumUnfolds
    <3> QED
      BY <2>0, <3>1, <3>2
  <2>3. s \ {x} \in Good
    BY <1>2, <2>0
  <2>4. PICK a, b : a = A[s \ {x}] /\ b = B[s \ {x}]
    OBVIOUS
  <2>5. a \in Nat /\ b \in Nat /\ a + At(g, s \ {x}) = b + At(f, s \ {x})
    BY <2>3, <2>4
  <2>6. A[s] = f[x] + a /\ B[s] = g[x] + b
    BY <2>2, <2>4
  <2>7. f[x] \in Nat /\ g[x] \in Nat /\ f[d] \in Nat /\ g[d] \in Nat
    BY <2>1
  <2>8. A[s] + At(g, s) = B[s] + At(f, s)
    <3>1. CASE x = d
      <4>1. a = b
        BY <2>5, <3>1
      <4>2. At(g, s) = g[x] /\ At(f, s) = f[x]
        BY <2>1, <3>1
      <4> HIDE DEF A, B, At
      <4> QED
        BY <2>5, <2>6, <2>7, <3>1, <4>1, <4>2
    <3>2. CASE x # d
      <4>1. f[x] = g[x]
        BY <2>1, <3>2
      <4>2. At(g, s \ {x}) = At(g, s) /\ At(f, s \ {x}) = At(f, s)
        BY <3>2
      <4>3. At(g, s) \in Nat /\ At(f, s) \in Nat
        BY <2>7
      <4> HIDE DEF A, B, At
      <4> QED
        BY <2>5, <2>6, <2>7, <4>1, <4>2, <4>3
    <3> QED
      BY <3>1, <3>2
  <2>9. A[s] \in Nat /\ B[s] \in Nat
    <3> HIDE DEF A, B
    <3> QED
      BY <2>5, <2>6, <2>7
  <2> QED
    BY <2>8, <2>9
<1>3. S \in Good
  <2> HIDE DEF Good
  <2>1. SUBSET S \subseteq Good
    BY <1>1, <1>2, SubsetInduction
  <2> QED
    BY <2>1
<1> QED
  BY <1>3 DEF SumOf

\* A function that is nowhere larger has no larger sum.
LEMMA SumsMonotone ==
  ASSUME NEW S, IsFiniteSet(S), NEW f \in [S -> Nat], NEW g \in [S -> Nat],
         \A e \in S : f[e] <= g[e]
  PROVE  SumOf(f, S) \in Nat /\ SumOf(g, S) \in Nat /\ SumOf(f, S) <= SumOf(g, S)
<1> DEFINE A == PartialSums(f, S)
           B == PartialSums(g, S)
           Good == {s \in SUBSET S : A[s] \in Nat /\ B[s] \in Nat /\ A[s] <= B[s]}
<1>1. {} \in Good
  BY SumUnfolds
<1>2. ASSUME NEW s \in SUBSET S, s # {}, s \ {Some(s)} \in Good
      PROVE  s \in Good
  <2>0. PICK x : x = Some(s)
    OBVIOUS
  <2>1. x \in S
    BY <1>2, <2>0 DEF Some
  <2>2. A[s] = f[x] + A[s \ {x}] /\ B[s] = g[x] + B[s \ {x}]
    <3>1. A[s] = f[Some(s)] + A[s \ {Some(s)}]
      BY <1>2, SumUnfolds
    <3>2. B[s] = g[Some(s)] + B[s \ {Some(s)}]
      BY <1>2, SumUnfolds
    <3> QED
      BY <2>0, <3>1, <3>2
  <2>3. A[s \ {x}] \in Nat /\ B[s \ {x}] \in Nat /\ A[s \ {x}] <= B[s \ {x}]
    BY <1>2, <2>0
  <2>4. f[x] \in Nat /\ g[x] \in Nat /\ f[x] <= g[x]
    BY <2>1
  <2>5. A[s] \in Nat /\ B[s] \in Nat /\ A[s] <= B[s]
    <3> HIDE DEF A, B
    <3> QED
      BY <2>2, <2>3, <2>4
  <2> QED
    BY <2>5
<1>3. S \in Good
  <2> HIDE DEF Good
  <2>1. SUBSET S \subseteq Good
    BY <1>1, <1>2, SubsetInduction
  <2> QED
    BY <2>1
<1> QED
  BY <1>3 DEF SumOf

\* The sum of nothing but zeros.
LEMMA SumOfZeros ==
  ASSUME NEW S, IsFiniteSet(S), NEW f, \A e \in S : f[e] = 0
  PROVE  SumOf(f, S) = 0
<1> DEFINE A == PartialSums(f, S)
           Good == {s \in SUBSET S : A[s] = 0}
<1>1. {} \in Good
  BY SumUnfolds
<1>2. ASSUME NEW s \in SUBSET S, s # {}, s \ {Some(s)} \in Good
      PROVE  s \in Good
  <2>1. Some(s) \in S
    BY <1>2 DEF Some
  <2>2. A[s] = f[Some(s)] + A[s \ {Some(s)}]
    BY <1>2, SumUnfolds
  <2> QED
    BY <1>2, <2>1, <2>2
<1>3. S \in Good
  <2> HIDE DEF Good
  <2>1. SUBSET S \subseteq Good
    BY <1>1, <1>2, SubsetInduction
  <2> QED
    BY <2>1
<1> QED
  BY <1>3 DEF SumOf
=============================================================================
