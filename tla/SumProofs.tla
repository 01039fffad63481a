----------------------------- MODULE SumProofs -----------------------------
(***************************************************************************)
(* What MapThenSumSet computes, for every finite set: it is defined by     *)
(* recursion on the subsets, and everything here follows from the fact     *)
(* that a finite set has no endless descending chain of subsets.           *)
(***************************************************************************)
EXTENDS Integers, FiniteSets, FiniteSetsExt, FiniteSetTheorems, TLAPS

\* The sum of f over S.
Sum(f, S) == MapThenSumSet(LAMBDA x : f[x], S)

\* How MapThenSumSet goes through a set: g gives the sum of each subset of S.
Pick(s) == CHOOSE x \in s : TRUE
Step(f, g, s) == IF s = {} THEN 0 ELSE f[Pick(s)] + g[s \ {Pick(s)}]
Adds(f, g, S) == g = [s \in SUBSET S |-> Step(f, g, s)]
Fold(f, S) == CHOOSE g : Adds(f, g, S)

LEMMA SumIsFold ==
  ASSUME NEW f, NEW S
  PROVE  Sum(f, S) = Fold(f, S)[S]
BY DEF Sum, MapThenSumSet, MapThenFoldSet, Fold, Adds, Step, Pick

LEMMA PickIn ==
  ASSUME NEW s, s # {}
  PROVE  Pick(s) \in s
BY DEF Pick

----------------------------------------------------------------------------
(* Induction over the subsets of a finite set: what holds of a set when it *)
(* holds of its proper subsets holds of all.                               *)

LEMMA SubsetInduction ==
  ASSUME NEW S, IsFiniteSet(S), NEW B,
         \A t \in SUBSET S : (\A u \in SUBSET t : u # t => u \in B) => t \in B
  PROVE  \A t \in SUBSET S : t \in B
<1> DEFINE Bad == {t \in SUBSET S : t \notin B}
<1> DEFINE R == StrictSubsetOrdering(S)
<1>1. FiniteSubsetsOf(S) = SUBSET S
  BY FS_FiniteSubsetsOfFinite
<1>2. IsWellFoundedOn(R, SUBSET S) /\ Bad \subseteq SUBSET S
  BY <1>1, FS_StrictSubsetOrderingWellFounded
<1>3. ASSUME Bad # {} PROVE FALSE
  <2> HIDE DEF Bad, R
  <2>1. \E t \in Bad : \A u \in Bad : <<u, t>> \notin R
    BY <1>2, <1>3, WFMin
  <2> USE DEF Bad, R
  <2>2. PICK t \in Bad : \A u \in Bad : <<u, t>> \notin R
    BY <2>1
  <2>3. t \in SUBSET S /\ t \notin B
    OBVIOUS
  <2>4. ASSUME NEW u \in SUBSET t, u # t PROVE u \in B
    <3>1. u \in SUBSET S /\ <<u, t>> \in R
      BY <2>3, <2>4 DEF StrictSubsetOrdering
    <3>2. QED
      BY <2>2, <3>1
  <2>5. QED
    BY <2>3, <2>4
<1>4. QED
  BY <1>3

----------------------------------------------------------------------------
(* The recursion defines one function.                                     *)

LEMMA AddsOnce ==
  ASSUME NEW f, NEW S, IsFiniteSet(S), NEW g, NEW h, Adds(f, g, S), Adds(f, h, S)
  PROVE  g = h
<1> DEFINE B == {t \in SUBSET S : g[t] = h[t]}
<1>1. ASSUME NEW t \in SUBSET S, \A u \in SUBSET t : u # t => u \in B PROVE t \in B
  <2>1. g[t] = Step(f, g, t) /\ h[t] = Step(f, h, t)
    BY DEF Adds
  <2>2. CASE t = {}
    BY <2>1, <2>2 DEF Step
  <2>3. CASE t # {}
    <3>1. t \ {Pick(t)} \in B
      BY <1>1, <2>3, PickIn
    <3>2. QED
      BY <2>1, <2>3, <3>1 DEF Step
  <2>4. QED
    BY <2>2, <2>3
<1> HIDE DEF B
<1>2. \A t \in SUBSET S : t \in B
  BY <1>1, SubsetInduction
<1>3. QED
  BY <1>2 DEF B, Adds

LEMMA AddsWithin ==
  ASSUME NEW f, NEW S, NEW g, Adds(f, g, S), NEW t \in SUBSET S
  PROVE  Adds(f, [s \in SUBSET t |-> g[s]], t)
<1> DEFINE h == [s \in SUBSET t |-> g[s]]
<1>1. ASSUME NEW s \in SUBSET t PROVE h[s] = Step(f, h, s)
  <2>1. g[s] = Step(f, g, s)
    BY DEF Adds
  <2>2. s \ {Pick(s)} \in SUBSET t
    OBVIOUS
  <2>3. QED
    BY <2>1, <2>2 DEF Step
<1>2. QED
  BY <1>1 DEF Adds

LEMMA FoldExists ==
  ASSUME NEW f, NEW S, IsFiniteSet(S)
  PROVE  Adds(f, Fold(f, S), S)
<1> DEFINE B == {t \in SUBSET S : Adds(f, Fold(f, t), t)}
<1>1. ASSUME NEW t \in SUBSET S, \A u \in SUBSET t : u # t => u \in B PROVE t \in B
  <2> DEFINE g == [s \in SUBSET t |->
                     IF s = {} THEN 0
                     ELSE f[Pick(s)] + Fold(f, s \ {Pick(s)})[s \ {Pick(s)}]]
  <2>1. ASSUME NEW u \in SUBSET t, u # t PROVE g[u] = Fold(f, u)[u]
    <3>1. Adds(f, Fold(f, u), u)
      BY <1>1, <2>1
    <3>2. Fold(f, u)[u] = Step(f, Fold(f, u), u)
      BY <3>1 DEF Adds
    <3>3. CASE u = {}
      BY <3>2, <3>3 DEF Step
    <3>4. CASE u # {}
      <4> DEFINE v == u \ {Pick(u)}
      <4>1. v \in SUBSET u /\ v \in SUBSET t /\ v # t /\ IsFiniteSet(v)
        BY <3>4, PickIn, FS_Subset
      <4>2. Adds(f, Fold(f, v), v)
        BY <1>1, <4>1
      <4>3. Adds(f, [s \in SUBSET v |-> Fold(f, u)[s]], v)
        BY <3>1, <4>1, AddsWithin
      <4>4. Fold(f, u)[v] = Fold(f, v)[v]
        BY <4>1, <4>2, <4>3, AddsOnce
      <4>5. QED
        BY <3>2, <3>4, <4>4 DEF Step
    <3>5. QED
      BY <3>3, <3>4
  <2>2. ASSUME NEW s \in SUBSET t PROVE g[s] = Step(f, g, s)
    <3>1. CASE s = {}
      BY <3>1 DEF Step
    <3>2. CASE s # {}
      <4>1. s \ {Pick(s)} \in SUBSET t /\ s \ {Pick(s)} # t
        BY <3>2, PickIn
      <4>2. g[s \ {Pick(s)}] = Fold(f, s \ {Pick(s)})[s \ {Pick(s)}]
        BY <2>1, <4>1
      <4> HIDE DEF g
      <4>3. QED
        BY <3>2, <4>2 DEF Step, g
    <3>3. QED
      BY <3>1, <3>2
  <2>3. Adds(f, g, t)
    BY <2>2 DEF Adds
  <2> HIDE DEF g
  <2>4. QED
    BY <2>3 DEF Fold
<1> HIDE DEF B
<1>2. \A t \in SUBSET S : t \in B
  BY <1>1, SubsetInduction
<1>3. QED
  BY <1>2 DEF B

----------------------------------------------------------------------------
(* Sums.                                                                   *)

\* The sum of nothing.
LEMMA SumEmpty ==
  ASSUME NEW f
  PROVE  Sum(f, {}) = 0
<1>1. Adds(f, Fold(f, {}), {})
  BY FoldExists, FS_EmptySet
<1>2. QED
  BY <1>1, SumIsFold DEF Adds, Step

\* One element is taken out, and the rest is summed.
LEMMA SumPick ==
  ASSUME NEW f, NEW S, IsFiniteSet(S), S # {}
  PROVE  Sum(f, S) = f[Pick(S)] + Sum(f, S \ {Pick(S)})
<1> DEFINE u == S \ {Pick(S)}
<1>1. u \in SUBSET S /\ IsFiniteSet(u)
  BY FS_Subset
<1>2. Adds(f, Fold(f, S), S) /\ Adds(f, Fold(f, u), u)
  BY <1>1, FoldExists
<1>3. Adds(f, [s \in SUBSET u |-> Fold(f, S)[s]], u)
  BY <1>1, <1>2, AddsWithin
<1>4. Fold(f, S)[u] = Fold(f, u)[u]
  BY <1>1, <1>2, <1>3, AddsOnce
<1>5. Fold(f, S)[S] = f[Pick(S)] + Fold(f, S)[u]
  BY <1>2 DEF Adds, Step
<1>6. QED
  BY <1>4, <1>5, SumIsFold

\* A sum depends on the summands only.
LEMMA SumSame ==
  ASSUME NEW S, IsFiniteSet(S), NEW f, NEW g, \A x \in S : f[x] = g[x]
  PROVE  Sum(f, S) = Sum(g, S)
<1> DEFINE B == {t \in SUBSET S : Sum(f, t) = Sum(g, t)}
<1>1. ASSUME NEW t \in SUBSET S, \A u \in SUBSET t : u # t => u \in B PROVE t \in B
  <2>1. CASE t = {}
    BY <2>1, SumEmpty
  <2>2. CASE t # {}
    <3>1. IsFiniteSet(t) /\ Pick(t) \in t /\ t \ {Pick(t)} \in B
      BY <1>1, <2>2, PickIn, FS_Subset
    <3>2. Sum(f, t) = f[Pick(t)] + Sum(f, t \ {Pick(t)})
      BY <2>2, <3>1, SumPick
    <3>3. Sum(g, t) = g[Pick(t)] + Sum(g, t \ {Pick(t)})
      BY <2>2, <3>1, SumPick
    <3>4. QED
      BY <3>1, <3>2, <3>3
  <2>3. QED
    BY <2>1, <2>2
<1> HIDE DEF B
<1>2. \A t \in SUBSET S : t \in B
  BY <1>1, SubsetInduction
<1>3. QED
  BY <1>2 DEF B

\* A sum of integers is one, and of natural numbers a natural number.
LEMMA SumType ==
  ASSUME NEW S, IsFiniteSet(S), NEW T \in {Nat, Int}, NEW f, \A x \in S : f[x] \in T
  PROVE  Sum(f, S) \in T
<1> DEFINE B == {t \in SUBSET S : Sum(f, t) \in T}
<1>1. ASSUME NEW t \in SUBSET S, \A u \in SUBSET t : u # t => u \in B PROVE t \in B
  <2>1. CASE t = {}
    BY <2>1, SumEmpty
  <2>2. CASE t # {}
    <3>1. IsFiniteSet(t) /\ Pick(t) \in t /\ t \ {Pick(t)} \in B
      BY <1>1, <2>2, PickIn, FS_Subset
    <3>2. Sum(f, t) = f[Pick(t)] + Sum(f, t \ {Pick(t)})
      BY <2>2, <3>1, SumPick
    <3>3. f[Pick(t)] \in T /\ Sum(f, t \ {Pick(t)}) \in T
      BY <3>1
    <3>4. QED
      BY <3>2, <3>3
  <2>3. QED
    BY <2>1, <2>2
<1> HIDE DEF B
<1>2. \A t \in SUBSET S : t \in B
  BY <1>1, SubsetInduction
<1>3. QED
  BY <1>2 DEF B

\* The order in which the summands are taken does not matter.
LEMMA SumAdd ==
  ASSUME NEW S, IsFiniteSet(S), NEW x, x \notin S,
         NEW f, \A y \in S \cup {x} : f[y] \in Int
  PROVE  Sum(f, S \cup {x}) = f[x] + Sum(f, S)
<1> DEFINE U == S \cup {x}
           B == {t \in SUBSET U : \A z \in U \ t : Sum(f, t \cup {z}) = f[z] + Sum(f, t)}
<1>1. IsFiniteSet(U)
  BY FS_AddElement
<1>2. ASSUME NEW t \in SUBSET U, \A u \in SUBSET t : u # t => u \in B, NEW z \in U \ t
      PROVE  Sum(f, t \cup {z}) = f[z] + Sum(f, t)
  <2> DEFINE y == Pick(t \cup {z})
  <2>1. IsFiniteSet(t) /\ IsFiniteSet(t \cup {z}) /\ y \in t \cup {z}
    BY <1>1, FS_Subset, FS_AddElement, PickIn
  <2>2. Sum(f, t \cup {z}) = f[y] + Sum(f, (t \cup {z}) \ {y})
    BY <2>1, SumPick
  <2> HIDE DEF y
  <2>3. CASE y = z
    <3>1. (t \cup {z}) \ {y} = t
      BY <2>3
    <3>2. QED
      BY <2>2, <2>3, <3>1
  <2>4. CASE y # z
    <3> DEFINE v == t \ {y}
    <3>1. /\ y \in t /\ v \in B /\ y \in U \ v /\ z \in U \ v
          /\ v \cup {y} = t /\ (t \cup {z}) \ {y} = v \cup {z}
      BY <1>2, <2>1, <2>4
    <3>2. Sum(f, v \cup {z}) = f[z] + Sum(f, v) /\ Sum(f, v \cup {y}) = f[y] + Sum(f, v)
      BY <3>1
    <3>3. f[y] \in Int /\ f[z] \in Int /\ Sum(f, v) \in Int
      <4>1. IsFiniteSet(v) /\ \A w \in v : f[w] \in Int
        BY <2>1, FS_Subset
      <4>2. Sum(f, v) \in Int
        BY <4>1, SumType
      <4>3. QED
        BY <3>1, <4>2
    <3>4. Sum(f, t \cup {z}) = f[y] + (f[z] + Sum(f, v)) /\ Sum(f, t) = f[y] + Sum(f, v)
      BY <2>2, <3>1, <3>2
    <3>5. QED
      BY <3>3, <3>4
  <2>5. QED
    BY <2>3, <2>4
<1>3. ASSUME NEW t \in SUBSET U, \A u \in SUBSET t : u # t => u \in B PROVE t \in B
  <2>1. \A z \in U \ t : Sum(f, t \cup {z}) = f[z] + Sum(f, t)
    BY <1>2, <1>3
  <2>2. QED
    BY <2>1
<1> HIDE DEF B, U
<1>4. \A t \in SUBSET U : t \in B
  BY <1>1, <1>3, SubsetInduction
<1>5. QED
  BY <1>4 DEF B, U
=============================================================================
