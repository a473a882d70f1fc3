-------------------------------- MODULE Sums --------------------------------
(***************************************************************************)
(* Sums of natural numbers over a finite set, as MapThenSumSet of the      *)
(* community modules computes them: by recursion over the set, choosing an *)
(* element at a time.  Such a sum is the number of elements of a set, with *)
(* f[x] units for every x, so what is known of cardinalities holds of it:  *)
(* which element is chosen first does not matter.                          *)
(***************************************************************************)
EXTENDS Naturals, FiniteSets, FiniteSetsExt, FiniteSetTheorems, WellFoundedInduction, TLAPS

Sum(f, V) == MapThenSumSet(LAMBDA x : f[x], V)

UnitsOf(f, x) == {x} \X (1..f[x])
Units(f, V) == UNION {UnitsOf(f, x) : x \in V}

(* Of sets drawn from a finite one, some contain no other of them. *)
LEMMA Smallest ==
  ASSUME NEW S, IsFiniteSet(S), NEW T, T \subseteq SUBSET S, T # {}
  PROVE  \E V \in T : \A W \in T : W \subseteq V => W = V
<1> DEFINE O == StrictSubsetOrdering(S)
<1>1. IsWellFoundedOn(O, FiniteSubsetsOf(S))
  BY FS_StrictSubsetOrderingWellFounded
<1>2. T \subseteq FiniteSubsetsOf(S)
  BY FS_FiniteSubsetsOfFinite
<1> HIDE DEF O
<1>3. PICK V \in T : \A W \in T : ~(<<W, V>> \in O)
  BY <1>1, <1>2, WFMin
<1>4. ASSUME NEW W \in T, W \subseteq V, W # V PROVE FALSE
  <2>1. <<W, V>> \in O
    BY <1>4 DEF O, StrictSubsetOrdering
  <2> QED BY <1>3, <2>1
<1> QED BY <1>4

LEMMA UnitsOfSize ==
  ASSUME NEW f, NEW x, f[x] \in Nat
  PROVE  IsFiniteSet(UnitsOf(f, x)) /\ Cardinality(UnitsOf(f, x)) = f[x]
<1>1. IsFiniteSet(1..f[x]) /\ Cardinality(1..f[x]) = f[x]
  BY FS_Interval
<1>2. IsFiniteSet({x}) /\ Cardinality({x}) = 1
  BY FS_Singleton
<1>3. /\ IsFiniteSet({x} \X (1..f[x]))
      /\ Cardinality({x} \X (1..f[x])) = Cardinality({x}) * Cardinality(1..f[x])
  BY <1>1, <1>2, FS_Product
<1> QED BY <1>1, <1>2, <1>3 DEF UnitsOf

LEMMA UnitsApart ==
  ASSUME NEW f, NEW V, NEW x, x \notin V
  PROVE  /\ Units(f, V \cup {x}) = Units(f, V) \cup UnitsOf(f, x)
         /\ Units(f, V) \cap UnitsOf(f, x) = {}
<1>1. \A y, u : u \in UnitsOf(f, y) => u[1] = y
  BY DEF UnitsOf
<1>2. Units(f, V \cup {x}) = Units(f, V) \cup UnitsOf(f, x)
  BY DEF Units
<1>3. \A u \in Units(f, V) : \E y \in V : u \in UnitsOf(f, y)
  BY DEF Units
<1> QED BY <1>1, <1>2, <1>3

LEMMA UnitsFinite ==
  ASSUME NEW S, IsFiniteSet(S), NEW f, \A x \in S : f[x] \in Nat, NEW V \in SUBSET S
  PROVE  IsFiniteSet(Units(f, V)) /\ Cardinality(Units(f, V)) \in Nat
<1> DEFINE T == {R \in SUBSET S : ~IsFiniteSet(Units(f, R))}
<1>1. ASSUME T # {} PROVE FALSE
  <2>1. PICK R \in T : \A Q \in T : Q \subseteq R => Q = R
    <3>1. T \subseteq SUBSET S
      OBVIOUS
    <3> HIDE DEF T
    <3> QED BY <1>1, <3>1, Smallest
  <2>2. R # {}
    <3>1. Units(f, {}) = {}
      BY DEF Units
    <3> QED BY <3>1, FS_EmptySet
  <2>3. PICK x \in R : TRUE
    BY <2>2
  <2> DEFINE Q == R \ {x}
  <2>4. Q \in SUBSET S /\ x \notin Q /\ R = Q \cup {x} /\ x \in S
    OBVIOUS
  <2>5. IsFiniteSet(Units(f, Q))
    BY <2>1, <2>4
  <2>6. IsFiniteSet(UnitsOf(f, x))
    BY <2>4, UnitsOfSize
  <2>7. Units(f, R) = Units(f, Q) \cup UnitsOf(f, x)
    BY <2>4, UnitsApart
  <2>8. IsFiniteSet(Units(f, R))
    BY <2>5, <2>6, <2>7, FS_Union
  <2> QED BY <2>8
<1>2. IsFiniteSet(Units(f, V))
  BY <1>1
<1> QED BY <1>2, FS_CardinalityType

LEMMA UnitsAdd ==
  ASSUME NEW S, IsFiniteSet(S), NEW f, \A x \in S : f[x] \in Nat,
         NEW V \in SUBSET S, NEW x \in S, x \notin V
  PROVE  Cardinality(Units(f, V \cup {x})) = Cardinality(Units(f, V)) + f[x]
<1>1. IsFiniteSet(Units(f, V)) /\ Cardinality(Units(f, V)) \in Nat
  BY UnitsFinite
<1>2. IsFiniteSet(UnitsOf(f, x)) /\ Cardinality(UnitsOf(f, x)) = f[x]
  BY UnitsOfSize
<1>3. /\ Units(f, V \cup {x}) = Units(f, V) \cup UnitsOf(f, x)
      /\ Units(f, V) \cap UnitsOf(f, x) = {}
  BY UnitsApart
<1>4. Cardinality(Units(f, V) \cup UnitsOf(f, x)) =
        Cardinality(Units(f, V)) + Cardinality(UnitsOf(f, x))
          - Cardinality(Units(f, V) \cap UnitsOf(f, x))
  BY <1>1, <1>2, FS_Union
<1>5. Cardinality({}) = 0 /\ f[x] \in Nat
  BY FS_EmptySet
<1>6. Cardinality(Units(f, V) \cap UnitsOf(f, x)) = 0
  BY <1>3, <1>5
<1>7. Cardinality(Units(f, V)) + f[x] - 0 = Cardinality(Units(f, V)) + f[x]
  BY <1>1, <1>5
<1> QED BY <1>2, <1>3, <1>4, <1>6, <1>7

(* The numbers of units solve the equation that defines the sum, and nothing
   else does: of the sets on which another solution differs, one contains no
   other, and taking the chosen element away from it leaves a smaller one. *)
LEMMA SumIsUnits ==
  ASSUME NEW S, IsFiniteSet(S), NEW f, \A x \in S : f[x] \in Nat, NEW U \in SUBSET S
  PROVE  Sum(f, U) = Cardinality(Units(f, U))
<1> DEFINE C(V) == CHOOSE x \in V : TRUE
           E(h) == [V \in SUBSET U |-> IF V = {} THEN 0 ELSE f[C(V)] + h[V \ {C(V)}]]
           iter == CHOOSE h : h = E(h)
           N == [V \in SUBSET U |-> Cardinality(Units(f, V))]
<1>1. Sum(f, U) = iter[U]
  BY Zenon DEF Sum, MapThenSumSet, MapThenFoldSet
<1>2. ASSUME NEW V \in SUBSET U, V # {}
      PROVE  /\ C(V) \in V /\ C(V) \in S /\ V \ {C(V)} \in SUBSET U
             /\ N[V] = f[C(V)] + N[V \ {C(V)}]
  <2>1. C(V) \in V
    BY <1>2
  <2> DEFINE x == C(V)
             W == V \ {C(V)}
  <2>2. x \in S /\ W \in SUBSET U /\ W \in SUBSET S /\ x \notin W /\ V = W \cup {x}
    BY <2>1
  <2> HIDE DEF W, C
  <2>3. Cardinality(Units(f, V)) = Cardinality(Units(f, W)) + f[x]
    BY <2>2, UnitsAdd
  <2>4. Cardinality(Units(f, W)) \in Nat /\ f[x] \in Nat
    BY <2>2, UnitsFinite
  <2>5. N[V] = Cardinality(Units(f, V)) /\ N[W] = Cardinality(Units(f, W))
    BY <2>2
  <2>6. N[V] = f[x] + N[W]
    BY <2>3, <2>4, <2>5
  <2> QED BY <2>1, <2>2, <2>6 DEF W
<1>3. N[{}] = 0
  <2>1. Units(f, {}) = {}
    BY DEF Units
  <2> QED BY <2>1, FS_EmptySet
<1>4. N = E(N)
  <2>1. \A V \in SUBSET U : N[V] = E(N)[V]
    <3> HIDE DEF N, C
    <3> QED BY <1>2, <1>3
  <2> QED BY <2>1
<1>5. iter = E(iter)
  <2> HIDE DEF N, E
  <2> QED BY <1>4
<1> HIDE DEF iter
<1> DEFINE T == {V \in SUBSET U : iter[V] # N[V]}
<1>6. ASSUME T # {} PROVE FALSE
  <2>1. PICK V \in T : \A W \in T : W \subseteq V => W = V
    <3>1. T \subseteq SUBSET S
      OBVIOUS
    <3> HIDE DEF T
    <3> QED BY <1>6, <3>1, Smallest
  <2>2. V \in SUBSET U /\ iter[V] # N[V]
    OBVIOUS
  <2> DEFINE W == V \ {C(V)}
  <2>3. iter[V] = IF V = {} THEN 0 ELSE f[C(V)] + iter[W]
    <3> HIDE DEF N, C, T
    <3> QED BY <1>5, <2>2
  <2> HIDE DEF N, C
  <2>4. V # {}
    BY <1>3, <2>2, <2>3
  <2>5. iter[W] = N[W]
    <3>1. W \in SUBSET U /\ W \subseteq V /\ W # V
      BY <1>2, <2>2, <2>4
    <3> HIDE DEF W
    <3> QED BY <2>1, <3>1
  <2> QED BY <1>2, <2>2, <2>3, <2>4, <2>5
<1>7. iter[U] = N[U]
  <2> HIDE DEF N
  <2> QED BY <1>6
<1> QED BY <1>1, <1>7

(* A sum is a number, nothing adds up to zero, and it grows with the set by
   what is added. *)
LEMMA SumGrows ==
  ASSUME NEW S, IsFiniteSet(S), NEW f, \A x \in S : f[x] \in Nat, NEW V \in SUBSET S
  PROVE  /\ Sum(f, V) \in Nat /\ Sum(f, {}) = 0
         /\ \A x \in S \ V : Sum(f, V \cup {x}) = Sum(f, V) + f[x]
         /\ \A W \in SUBSET V : Sum(f, W) \in Nat /\ Sum(f, W) <= Sum(f, V)
<1>1. \A W \in SUBSET S : Sum(f, W) = Cardinality(Units(f, W)) /\ Sum(f, W) \in Nat
  BY SumIsUnits, UnitsFinite
<1>2. ASSUME NEW x \in S \ V PROVE Sum(f, V \cup {x}) = Sum(f, V) + f[x]
  BY <1>1, UnitsAdd
<1>3. ASSUME NEW W \in SUBSET V PROVE Sum(f, W) <= Sum(f, V)
  <2>1. Units(f, W) \in SUBSET Units(f, V)
    BY DEF Units
  <2>2. Cardinality(Units(f, W)) <= Cardinality(Units(f, V))
    BY <2>1, UnitsFinite, FS_Subset
  <2> QED BY <1>1, <2>2
<1>4. Sum(f, {}) = 0
  <2>1. Units(f, {}) = {} /\ {} \in SUBSET S
    BY DEF Units
  <2> QED BY <1>1, <2>1, FS_EmptySet
<1> QED BY <1>1, <1>2, <1>3, <1>4
=============================================================================
