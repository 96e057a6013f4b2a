----------------------------- MODULE NumberFacts -----------------------------
(***************************************************************************)
(* Facts about sets of numbers that the proofs about lists and queues      *)
(* need: what is least and greatest, how many there are, and which of them *)
(* is the n-th.  Nothing here is about the program.                        *)
(***************************************************************************)
EXTENDS Integers, FiniteSets, FiniteSetTheorems, WellFoundedInduction, TLAPS

\* Some number is the least of its set.
LEMMA Least ==
  ASSUME NEW S \in SUBSET Nat, S # {}
  PROVE  \E x \in S : \A y \in S : x <= y
<1>1. PICK R : R = OpToRel(<, Nat)
  OBVIOUS
<1>2. IsWellFoundedOn(R, Nat)
  BY <1>1, NatLessThanWellFounded
<1>3. PICK x \in S : \A y \in S : <<y, x>> \notin R
  BY <1>2, WFMin
<1>4. \A y \in S : y < x => <<y, x>> \in R
  BY <1>1 DEF OpToRel
<1>5. \A y \in S : ~(y < x)
  BY <1>3, <1>4
<1>6. \A y \in Nat : ~(y < x) => x <= y
  BY <1>3
<1> QED
  BY <1>5, <1>6

\* Some number is the greatest of a set with a bound.
LEMMA Greatest ==
  ASSUME NEW n \in Nat, NEW S \in SUBSET (0 .. n), S # {}
  PROVE  \E x \in S : \A y \in S : x >= y
<1>1. PICK T : T = {n - x : x \in S}
  OBVIOUS
<1>2. T \in SUBSET Nat /\ T # {}
  <2>1. \A x \in S : x \in 0 .. n /\ n - x \in Nat
    OBVIOUS
  <2> QED
    BY <1>1, <2>1
<1>3. PICK z \in T : \A y \in T : z <= y
  BY <1>2, Least
<1>4. PICK x \in S : z = n - x
  BY <1>1, <1>3
<1>5. ASSUME NEW y \in S PROVE x >= y
  <2>1. n - y \in T
    BY <1>1
  <2>2. n - x <= n - y
    BY <1>3, <1>4, <2>1
  <2> QED
    BY <2>2
<1> QED
  BY <1>5

\* Sets whose members correspond one to one are equally large.
LEMMA Renumbered ==
  ASSUME NEW S, NEW T, IsFiniteSet(S), NEW f \in [S -> T],
         \A x, y \in S : f[x] = f[y] => x = y,
         \A y \in T : \E x \in S : f[x] = y
  PROVE  Cardinality(T) = Cardinality(S)
<1>1. f \in Bijection(S, T)
  BY DEF Bijection, Injection, Surjection, IsInjective
<1>2. ExistsBijection(S, T)
  BY <1>1 DEF ExistsBijection
<1> QED
  BY <1>2, FS_Bijection

-----------------------------------------------------------------------------
\* The place of a number in a set of numbers, counted from 1.
Place(K, i) == Cardinality({k \in K : k <= i})

\* The places of a set run from 1 to its size, in the order of the numbers.
LEMMA Places ==
  ASSUME NEW n \in Nat, NEW K \in SUBSET (1 .. n)
  PROVE  /\ IsFiniteSet(K) /\ Cardinality(K) \in Nat
         /\ \A i \in K : Place(K, i) \in 1 .. Cardinality(K)
         /\ \A i, j \in K : i < j => Place(K, i) < Place(K, j)
<1>1. IsFiniteSet(1 .. n)
  BY FS_Interval
<1>2. ASSUME NEW T \in SUBSET K PROVE IsFiniteSet(T) /\ Cardinality(T) \in Nat
  <2>1. T \subseteq 1 .. n
    OBVIOUS
  <2>2. IsFiniteSet(T)
    BY <1>1, <2>1, FS_Subset
  <2> QED
    BY <2>2, FS_CardinalityType
<1>3. IsFiniteSet(K) /\ Cardinality(K) \in Nat
  BY <1>2
<1>4. ASSUME NEW i \in K PROVE Place(K, i) \in 1 .. Cardinality(K)
  <2>1. PICK T : T = {k \in K : k <= i}
    OBVIOUS
  <2>2. T \in SUBSET K /\ i \in T
    BY <2>1
  <2>3. Cardinality(T) <= Cardinality(K)
    BY <1>3, <2>2, FS_Subset
  <2>4. Cardinality(T) # 0 /\ Cardinality(T) \in Nat
    BY <1>2, <2>2, FS_EmptySet
  <2> QED
    BY <1>3, <2>1, <2>3, <2>4 DEF Place
<1>5. ASSUME NEW i \in K, NEW j \in K, i < j PROVE Place(K, i) < Place(K, j)
  <2>1. PICK T : T = {k \in K : k <= i}
    OBVIOUS
  <2>2. PICK U : U = {k \in K : k <= j}
    OBVIOUS
  <2>3. T \in SUBSET K /\ U \in SUBSET K /\ T \subseteq U /\ j \in U /\ j \notin T
    <3>1. \A k \in K : k \in Nat
      OBVIOUS
    <3>2. \A k \in K : k <= i => k <= j
      BY <1>5, <3>1
    <3>3. j <= j /\ ~(j <= i)
      BY <1>5, <3>1
    <3> QED
      BY <2>1, <2>2, <3>2, <3>3
  <2>4. Cardinality(T) <= Cardinality(U) /\ (Cardinality(T) = Cardinality(U) => T = U)
    BY <1>2, <2>3, FS_Subset
  <2>5. Cardinality(T) \in Nat /\ Cardinality(U) \in Nat
    BY <1>2, <2>3
  <2> QED
    BY <2>1, <2>2, <2>3, <2>4, <2>5 DEF Place
<1> QED
  BY <1>3, <1>4, <1>5

\* Every place is taken.
LEMMA PlaceTaken ==
  ASSUME NEW n \in Nat, NEW K \in SUBSET (1 .. n), NEW p \in 1 .. Cardinality(K)
  PROVE  \E i \in K : Place(K, i) = p
<1>1. PICK f : f = [i \in K |-> Place(K, i)]
  OBVIOUS
<1>2. PICK N : N = Cardinality(K)
  OBVIOUS
<1>3. /\ IsFiniteSet(K) /\ N \in Nat
      /\ \A i \in K : Place(K, i) \in 1 .. N
      /\ \A i, j \in K : i < j => Place(K, i) < Place(K, j)
  BY <1>2, Places
<1>4. f \in [K -> 1 .. N]
  BY <1>1, <1>3
<1>5. ASSUME NEW i \in K, NEW j \in K, f[i] = f[j] PROVE i = j
  <2>1. f[i] = Place(K, i) /\ f[j] = Place(K, j) /\ i \in Nat /\ j \in Nat
    BY <1>1
  <2>2. Place(K, i) \in Nat /\ Place(K, j) \in Nat
    BY <1>3
  <2>3. Place(K, i) = Place(K, j)
    BY <1>5, <2>1
  <2>4. ~(Place(K, i) < Place(K, j)) /\ ~(Place(K, j) < Place(K, i))
    BY <2>2, <2>3
  <2>5. ~(i < j) /\ ~(j < i)
    BY <1>3, <2>4
  <2> QED
    BY <2>1, <2>5
<1>6. f \in Injection(K, 1 .. N)
  BY <1>4, <1>5 DEF Injection, IsInjective
<1>7. IsFiniteSet(1 .. N) /\ Cardinality(1 .. N) = N
  BY <1>3, FS_Interval
<1>8. f \in Surjection(K, 1 .. N)
  BY <1>2, <1>6, <1>7, FS_Injection
<1>9. \E i \in K : f[i] = p
  BY <1>2, <1>8 DEF Surjection
<1> QED
  BY <1>1, <1>9
=============================================================================
