----------------------------- MODULE ListsProofs -----------------------------
(***************************************************************************)
(* What the operators of Lists.tla return, for every list: the elements at *)
(* the places that are kept, each once, in the order they had.             *)
(***************************************************************************)
EXTENDS Lists, SequenceTheorems, FiniteSetTheorems, WellFoundedInduction, TLAPS

(* A non-empty set of naturals has a least element.  The induction is on   *)
(* the well-founded order of Nat, as a statement about sets.               *)
LEMMA LeastExists ==
  ASSUME NEW I \in SUBSET Nat, I # {}
  PROVE  \E x \in I : \A y \in I : x <= y
<1>1. PICK x \in I : \A y \in I : ~ (<<y, x>> \in OpToRel(<, Nat))
  BY NatLessThanWellFounded, WFMin
<1>2. OpToRel(<, Nat) = { p \in Nat \X Nat : p[1] < p[2] }
  BY DEF OpToRel
<1>3. ASSUME NEW y \in I
      PROVE  x <= y
  <2>1. <<y, x>> \in Nat \X Nat /\ <<y, x>>[1] = y /\ <<y, x>>[2] = x
    OBVIOUS
  <2>2. ~ (y < x)
    BY <1>1, <1>2, <2>1
  <2>3. QED BY <2>2
<1>4. QED BY <1>3

(* A non-empty set of numbers up to n has a greatest element.              *)
LEMMA GreatestExists ==
  ASSUME NEW n \in Nat, NEW I \in SUBSET (1 .. n), I # {}
  PROVE  \E x \in I : \A y \in I : y <= x
<1> DEFINE J == { n - i : i \in I }
<1>1. J \in SUBSET Nat /\ J # {}
  <2>1. \A i \in I : n - i \in Nat
    OBVIOUS
  <2>2. QED BY <2>1
<1>2. PICK m \in J : \A k \in J : m <= k
  BY <1>1, LeastExists
<1>3. PICK x \in I : m = n - x
  BY <1>2
<1>4. ASSUME NEW y \in I
      PROVE  y <= x
  <2>1. n - x <= n - y
    BY <1>2, <1>3
  <2>2. QED BY <2>1
<1>5. QED BY <1>4

(* The place of a number in a set of places: how many come up to it.       *)
Rank(I, i) == Cardinality({ j \in I : j <= i })

(* Each of N numbers has one rank, and each rank one number.               *)
LEMMA RankProperties ==
  ASSUME NEW n \in Nat, NEW I \in SUBSET (1 .. n)
  PROVE  /\ Cardinality(I) \in Nat
         /\ \A i \in I : Rank(I, i) \in 1 .. Cardinality(I)
         /\ \A i, k \in I : i < k => Rank(I, i) < Rank(I, k)
         /\ \A m \in 1 .. Cardinality(I) : \E i \in I : Rank(I, i) = m
<1> DEFINE Upto(i) == { j \in I : j <= i }
<1>0. \A i \in I : i \in Nat
  OBVIOUS
<1>1. IsFiniteSet(I) /\ Cardinality(I) \in Nat
  <2>1. IsFiniteSet(1 .. n)
    BY FS_Interval
  <2>2. IsFiniteSet(I)
    BY <2>1, FS_Subset
  <2>3. QED BY <2>2, FS_CardinalityType
<1>2. ASSUME NEW i \in I
      PROVE  /\ IsFiniteSet(Upto(i))
             /\ Rank(I, i) \in 1 .. Cardinality(I)
  <2>1. Upto(i) \in SUBSET I /\ i \in Upto(i)
    OBVIOUS
  <2>2. IsFiniteSet(Upto(i)) /\ Cardinality(Upto(i)) <= Cardinality(I)
    BY <1>1, <2>1, FS_Subset
  <2>3. Cardinality(Upto(i)) \in Nat /\ Cardinality(Upto(i)) # 0
    BY <2>1, <2>2, FS_CardinalityType, FS_EmptySet
  <2>4. Rank(I, i) = Cardinality(Upto(i))
    BY DEF Rank
  <2> HIDE DEF Upto
  <2>5. QED BY <1>1, <2>2, <2>3, <2>4
<1>3. ASSUME NEW i \in I, NEW k \in I, i < k
      PROVE  Rank(I, i) < Rank(I, k)
  <2>1. Upto(i) \in SUBSET Upto(k) /\ k \in Upto(k) /\ k \notin Upto(i)
    <3>1. i \in Nat /\ k \in Nat
      BY <1>0
    <3>2. ASSUME NEW j \in I, j <= i
          PROVE  j <= k
      BY <1>0, <1>3, <3>1, <3>2
    <3>3. k <= k /\ ~ (k <= i)
      BY <1>3, <3>1
    <3>4. QED BY <3>2, <3>3
  <2>0. /\ IsFiniteSet(Upto(i)) /\ IsFiniteSet(Upto(k))
        /\ Rank(I, i) \in Nat /\ Rank(I, k) \in Nat
    BY <1>1, <1>2
  <2>2. Rank(I, i) = Cardinality(Upto(i)) /\ Rank(I, k) = Cardinality(Upto(k))
    BY DEF Rank
  <2> HIDE DEF Upto
  <2>3. /\ Cardinality(Upto(i)) <= Cardinality(Upto(k))
        /\ Cardinality(Upto(i)) # Cardinality(Upto(k))
    BY <2>0, <2>1, FS_Subset
  <2>4. QED BY <2>0, <2>2, <2>3
<1>4. ASSUME NEW m \in 1 .. Cardinality(I)
      PROVE  \E i \in I : Rank(I, i) = m
  <2> DEFINE f == [i \in I |-> Rank(I, i)]
             T == 1 .. Cardinality(I)
  <2>1. f \in Injection(I, T)
    <3>1. f \in [I -> T]
      BY <1>2
    <3>2. ASSUME NEW i \in I, NEW k \in I, f[i] = f[k]
          PROVE  i = k
      <4>0. f[i] = Rank(I, i) /\ f[k] = Rank(I, k)
        OBVIOUS
      <4>1. Rank(I, i) = Rank(I, k) /\ Rank(I, i) \in Nat
        <5>1. Rank(I, i) = Rank(I, k)
          BY <3>2, <4>0, Zenon
        <5>2. Rank(I, i) \in 1 .. Cardinality(I)
          BY <1>2
        <5>3. QED BY <1>1, <5>1, <5>2
      <4>2. ~ (i < k) /\ ~ (k < i)
        BY <1>3, <4>1
      <4>3. QED BY <1>0, <4>2
    <3>3. QED BY <3>1, <3>2 DEF Injection, IsInjective
  <2>2. IsFiniteSet(T) /\ Cardinality(T) = Cardinality(I)
    BY <1>1, FS_Interval
  <2>3. f \in Surjection(I, T)
    <3> HIDE DEF f, T
    <3>1. Cardinality(I) = Cardinality(T) <=> f \in Surjection(I, T)
      BY <2>1, <2>2, FS_Injection
    <3>2. QED BY <2>2, <3>1
  <2>4. QED BY <2>3 DEF Surjection
<1>5. QED BY <1>1, <1>2, <1>3, <1>4

(* The n-th of a set of places is one of them, and n come up to it.        *)
LEMMA NthProperties ==
  ASSUME NEW n \in Nat, NEW I \in SUBSET (1 .. n),
         NEW m \in 1 .. Cardinality(I)
  PROVE  Nth(I, m) \in I /\ Rank(I, Nth(I, m)) = m
<1>1. \E i \in I : Rank(I, i) = m
  BY RankProperties
<1>2. QED BY <1>1 DEF Nth, Rank

(* Erasing keeps the elements at the places I, in their order.             *)
LEMMA KeptProperties ==
  ASSUME NEW S, NEW list \in Seq(S), NEW I \in SUBSET (DOMAIN list)
  PROVE  /\ Kept(list, I) \in Seq(S)
         /\ \A n \in DOMAIN Kept(list, I) :
              Nth(I, n) \in I /\ Kept(list, I)[n] = list[Nth(I, n)]
         /\ \A m, n \in DOMAIN Kept(list, I) : m < n => Nth(I, m) < Nth(I, n)
         /\ \A i \in I : \E n \in DOMAIN Kept(list, I) : Nth(I, n) = i
<1> DEFINE N == Cardinality(I)
<1>1. Len(list) \in Nat /\ DOMAIN list = 1 .. Len(list) /\ I \in SUBSET (1 .. Len(list))
  BY LenProperties
<1>2. /\ N \in Nat
      /\ \A i \in I : Rank(I, i) \in 1 .. N
      /\ \A i, k \in I : i < k => Rank(I, i) < Rank(I, k)
      /\ \A m \in 1 .. N : \E i \in I : Rank(I, i) = m
  BY <1>1, RankProperties
<1> HIDE DEF N
<1>3. ASSUME NEW m \in 1 .. N
      PROVE  Nth(I, m) \in I /\ Rank(I, Nth(I, m)) = m
  BY <1>1, <1>3, NthProperties DEF N
<1>4. ASSUME NEW m \in 1 .. N, NEW n \in 1 .. N, m < n
      PROVE  Nth(I, m) < Nth(I, n)
  <2>1. Nth(I, m) # Nth(I, n)
    BY <1>3, <1>4
  <2>2. CASE Nth(I, n) < Nth(I, m)
    <3>1. Rank(I, Nth(I, n)) < Rank(I, Nth(I, m))
      BY <1>2, <1>3, <2>2
    <3>2. QED BY <1>3, <1>4, <3>1
  <2>3. Nth(I, m) \in Nat /\ Nth(I, n) \in Nat
    BY <1>1, <1>3
  <2>4. QED BY <2>1, <2>2, <2>3
<1>5. ASSUME NEW i \in I
      PROVE  \E n \in 1 .. N : Nth(I, n) = i
  <2>1. Rank(I, i) \in 1 .. N
    BY <1>2
  <2>2. Nth(I, Rank(I, i)) \in I /\ Rank(I, Nth(I, Rank(I, i))) = Rank(I, i)
    BY <1>3, <2>1
  <2>3. Nth(I, Rank(I, i)) = i
    BY <1>1, <1>2, <2>1, <2>2
  <2>4. QED BY <2>1, <2>3
<1>6. /\ DOMAIN Kept(list, I) = 1 .. N
      /\ \A n \in 1 .. N : Kept(list, I)[n] = list[Nth(I, n)]
  BY DEF Kept, N
<1>7. Kept(list, I) \in Seq(S)
  <2>1. \A n \in 1 .. N : list[Nth(I, n)] \in S
    BY <1>1, <1>3, ElementOfSeq
  <2>2. Kept(list, I) = [n \in 1 .. N |-> list[Nth(I, n)]]
    BY DEF Kept, N
  <2>3. QED BY <1>2, <2>1, <2>2
<1>8. QED BY <1>3, <1>4, <1>5, <1>6, <1>7

Elements(list) == { list[i] : i \in DOMAIN list }

(* What is left when an element is erased: the others, each as often as it *)
(* was there.                                                              *)
LEMMA WithoutProperties ==
  ASSUME NEW S, NEW list \in Seq(S), NEW e
  PROVE  /\ Without(list, e) \in Seq(S)
         /\ Elements(Without(list, e)) = Elements(list) \ {e}
         /\ (\A i, j \in DOMAIN list : list[i] = list[j] => i = j) =>
              \A m, n \in DOMAIN Without(list, e) :
                Without(list, e)[m] = Without(list, e)[n] => m = n
<1> DEFINE I == { i \in DOMAIN list : list[i] # e }
           w == Kept(list, I)
<1>0. Without(list, e) = w
  BY DEF Without
<1>1. I \in SUBSET (DOMAIN list) /\ \A i \in DOMAIN list : i \in I <=> list[i] # e
  OBVIOUS
<1> HIDE DEF I
<1>2. /\ w \in Seq(S)
      /\ \A n \in DOMAIN w : Nth(I, n) \in I /\ w[n] = list[Nth(I, n)]
      /\ \A m, n \in DOMAIN w : m < n => Nth(I, m) < Nth(I, n)
      /\ \A i \in I : \E n \in DOMAIN w : Nth(I, n) = i
  BY <1>1, KeptProperties
<1> HIDE DEF w
<1>3. /\ Len(w) \in Nat /\ DOMAIN w = 1 .. Len(w)
      /\ DOMAIN list = 1 .. Len(list)
  BY <1>2, LenProperties
<1>4. Elements(w) = Elements(list) \ {e}
  BY <1>1, <1>2 DEF Elements
<1>5. ASSUME \A i, j \in DOMAIN list : list[i] = list[j] => i = j,
             NEW m \in DOMAIN w, NEW n \in DOMAIN w, w[m] = w[n]
      PROVE  m = n
  <2>1. /\ Nth(I, m) \in I /\ Nth(I, n) \in I
        /\ Nth(I, m) \in Int /\ Nth(I, n) \in Int
    BY <1>1, <1>2, <1>3
  <2>2. Nth(I, m) = Nth(I, n)
    BY <1>1, <1>2, <1>5, <2>1
  <2>3. ~ (m < n) /\ ~ (n < m)
    BY <1>2, <2>1, <2>2
  <2>4. QED BY <1>3, <2>3
<1>6. QED BY <1>0, <1>2, <1>4, <1>5
=============================================================================
