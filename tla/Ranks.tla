-------------------------------- MODULE Ranks -------------------------------
(***************************************************************************)
(* The place of an element in a finite set that is strictly and totally    *)
(* ordered: how many elements come before it.  A sequence that is sorted,  *)
(* or filtered, has at k the element with k - 1 before it; these lemmas    *)
(* say that there is one, and only one.  The last lemma is for counting:   *)
(* induction over the numbers, for one set at a time.                      *)
(***************************************************************************)
EXTENDS Integers, FiniteSets, FunctionTheorems, FiniteSetTheorems, WellFoundedInduction, TLAPS

Ahead(S, R, x) == {y \in S : <<y, x>> \in R}

Rank(S, R, x) == Cardinality(Ahead(S, R, x))

Ordered(S, R) ==
  /\ \A x \in S : <<x, x>> \notin R
  /\ \A x, y, z \in S : <<x, y>> \in R /\ <<y, z>> \in R => <<x, z>> \in R
  /\ \A x, y \in S : <<x, y>> \in R \/ <<y, x>> \in R \/ x = y

\* A rank is a number below the size of the set.
LEMMA RankBounded ==
  ASSUME NEW S, IsFiniteSet(S), NEW R, Ordered(S, R), NEW x \in S
  PROVE  Rank(S, R, x) \in Nat /\ Rank(S, R, x) < Cardinality(S)
<1> DEFINE A == Ahead(S, R, x)
<1>1. A \in SUBSET S /\ x \notin A
  BY DEF Ahead, Ordered
<1> HIDE DEF A
<1>2. IsFiniteSet(A) /\ Cardinality(A) <= Cardinality(S) /\ (Cardinality(S) = Cardinality(A) => S = A)
  BY <1>1, FS_Subset
<1>3. Cardinality(S) # Cardinality(A)
  BY <1>1, <1>2
<1>4. Cardinality(A) \in Nat /\ Cardinality(S) \in Nat
  BY <1>2, FS_CardinalityType
<1>5. Rank(S, R, x) = Cardinality(A)
  BY DEF Rank, A
<1> QED
  BY <1>2, <1>3, <1>4, <1>5

\* What comes before has the smaller rank.
LEMMA RankFollows ==
  ASSUME NEW S, IsFiniteSet(S), NEW R, Ordered(S, R), NEW x \in S, NEW y \in S, <<x, y>> \in R
  PROVE  Rank(S, R, x) < Rank(S, R, y)
<1> DEFINE A == Ahead(S, R, x)
           B == Ahead(S, R, y)
<1>1. A \in SUBSET B
  BY DEF Ahead, Ordered
<1>2. x \in B /\ x \notin A /\ B \in SUBSET S
  BY DEF Ahead, Ordered
<1> HIDE DEF A, B
<1>3. IsFiniteSet(B)
  BY <1>2, FS_Subset
<1>4. IsFiniteSet(A) /\ Cardinality(A) <= Cardinality(B) /\ (Cardinality(B) = Cardinality(A) => B = A)
  BY <1>1, <1>3, FS_Subset
<1>5. Cardinality(A) \in Nat /\ Cardinality(B) \in Nat
  BY <1>3, <1>4, FS_CardinalityType
<1>6. Rank(S, R, x) = Cardinality(A) /\ Rank(S, R, y) = Cardinality(B)
  BY DEF Rank, A, B
<1> QED
  BY <1>2, <1>4, <1>5, <1>6

\* No two elements have the same rank.
LEMMA RankUnique ==
  ASSUME NEW S, IsFiniteSet(S), NEW R, Ordered(S, R), NEW x \in S, NEW y \in S,
         Rank(S, R, x) = Rank(S, R, y)
  PROVE  x = y
<1>1. Rank(S, R, x) \in Nat /\ Rank(S, R, y) \in Nat
  BY RankBounded
<1>2. <<x, y>> \notin R
  <2> SUFFICES ASSUME <<x, y>> \in R PROVE FALSE
    OBVIOUS
  <2>1. Rank(S, R, x) < Rank(S, R, y)
    BY RankFollows
  <2> QED
    BY <1>1, <2>1
<1>3. <<y, x>> \notin R
  <2> SUFFICES ASSUME <<y, x>> \in R PROVE FALSE
    OBVIOUS
  <2>1. Rank(S, R, y) < Rank(S, R, x)
    BY RankFollows
  <2> QED
    BY <1>1, <2>1
<1> QED
  BY <1>2, <1>3 DEF Ordered

\* Of two elements, that with the smaller rank comes first.
LEMMA RankTells ==
  ASSUME NEW S, IsFiniteSet(S), NEW R, Ordered(S, R), NEW x \in S, NEW y \in S,
         Rank(S, R, x) < Rank(S, R, y)
  PROVE  <<x, y>> \in R
<1>1. Rank(S, R, x) \in Nat /\ Rank(S, R, y) \in Nat
  BY RankBounded
<1>2. x # y
  BY <1>1
<1>3. <<y, x>> \notin R
  <2> SUFFICES ASSUME <<y, x>> \in R PROVE FALSE
    OBVIOUS
  <2>1. Rank(S, R, y) < Rank(S, R, x)
    BY RankFollows
  <2> QED
    BY <1>1, <2>1
<1> QED
  BY <1>2, <1>3 DEF Ordered

\* Every place is taken: the ranks are as many as the elements, and below their number.
LEMMA RankReached ==
  ASSUME NEW S, IsFiniteSet(S), NEW R, Ordered(S, R), NEW k \in 1 .. Cardinality(S)
  PROVE  \E x \in S : Rank(S, R, x) = k - 1
<1> DEFINE n == Cardinality(S)
           f == [x \in S |-> Rank(S, R, x) + 1]
           T == 1 .. n
<1>1. n \in Nat
  BY FS_CardinalityType
<1>2. \A x \in S : Rank(S, R, x) \in Nat /\ Rank(S, R, x) < n
  BY RankBounded
<1>3. f \in [S -> T]
  BY <1>1, <1>2
<1>4. \A x, y \in S : f[x] = f[y] => x = y
  <2> SUFFICES ASSUME NEW x \in S, NEW y \in S, f[x] = f[y] PROVE x = y
    OBVIOUS
  <2>1. Rank(S, R, x) = Rank(S, R, y)
    BY <1>2
  <2> QED
    BY <2>1, RankUnique
<1>5. IsFiniteSet(T) /\ Cardinality(T) = n
  BY <1>1, FS_Interval
<1> HIDE DEF f, T
<1>6. f \in Injection(S, T)
  BY <1>3, <1>4, Fun_IsInj
<1>7. f \in Surjection(S, T)
  BY <1>5, <1>6, FS_Injection
<1>8. \A t \in T : \E x \in S : f[x] = t
  BY <1>7, Fun_SurjectionProperties
<1>9. k \in T
  BY DEF T
<1>10. PICK x \in S : f[x] = k
  BY <1>8, <1>9
<1>11. f[x] = Rank(S, R, x) + 1
  BY DEF f
<1>12. Rank(S, R, x) \in Nat /\ k \in Nat
  BY <1>1, <1>2
<1> QED
  BY <1>10, <1>11, <1>12

\* The order of numbers, as a relation on a set of them.
Lower(S) == {p \in S \X S : p[1] < p[2]}

\* It is a strict and total one.
LEMMA LowerOrders == ASSUME NEW S \in SUBSET Int PROVE Ordered(S, Lower(S))
BY DEF Ordered, Lower

\* What holds of 0, and of a number whenever it holds of the one before, holds of all.
LEMMA CountingUp ==
  ASSUME NEW T \in SUBSET Nat, 0 \in T, \A n \in T : n + 1 \in T
  PROVE  T = Nat
<1> DEFINE F == Nat \ T
           R == OpToRel(<, Nat)
<1> SUFFICES ASSUME F # {} PROVE FALSE
  OBVIOUS
<1>1. PICK x \in F : \A y \in F : ~ (<<y, x>> \in R)
  <2>1. F \subseteq Nat
    OBVIOUS
  <2> HIDE DEF F, R
  <2>2. IsWellFoundedOn(R, Nat)
    BY NatLessThanWellFounded DEF R
  <2> QED
    BY <2>1, <2>2, WFMin
<1>2. x \in Nat /\ x # 0 /\ x - 1 \in Nat /\ (x - 1) + 1 = x
  OBVIOUS
<1>3. <<x - 1, x>> \in R
  BY <1>2 DEF OpToRel
<1>4. x - 1 \in T
  BY <1>1, <1>2, <1>3
<1> QED
  BY <1>2, <1>4
=============================================================================
