----------------------------- MODULE Tail_proofs ----------------------------
(***************************************************************************)
(* Proofs about Tail: its types, that lines are reported once and in the   *)
(* order in which they were logged, and that each is reported whole.       *)
(***************************************************************************)
EXTENDS Tail, Ranks, SequenceTheorems

-----------------------------------------------------------------------------
(* Parts of a sequence.                                                     *)

\* A part of a sequence, by what comes before it and where it ends.
LEMMA PartProperties ==
  ASSUME NEW S, NEW w \in Seq(S), NEW a \in 0 .. Len(w), NEW b \in 0 .. Len(w), a <= b
  PROVE  /\ SubSeq(w, a + 1, b) \in Seq(S)
         /\ Len(SubSeq(w, a + 1, b)) = b - a
         /\ \A i \in 1 .. b - a : SubSeq(w, a + 1, b)[i] = w[a + i] /\ a + i \in 1 .. Len(w)
<1>1. Len(w) \in Nat
  BY LenProperties
<1>2. \A i \in a + 1 .. b : w[i] \in S
  <2> TAKE i \in a + 1 .. b
  <2>1. i \in 1 .. Len(w)
    BY <1>1
  <2> QED
    BY <2>1, ElementOfSeq
<1>3. /\ a + 1 \in Int /\ b \in Int /\ b - (a + 1) + 1 = b - a
      /\ (IF a + 1 <= b THEN b - (a + 1) + 1 ELSE 0) = b - a
      /\ \A i \in 1 .. b - a : a + 1 + i - 1 = a + i /\ a + i \in 1 .. Len(w)
  BY <1>1
<1> QED
  BY <1>2, <1>3, SubSeqProperties

\* A part that follows a part makes one with it.
LEMMA PartsJoin ==
  ASSUME NEW S, NEW w \in Seq(S), NEW a \in 0 .. Len(w), NEW b \in 0 .. Len(w),
         NEW c \in 0 .. Len(w), a <= b, b <= c
  PROVE  SubSeq(w, a + 1, b) \o SubSeq(w, b + 1, c) = SubSeq(w, a + 1, c)
<1> DEFINE u == SubSeq(w, a + 1, b)
           v == SubSeq(w, b + 1, c)
           x == SubSeq(w, a + 1, c)
<1>1. Len(w) \in Nat /\ a <= c
  BY LenProperties
<1>2. u \in Seq(S) /\ Len(u) = b - a /\ \A i \in 1 .. b - a : u[i] = w[a + i]
  BY PartProperties
<1>3. v \in Seq(S) /\ Len(v) = c - b /\ \A i \in 1 .. c - b : v[i] = w[b + i]
  BY PartProperties
<1>4. x \in Seq(S) /\ Len(x) = c - a /\ \A i \in 1 .. c - a : x[i] = w[a + i]
  BY <1>1, PartProperties
<1> HIDE DEF u, v, x
<1>5. /\ u \o v \in Seq(S) /\ Len(u \o v) = Len(u) + Len(v)
      /\ \A i \in 1 .. Len(u) + Len(v) :
           (u \o v)[i] = IF i <= Len(u) THEN u[i] ELSE v[i - Len(u)]
  BY <1>2, <1>3, ConcatProperties
<1>6. Len(u) + Len(v) = c - a
  BY <1>2, <1>3
<1>7. ASSUME NEW i \in 1 .. c - a PROVE (u \o v)[i] = x[i]
  <2>1. CASE i <= Len(u)
    <3>1. i \in 1 .. b - a
      BY <1>1, <1>2, <2>1
    <3> QED
      BY <1>2, <1>4, <1>5, <1>6, <2>1, <3>1
  <2>2. CASE ~ (i <= Len(u))
    <3> DEFINE j == i - Len(u)
    <3>1. j \in 1 .. c - b /\ b + j = a + i
      BY <1>1, <1>2, <2>2
    <3>2. (u \o v)[i] = v[j]
      BY <1>5, <1>6, <2>2
    <3> HIDE DEF j
    <3>3. v[j] = w[b + j]
      BY <1>3, <3>1
    <3> QED
      BY <1>4, <3>1, <3>2, <3>3
  <2> QED
    BY <2>1, <2>2
<1>8. u \o v = x
  BY <1>4, <1>5, <1>6, <1>7, SeqEqual
<1> QED
  BY <1>8 DEF u, v, x

\* Consecutive parts of a sequence make one, however many they are.
LEMMA FlattenParts ==
  ASSUME NEW S, NEW w \in Seq(S), NEW s \in Seq(Seq(S)), NEW e,
         \A k \in 0 .. Len(s) : e[k] \in 0 .. Len(w) /\ e[0] <= e[k],
         \A k \in 1 .. Len(s) : e[k - 1] <= e[k] /\ s[k] = SubSeq(w, e[k - 1] + 1, e[k])
  PROVE  FlattenSeq(s) = SubSeq(w, e[0] + 1, e[Len(s)])
<1> DEFINE n == Len(s)
           Joins(f) == f = [i \in 1 .. n |-> IF i = 1 THEN s[i] ELSE f[i - 1] \o s[i]]
           g == [i \in 1 .. n |-> SubSeq(w, e[0] + 1, e[i])]
<1>1. n \in Nat /\ Len(w) \in Nat
  BY LenProperties
<1>2. CASE n = 0
  <2>1. FlattenSeq(s) = s /\ s = <<>>
    BY <1>2, EmptySeq DEF FlattenSeq
  <2>2. e[0] + 1 \in Int /\ e[n] \in Int /\ e[n] < e[0] + 1
    BY <1>1, <1>2
  <2>3. SubSeq(w, e[0] + 1, e[n]) = <<>>
    BY <2>2, SubSeqEmpty
  <2> QED
    BY <2>1, <2>3
<1>3. CASE n # 0
  <2>1. \A i \in 2 .. n : SubSeq(w, e[0] + 1, e[i - 1]) \o s[i] = SubSeq(w, e[0] + 1, e[i])
    <3> TAKE i \in 2 .. n
    <3>1. i - 1 \in 0 .. n /\ i \in 0 .. n /\ i \in 1 .. n /\ 0 \in 0 .. n
      BY <1>1
    <3>2. /\ e[0] \in 0 .. Len(w) /\ e[i - 1] \in 0 .. Len(w) /\ e[i] \in 0 .. Len(w)
          /\ e[0] <= e[i - 1] /\ e[i - 1] <= e[i] /\ s[i] = SubSeq(w, e[i - 1] + 1, e[i])
      BY <3>1
    <3> DEFINE a == e[0]
               b == e[i - 1]
               c == e[i]
    <3>3. /\ a \in 0 .. Len(w) /\ b \in 0 .. Len(w) /\ c \in 0 .. Len(w)
          /\ a <= b /\ b <= c /\ s[i] = SubSeq(w, b + 1, c)
      BY <3>2
    <3> HIDE DEF a, b, c
    <3>4. SubSeq(w, a + 1, b) \o s[i] = SubSeq(w, a + 1, c)
      BY <3>3, PartsJoin
    <3> QED
      BY <3>4 DEF a, b, c
  <2>2. \A i \in 1 .. n : g[i] = IF i = 1 THEN s[i] ELSE g[i - 1] \o s[i]
    <3> TAKE i \in 1 .. n
    <3>1. CASE i = 1
      <4>1. s[1] = SubSeq(w, e[1 - 1] + 1, e[1]) /\ 1 - 1 = 0
        BY <3>1
      <4> QED
        BY <3>1, <4>1
    <3>2. CASE i # 1
      <4>1. i \in 2 .. n /\ i - 1 \in 1 .. n
        BY <1>1, <3>2
      <4> QED
        BY <2>1, <3>2, <4>1
    <3> QED
      BY <3>1, <3>2
  <2>3. Joins(g)
    BY <2>2
  <2> DEFINE f == CHOOSE h : Joins(h)
  <2>4. Joins(f)
    BY <2>3
  <2>5. FlattenSeq(s) = f[n]
    BY <1>3 DEF FlattenSeq
  <2>6. \A i \in 1 .. n : f[i] = IF i = 1 THEN s[i] ELSE f[i - 1] \o s[i]
    BY <2>4
  <2> HIDE DEF f, g, Joins
  <2> DEFINE T == {m \in Nat : m + 1 \in 1 .. n => f[m + 1] = g[m + 1]}
  <2>7. 0 \in T
    BY <1>1, <1>3, <2>2, <2>6
  <2>8. ASSUME NEW m \in T PROVE m + 1 \in T
    <3> SUFFICES ASSUME (m + 1) + 1 \in 1 .. n PROVE f[(m + 1) + 1] = g[(m + 1) + 1]
      OBVIOUS
    <3>1. m + 1 \in 1 .. n /\ ((m + 1) + 1) - 1 = m + 1 /\ (m + 1) + 1 # 1
      BY <1>1
    <3>2. f[m + 1] = g[m + 1]
      BY <3>1
    <3> QED
      BY <2>2, <2>6, <3>1, <3>2
  <2> HIDE DEF T
  <2>9. T = Nat
    <3>1. T \in SUBSET Nat
      BY DEF T
    <3> QED
      BY <2>7, <2>8, <3>1, CountingUp
  <2>10. f[n] = g[n]
    <3>1. n - 1 \in T /\ (n - 1) + 1 = n /\ n \in 1 .. n
      BY <1>1, <1>3, <2>9
    <3> QED
      BY <3>1 DEF T
  <2>11. g[n] = SubSeq(w, e[0] + 1, e[n])
    <3>1. n \in 1 .. n
      BY <1>1, <1>3
    <3> QED
      BY <3>1 DEF g
  <2> QED
    BY <2>5, <2>10, <2>11
<1> QED
  BY <1>2, <1>3

\* A part of a part.
LEMMA PartOfPart ==
  ASSUME NEW S, NEW w \in Seq(S), NEW a \in 0 .. Len(w), NEW b \in 0 .. Len(w), a <= b,
         NEW x \in 0 .. b - a, NEW y \in 0 .. b - a, x <= y
  PROVE  SubSeq(SubSeq(w, a + 1, b), x + 1, y) = SubSeq(w, (a + x) + 1, a + y)
<1> DEFINE u == SubSeq(w, a + 1, b)
           v == SubSeq(u, x + 1, y)
           c == a + x
           d == a + y
           z == SubSeq(w, c + 1, d)
<1>1. u \in Seq(S) /\ Len(u) = b - a /\ \A i \in 1 .. b - a : u[i] = w[a + i]
  BY PartProperties
<1>2. /\ c \in 0 .. Len(w) /\ d \in 0 .. Len(w) /\ c <= d /\ d - c = y - x
      /\ \A i \in 1 .. y - x : x + i \in 1 .. b - a /\ c + i = a + (x + i)
  <2>1. Len(w) \in Nat
    BY LenProperties
  <2> QED
    BY <2>1
<1> HIDE DEF u
<1>3. v \in Seq(S) /\ Len(v) = y - x /\ \A i \in 1 .. y - x : v[i] = u[x + i]
  <2>1. x \in 0 .. Len(u) /\ y \in 0 .. Len(u)
    BY <1>1
  <2> QED
    BY <1>1, <2>1, PartProperties
<1> HIDE DEF v, c, d
<1>4. z \in Seq(S) /\ Len(z) = d - c /\ \A i \in 1 .. d - c : z[i] = w[c + i]
  BY <1>2, PartProperties
<1> HIDE DEF z
<1>5. \A i \in 1 .. y - x : v[i] = z[i]
  <2> TAKE i \in 1 .. y - x
  <2>1. v[i] = u[x + i] /\ u[x + i] = w[a + (x + i)]
    BY <1>1, <1>2, <1>3
  <2>2. z[i] = w[c + i] /\ c + i = a + (x + i)
    BY <1>2, <1>4
  <2> QED
    BY <2>1, <2>2
<1>6. v = z
  BY <1>2, <1>3, <1>4, <1>5, SeqEqual
<1> QED
  BY <1>6 DEF u, v, z, c, d

\* What is appended leaves the parts before it as they are.
LEMMA PartStays ==
  ASSUME NEW S, NEW w \in Seq(S), NEW x \in S,
         NEW a \in 0 .. Len(w), NEW b \in 0 .. Len(w), a <= b
  PROVE  SubSeq(Append(w, x), a + 1, b) = SubSeq(w, a + 1, b)
<1> DEFINE v == Append(w, x)
           p == SubSeq(v, a + 1, b)
           q == SubSeq(w, a + 1, b)
<1>1. Len(w) \in Nat /\ v \in Seq(S) /\ Len(v) = Len(w) + 1 /\ \A i \in 1 .. Len(w) : v[i] = w[i]
  BY LenProperties, AppendProperties
<1> HIDE DEF v
<1>2. a \in 0 .. Len(v) /\ b \in 0 .. Len(v)
  BY <1>1
<1>3. p \in Seq(S) /\ Len(p) = b - a /\ \A i \in 1 .. b - a : p[i] = v[a + i]
  BY <1>1, <1>2, PartProperties
<1>4. /\ q \in Seq(S) /\ Len(q) = b - a
      /\ \A i \in 1 .. b - a : q[i] = w[a + i] /\ a + i \in 1 .. Len(w)
  BY PartProperties
<1> HIDE DEF p, q
<1>5. \A i \in 1 .. Len(p) : p[i] = q[i]
  BY <1>1, <1>3, <1>4
<1>6. p = q
  BY <1>3, <1>4, <1>5, SeqEqual
<1> QED
  BY <1>6 DEF p, q, v

-----------------------------------------------------------------------------
(* The lines of a sequence of pieces.                                       *)

\* The ends of lines in a sequence are finitely many of its places, in order.
LEMMA EndsTyped ==
  ASSUME NEW s \in Seq(Piece)
  PROVE  /\ Len(s) \in Nat /\ DOMAIN s = 1 .. Len(s)
         /\ Ends(s) \in SUBSET (1 .. Len(s)) /\ Ends(s) \in SUBSET Int
         /\ IsFiniteSet(Ends(s)) /\ Cardinality(Ends(s)) \in Nat
         /\ Ordered(Ends(s), Lower(Ends(s)))
<1>1. Len(s) \in Nat /\ DOMAIN s = 1 .. Len(s)
  BY LenProperties
<1>2. Ends(s) \in SUBSET (1 .. Len(s)) /\ Ends(s) \in SUBSET Int
  BY <1>1 DEF Ends
<1>3. IsFiniteSet(1 .. Len(s))
  BY <1>1, FS_Interval
<1>4. IsFiniteSet(Ends(s))
  BY <1>2, <1>3, FS_Subset
<1> QED
  BY <1>1, <1>2, <1>4, FS_CardinalityType, LowerOrders

\* The number of ends up to an end is one more than its rank.
LEMMA EndsUpTo ==
  ASSUME NEW s \in Seq(Piece), NEW i \in Ends(s)
  PROVE  /\ Cardinality({j \in Ends(s) : j <= i}) = Rank(Ends(s), Lower(Ends(s)), i) + 1
         /\ Rank(Ends(s), Lower(Ends(s)), i) \in Nat
<1> DEFINE E == Ends(s)
           A == Ahead(E, Lower(E), i)
<1>1. E \in SUBSET Int /\ IsFiniteSet(E) /\ Ordered(E, Lower(E))
  BY EndsTyped
<1>2. {j \in E : j <= i} = A \cup {i} /\ i \notin A /\ A \in SUBSET E
  BY <1>1 DEF Ahead, Lower
<1>3. Rank(E, Lower(E), i) = Cardinality(A) /\ Rank(E, Lower(E), i) \in Nat
  <2>1. Rank(E, Lower(E), i) \in Nat
    BY <1>1, RankBounded
  <2> QED
    BY <2>1 DEF Rank
<1> HIDE DEF A
<1>4. IsFiniteSet(A)
  BY <1>1, <1>2, FS_Subset
<1>5. Cardinality(A \cup {i}) = Cardinality(A) + 1
  BY <1>2, <1>4, FS_AddElement
<1> QED
  BY <1>2, <1>3, <1>5

\* EndOf finds the ends, in their order.
LEMMA EndOfProperties ==
  ASSUME NEW s \in Seq(Piece)
  PROVE  /\ \A k \in 1 .. Cardinality(Ends(s)) : EndOf(s, k) \in Ends(s)
         /\ \A k, l \in 1 .. Cardinality(Ends(s)) : k < l => EndOf(s, k) < EndOf(s, l)
         /\ Cardinality(Ends(s)) > 0 =>
              \A i \in Ends(s) : i <= EndOf(s, Cardinality(Ends(s)))
<1> DEFINE E == Ends(s)
           R == Lower(E)
           n == Cardinality(E)
<1>1. E \in SUBSET Int /\ IsFiniteSet(E) /\ n \in Nat /\ Ordered(E, R)
  BY EndsTyped
<1>2. \A i \in E : Cardinality({j \in E : j <= i}) = Rank(E, R, i) + 1 /\ Rank(E, R, i) \in Nat
  BY EndsUpTo
<1>3. \A i, j \in E : <<i, j>> \in R <=> i < j
  BY DEF Lower
<1> HIDE DEF R
<1>4. ASSUME NEW k \in 1 .. n
      PROVE  EndOf(s, k) \in E /\ Rank(E, R, EndOf(s, k)) = k - 1
  <2>1. \E i \in E : Rank(E, R, i) = k - 1
    BY <1>1, RankReached
  <2>2. \E i \in E : Cardinality({j \in E : j <= i}) = k
    BY <1>2, <2>1
  <2>3. EndOf(s, k) \in E /\ Cardinality({j \in E : j <= EndOf(s, k)}) = k
    BY <2>2 DEF EndOf
  <2>4. Rank(E, R, EndOf(s, k)) + 1 = k /\ Rank(E, R, EndOf(s, k)) \in Nat
    BY <1>2, <2>3
  <2> QED
    BY <2>3, <2>4
<1> HIDE DEF E
<1>5. ASSUME NEW k \in 1 .. n, NEW l \in 1 .. n, k < l PROVE EndOf(s, k) < EndOf(s, l)
  <2>1. /\ EndOf(s, k) \in E /\ Rank(E, R, EndOf(s, k)) = k - 1
        /\ EndOf(s, l) \in E /\ Rank(E, R, EndOf(s, l)) = l - 1
    BY <1>4
  <2>2. Rank(E, R, EndOf(s, k)) < Rank(E, R, EndOf(s, l))
    BY <1>1, <1>5, <2>1
  <2>3. <<EndOf(s, k), EndOf(s, l)>> \in R
    BY <1>1, <2>1, <2>2, RankTells
  <2> QED
    BY <1>3, <2>1, <2>3
<1>6. ASSUME n > 0, NEW i \in E PROVE i <= EndOf(s, n)
  <2>1. n \in 1 .. n
    BY <1>1, <1>6
  <2>2. EndOf(s, n) \in E /\ Rank(E, R, EndOf(s, n)) = n - 1
    BY <1>4, <2>1
  <2>3. Rank(E, R, i) < n /\ Rank(E, R, i) \in Nat
    BY <1>1, RankBounded
  <2>4. ~ (EndOf(s, n) < i)
    <3> SUFFICES ASSUME EndOf(s, n) < i PROVE FALSE
      OBVIOUS
    <3>1. <<EndOf(s, n), i>> \in R
      BY <1>3, <2>2
    <3>2. Rank(E, R, EndOf(s, n)) < Rank(E, R, i)
      BY <1>1, <2>2, <3>1, RankFollows
    <3> QED
      BY <1>1, <2>2, <2>3, <3>2
  <2>5. i \in Int /\ EndOf(s, n) \in Int
    BY <1>1, <2>2
  <2> QED
    BY <2>4, <2>5
<1> QED
  BY <1>4, <1>5, <1>6 DEF E

\* Each line is a part of the sequence that ends with one of its ends, a later line
\* with a later end; and what is left has no end.
LEMMA LinesProperties ==
  ASSUME NEW s \in Seq(Piece)
  PROVE  /\ Lines(s) \in Seq(Seq(Piece))
         /\ Len(Lines(s)) = Cardinality(Ends(s))
         /\ \A k \in 1 .. Len(Lines(s)) :
              EndOf(s, k) \in Ends(s) /\ Last(Lines(s)[k]) = s[EndOf(s, k)]
         /\ \A k, l \in 1 .. Len(Lines(s)) : k < l => EndOf(s, k) < EndOf(s, l)
         /\ Rest(s) \in Seq(Piece) /\ Ends(Rest(s)) = {}
<1> DEFINE n == Cardinality(Ends(s))
<1>1. /\ Len(s) \in Nat /\ DOMAIN s = 1 .. Len(s) /\ n \in Nat
      /\ Ends(s) \in SUBSET (1 .. Len(s))
  BY EndsTyped
<1> HIDE DEF n
<1>2. /\ \A k \in 1 .. n : EndOf(s, k) \in Ends(s)
      /\ \A k, l \in 1 .. n : k < l => EndOf(s, k) < EndOf(s, l)
      /\ n > 0 => \A i \in Ends(s) : i <= EndOf(s, n)
  BY EndOfProperties DEF n
<1>3. \A k \in 1 .. n : EndOf(s, k) \in 1 .. Len(s)
  BY <1>1, <1>2
<1>4. ASSUME NEW k \in 1 .. n + 1
      PROVE  /\ LineStart(s, k) \in Nat /\ LineStart(s, k) >= 1
             /\ k # n + 1 => LineStart(s, k) <= EndOf(s, k)
  <2>1. CASE k = 1
    <3>1. LineStart(s, k) = 1
      BY <2>1 DEF LineStart
    <3>2. k # n + 1 => EndOf(s, k) \in 1 .. Len(s)
      BY <1>1, <1>3
    <3> QED
      BY <1>1, <3>1, <3>2
  <2>2. CASE k # 1
    <3>1. k - 1 \in 1 .. n
      BY <1>1, <2>2
    <3>2. LineStart(s, k) = EndOf(s, k - 1) + 1
      BY <2>2 DEF LineStart
    <3>3. EndOf(s, k - 1) \in 1 .. Len(s)
      BY <1>3, <3>1
    <3>4. k # n + 1 => EndOf(s, k - 1) < EndOf(s, k) /\ EndOf(s, k) \in 1 .. Len(s)
      BY <1>1, <1>2, <1>3, <3>1
    <3> QED
      BY <1>1, <3>2, <3>3, <3>4
  <2> QED
    BY <2>1, <2>2
<1>5. ASSUME NEW from \in Nat, from >= 1, NEW to \in Nat, to <= Len(s)
      PROVE  /\ SubSeq(s, from, to) \in Seq(Piece)
             /\ Len(SubSeq(s, from, to)) = IF from <= to THEN to - from + 1 ELSE 0
             /\ \A i \in 1 .. to - from + 1 : SubSeq(s, from, to)[i] = s[from + i - 1]
  <2>1. \A i \in from .. to : s[i] \in Piece
    <3> TAKE i \in from .. to
    <3>1. i \in 1 .. Len(s)
      BY <1>1, <1>5
    <3> QED
      BY <3>1, ElementOfSeq
  <2> QED
    BY <2>1, SubSeqProperties
<1>6. Lines(s) = [k \in 1 .. n |-> SubSeq(s, LineStart(s, k), EndOf(s, k))]
  BY DEF Lines, n
<1>7. ASSUME NEW k \in 1 .. n
      PROVE  /\ SubSeq(s, LineStart(s, k), EndOf(s, k)) \in Seq(Piece)
             /\ Last(SubSeq(s, LineStart(s, k), EndOf(s, k))) = s[EndOf(s, k)]
  <2> DEFINE from == LineStart(s, k)
             to == EndOf(s, k)
             u == SubSeq(s, from, to)
  <2>1. from \in Nat /\ from >= 1 /\ to \in Nat /\ to <= Len(s) /\ from <= to
    BY <1>1, <1>3, <1>4
  <2> HIDE DEF from, to
  <2>2. /\ u \in Seq(Piece) /\ Len(u) = to - from + 1
        /\ \A i \in 1 .. to - from + 1 : u[i] = s[from + i - 1]
    BY <1>5, <2>1
  <2> HIDE DEF u
  <2>3. to - from + 1 \in 1 .. to - from + 1 /\ from + (to - from + 1) - 1 = to
    BY <2>1
  <2>4. Last(u) = s[to]
    BY <2>2, <2>3 DEF Last
  <2> QED
    BY <2>2, <2>4 DEF u, from, to
<1>8. Lines(s) \in Seq(Seq(Piece)) /\ Len(Lines(s)) = n
  <2>1. Lines(s) \in [1 .. n -> Seq(Piece)]
    BY <1>6, <1>7
  <2> QED
    BY <1>1, <2>1
<1>9. \A k \in 1 .. n : Last(Lines(s)[k]) = s[EndOf(s, k)]
  BY <1>6, <1>7
<1>10. Rest(s) \in Seq(Piece) /\ Ends(Rest(s)) = {}
  <2> DEFINE from == LineStart(s, n + 1)
             u == SubSeq(s, from, Len(s))
  <2>1. from \in Nat /\ from >= 1
    BY <1>1, <1>4
  <2>2. \A i \in Ends(s) : i < from
    <3>1. CASE n = 0
      <4>1. Ends(s) = {}
        BY <3>1, EndsTyped, FS_EmptySet DEF n
      <4> QED
        BY <4>1
    <3>2. CASE n # 0
      <4>1. from = EndOf(s, n) + 1
        BY <1>1, <3>2 DEF LineStart
      <4>2. \A i \in Ends(s) : i <= EndOf(s, n) /\ i \in Int
        BY <1>1, <1>2, <3>2
      <4>3. EndOf(s, n) \in Int
        BY <1>1, <1>3, <3>2
      <4> QED
        BY <4>1, <4>2, <4>3
    <3> QED
      BY <3>1, <3>2
  <2>3. Rest(s) = u
    BY DEF Rest, n
  <2> HIDE DEF from
  <2>4. /\ u \in Seq(Piece)
        /\ Len(u) = IF from <= Len(s) THEN Len(s) - from + 1 ELSE 0
        /\ \A i \in 1 .. Len(s) - from + 1 : u[i] = s[from + i - 1]
    BY <1>1, <1>5, <2>1
  <2> HIDE DEF u
  <2>5. \A i \in 1 .. Len(u) : ~ u[i].end
    <3> SUFFICES ASSUME NEW i \in 1 .. Len(u), u[i].end PROVE FALSE
      OBVIOUS
    <3>1. i \in 1 .. Len(s) - from + 1 /\ from + i - 1 \in 1 .. Len(s)
      BY <1>1, <2>1, <2>4
    <3>2. s[from + i - 1].end
      BY <2>4, <3>1
    <3>3. from + i - 1 \in Ends(s)
      BY <1>1, <3>1, <3>2 DEF Ends
    <3> QED
      BY <1>1, <2>1, <2>2, <3>1, <3>3
  <2>6. DOMAIN u = 1 .. Len(u)
    BY <2>4, LenProperties
  <2> QED
    BY <2>3, <2>4, <2>5, <2>6 DEF Ends
<1> QED
  BY <1>2, <1>8, <1>9, <1>10 DEF n

\* Where the k-th line of s ends, 0 before the first.
Place(s, k) == IF k = 0 THEN 0 ELSE EndOf(s, k)

\* Each end is where a line ends.
LEMMA EndOfReaches ==
  ASSUME NEW s \in Seq(Piece), NEW i \in Ends(s)
  PROVE  \E k \in 1 .. Cardinality(Ends(s)) : EndOf(s, k) = i
<1> DEFINE E == Ends(s)
           R == Lower(E)
           n == Cardinality(E)
           k == Rank(E, R, i) + 1
<1>1. E \in SUBSET Int /\ IsFiniteSet(E) /\ n \in Nat /\ Ordered(E, R)
  BY EndsTyped
<1>2. \A j \in E : Cardinality({h \in E : h <= j}) = Rank(E, R, j) + 1 /\ Rank(E, R, j) \in Nat
  BY EndsUpTo
<1> HIDE DEF R
<1>3. Rank(E, R, i) \in Nat /\ Rank(E, R, i) < n
  BY <1>1, RankBounded
<1>4. Cardinality({h \in E : h <= i}) = k
  BY <1>2
<1>5. EndOf(s, k) \in E /\ Cardinality({h \in E : h <= EndOf(s, k)}) = k
  BY <1>4 DEF EndOf
<1>6. k \in 1 .. n
  BY <1>1, <1>3
<1> HIDE DEF E
<1>7. Rank(E, R, EndOf(s, k)) = Rank(E, R, i)
  <2>1. Rank(E, R, EndOf(s, k)) + 1 = Rank(E, R, i) + 1 /\ Rank(E, R, EndOf(s, k)) \in Nat
    BY <1>2, <1>5
  <2> QED
    BY <1>3, <2>1
<1>8. i \in E
  BY DEF E
<1>9. EndOf(s, k) = i
  BY <1>1, <1>5, <1>7, <1>8, RankUnique
<1> QED
  BY <1>6, <1>9 DEF E

\* The lines are consecutive parts, each with its one end at its end, and the rest
\* is what follows the last of them.
LEMMA LinesExact ==
  ASSUME NEW s \in Seq(Piece)
  PROVE  LET n == Len(Lines(s)) IN
         /\ n \in Nat
         /\ \A k \in 0 .. n : Place(s, k) \in 0 .. Len(s)
         /\ \A k \in 1 .. n : /\ Place(s, k - 1) < Place(s, k)
                              /\ Lines(s)[k] = SubSeq(s, Place(s, k - 1) + 1, Place(s, k))
                              /\ Ends(Lines(s)[k]) = {Len(Lines(s)[k])}
         /\ Rest(s) = SubSeq(s, Place(s, n) + 1, Len(s))
<1> DEFINE n == Cardinality(Ends(s))
<1>1. /\ Len(s) \in Nat /\ DOMAIN s = 1 .. Len(s) /\ n \in Nat
      /\ Ends(s) \in SUBSET (1 .. Len(s))
  BY EndsTyped
<1>2. /\ \A k \in 1 .. n : EndOf(s, k) \in Ends(s)
      /\ \A k, l \in 1 .. n : k < l => EndOf(s, k) < EndOf(s, l)
  BY EndOfProperties
<1>3. \A i \in Ends(s) : \E k \in 1 .. n : EndOf(s, k) = i
  BY EndOfReaches
<1>4. /\ Lines(s) = [k \in 1 .. n |-> SubSeq(s, LineStart(s, k), EndOf(s, k))]
      /\ Rest(s) = SubSeq(s, LineStart(s, n + 1), Len(s))
      /\ Len(Lines(s)) = n
  BY LinesProperties DEF Lines, Rest
<1> HIDE DEF n
<1>5. \A k \in 0 .. n : Place(s, k) \in 0 .. Len(s)
  <2> TAKE k \in 0 .. n
  <2>1. CASE k = 0
    BY <1>1, <2>1 DEF Place
  <2>2. CASE k # 0
    <3>1. k \in 1 .. n
      BY <1>1, <2>2
    <3> QED
      BY <1>1, <1>2, <2>2, <3>1 DEF Place
  <2> QED
    BY <2>1, <2>2
<1>6. \A k \in 1 .. n + 1 : LineStart(s, k) = Place(s, k - 1) + 1
  <2> TAKE k \in 1 .. n + 1
  <2>1. CASE k = 1
    BY <2>1 DEF LineStart, Place
  <2>2. CASE k # 1
    <3>1. k - 1 # 0
      BY <1>1, <2>2
    <3> QED
      BY <2>2, <3>1 DEF LineStart, Place
  <2> QED
    BY <2>1, <2>2
<1>7. ASSUME NEW k \in 1 .. n
      PROVE  /\ Place(s, k - 1) < Place(s, k)
             /\ Lines(s)[k] = SubSeq(s, Place(s, k - 1) + 1, Place(s, k))
             /\ Ends(Lines(s)[k]) = {Len(Lines(s)[k])}
  <2> DEFINE a == Place(s, k - 1)
             b == Place(s, k)
             u == SubSeq(s, a + 1, b)
  <2>1. k - 1 \in 0 .. n /\ k \in 0 .. n /\ k # 0 /\ k \in 1 .. n + 1
    BY <1>1
  <2>2. b = EndOf(s, k) /\ b \in Ends(s)
    BY <1>2, <2>1 DEF Place
  <2>3. a \in 0 .. Len(s) /\ b \in 0 .. Len(s)
    BY <1>5, <2>1
  <2>4. a < b
    <3>1. CASE k = 1
      <4>1. a = 0
        BY <3>1 DEF Place
      <4>2. b \in 1 .. Len(s)
        BY <1>1, <2>2
      <4> QED
        BY <1>1, <4>1, <4>2
    <3>2. CASE k # 1
      <4>1. k - 1 \in 1 .. n /\ k - 1 < k /\ k - 1 # 0
        BY <1>1, <3>2
      <4>2. a = EndOf(s, k - 1)
        BY <4>1 DEF Place
      <4> QED
        BY <1>2, <2>2, <4>1, <4>2
    <3> QED
      BY <3>1, <3>2
  <2>5. Lines(s)[k] = u
    BY <1>4, <1>6, <2>1, <2>2
  <2>6. ASSUME NEW i \in Ends(s), a < i, i < b PROVE FALSE
    <3>1. PICK l \in 1 .. n : EndOf(s, l) = i
      BY <1>3
    <3>2. i \in Int /\ l \in Int /\ a \in Int /\ b \in Int
      BY <1>1, <2>3
    <3>3. l < k
      <4>1. ~ (k < l) /\ k # l
        BY <1>2, <2>2, <2>6, <3>1, <3>2
      <4> QED
        BY <1>1, <3>2, <4>1
    <3>4. k - 1 \in 1 .. n /\ k - 1 # 0 /\ (l = k - 1 \/ l < k - 1)
      BY <1>1, <3>3
    <3>5. a = EndOf(s, k - 1)
      BY <3>4 DEF Place
    <3>6. l = k - 1 \/ i < a
      BY <1>2, <3>1, <3>4, <3>5
    <3> QED
      BY <2>6, <3>1, <3>2, <3>5, <3>6
  <2> HIDE DEF a, b
  <2>7. /\ u \in Seq(Piece) /\ Len(u) = b - a
        /\ \A i \in 1 .. b - a : u[i] = s[a + i] /\ a + i \in 1 .. Len(s)
    BY <2>3, <2>4, PartProperties
  <2> HIDE DEF u
  <2>8. DOMAIN u = 1 .. b - a
    BY <2>7, LenProperties
  <2>9. ASSUME NEW i \in 1 .. b - a PROVE u[i].end <=> i = b - a
    <3>1. CASE i = b - a
      <4>1. a + i = b
        BY <2>3, <3>1
      <4>2. s[b].end
        BY <2>2 DEF Ends
      <4> QED
        BY <2>7, <3>1, <4>1, <4>2
    <3>2. CASE i # b - a
      <4>1. a + i \in 1 .. Len(s) /\ a < a + i /\ a + i < b
        BY <1>1, <2>3, <2>7, <3>2
      <4>2. ~ s[a + i].end
        BY <1>1, <2>6, <4>1 DEF Ends
      <4> QED
        BY <2>7, <3>2, <4>2
    <3> QED
      BY <3>1, <3>2
  <2>10. b - a \in 1 .. b - a
    BY <2>3, <2>4
  <2>11. Ends(u) = {b - a}
    BY <2>8, <2>9, <2>10 DEF Ends
  <2> QED
    BY <2>4, <2>5, <2>7, <2>11 DEF a, b, u
<1>8. Rest(s) = SubSeq(s, Place(s, n) + 1, Len(s))
  <2>1. n + 1 \in 1 .. n + 1 /\ (n + 1) - 1 = n
    BY <1>1
  <2> QED
    BY <1>4, <1>6, <2>1
<1> QED
  BY <1>1, <1>4, <1>5, <1>7, <1>8

-----------------------------------------------------------------------------
(* The invariant.                                                           *)

\* The number of the line whose end is written next.
NextEnd == IF half THEN logged ELSE logged + 1

\* The ends in a file are of lines written before, in the order of the lines.
FilesInOrder ==
  /\ half => logged >= 1
  /\ \A f \in Files : \A i \in Ends(content[f]) : content[f][i].line < NextEnd
  /\ \A f \in Files : \A i, j \in Ends(content[f]) :
       i < j => content[f][i].line < content[f][j].line

\* So are the lines that were reported, and what the tail has yet to read of its
\* file ends only later ones.
ReportsInOrder ==
  /\ \A k \in DOMAIN reported :
       Last(reported[k]).line \in Int /\ Last(reported[k]).line < NextEnd
  /\ OnceInOrder
  /\ Ends(partial) = {}
  /\ pc \in {"waiting", "reading"} =>
       \A i \in Ends(content[fd]) : i > offset =>
         \A k \in DOMAIN reported : Last(reported[k]).line < content[fd][i].line

LineInv == TypeOK /\ FilesInOrder /\ ReportsInOrder

\* The constants and the counters are natural numbers.
LEMMA NumbersTyped ==
  ASSUME TypeOK
  PROVE  /\ MaxLines \in Nat /\ MaxRotations \in Nat /\ ReadSize \in Nat /\ ReadSize >= 1
         /\ logged \in Nat /\ rotations \in Nat /\ offset \in Nat
         /\ NoFile \notin Files /\ (NextEnd \in Nat)
         /\ \A f \in Files : content[f] \in Seq(Piece)
BY MaxLinesAssumption, MaxRotationsAssumption, ReadSizeAssumption DEF TypeOK, NoFile, Files, NextEnd

\* At first no line has been logged.
LEMMA InitLines == Init => LineInv
<1> SUFFICES ASSUME Init PROVE LineInv
  OBVIOUS
<1>1. <<>> \in Seq(Piece) /\ <<>> \in Seq(Seq(Piece)) /\ Len(<<>>) = 0
  OBVIOUS
<1>2. TypeOK
  <2>1. 1 \in Files /\ content \in [Files -> Seq(Piece)]
    BY <1>1, MaxRotationsAssumption DEF Init, Files
  <2>2. /\ logged \in 0 .. MaxLines /\ rotations \in 0 .. MaxRotations
        /\ since \in 0 .. Len(reported) /\ start \in Nat /\ offset \in Nat
    BY <1>1, MaxLinesAssumption, MaxRotationsAssumption DEF Init
  <2>3. partial \in Seq(Piece) /\ reported \in Seq(Seq(Piece))
    BY <1>1 DEF Init
  <2> QED
    BY <2>1, <2>2, <2>3 DEF Init, TypeOK
<1>3. Ends(<<>>) = {}
  BY DEF Ends
<1>4. FilesInOrder
  BY <1>3 DEF Init, FilesInOrder
<1>5. ReportsInOrder
  BY <1>1, <1>3 DEF Init, ReportsInOrder, OnceInOrder
<1> QED
  BY <1>2, <1>4, <1>5 DEF LineInv

\* A step of the tail that reads nothing, and opens nothing.
LEMMA GoesLines ==
  ASSUME LineInv, NEW where \in {"open", "reading", "waiting", "retry", "returned"}, Goes(where),
         where \in {"reading", "waiting"} => pc \in {"reading", "waiting"}
  PROVE  LineInv'
<1>1. TypeOK'
  BY DEF LineInv, Goes, TypeOK, service, history, Files, NoFile, Piece
<1>2. FilesInOrder'
  BY DEF LineInv, Goes, FilesInOrder, service, history, Files, NextEnd, Ends
<1>3. ReportsInOrder'
  BY DEF LineInv, Goes, ReportsInOrder, OnceInOrder, service, history, NextEnd, Ends, Last
<1> QED
  BY <1>1, <1>2, <1>3 DEF LineInv

\* What logrotate and the context do without touching a file.
LEMMA QuietLines ==
  ASSUME LineInv, TypeOK',
         UNCHANGED <<content, logged, half, pc, fd, offset, partial, reported>>
  PROVE  LineInv'
<1>1. FilesInOrder'
  BY DEF LineInv, FilesInOrder, Files, NextEnd, Ends
<1>2. ReportsInOrder'
  BY DEF LineInv, ReportsInOrder, OnceInOrder, NextEnd, Ends, Last
<1> QED
  BY <1>1, <1>2 DEF LineInv

\* A line, or half of one, is added at the end of the file that is written to.
LEMMA LogLines == ASSUME LineInv, Log PROVE LineInv'
<1> DEFINE p == [line |-> logged', end |-> half]
           c == content[handle]
           d == Append(c, p)
<1>1. /\ MaxLines \in Nat /\ logged \in Nat /\ NextEnd \in Nat /\ half \in BOOLEAN
      /\ handle \in Files /\ c \in Seq(Piece) /\ Len(c) \in Nat
  BY NumbersTyped, LenProperties DEF LineInv, TypeOK
<1>2. /\ logged' = NextEnd /\ logged' \in 1 .. MaxLines /\ half' \in BOOLEAN
      /\ (half' => logged' >= 1)
  BY <1>1 DEF LineInv, TypeOK, FilesInOrder, Log, NextEnd
<1>3. NextEnd' \in Nat /\ NextEnd <= NextEnd' /\ (half => NextEnd' = NextEnd + 1)
  <2>1. half' = ~ half
    BY DEF Log
  <2>2. NextEnd' = IF half' THEN logged' ELSE logged' + 1
    BY DEF NextEnd
  <2>3. CASE half
    <3>1. NextEnd' = logged' + 1
      BY <2>1, <2>2, <2>3
    <3> QED
      BY <1>1, <1>2, <3>1
  <2>4. CASE ~ half
    <3>1. NextEnd' = logged'
      BY <2>1, <2>2, <2>4
    <3> QED
      BY <1>1, <1>2, <2>4, <3>1
  <2> QED
    BY <2>3, <2>4
<1>4. p \in Piece
  BY <1>1, <1>2 DEF Piece
<1>5. /\ d \in Seq(Piece) /\ Len(d) = Len(c) + 1
      /\ \A i \in 1 .. Len(c) : d[i] = c[i]
      /\ d[Len(c) + 1] = p
  BY <1>1, <1>4, AppendProperties
<1>6. content' = [content EXCEPT ![handle] = d] /\ content \in [Files -> Seq(Piece)]
  BY DEF Log, LineInv, TypeOK
<1> HIDE DEF p, d, c
<1>7. content' \in [Files -> Seq(Piece)] /\ content'[handle] = d /\ c = content[handle]
      /\ \A f \in Files : f # handle => content'[f] = content[f]
  BY <1>1, <1>5, <1>6 DEF c
<1>8. TypeOK'
  <2>1. logged' \in 0 .. MaxLines
    BY <1>1, <1>2
  <2>2. UNCHANGED <<path, handle, rotations, cancelled, pc, fd, offset, partial, reported, start,
                    since, cut>>
    BY DEF Log, history
  <2>3. TypeOK
    BY DEF LineInv
  <2> QED
    BY <1>2, <1>7, <2>1, <2>2, <2>3 DEF TypeOK
<1>9. \A i \in Ends(d) : /\ i \in Int
                         /\ \/ i \in Ends(c) /\ i <= Len(c) /\ d[i] = c[i]
                            \/ i = Len(c) + 1 /\ half /\ d[i].line = NextEnd
  <2> TAKE i \in Ends(d)
  <2>1. i \in 1 .. Len(c) + 1 /\ d[i].end
    BY <1>5, LenProperties DEF Ends
  <2>2. CASE i = Len(c) + 1
    BY <1>1, <1>2, <1>5, <2>1, <2>2 DEF p
  <2>3. CASE i # Len(c) + 1
    <3>1. i \in 1 .. Len(c) /\ d[i] = c[i]
      BY <1>1, <1>5, <2>1, <2>3
    <3>2. DOMAIN c = 1 .. Len(c)
      BY <1>1, LenProperties
    <3>3. i \in Ends(c)
      BY <2>1, <3>1, <3>2 DEF Ends
    <3> QED
      BY <1>1, <3>1, <3>3
  <2> QED
    BY <2>2, <2>3
<1>10. \A f \in Files : \A i \in Ends(content[f]) : content[f][i].line \in Int /\ content[f][i].line < NextEnd
  <2> TAKE f \in Files
  <2> TAKE i \in Ends(content[f])
  <2>1. content[f] \in Seq(Piece)
    BY <1>6
  <2>2. i \in 1 .. Len(content[f])
    BY <2>1, LenProperties DEF Ends
  <2>3. content[f][i] \in Piece
    BY <2>1, <2>2, ElementOfSeq
  <2>4. content[f][i].line < NextEnd
    BY DEF LineInv, FilesInOrder
  <2> QED
    BY <1>1, <2>3, <2>4 DEF Piece
<1>11. FilesInOrder'
  <2>1. ASSUME NEW f \in Files, NEW i \in Ends(content'[f]) PROVE content'[f][i].line < NextEnd'
    <3>1. CASE f = handle
      <4>1. i \in Ends(d) /\ content'[f] = d
        BY <1>7, <2>1, <3>1
      <4>2. CASE i \in Ends(c) /\ d[i] = c[i]
        <5>1. c[i].line \in Int /\ c[i].line < NextEnd
          BY <1>1, <1>7, <1>10, <4>2
        <5>2. content'[f][i].line = c[i].line
          BY <4>1, <4>2
        <5> QED
          BY <1>1, <1>3, <5>1, <5>2
      <4>3. CASE half /\ d[i].line = NextEnd
        <5>1. NextEnd' = NextEnd + 1
          BY <1>3, <4>3
        <5>2. content'[f][i].line = NextEnd
          BY <4>1, <4>3
        <5> QED
          BY <1>1, <5>1, <5>2
      <4> QED
        BY <1>9, <4>1, <4>2, <4>3
    <3>2. CASE f # handle
      <4>1. content'[f] = content[f] /\ i \in Ends(content[f])
        BY <1>7, <2>1, <3>2
      <4>2. content[f][i].line \in Int /\ content[f][i].line < NextEnd
        BY <1>10, <4>1
      <4> QED
        BY <1>1, <1>3, <4>1, <4>2
    <3> QED
      BY <3>1, <3>2
  <2>2. ASSUME NEW f \in Files, NEW i \in Ends(content'[f]), NEW j \in Ends(content'[f]), i < j
        PROVE  content'[f][i].line < content'[f][j].line
    <3>1. CASE f = handle
      <4>1. i \in Ends(d) /\ j \in Ends(d) /\ content'[f] = d
        BY <1>7, <2>2, <3>1
      <4>2. CASE j \in Ends(c) /\ j <= Len(c) /\ d[j] = c[j]
        <5>1. i # Len(c) + 1
          BY <1>1, <1>9, <2>2, <4>1, <4>2
        <5>2. i \in Ends(c) /\ d[i] = c[i]
          BY <1>9, <4>1, <5>1
        <5>3. c[i].line < c[j].line
          BY <1>1, <1>7, <2>2, <4>2, <5>2 DEF LineInv, FilesInOrder
        <5> QED
          BY <4>1, <4>2, <5>2, <5>3
      <4>3. CASE j = Len(c) + 1 /\ d[j].line = NextEnd
        <5>1. i # Len(c) + 1
          BY <1>1, <1>9, <2>2, <4>1, <4>3
        <5>2. i \in Ends(c) /\ d[i] = c[i]
          BY <1>9, <4>1, <5>1
        <5> QED
          BY <1>1, <1>7, <1>10, <4>1, <4>3, <5>2
      <4> QED
        BY <1>9, <4>1, <4>2, <4>3
    <3>2. CASE f # handle
      BY <1>7, <2>2, <3>2 DEF LineInv, FilesInOrder
    <3> QED
      BY <3>1, <3>2
  <2> QED
    BY <1>2, <2>1, <2>2 DEF FilesInOrder
<1>12. ReportsInOrder'
  <2>1. reported' = reported /\ partial' = partial /\ pc' = pc /\ fd' = fd /\ offset' = offset
    BY DEF Log
  <2>2. \A k \in DOMAIN reported : /\ Last(reported[k]).line \in Int
                                    /\ Last(reported[k]).line < NextEnd
                                    /\ Last(reported[k]).line < NextEnd'
    BY <1>1, <1>3 DEF LineInv, ReportsInOrder
  <2>3. ASSUME pc \in {"waiting", "reading"}, NEW i \in Ends(content'[fd]), i > offset,
               NEW k \in DOMAIN reported
        PROVE  Last(reported[k]).line < content'[fd][i].line
    <3>1. fd \in Files
      BY <2>3 DEF LineInv, TypeOK
    <3>2. \A j \in Ends(content[fd]) : j > offset => Last(reported[k]).line < content[fd][j].line
      BY <2>3 DEF LineInv, ReportsInOrder
    <3>3. CASE fd = handle
      BY <1>7, <1>9, <2>2, <2>3, <3>2, <3>3
    <3>4. CASE fd # handle
      BY <1>7, <2>3, <3>1, <3>2, <3>4
    <3> QED
      BY <3>3, <3>4
  <2>4. OnceInOrder' /\ Ends(partial)' = {}
    BY <2>1 DEF LineInv, ReportsInOrder, OnceInOrder, Last, Ends
  <2>5. \A k \in DOMAIN reported' : Last(reported'[k]).line \in Int /\ Last(reported'[k]).line < NextEnd'
    BY <2>1, <2>2
  <2>6. pc' \in {"waiting", "reading"} =>
          \A i \in Ends(content'[fd']) : i > offset' =>
            \A k \in DOMAIN reported' : Last(reported'[k]).line < content'[fd'][i].line
    BY <2>1, <2>3
  <2> QED
    BY <2>4, <2>5, <2>6 DEF ReportsInOrder
<1> QED
  BY <1>8, <1>11, <1>12 DEF LineInv

\* A file that is truncated has no lines.
LEMMA TruncateLines == ASSUME LineInv, Truncate PROVE LineInv'
<1>1. /\ path \in Files /\ content \in [Files -> Seq(Piece)]
      /\ MaxRotations \in Nat /\ rotations \in Nat
  BY NumbersTyped DEF LineInv, TypeOK, Truncate
<1>2. <<>> \in Seq(Piece) /\ Ends(<<>>) = {}
  BY DEF Ends
<1>3. content' \in [Files -> Seq(Piece)] /\ content'[path] = <<>>
      /\ \A f \in Files : f # path => content'[f] = content[f]
  BY <1>1, <1>2 DEF Truncate
<1>4. UNCHANGED <<path, handle, logged, half, cancelled, pc, fd, offset, partial, reported, start, since>>
  BY DEF Truncate
<1>5. TypeOK'
  <2>1. rotations' \in 0 .. MaxRotations
    BY <1>1 DEF Truncate
  <2>2. cut' \in BOOLEAN
    BY DEF Truncate, LineInv, TypeOK
  <2> QED
    BY <1>3, <1>4, <2>1, <2>2 DEF LineInv, TypeOK
<1>6. \A f \in Files : \A i \in Ends(content'[f]) : content'[f] = content[f]
  BY <1>1, <1>2, <1>3
<1>7. FilesInOrder'
  <2>1. NextEnd' = NextEnd
    BY <1>4 DEF NextEnd
  <2> QED
    BY <1>4, <1>6, <2>1 DEF LineInv, FilesInOrder
<1>8. ReportsInOrder'
  <2>1. NextEnd' = NextEnd /\ (pc \in {"waiting", "reading"} => fd \in Files)
    BY <1>4 DEF NextEnd, LineInv, TypeOK
  <2>2. OnceInOrder' /\ Ends(partial)' = {}
    BY <1>4 DEF LineInv, ReportsInOrder, OnceInOrder, Last, Ends
  <2> QED
    BY <1>4, <1>6, <2>1, <2>2 DEF LineInv, ReportsInOrder
<1> QED
  BY <1>5, <1>7, <1>8 DEF LineInv

\* A file is opened at its end: what it holds by then is not read.
LEMMA OpenLines == ASSUME LineInv, Open PROVE LineInv'
<1>1. CASE path = NoFile
  <2>1. Goes("retry")
    BY <1>1 DEF Open
  <2> QED
    BY <2>1, GoesLines
<1>2. CASE path # NoFile
  <2>1. /\ path \in Files /\ content[path] \in Seq(Piece) /\ Len(content[path]) \in Nat
        /\ DOMAIN content[path] = 1 .. Len(content[path])
    BY <1>2, NumbersTyped, LenProperties DEF LineInv, TypeOK
  <2>2. /\ fd' = path /\ offset' = Len(content[path]) /\ partial' = <<>> /\ pc' = "waiting"
        /\ start' = Len(content[path]) /\ since' = Len(reported) /\ cut' = FALSE
        /\ UNCHANGED <<content, path, handle, logged, half, rotations, cancelled, reported>>
    BY <1>2 DEF Open, OpenFrom, Size, service
  <2>3. TypeOK'
    <3>1. Len(reported) \in Nat /\ reported' \in Seq(Seq(Piece))
      BY <2>2, LenProperties DEF LineInv, TypeOK
    <3>2. since' \in 0 .. Len(reported') /\ <<>> \in Seq(Piece) /\ NoFile \notin Files
      BY <2>2, <3>1, NumbersTyped DEF LineInv
    <3> QED
      BY <2>1, <2>2, <3>1, <3>2 DEF LineInv, TypeOK
  <2>4. FilesInOrder'
    BY <2>2 DEF LineInv, FilesInOrder, NextEnd
  <2>5. ReportsInOrder'
    <3>1. Ends(<<>>) = {}
      BY DEF Ends
    <3>2. \A i \in Ends(content[path]) : ~ (i > Len(content[path]))
      BY <2>1 DEF Ends
    <3>3. NextEnd' = NextEnd
      BY <2>2 DEF NextEnd
    <3>4. OnceInOrder'
      BY <2>2 DEF LineInv, ReportsInOrder, OnceInOrder, Last
    <3> QED
      BY <2>2, <3>1, <3>2, <3>3, <3>4 DEF LineInv, ReportsInOrder
  <2> QED
    BY <2>3, <2>4, <2>5 DEF LineInv
<1> QED
  BY <1>1, <1>2

\* What is read is reported up to the last end of a line, the rest is kept.
LEMMA ReadLines == ASSUME LineInv, Read PROVE LineInv'
<1> DEFINE c == content[fd]
           until == IF offset + ReadSize < Size(fd) THEN offset + ReadSize ELSE Size(fd)
           bytes == SubSeq(c, offset + 1, until)
           chunk == partial \o bytes
           more == Lines(chunk)
<1>1. /\ fd \in Files /\ c \in Seq(Piece) /\ Len(c) \in Nat /\ DOMAIN c = 1 .. Len(c)
      /\ offset \in Nat /\ ReadSize \in Nat /\ NextEnd \in Nat
  BY NumbersTyped, LenProperties DEF LineInv, TypeOK, Read
<1>2. until \in Nat /\ until <= Len(c)
  BY <1>1 DEF Size
<1>3. CASE bytes = <<>>
  <2>1. Goes("waiting") /\ pc = "reading"
    BY <1>3 DEF Read
  <2> QED
    BY <2>1, GoesLines
<1>4. CASE bytes # <<>>
  <2>1. /\ offset' = until /\ reported' = reported \o more /\ partial' = Rest(chunk)
        /\ UNCHANGED <<content, path, handle, logged, half, rotations, cancelled, pc, fd,
                       start, since, cut>>
    BY <1>4 DEF Read, service, history
  <2> HIDE DEF until
  <2>2. \A i \in offset + 1 .. until : c[i] \in Piece
    <3> TAKE i \in offset + 1 .. until
    <3>1. i \in 1 .. Len(c)
      BY <1>1, <1>2
    <3> QED
      BY <1>1, <3>1, ElementOfSeq
  <2>3. /\ bytes \in Seq(Piece)
        /\ Len(bytes) = IF offset + 1 <= until THEN until - offset ELSE 0
        /\ \A i \in 1 .. until - offset : bytes[i] = c[offset + i]
    <3>1. offset + 1 \in Nat /\ until - (offset + 1) + 1 = until - offset
          /\ \A i \in 1 .. until - offset : offset + 1 + i - 1 = offset + i
      BY <1>1, <1>2
    <3> QED
      BY <1>1, <1>2, <2>2, <3>1, SubSeqProperties
  <2> HIDE DEF c, bytes
  <2>4. partial \in Seq(Piece) /\ Len(partial) \in Nat /\ Len(bytes) \in Nat /\ Ends(partial) = {}
        /\ DOMAIN partial = 1 .. Len(partial)
    BY <2>3, LenProperties DEF LineInv, TypeOK, ReportsInOrder
  <2>5. /\ chunk \in Seq(Piece) /\ Len(chunk) = Len(partial) + Len(bytes)
        /\ \A i \in 1 .. Len(chunk) :
             chunk[i] = IF i <= Len(partial) THEN partial[i] ELSE bytes[i - Len(partial)]
    BY <2>3, <2>4, ConcatProperties
  <2> DEFINE At(i) == offset + (i - Len(partial))
  <2> HIDE DEF chunk
  <2>6. ASSUME NEW i \in Ends(chunk)
        PROVE  /\ i \in Int /\ At(i) \in Ends(c) /\ At(i) \in offset + 1 .. until
               /\ chunk[i] = c[At(i)]
    <3>1. i \in 1 .. Len(chunk) /\ chunk[i].end
      BY <2>5, LenProperties DEF Ends
    <3>2. ~ (i <= Len(partial))
      <4> SUFFICES ASSUME i <= Len(partial) PROVE FALSE
        OBVIOUS
      <4>1. i \in DOMAIN partial /\ partial[i].end
        BY <2>4, <2>5, <3>1
      <4> QED
        BY <2>4, <4>1 DEF Ends
    <3>3. i - Len(partial) \in 1 .. until - offset /\ chunk[i] = bytes[i - Len(partial)]
      BY <1>1, <1>2, <2>3, <2>4, <2>5, <3>1, <3>2
    <3>4. chunk[i] = c[At(i)]
      BY <2>3, <3>3
    <3>5. At(i) \in offset + 1 .. until /\ At(i) \in 1 .. Len(c)
      BY <1>1, <1>2, <2>4, <3>1, <3>3
    <3>6. At(i) \in Ends(c)
      BY <1>1, <3>1, <3>4, <3>5 DEF Ends, c
    <3> QED
      BY <2>5, <3>1, <3>4, <3>5, <3>6
  <2>7. /\ more \in Seq(Seq(Piece)) /\ Len(more) \in Nat
        /\ \A k \in 1 .. Len(more) :
             EndOf(chunk, k) \in Ends(chunk) /\ Last(more[k]) = chunk[EndOf(chunk, k)]
        /\ \A k, l \in 1 .. Len(more) : k < l => EndOf(chunk, k) < EndOf(chunk, l)
        /\ Rest(chunk) \in Seq(Piece) /\ Ends(Rest(chunk)) = {}
    BY <2>5, LinesProperties, LenProperties
  <2> HIDE DEF more
  <2>8. /\ reported \in Seq(Seq(Piece)) /\ Len(reported) \in Nat
        /\ DOMAIN reported = 1 .. Len(reported)
    BY LenProperties DEF LineInv, TypeOK
  <2>9. /\ reported' \in Seq(Seq(Piece)) /\ Len(reported') = Len(reported) + Len(more)
        /\ DOMAIN reported' = 1 .. Len(reported) + Len(more)
        /\ \A k \in 1 .. Len(reported) + Len(more) :
             reported'[k] = IF k <= Len(reported) THEN reported[k] ELSE more[k - Len(reported)]
    BY <2>1, <2>7, <2>8, ConcatProperties, LenProperties
  <2>10. TypeOK'
    <3>1. since' \in 0 .. Len(reported')
      BY <2>1, <2>7, <2>8, <2>9 DEF LineInv, TypeOK
    <3>2. offset' \in Nat /\ partial' \in Seq(Piece) /\ reported' \in Seq(Seq(Piece))
      BY <1>2, <2>1, <2>7, <2>9
    <3> QED
      BY <2>1, <3>1, <3>2 DEF LineInv, TypeOK
  <2>11. FilesInOrder'
    BY <2>1 DEF LineInv, FilesInOrder, NextEnd
  <2>12. \A k \in 1 .. Len(reported) :
           /\ reported'[k] = reported[k] /\ k \in Int
           /\ Last(reported[k]).line \in Int /\ Last(reported[k]).line < NextEnd
    <3>1. \A k \in 1 .. Len(reported) :
            Last(reported[k]).line \in Int /\ Last(reported[k]).line < NextEnd
      BY <2>8 DEF LineInv, ReportsInOrder
    <3>2. \A k \in 1 .. Len(reported) : reported'[k] = reported[k] /\ k \in Int
      BY <2>7, <2>8, <2>9
    <3> QED
      BY <3>1, <3>2
  <2>13. ASSUME NEW k \in Len(reported) + 1 .. Len(reported) + Len(more)
         PROVE  \E e \in Ends(c) :
                  /\ e = At(EndOf(chunk, k - Len(reported)))
                  /\ e \in offset + 1 .. until /\ Last(reported'[k]) = c[e]
    <3> DEFINE m == k - Len(reported)
    <3>1. m \in 1 .. Len(more) /\ reported'[k] = more[m]
      BY <2>7, <2>8, <2>9
    <3> HIDE DEF m
    <3>2. EndOf(chunk, m) \in Ends(chunk) /\ Last(reported'[k]) = chunk[EndOf(chunk, m)]
      BY <2>7, <3>1
    <3> HIDE DEF At
    <3>3. At(EndOf(chunk, m)) \in Ends(c)
      BY <2>6, <3>2
    <3> QED
      BY <2>6, <3>2, <3>3 DEF m
  <2>14. \A e \in Ends(c) : c[e].line \in Int /\ c[e].line < NextEnd
    <3> TAKE e \in Ends(c)
    <3>1. e \in 1 .. Len(c)
      BY <1>1 DEF Ends, c
    <3>2. c[e] \in Piece
      BY <1>1, <3>1, ElementOfSeq DEF c
    <3> QED
      BY <1>1, <3>2 DEF LineInv, FilesInOrder, Piece, c
  <2>15. \A e, g \in Ends(c) : e < g => c[e].line < c[g].line
    BY <1>1 DEF LineInv, FilesInOrder, c
  <2>16. \A e \in Ends(c) : e > offset =>
           \A k \in DOMAIN reported : Last(reported[k]).line < c[e].line
    BY DEF LineInv, ReportsInOrder, Read, c
  <2>17. \A k \in DOMAIN reported' :
           Last(reported'[k]).line \in Int /\ Last(reported'[k]).line < NextEnd
    <3> TAKE k \in DOMAIN reported'
    <3>1. CASE k \in 1 .. Len(reported)
      BY <2>12, <3>1
    <3>2. CASE k \in Len(reported) + 1 .. Len(reported) + Len(more)
      BY <2>13, <2>14, <3>2
    <3> QED
      BY <2>7, <2>8, <2>9, <3>1, <3>2
  <2>18. ASSUME NEW i \in DOMAIN reported', NEW j \in DOMAIN reported', i < j
         PROVE  Last(reported'[i]).line < Last(reported'[j]).line
    <3>1. CASE j \in 1 .. Len(reported)
      <4>1. i \in 1 .. Len(reported)
        BY <2>7, <2>8, <2>9, <2>18, <3>1
      <4>2. Last(reported[i]).line < Last(reported[j]).line
        BY <2>8, <2>18, <3>1, <4>1 DEF LineInv, ReportsInOrder, OnceInOrder
      <4> QED
        BY <2>12, <3>1, <4>1, <4>2
    <3>2. CASE j \in Len(reported) + 1 .. Len(reported) + Len(more)
      <4>1. PICK g \in Ends(c) : /\ g = At(EndOf(chunk, j - Len(reported)))
                                 /\ g \in offset + 1 .. until /\ Last(reported'[j]) = c[g]
        BY <2>13, <3>2
      <4>2. CASE i \in 1 .. Len(reported)
        <5>1. g > offset
          BY <1>1, <1>2, <4>1
        <5>2. Last(reported[i]).line < c[g].line
          BY <2>8, <2>16, <4>2, <5>1
        <5> QED
          BY <2>12, <4>1, <4>2, <5>2
      <4>3. CASE i \in Len(reported) + 1 .. Len(reported) + Len(more)
        <5>1. PICK e \in Ends(c) : /\ e = At(EndOf(chunk, i - Len(reported)))
                                   /\ e \in offset + 1 .. until /\ Last(reported'[i]) = c[e]
          BY <2>13, <4>3
        <5> DEFINE m == i - Len(reported)
                   n == j - Len(reported)
        <5>2. m \in 1 .. Len(more) /\ n \in 1 .. Len(more) /\ m < n
          BY <2>7, <2>8, <2>18, <3>2, <4>3
        <5>3. e = At(EndOf(chunk, m)) /\ g = At(EndOf(chunk, n))
          BY <4>1, <5>1
        <5> HIDE DEF m, n
        <5>4. /\ EndOf(chunk, m) < EndOf(chunk, n)
              /\ EndOf(chunk, m) \in Int /\ EndOf(chunk, n) \in Int
          BY <2>6, <2>7, <5>2
        <5>5. e < g
          BY <1>1, <2>4, <5>3, <5>4
        <5> QED
          BY <2>15, <4>1, <5>1, <5>5
      <4> QED
        BY <2>7, <2>8, <2>9, <4>2, <4>3
    <3> QED
      BY <2>7, <2>8, <2>9, <3>1, <3>2
  <2>19. ASSUME NEW e \in Ends(c), e > until, NEW k \in DOMAIN reported'
         PROVE  Last(reported'[k]).line < c[e].line
    <3>1. e \in Int /\ until - offset \in Nat
      <4>1. e \in Int
        BY <1>1 DEF Ends, c
      <4>2. until - offset \in Nat
        BY <1>1, <1>2, <1>4, <2>3
      <4> QED
        BY <4>1, <4>2
    <3>2. CASE k \in 1 .. Len(reported)
      <4>1. e > offset
        BY <1>1, <1>2, <2>19, <3>1
      <4> QED
        BY <2>8, <2>12, <2>16, <3>2, <4>1
    <3>3. CASE k \in Len(reported) + 1 .. Len(reported) + Len(more)
      <4>1. PICK g \in Ends(c) : g \in offset + 1 .. until /\ Last(reported'[k]) = c[g]
        BY <2>13, <3>3
      <4>2. g < e
        BY <1>1, <1>2, <2>19, <3>1, <4>1
      <4> QED
        BY <2>15, <4>1, <4>2
    <3> QED
      BY <2>7, <2>8, <2>9, <3>2, <3>3
  <2>20. NextEnd' = NextEnd /\ content'[fd'] = c /\ offset' = until /\ Ends(partial') = {}
    BY <2>1, <2>7 DEF NextEnd, c
  <2>21. OnceInOrder'
    BY <2>18 DEF OnceInOrder
  <2>22. ReportsInOrder'
    BY <2>17, <2>19, <2>20, <2>21 DEF ReportsInOrder
  <2> QED
    BY <2>10, <2>11, <2>22 DEF LineInv
<1> QED
  BY <1>3, <1>4

\* All actions together.
LEMMA NextLines == ASSUME LineInv, Next PROVE LineInv'
<1>1. CASE Log
  BY <1>1, LogLines
<1>2. CASE Rename
  <2>1. rotations' \in 0 .. MaxRotations
    BY <1>2, NumbersTyped DEF LineInv, Rename
  <2>2. TypeOK'
    BY <1>2, <2>1 DEF LineInv, TypeOK, Rename, history
  <2> QED
    BY <1>2, <2>2, QuietLines DEF Rename, history
<1>3. CASE Create
  <2>1. path' \in Files
    <3>1. rotations \in 0 .. MaxRotations
      BY DEF LineInv, TypeOK
    <3> QED
      BY <1>3, <3>1, NumbersTyped DEF LineInv, Create, Files
  <2>2. TypeOK'
    BY <1>3, <2>1 DEF LineInv, TypeOK, Create, history
  <2> QED
    BY <1>3, <2>2, QuietLines DEF Create, history
<1>4. CASE Reopen
  <2>1. TypeOK'
    BY <1>4 DEF LineInv, TypeOK, Reopen, history
  <2> QED
    BY <1>4, <2>1, QuietLines DEF Reopen, history
<1>5. CASE Truncate
  BY <1>5, TruncateLines
<1>6. CASE Cancel
  <2>1. TypeOK'
    BY <1>6 DEF LineInv, TypeOK, Cancel, service, history
  <2> QED
    BY <1>6, <2>1, QuietLines DEF Cancel, service, history
<1>7. CASE Open
  BY <1>7, OpenLines
<1>8. CASE Poll
  BY <1>8, GoesLines DEF Poll
<1>9. CASE Read
  BY <1>9, ReadLines
<1>10. CASE Done
  BY <1>10, GoesLines DEF Done
<1>11. CASE Retry
  BY <1>11, GoesLines DEF Retry
<1>12. CASE Return
  BY <1>12, GoesLines DEF Return
<1> QED
  BY <1>1, <1>2, <1>3, <1>4, <1>5, <1>6, <1>7, <1>8, <1>9, <1>10, <1>11, <1>12 DEF Next, Step

\* A step of another component.
LEMMA StutterLines == ASSUME LineInv, UNCHANGED vars PROVE LineInv'
<1>1. TypeOK'
  BY DEF LineInv, TypeOK, vars, service, history
<1> QED
  BY <1>1, QuietLines DEF vars, service, history

\* So it holds for ever.
LEMMA LineInvariance == Spec => []LineInv
<1>1. LineInv /\ [Next]_vars => LineInv'
  BY NextLines, StutterLines
<1> QED
  BY <1>1, InitLines, PTL DEF Spec

-----------------------------------------------------------------------------
\* The shapes of the tail's state (tailOnce): while it waits or reads it has a file open.
THEOREM TypeCorrect == Spec => []TypeOK
<1>1. LineInv => TypeOK
  BY DEF LineInv
<1> QED
  BY <1>1, LineInvariance, PTL

\* However logrotate renames and truncates the file, and wherever a read cuts a line, the
\* lines reach matchLine in the order in which the service logged them, none twice: tailOnce
\* opens a file at its end, and reads from where it was.
THEOREM ReportedOnce == Spec => []OnceInOrder
<1>1. LineInv => OnceInOrder
  BY DEF LineInv, ReportsInOrder
<1> QED
  BY <1>1, LineInvariance, PTL
-----------------------------------------------------------------------------
(* What was read, line by line.                                             *)

\* How many lines were reported of the file that is open.
Told == Len(reported) - since

\* The places e, from the one where the file was opened, divide what was read of it into
\* the lines that were reported and the part of a line that is held back.
Divided(e) ==
  /\ offset <= Size(fd)
  /\ e[0] = start
  /\ \A k \in 0 .. Told : e[k] \in 0 .. offset /\ start <= e[k]
  /\ \A k \in 1 .. Told :
       /\ e[k - 1] <= e[k]
       /\ reported[since + k] = SubSeq(content[fd], e[k - 1] + 1, e[k])
       /\ Ends(reported[since + k]) = {Len(reported[since + k])}
  /\ partial = SubSeq(content[fd], e[Told] + 1, offset)

WholeInv ==
  pc \in {"waiting", "reading"} /\ ~ cut => \E e : Divided(e)

\* The counts of what was told are natural numbers.
LEMMA ToldTyped ==
  ASSUME TypeOK
  PROVE  Len(reported) \in Nat /\ since \in Nat /\ Told \in Nat /\ start \in Nat /\ offset \in Nat
<1>1. Len(reported) \in Nat
  BY LenProperties DEF TypeOK
<1> QED
  BY <1>1 DEF TypeOK, Told

\* Places that divide what was read make of it the lines and the rest.
LEMMA WholeReads == ASSUME LineInv, WholeInv PROVE ReadsWhole
<1> SUFFICES ASSUME pc \in {"waiting", "reading"}, ~ cut
             PROVE  LET lines == SubSeq(reported, since + 1, Len(reported)) IN
                    /\ FlattenSeq(lines) \o partial = SubSeq(content[fd], start + 1, offset)
                    /\ \A k \in DOMAIN lines : Ends(lines[k]) = {Len(lines[k])}
                    /\ Ends(partial) = {}
  BY DEF ReadsWhole
<1> DEFINE lines == SubSeq(reported, since + 1, Len(reported))
           c == content[fd]
<1>1. PICK e : Divided(e)
  BY DEF WholeInv
<1>2. /\ Len(reported) \in Nat /\ since \in Nat /\ Told \in Nat /\ start \in Nat /\ offset \in Nat
      /\ since \in 0 .. Len(reported)
  BY ToldTyped DEF LineInv, TypeOK
<1>3. c \in Seq(Piece) /\ Len(c) \in Nat /\ offset \in 0 .. Len(c)
  <2>1. c \in Seq(Piece) /\ Len(c) \in Nat
    BY LenProperties DEF LineInv, TypeOK
  <2> QED
    BY <1>1, <1>2, <2>1 DEF Divided, Size
<1>4. /\ lines \in Seq(Seq(Piece)) /\ Len(lines) = Told
      /\ \A k \in 1 .. Told : lines[k] = reported[since + k]
  <2>1. reported \in Seq(Seq(Piece)) /\ Len(reported) \in 0 .. Len(reported)
        /\ since <= Len(reported)
    BY <1>2 DEF LineInv, TypeOK
  <2> QED
    BY <1>2, <2>1, PartProperties DEF Told
<1> HIDE DEF lines, c
<1>5. /\ \A k \in 0 .. Told : e[k] \in 0 .. Len(c) /\ e[0] <= e[k]
      /\ \A k \in 1 .. Told : e[k - 1] <= e[k] /\ lines[k] = SubSeq(c, e[k - 1] + 1, e[k])
      /\ \A k \in 1 .. Told : Ends(lines[k]) = {Len(lines[k])}
  <2>1. \A k \in 0 .. Told : e[k] \in 0 .. Len(c) /\ e[0] <= e[k]
    BY <1>1, <1>2, <1>3 DEF Divided
  <2>2. \A k \in 1 .. Told : e[k - 1] <= e[k] /\ lines[k] = SubSeq(c, e[k - 1] + 1, e[k])
    BY <1>1, <1>4 DEF Divided, c
  <2>3. \A k \in 1 .. Told : Ends(lines[k]) = {Len(lines[k])}
    BY <1>1, <1>4 DEF Divided
  <2> QED
    BY <2>1, <2>2, <2>3
<1>6. FlattenSeq(lines) = SubSeq(c, e[0] + 1, e[Told])
  BY <1>3, <1>4, <1>5, FlattenParts
<1>7. FlattenSeq(lines) \o partial = SubSeq(c, start + 1, offset)
  <2> DEFINE b == e[Told]
  <2>1. Told \in 0 .. Told
    BY <1>2
  <2>2. /\ start \in 0 .. Len(c) /\ b \in 0 .. Len(c) /\ start <= b /\ b <= offset
        /\ e[0] = start
    BY <1>1, <1>2, <1>3, <2>1 DEF Divided
  <2>3. partial = SubSeq(c, b + 1, offset)
    BY <1>1 DEF Divided, c
  <2> HIDE DEF b
  <2>4. SubSeq(c, start + 1, b) \o SubSeq(c, b + 1, offset) = SubSeq(c, start + 1, offset)
    BY <1>3, <2>2, PartsJoin
  <2>5. FlattenSeq(lines) = SubSeq(c, start + 1, b)
    BY <1>6, <2>2 DEF b
  <2> QED
    BY <2>3, <2>4, <2>5
<1>8. \A k \in DOMAIN lines : Ends(lines[k]) = {Len(lines[k])}
  <2>1. DOMAIN lines = 1 .. Told
    BY <1>4, LenProperties
  <2> QED
    BY <1>5, <2>1
<1>9. Ends(partial) = {}
  BY DEF LineInv, ReportsInOrder
<1> QED
  BY <1>7, <1>8, <1>9 DEF lines, c

\* Steps that leave what was read, what was reported and the files alone.
LEMMA QuietWhole ==
  ASSUME WholeInv, UNCHANGED <<content, fd, offset, partial, reported, start, since, cut>>,
         pc' \in {"waiting", "reading"} => pc \in {"waiting", "reading"}
  PROVE  WholeInv'
<1> SUFFICES ASSUME pc' \in {"waiting", "reading"}, ~ cut' PROVE \E e : Divided(e)'
  BY DEF WholeInv
<1>1. PICK e : Divided(e)
  BY DEF WholeInv
<1>2. Divided(e)'
  BY <1>1 DEF Divided, Told, Size
<1> QED
  BY <1>2

\* What is logged comes after everything that was read.
LEMMA LogWhole == ASSUME LineInv, WholeInv, Log PROVE WholeInv'
<1> DEFINE p == [line |-> logged', end |-> half]
           c == content[fd]
<1> SUFFICES ASSUME pc' \in {"waiting", "reading"}, ~ cut' PROVE \E e : Divided(e)'
  BY DEF WholeInv
<1>1. UNCHANGED <<pc, fd, offset, partial, reported, start, since, cut>>
  BY DEF Log, history
<1>2. PICK e : Divided(e)
  BY <1>1 DEF WholeInv
<1>3. /\ c \in Seq(Piece) /\ Len(c) \in Nat /\ fd \in Files /\ Told \in Nat /\ offset \in Nat
      /\ start \in Nat
  BY <1>1, ToldTyped, LenProperties DEF LineInv, TypeOK
<1>4. p \in Piece
  <2>1. logged' \in 1 .. MaxLines
    BY NumbersTyped DEF LineInv, FilesInOrder, TypeOK, Log
  <2> QED
    BY <2>1 DEF Piece, LineInv, TypeOK
<1>5. content'[fd] = Append(c, p) \/ content'[fd] = c
  BY <1>3 DEF Log, LineInv, TypeOK
<1> HIDE DEF p
<1>6. \A a, b \in 0 .. Len(c) : a <= b => SubSeq(content'[fd], a + 1, b) = SubSeq(c, a + 1, b)
  <2> TAKE a, b \in 0 .. Len(c)
  <2> HAVE a <= b
  <2>1. SubSeq(Append(c, p), a + 1, b) = SubSeq(c, a + 1, b)
    <3> HIDE DEF c
    <3> QED
      BY <1>3, <1>4, PartStays
  <2> QED
    BY <1>5, <2>1
<1>7. Len(content'[fd]) >= Len(c)
  BY <1>3, <1>4, <1>5, AppendProperties
<1> HIDE DEF c
<1>8. offset \in 0 .. Len(c) /\ offset <= Len(content'[fd])
  <2>1. offset <= Len(c)
    BY <1>2 DEF Divided, Size, c
  <2>2. Len(content'[fd]) \in Nat
    BY <1>3, <1>4, <1>5, AppendProperties
  <2> QED
    BY <1>3, <1>7, <2>1, <2>2
<1>9. \A k \in 0 .. Told : e[k] \in 0 .. Len(c) /\ e[k] <= offset
  BY <1>2, <1>3, <1>8 DEF Divided
<1>10. ASSUME NEW k \in 1 .. Told
       PROVE  SubSeq(content'[fd], e[k - 1] + 1, e[k]) = SubSeq(c, e[k - 1] + 1, e[k])
  <2>1. k - 1 \in 0 .. Told /\ k \in 0 .. Told
    BY <1>3
  <2>2. e[k - 1] \in 0 .. Len(c) /\ e[k] \in 0 .. Len(c) /\ e[k - 1] <= e[k]
    BY <1>2, <1>9, <2>1 DEF Divided
  <2> QED
    BY <1>6, <2>2
<1>11. SubSeq(content'[fd], e[Told] + 1, offset) = SubSeq(c, e[Told] + 1, offset)
  <2>1. Told \in 0 .. Told
    BY <1>3
  <2> QED
    BY <1>6, <1>8, <1>9, <2>1
<1>12. Divided(e)'
  <2>1. Told' = Told
    BY <1>1 DEF Told
  <2>2. (offset <= Size(fd))'
    BY <1>1, <1>8 DEF Size
  <2>3. \A k \in 1 .. Told :
          /\ e[k - 1] <= e[k]
          /\ reported[since + k] = SubSeq(content'[fd], e[k - 1] + 1, e[k])
          /\ Ends(reported[since + k]) = {Len(reported[since + k])}
    BY <1>2, <1>10 DEF Divided, c
  <2>4. partial = SubSeq(content'[fd], e[Told] + 1, offset)
    BY <1>2, <1>11 DEF Divided, c
  <2>5. e[0] = start /\ \A k \in 0 .. Told : e[k] \in 0 .. offset /\ start <= e[k]
    BY <1>2 DEF Divided
  <2> QED
    BY <1>1, <2>1, <2>2, <2>3, <2>4, <2>5 DEF Divided
<1> QED
  BY <1>12

\* A file that is truncated while the tail has it open is cut.
LEMMA TruncateWhole == ASSUME LineInv, WholeInv, Truncate PROVE WholeInv'
<1> SUFFICES ASSUME pc' \in {"waiting", "reading"}, ~ cut' PROVE \E e : Divided(e)'
  BY DEF WholeInv
<1>1. UNCHANGED <<pc, fd, offset, partial, reported, start, since>> /\ ~ cut /\ path # fd
  BY DEF Truncate
<1>2. content'[fd] = content[fd]
  BY <1>1 DEF Truncate, LineInv, TypeOK
<1>3. PICK e : Divided(e)
  BY <1>1 DEF WholeInv
<1>4. Divided(e)'
  BY <1>1, <1>2, <1>3 DEF Divided, Told, Size
<1> QED
  BY <1>4

\* The tail starts at the end of the file it opens.
LEMMA OpenWhole == ASSUME LineInv, WholeInv, Open PROVE WholeInv'
<1>1. CASE path = NoFile
  <2>1. Goes("retry")
    BY <1>1 DEF Open
  <2> QED
    BY <2>1 DEF Goes, WholeInv
<1>2. CASE path # NoFile
  <2> DEFINE n == Len(content[path])
             e == [k \in {0} |-> n]
  <2>1. /\ fd' = path /\ offset' = n /\ partial' = <<>> /\ start' = n
        /\ since' = Len(reported) /\ reported' = reported /\ content' = content
    BY <1>2 DEF Open, OpenFrom, Size, service
  <2>2. n \in Nat /\ Len(reported) \in Nat
    BY <1>2, LenProperties DEF LineInv, TypeOK
  <2>3. Told' = 0
    BY <2>1, <2>2 DEF Told
  <2> HIDE DEF n
  <2>4. SubSeq(content[path], n + 1, n) = <<>>
    BY <2>2, SubSeqEmpty
  <2>5. (offset <= Size(fd))'
    BY <2>1, <2>2 DEF Size, n
  <2>6. PICK h : h = e
    OBVIOUS
  <2>7. Divided(h)'
    <3>1. 0 .. 0 = {0} /\ 1 .. 0 = {} /\ h[0] = n /\ n \in 0 .. n
      BY <2>2, <2>6
    <3> HIDE DEF e
    <3>2. \A k \in 0 .. Told' : h[k] \in 0 .. offset' /\ start' <= h[k]
      BY <2>1, <2>2, <2>3, <3>1
    <3>3. partial' = SubSeq(content'[fd'], h[Told'] + 1, offset')
      BY <2>1, <2>3, <2>4, <3>1
    <3>4. 1 .. Told' = {} /\ h[0] = start'
      BY <2>1, <2>3, <3>1
    <3> QED
      BY <2>5, <3>2, <3>3, <3>4 DEF Divided
  <2> QED
    BY <2>7 DEF WholeInv
<1> QED
  BY <1>1, <1>2

\* What is read joins what was read before.
LEMMA ReadWhole == ASSUME LineInv, WholeInv, Read PROVE WholeInv'
<1> DEFINE c == content[fd]
           until == IF offset + ReadSize < Size(fd) THEN offset + ReadSize ELSE Size(fd)
           bytes == SubSeq(c, offset + 1, until)
           chunk == partial \o bytes
           more == Lines(chunk)
           m == Len(more)
<1>1. CASE bytes = <<>>
  <2>1. Goes("waiting") /\ pc = "reading"
    BY <1>1 DEF Read
  <2> QED
    BY <2>1, QuietWhole DEF Goes, service, history
<1>2. CASE bytes # <<>>
  <2> SUFFICES ASSUME ~ cut' PROVE \E g : Divided(g)'
    BY DEF WholeInv
  <2>1. /\ offset' = until /\ reported' = reported \o more /\ partial' = Rest(chunk)
        /\ UNCHANGED <<content, pc, fd, start, since, cut>> /\ pc = "reading"
    BY <1>2 DEF Read, service, history
  <2>2. PICK e : Divided(e)
    BY <2>1 DEF WholeInv
  <2>3. /\ Len(reported) \in Nat /\ since \in 0 .. Len(reported) /\ Told \in Nat
        /\ start \in Nat /\ offset \in Nat /\ c \in Seq(Piece) /\ Len(c) \in Nat
        /\ ReadSize \in Nat /\ reported \in Seq(Seq(Piece))
    BY <2>1, NumbersTyped, ToldTyped, LenProperties DEF LineInv, TypeOK
  <2>4. offset \in 0 .. Len(c) /\ until \in 0 .. Len(c) /\ offset <= until
    <3>1. offset <= Size(fd) /\ Size(fd) = Len(c)
      BY <2>2 DEF Divided, Size
    <3> QED
      BY <2>3, <3>1
  <2> DEFINE at == e[Told]
  <2>5. /\ at \in 0 .. Len(c) /\ at <= offset /\ start <= at
        /\ partial = SubSeq(c, at + 1, offset)
    <3>1. Told \in 0 .. Told
      BY <2>3
    <3>2. at \in 0 .. offset /\ start <= at /\ partial = SubSeq(c, at + 1, offset)
      BY <2>2, <3>1 DEF Divided
    <3> QED
      BY <2>3, <2>4, <3>2
  <2> HIDE DEF until, c, at
  <2>6. chunk = SubSeq(c, at + 1, until)
    BY <2>3, <2>4, <2>5, PartsJoin
  <2> HIDE DEF bytes, chunk
  <2>7. chunk \in Seq(Piece) /\ Len(chunk) = until - at /\ at <= until
    <3>1. at <= until
      BY <2>3, <2>4, <2>5
    <3> QED
      BY <2>3, <2>4, <2>5, <2>6, <3>1, PartProperties
  <2>8. /\ m \in Nat
        /\ \A k \in 0 .. m : Place(chunk, k) \in 0 .. until - at
        /\ \A k \in 1 .. m : /\ Place(chunk, k - 1) < Place(chunk, k)
                             /\ more[k] = SubSeq(chunk, Place(chunk, k - 1) + 1, Place(chunk, k))
                             /\ Ends(more[k]) = {Len(more[k])}
        /\ Rest(chunk) = SubSeq(chunk, Place(chunk, m) + 1, until - at)
    BY <2>7, LinesExact
  <2>9. more \in Seq(Seq(Piece))
    BY <2>7, LinesProperties
  <2> HIDE DEF more
  <2>10. /\ Len(reported') = Len(reported) + m
         /\ \A k \in 1 .. Len(reported) + m :
              reported'[k] = IF k <= Len(reported) THEN reported[k] ELSE more[k - Len(reported)]
    BY <2>1, <2>3, <2>9, ConcatProperties
  <2> HIDE DEF m
  <2> DEFINE t == Told
             g == [k \in 0 .. t + m |-> IF k <= t THEN e[k] ELSE at + Place(chunk, k - t)]
  <2>11. Told' = t + m /\ t \in Nat /\ Len(reported) = since + t /\ since \in Nat
    BY <2>1, <2>3, <2>8, <2>10 DEF Told
  <2> HIDE DEF t
  <2>12. at = e[t] /\ Place(chunk, 0) = 0
    BY DEF at, t, Place
  <2>13. \A k \in 0 .. t + m :
           /\ k <= t => g[k] = e[k]
           /\ k >= t => g[k] = at + Place(chunk, k - t)
    <3> TAKE k \in 0 .. t + m
    <3>1. CASE k = t
      BY <2>3, <2>5, <2>8, <2>11, <2>12, <3>1
    <3>2. CASE k # t
      BY <2>8, <2>11, <3>2
    <3> QED
      BY <3>1, <3>2
  <2> HIDE DEF g
  <2>14. ASSUME NEW k \in 0 .. t + m PROVE g[k] \in 0 .. until /\ start <= g[k]
    <3>1. CASE k <= t
      <4>1. k \in 0 .. t
        BY <2>8, <2>11, <3>1
      <4>2. e[k] \in 0 .. offset /\ start <= e[k]
        BY <2>2, <4>1 DEF Divided, t
      <4> QED
        BY <2>3, <2>4, <2>13, <3>1, <4>2
    <3>2. CASE ~ (k <= t)
      <4>1. k - t \in 0 .. m /\ k >= t
        BY <2>8, <2>11, <3>2
      <4>2. Place(chunk, k - t) \in 0 .. until - at
        BY <2>8, <4>1
      <4>3. g[k] = at + Place(chunk, k - t)
        BY <2>13, <4>1
      <4> QED
        BY <2>3, <2>4, <2>5, <4>2, <4>3
    <3> QED
      BY <3>1, <3>2
  <2>15. ASSUME NEW k \in 1 .. t + m
         PROVE  /\ g[k - 1] <= g[k]
                /\ reported'[since + k] = SubSeq(c, g[k - 1] + 1, g[k])
                /\ Ends(reported'[since + k]) = {Len(reported'[since + k])}
    <3>1. CASE k <= t
      <4>1. k \in 1 .. t /\ k - 1 \in 0 .. t + m /\ k \in 0 .. t + m /\ k - 1 <= t
        BY <2>8, <2>11, <3>1
      <4>2. g[k - 1] = e[k - 1] /\ g[k] = e[k]
        BY <2>13, <3>1, <4>1
      <4>3. /\ e[k - 1] <= e[k] /\ reported[since + k] = SubSeq(c, e[k - 1] + 1, e[k])
            /\ Ends(reported[since + k]) = {Len(reported[since + k])}
        BY <2>2, <4>1 DEF Divided, t, c
      <4>4. reported'[since + k] = reported[since + k]
        <5>1. since + k \in 1 .. Len(reported) + m /\ since + k <= Len(reported)
          BY <2>8, <2>11, <4>1
        <5> QED
          BY <2>10, <5>1
      <4> QED
        BY <4>2, <4>3, <4>4
    <3>2. CASE ~ (k <= t)
      <4> DEFINE j == k - t
      <4>1. /\ j \in 1 .. m /\ j \in 0 .. m /\ j - 1 \in 0 .. m /\ (k - 1) - t = j - 1
            /\ k - 1 \in 0 .. t + m /\ k \in 0 .. t + m /\ k - 1 >= t /\ k >= t
        BY <2>8, <2>11, <3>2
      <4>2. g[k - 1] = at + Place(chunk, j - 1) /\ g[k] = at + Place(chunk, j)
        BY <2>13, <4>1
      <4>3. reported'[since + k] = more[j]
        <5> DEFINE i == since + k
        <5>1. i \in 1 .. Len(reported) + m /\ ~ (i <= Len(reported)) /\ i - Len(reported) = j
          BY <2>8, <2>11, <3>2
        <5> HIDE DEF i, j
        <5>2. reported'[i] = more[i - Len(reported)]
          BY <2>10, <5>1
        <5> QED
          BY <5>1, <5>2 DEF i
      <4> HIDE DEF j
      <4> DEFINE x == Place(chunk, j - 1)
                 y == Place(chunk, j)
      <4>4. /\ x \in 0 .. until - at /\ y \in 0 .. until - at /\ x < y
            /\ more[j] = SubSeq(chunk, x + 1, y) /\ Ends(more[j]) = {Len(more[j])}
        BY <2>8, <4>1
      <4> HIDE DEF x, y
      <4>5. SubSeq(chunk, x + 1, y) = SubSeq(c, (at + x) + 1, at + y)
        <5>1. x <= y /\ at <= until
          BY <2>7, <4>4
        <5> QED
          BY <2>3, <2>4, <2>5, <2>6, <4>4, <5>1, PartOfPart
      <4>6. g[k - 1] = at + x /\ g[k] = at + y /\ at + x <= at + y
        <5>1. at + x <= at + y
          BY <2>5, <4>4
        <5> QED
          BY <4>2, <5>1 DEF x, y
      <4> QED
        BY <4>3, <4>4, <4>5, <4>6
    <3> QED
      BY <3>1, <3>2
  <2>16. Rest(chunk) = SubSeq(c, g[t + m] + 1, until)
    <3> DEFINE x == Place(chunk, m)
    <3>1. t + m \in 0 .. t + m /\ t + m >= t /\ (t + m) - t = m /\ m \in 0 .. m
      BY <2>8, <2>11
    <3>2. g[t + m] = at + x /\ x \in 0 .. until - at
      BY <2>8, <2>13, <3>1
    <3>3. Rest(chunk) = SubSeq(chunk, x + 1, until - at)
      BY <2>8
    <3> HIDE DEF x
    <3>4. /\ until - at \in 0 .. until - at /\ x <= until - at /\ at <= until
          /\ at + (until - at) = until
      BY <2>4, <2>5, <2>7, <3>2
    <3>5. SubSeq(chunk, x + 1, until - at) = SubSeq(c, (at + x) + 1, at + (until - at))
      <4> DEFINE y == until - at
      <4>1. y \in 0 .. until - at /\ x <= y
        BY <3>4
      <4> HIDE DEF y
      <4>2. SubSeq(chunk, x + 1, y) = SubSeq(c, (at + x) + 1, at + y)
        BY <2>3, <2>4, <2>5, <2>6, <3>2, <3>4, <4>1, PartOfPart
      <4> QED
        BY <4>2 DEF y
    <3> QED
      BY <3>2, <3>3, <3>4, <3>5
  <2>17. PICK h : h = g
    OBVIOUS
  <2>18. Divided(h)'
    <3>1. offset' <= Size(fd)'
      BY <2>1, <2>4 DEF Size, c
    <3>2. g[0] = start
      <4>1. 0 \in 0 .. t + m /\ 0 <= t
        BY <2>8, <2>11
      <4> QED
        BY <2>2, <2>13, <4>1 DEF Divided
    <3>3. content'[fd'] = c
      BY <2>1 DEF c
    <3>4. h[0] = start' /\ \A k \in 0 .. Told' : h[k] \in 0 .. offset' /\ start' <= h[k]
      BY <2>1, <2>11, <2>14, <2>17, <3>2
    <3>5. \A k \in 1 .. Told' :
            /\ h[k - 1] <= h[k]
            /\ reported'[since' + k] = SubSeq(content'[fd'], h[k - 1] + 1, h[k])
            /\ Ends(reported'[since' + k]) = {Len(reported'[since' + k])}
      BY <2>1, <2>11, <2>15, <2>17, <3>3
    <3>6. partial' = SubSeq(content'[fd'], h[Told'] + 1, offset')
      BY <2>1, <2>11, <2>16, <2>17, <3>3
    <3> QED
      BY <3>1, <3>4, <3>5, <3>6 DEF Divided
  <2> QED
    BY <2>18
<1> QED
  BY <1>1, <1>2

\* All actions together.
LEMMA NextWhole == LineInv /\ WholeInv /\ [Next]_vars => WholeInv'
<1> SUFFICES ASSUME LineInv, WholeInv, [Next]_vars PROVE WholeInv'
  OBVIOUS
<1>1. CASE Rename \/ Create \/ Reopen
  BY <1>1, QuietWhole DEF Rename, Create, Reopen, history
<1>2. CASE Cancel
  BY <1>2, QuietWhole DEF Cancel, service, history
<1>3. CASE Poll
  <2>1. pc = "waiting" /\ \E where \in {"retry", "open", "reading"} : Goes(where)
    BY <1>3 DEF Poll
  <2> QED
    BY <2>1, QuietWhole DEF Goes, service, history
<1>4. CASE Done \/ Retry \/ Return
  <2>1. Goes("open") \/ Goes("returned")
    BY <1>4 DEF Done, Retry, Return
  <2> QED
    BY <2>1, QuietWhole DEF Goes, service, history
<1>5. CASE UNCHANGED vars
  BY <1>5, QuietWhole DEF vars, service, history
<1> QED
  BY <1>1, <1>2, <1>3, <1>4, <1>5, LogWhole, TruncateWhole, OpenWhole, ReadWhole DEF Next, Step

\* However reads cut the lines and files are rotated, each report is one whole line, and
\* nothing of the file is left out or taken twice: tailOnce carries the part of a line
\* that a read ends with over to the next read.
THEOREM LinesWhole == Spec => []ReadsWhole
<1>1. Init => WholeInv
  BY DEF Init, WholeInv
<1>2. WholeInv /\ [LineInv /\ Next]_vars => WholeInv'
  <2>1. ASSUME WholeInv, UNCHANGED vars PROVE WholeInv'
    BY <2>1, QuietWhole DEF vars, service, history
  <2> QED
    BY <2>1, NextWhole
<1>3. LineInv /\ [Next]_vars => [LineInv /\ Next]_vars
  OBVIOUS
<1>4. LineInv /\ WholeInv => ReadsWhole
  BY WholeReads
<1> QED
  BY <1>1, <1>2, <1>3, <1>4, LineInvariance, PTL DEF Spec
=============================================================================
