---------------------------- MODULE Metrics_proofs --------------------------
(***************************************************************************)
(* Proofs about Metrics: its types, that ranges are exact, that graphs are *)
(* in order, and that neither memory nor a file loses what it should keep. *)
(***************************************************************************)
EXTENDS Metrics, Ranks, SequenceTheorems

-----------------------------------------------------------------------------
(* A filter: the elements of a sequence at some of its places, in order.    *)

Late(time, s) == {i \in DOMAIN s : s[i].t >= time}
\* From gives the late readings, one for each of their places.
LEMMA FromProperties ==
  ASSUME NEW s \in Seq(Reading), NEW time \in Int
  PROVE  /\ From(time, s) \in Seq(Reading)
         /\ Len(From(time, s)) = Cardinality(Late(time, s))
         /\ Len(From(time, s)) \in Nat /\ Len(From(time, s)) <= Len(s)
         /\ \A k \in 1 .. Len(From(time, s)) :
              \E i \in Late(time, s) : From(time, s)[k] = s[i]
         /\ \A i \in Late(time, s) :
              \E k \in 1 .. Len(From(time, s)) : From(time, s)[k] = s[i]
<1> DEFINE L == Late(time, s)
           R == Lower(L)
           At(k) == CHOOSE i \in L : Cardinality({j \in L : j < i}) = k - 1
           f == From(time, s)
<1>1. Len(s) \in Nat /\ DOMAIN s = 1 .. Len(s) /\ s \in [1 .. Len(s) -> Reading]
  BY LenProperties
<1>2. L \in SUBSET (1 .. Len(s)) /\ L \in SUBSET Int
  BY <1>1 DEF Late
<1>3. IsFiniteSet(L) /\ Cardinality(L) <= Len(s)
  <2>1. IsFiniteSet(1 .. Len(s)) /\ Cardinality(1 .. Len(s)) = Len(s)
    BY <1>1, FS_Interval
  <2> HIDE DEF L
  <2> QED
    BY <1>2, <2>1, FS_Subset
<1>4. Cardinality(L) \in Nat
  BY <1>3, FS_CardinalityType
<1>5. Ordered(L, R)
  BY <1>2, LowerOrders
<1>6. \A i \in L : Rank(L, R, i) = Cardinality({j \in L : j < i})
  <2> TAKE i \in L
  <2>1. Ahead(L, R, i) = {j \in L : j < i}
    BY DEF Ahead, Lower
  <2> QED
    BY <2>1 DEF Rank
<1>7. f = [k \in 1 .. Cardinality(L) |-> s[At(k)]]
  BY DEF From, Late
<1> HIDE DEF L, R, f
<1>8. ASSUME NEW k \in 1 .. Cardinality(L) PROVE At(k) \in L /\ Rank(L, R, At(k)) = k - 1
  <2>1. \E i \in L : Rank(L, R, i) = k - 1
    BY <1>3, <1>5, RankReached
  <2>2. \E i \in L : Cardinality({j \in L : j < i}) = k - 1
    BY <1>6, <2>1
  <2>3. At(k) \in L /\ Cardinality({j \in L : j < At(k)}) = k - 1
    BY <2>2
  <2> QED
    BY <1>6, <2>3
<1> HIDE DEF At
<1>9. ASSUME NEW i \in L PROVE \E k \in 1 .. Cardinality(L) : At(k) = i
  <2> DEFINE k == Rank(L, R, i) + 1
  <2>1. Rank(L, R, i) \in Nat /\ Rank(L, R, i) < Cardinality(L)
    BY <1>3, <1>5, RankBounded
  <2>2. k \in 1 .. Cardinality(L) /\ k - 1 = Rank(L, R, i)
    BY <1>4, <2>1
  <2> HIDE DEF k
  <2>3. At(k) \in L /\ Rank(L, R, At(k)) = Rank(L, R, i)
    BY <1>8, <2>2
  <2>4. At(k) = i
    BY <1>3, <1>5, <2>3, RankUnique
  <2> QED
    BY <2>2, <2>4
<1>10. f \in [1 .. Cardinality(L) -> Reading]
  <2>1. \A k \in 1 .. Cardinality(L) : At(k) \in 1 .. Len(s)
    BY <1>2, <1>8
  <2>2. \A k \in 1 .. Cardinality(L) : s[At(k)] \in Reading
    BY <1>1, <2>1
  <2> QED
    BY <1>7, <2>2
<1>11. f \in Seq(Reading) /\ Len(f) = Cardinality(L)
  BY <1>4, <1>10
<1>12. \A k \in 1 .. Len(f) : \E i \in L : f[k] = s[i]
  BY <1>7, <1>8, <1>11
<1>13. \A i \in L : \E k \in 1 .. Len(f) : f[k] = s[i]
  <2> TAKE i \in L
  <2>1. PICK k \in 1 .. Cardinality(L) : At(k) = i
    BY <1>9
  <2> QED
    BY <1>7, <1>11, <2>1
<1> QED
  BY <1>3, <1>4, <1>11, <1>12, <1>13 DEF f, L
-----------------------------------------------------------------------------
(* What load makes of the files: their readings, in the order of time.      *)

FilesTyped ==
  /\ DOMAIN files = Days
  /\ \A d \in Days : files[d] \in Seq(Reading) /\ Len(files[d]) <= MaxPoints

Places == {s \in Days \X (1 .. MaxPoints) : s[2] \in DOMAIN files[s[1]]}
Sooner(slots) == {p \in slots \X slots : Before(p[1], p[2])}

\* The constants are natural numbers, and so are the times.
LEMMA Constants ==
  /\ MaxPoints \in Nat /\ MaxPoints > 0 /\ SaveEvery \in Nat /\ SaveEvery > 0
  /\ DayLength \in Nat /\ DayLength > 0 /\ Retention \in Nat /\ Retention > 0
  /\ MaxTime \in Nat /\ MaxPushes \in Nat
  /\ Times \subseteq Nat
BY MaxPointsAssumption, SaveEveryAssumption, DayLengthAssumption, RetentionAssumption,
   MaxTimeAssumption, MaxPushesAssumption DEF Times

\* Every time is in its day.
LEMMA DayTyped ==
  ASSUME NEW t \in Times
  PROVE  /\ Day(t) \in Nat /\ Day(t) \in Days /\ Day(t) <= MaxTime
         /\ Day(t) * DayLength <= t /\ t < Day(t) * DayLength + DayLength
<1>1. t \in Nat /\ t <= MaxTime /\ DayLength \in Nat /\ DayLength > 0
  BY Constants DEF Times
<1>2. Day(t) \in Days
  BY DEF Days
<1> DEFINE q == t \div DayLength
           r == t % DayLength
<1>3. q \in Nat /\ r \in Nat /\ r < DayLength /\ t = q * DayLength + r
  BY <1>1, SMT
<1>4. Day(t) = q
  BY DEF Day
<1> HIDE DEF q, r
<1>5. q * DayLength \in Nat /\ q <= q * DayLength
  BY <1>1, <1>3, SMT
<1> QED
  BY <1>1, <1>2, <1>3, <1>4, <1>5, Constants

\* A multiple of n that is less than n above another is not above it.
LEMMA Multiples ==
  \A a, b, n \in Nat : n > 0 /\ a * n < b * n + n => a * n <= b * n
<1> SUFFICES ASSUME NEW a \in Nat, NEW b \in Nat, NEW n \in Nat, n > 0, a * n < b * n + n
             PROVE  a * n <= b * n
  OBVIOUS
<1>1. CASE a <= b
  BY <1>1, SMT
<1>2. CASE b + 1 <= a
  <2>1. (b + 1) * n <= a * n
    BY <1>2, SMT
  <2>2. (b + 1) * n = b * n + n
    BY SMT
  <2> QED
    BY <2>1, <2>2
<1> QED
  BY <1>1, <1>2

\* A day does not begin before that of an earlier time.
LEMMA DaysGrow ==
  ASSUME NEW s \in Times, NEW t \in Times, s <= t
  PROVE  Day(s) * DayLength <= Day(t) * DayLength
<1> DEFINE a == Day(s)
           b == Day(t)
<1>1. a \in Nat /\ b \in Nat /\ DayLength \in Nat /\ DayLength > 0 /\ s \in Nat /\ t \in Nat
  BY DayTyped, Constants
<1>2. a * DayLength <= s /\ t < b * DayLength + DayLength
  BY DayTyped
<1> HIDE DEF a, b
<1>3. a * DayLength \in Nat /\ b * DayLength \in Nat
  BY <1>1, SMT
<1>4. a * DayLength < b * DayLength + DayLength
  BY <1>1, <1>2, <1>3
<1>5. a * DayLength <= b * DayLength
  BY <1>1, <1>4, Multiples
<1> QED
  BY <1>5 DEF a, b

\* There are finitely many days, each a number.
LEMMA DaysFinite == IsFiniteSet(Days) /\ Days \in SUBSET Nat
<1>1. Days \in SUBSET Nat /\ \A d \in Days : d <= MaxTime
  BY DayTyped DEF Days
<1>2. MaxTime \in Nat
  BY Constants
<1> HIDE DEF Days
<1> QED
  BY <1>1, <1>2, FS_BoundedSetOfNaturals

\* There are finitely many places in the files.
LEMMA PlacesFinite == IsFiniteSet(Places)
<1>1. IsFiniteSet(Days)
  BY DaysFinite
<1>2. IsFiniteSet(1 .. MaxPoints)
  BY Constants, FS_Interval
<1> DEFINE P == Days \X (1 .. MaxPoints)
<1>3. IsFiniteSet(P)
  BY <1>1, <1>2, FS_Product
<1>4. Places \in SUBSET P
  BY DEF Places
<1> HIDE DEF P
<1> QED
  BY <1>3, <1>4, FS_Subset

\* A slot, and the reading it holds.
LEMMA PlaceTyped ==
  ASSUME FilesTyped, NEW s \in Places
  PROVE  /\ s[1] \in Days /\ s[1] \in Int /\ s[2] \in Int /\ s = <<s[1], s[2]>>
         /\ s[2] \in 1 .. Len(files[s[1]])
         /\ Stored(s) \in Reading /\ Stored(s).t \in Nat /\ Stored(s).t \in Times
<1>1. s \in Days \X (1 .. MaxPoints) /\ s[2] \in DOMAIN files[s[1]]
  BY DEF Places
<1>2. s[1] \in Days /\ s[2] \in 1 .. MaxPoints /\ s = <<s[1], s[2]>>
  BY <1>1
<1>3. s[1] \in Int /\ s[2] \in Int
  BY <1>2, DaysFinite, Constants
<1>4. files[s[1]] \in Seq(Reading)
  BY <1>2 DEF FilesTyped
<1>5. s[2] \in 1 .. Len(files[s[1]])
  BY <1>1, <1>4, LenProperties
<1>6. Stored(s) \in Reading
  BY <1>4, <1>5, ElementOfSeq DEF Stored
<1>7. Stored(s).t \in Times
  BY <1>6 DEF Reading
<1> QED
  BY <1>2, <1>3, <1>5, <1>6, <1>7, Constants

\* Places are totally ordered by what Before compares.
LEMMA SoonerOrders ==
  ASSUME FilesTyped, NEW slots \in SUBSET Places
  PROVE  Ordered(slots, Sooner(slots))
<1>1. \A s \in slots : s[1] \in Int /\ s[2] \in Int /\ Stored(s).t \in Int
  BY PlaceTyped
<1>2. \A r, s \in slots : r[1] = s[1] /\ r[2] = s[2] => r = s
  BY PlaceTyped
<1>3. \A s \in slots : ~ Before(s, s)
  BY <1>1 DEF Before, Earlier
<1>4. ASSUME NEW x \in slots, NEW y \in slots, NEW z \in slots, Before(x, y), Before(y, z)
      PROVE  Before(x, z)
  BY <1>1, <1>4 DEF Before, Earlier
<1>5. ASSUME NEW x \in slots, NEW y \in slots PROVE Before(x, y) \/ Before(y, x) \/ x = y
  BY <1>1, <1>2 DEF Before, Earlier
<1>6. \A x, y \in slots : <<x, y>> \in Sooner(slots) <=> Before(x, y)
  BY DEF Sooner
<1> QED
  BY <1>3, <1>4, <1>5, <1>6 DEF Ordered

\* Sorted gives the readings of the slots, one for each, in the order of time.
LEMMA SortedProperties ==
  ASSUME FilesTyped, NEW slots \in SUBSET Places
  PROVE  /\ Sorted(slots) \in Seq(Reading)
         /\ \A k \in 1 .. Len(Sorted(slots)) : \E s \in slots : Sorted(slots)[k] = Stored(s)
         /\ \A s \in slots : \E k \in 1 .. Len(Sorted(slots)) : Sorted(slots)[k] = Stored(s)
         /\ \A i, j \in 1 .. Len(Sorted(slots)) :
              i < j => Sorted(slots)[i].t <= Sorted(slots)[j].t
<1> DEFINE R == Sooner(slots)
           At(k) == CHOOSE s \in slots : Cardinality({r \in slots : Before(r, s)}) = k - 1
           f == Sorted(slots)
<1>1. IsFiniteSet(slots)
  BY PlacesFinite, FS_Subset
<1>2. Cardinality(slots) \in Nat
  BY <1>1, FS_CardinalityType
<1>3. Ordered(slots, R)
  BY SoonerOrders
<1>4. \A s \in slots : Rank(slots, R, s) = Cardinality({r \in slots : Before(r, s)})
  <2> TAKE s \in slots
  <2>1. Ahead(slots, R, s) = {r \in slots : Before(r, s)}
    BY DEF Ahead, Sooner
  <2> QED
    BY <2>1 DEF Rank
<1>5. f = [k \in 1 .. Cardinality(slots) |-> Stored(At(k))]
  BY DEF Sorted
<1>6. \A x, y \in slots : <<x, y>> \in R => Stored(x).t <= Stored(y).t
  <2> TAKE x, y \in slots
  <2>1. Stored(x).t \in Int /\ Stored(y).t \in Int
    BY PlaceTyped
  <2> QED
    BY <2>1 DEF Sooner, Before
<1> HIDE DEF R, f
<1>7. ASSUME NEW k \in 1 .. Cardinality(slots) PROVE At(k) \in slots /\ Rank(slots, R, At(k)) = k - 1
  <2>1. \E s \in slots : Rank(slots, R, s) = k - 1
    BY <1>1, <1>3, RankReached
  <2>2. \E s \in slots : Cardinality({r \in slots : Before(r, s)}) = k - 1
    BY <1>4, <2>1
  <2>3. At(k) \in slots /\ Cardinality({r \in slots : Before(r, At(k))}) = k - 1
    BY <2>2
  <2> QED
    BY <1>4, <2>3
<1> HIDE DEF At
<1>8. \A k \in 1 .. Cardinality(slots) : f[k] = Stored(At(k)) /\ Stored(At(k)) \in Reading
  BY <1>5, <1>7, PlaceTyped
<1>9. f \in Seq(Reading) /\ Len(f) = Cardinality(slots)
  <2>1. f \in [1 .. Cardinality(slots) -> Reading]
    BY <1>5, <1>8
  <2> QED
    BY <1>2, <2>1
<1>10. \A k \in 1 .. Len(f) : \E s \in slots : f[k] = Stored(s)
  BY <1>7, <1>8, <1>9
<1>11. \A s \in slots : \E k \in 1 .. Len(f) : f[k] = Stored(s)
  <2> TAKE s \in slots
  <2> DEFINE k == Rank(slots, R, s) + 1
  <2>1. Rank(slots, R, s) \in Nat /\ Rank(slots, R, s) < Cardinality(slots)
    BY <1>1, <1>3, RankBounded
  <2>2. k \in 1 .. Cardinality(slots) /\ k - 1 = Rank(slots, R, s)
    BY <1>2, <2>1
  <2> HIDE DEF k
  <2>3. At(k) \in slots /\ Rank(slots, R, At(k)) = Rank(slots, R, s)
    BY <1>7, <2>2
  <2>4. At(k) = s
    BY <1>1, <1>3, <2>3, RankUnique
  <2> QED
    BY <1>8, <1>9, <2>2, <2>4
<1>12. ASSUME NEW i \in 1 .. Len(f), NEW j \in 1 .. Len(f), i < j PROVE f[i].t <= f[j].t
  <2>1. /\ At(i) \in slots /\ Rank(slots, R, At(i)) = i - 1
        /\ At(j) \in slots /\ Rank(slots, R, At(j)) = j - 1
    BY <1>7, <1>9
  <2>2. Rank(slots, R, At(i)) < Rank(slots, R, At(j))
    BY <1>2, <1>9, <1>12, <2>1
  <2>3. <<At(i), At(j)>> \in R
    BY <1>1, <1>3, <2>1, <2>2, RankTells
  <2> QED
    BY <1>6, <1>8, <1>9, <2>1, <2>3
<1> QED
  BY <1>9, <1>10, <1>11, <1>12 DEF f
-----------------------------------------------------------------------------
(* The buffer is in the order of time, and what its front loses is not      *)
(* newer than what it keeps.                                                *)

InTime(s) == \A i, j \in 1 .. Len(s) : i < j => s[i].t <= s[j].t

\* A reading has a time.
LEMMA ReadingTyped == \A p \in Reading : p.t \in Times /\ p.t \in Nat
BY Constants DEF Reading

\* The newest readings are a tail of all of them, in the same order.
LEMMA NewestProperties ==
  ASSUME NEW s \in Seq(Reading), InTime(s)
  PROVE  /\ Newest(s) \in Seq(Reading)
         /\ Len(Newest(s)) = IF Len(s) > MaxPoints THEN MaxPoints ELSE Len(s)
         /\ InTime(Newest(s))
         /\ \A j \in 1 .. Len(Newest(s)) : \E i \in 1 .. Len(s) : Newest(s)[j] = s[i]
         /\ \A i \in 1 .. Len(s) :
              \/ \E j \in 1 .. Len(Newest(s)) : Newest(s)[j] = s[i]
              \/ /\ Len(Newest(s)) = MaxPoints
                 /\ \A j \in 1 .. Len(Newest(s)) : s[i].t <= Newest(s)[j].t
<1>1. Len(s) \in Nat /\ MaxPoints \in Nat /\ MaxPoints > 0
  BY LenProperties, Constants
<1>2. CASE Len(s) <= MaxPoints
  <2>1. Newest(s) = s
    BY <1>1, <1>2 DEF Newest
  <2> QED
    BY <1>1, <1>2, <2>1
<1>3. CASE Len(s) > MaxPoints
  <2> DEFINE from == Len(s) - MaxPoints + 1
             u == SubSeq(s, from, Len(s))
  <2>1. from \in 1 .. Len(s) /\ from \in Int /\ Len(s) \in Int /\ Len(s) - from + 1 = MaxPoints
    BY <1>1, <1>3
  <2>2. Newest(s) = u
    BY <1>3 DEF Newest
  <2> HIDE DEF from
  <2>3. \A i \in from .. Len(s) : s[i] \in Reading
    <3> TAKE i \in from .. Len(s)
    <3>1. i \in 1 .. Len(s)
      BY <1>1, <2>1
    <3> QED
      BY <3>1, ElementOfSeq
  <2>4. /\ u \in Seq(Reading)
        /\ Len(u) = IF from <= Len(s) THEN Len(s) - from + 1 ELSE 0
        /\ \A i \in 1 .. Len(s) - from + 1 : u[i] = s[from + i - 1]
    BY <2>1, <2>3, SubSeqProperties
  <2> HIDE DEF u
  <2>5. Len(u) = MaxPoints /\ \A i \in 1 .. MaxPoints : u[i] = s[from + i - 1]
    BY <2>1, <2>4
  <2>6. \A i \in 1 .. MaxPoints : from + i - 1 \in 1 .. Len(s)
    BY <1>1, <2>1
  <2>7. InTime(u)
    <3> SUFFICES ASSUME NEW i \in 1 .. MaxPoints, NEW j \in 1 .. MaxPoints, i < j
                 PROVE  u[i].t <= u[j].t
      BY <2>5 DEF InTime
    <3>1. from + i - 1 < from + j - 1
      BY <1>1, <2>1
    <3> QED
      BY <2>5, <2>6, <3>1 DEF InTime
  <2>8. \A j \in 1 .. MaxPoints : \E i \in 1 .. Len(s) : u[j] = s[i]
    BY <2>5, <2>6
  <2>9. ASSUME NEW i \in 1 .. Len(s)
        PROVE  \/ \E j \in 1 .. MaxPoints : u[j] = s[i]
               \/ \A j \in 1 .. MaxPoints : s[i].t <= u[j].t
    <3>1. CASE i >= from
      <4>1. i - from + 1 \in 1 .. MaxPoints /\ from + (i - from + 1) - 1 = i
        BY <1>1, <2>1, <3>1
      <4> QED
        BY <2>5, <4>1
    <3>2. CASE i < from
      <4> SUFFICES ASSUME NEW j \in 1 .. MaxPoints PROVE s[i].t <= u[j].t
        OBVIOUS
      <4>1. i < from + j - 1
        BY <1>1, <2>1, <3>2
      <4> QED
        BY <2>5, <2>6, <4>1 DEF InTime
    <3> QED
      BY <1>1, <2>1, <3>1, <3>2
  <2> QED
    BY <1>1, <1>3, <2>2, <2>4, <2>5, <2>7, <2>8, <2>9
<1> QED
  BY <1>1, <1>2, <1>3

\* A reading that is not older than the buffer goes to its end.
LEMMA AppendInTime ==
  ASSUME NEW s \in Seq(Reading), InTime(s), NEW r \in Reading,
         \A i \in 1 .. Len(s) : s[i].t <= r.t
  PROVE  /\ Append(s, r) \in Seq(Reading) /\ InTime(Append(s, r))
         /\ Len(Append(s, r)) = Len(s) + 1
         /\ \A i \in 1 .. Len(s) : Append(s, r)[i] = s[i]
         /\ Append(s, r)[Len(s) + 1] = r
<1> DEFINE u == Append(s, r)
<1>1. Len(s) \in Nat
  BY LenProperties
<1>2. /\ u \in Seq(Reading) /\ Len(u) = Len(s) + 1
      /\ \A i \in 1 .. Len(s) : u[i] = s[i]
      /\ u[Len(s) + 1] = r
  BY AppendProperties
<1> HIDE DEF u
<1>3. InTime(u)
  <2> SUFFICES ASSUME NEW i \in 1 .. Len(s) + 1, NEW j \in 1 .. Len(s) + 1, i < j
               PROVE  u[i].t <= u[j].t
    BY <1>2 DEF InTime
  <2>1. i \in 1 .. Len(s)
    BY <1>1
  <2>2. CASE j \in 1 .. Len(s)
    BY <1>2, <2>1, <2>2 DEF InTime
  <2>3. CASE j = Len(s) + 1
    BY <1>2, <2>1, <2>3
  <2> QED
    BY <1>1, <2>2, <2>3
<1> QED
  BY <1>2, <1>3 DEF u
-----------------------------------------------------------------------------
(* The invariant.                                                           *)

Past(s) == \A i \in 1 .. Len(s) : s[i].t <= now

\* The scheduler pushes what it has measured, which nothing in the buffer is newer than;
\* and the program is down only where it may start again.
Pushing ==
  /\ pc = "measured" =>
       pushed < MaxPushes /\ stamp <= now /\ \A i \in 1 .. Len(points) : points[i].t <= stamp
  /\ pc = "down" => restarts < MaxRestarts

\* What is being saved are the readings from a time that is not later than today.
Saving ==
  pc = "saving" => \E time \in Int : time <= Today * DayLength /\ toSave = From(time, points)

KeptIn(s, time, p) ==
  \/ \E j \in 1 .. Len(s) : s[j] = p
  \/ p.t < time - Retention * DayLength
  \/ Len(s) = MaxPoints /\ \A j \in 1 .. Len(s) : p.t <= s[j].t

Kept(p) == KeptIn(points, now, p)

FilesKept ==
  /\ \A d \in Days : Past(files[d])
  /\ pc # "down" => \A d \in Days : \A i \in 1 .. Len(files[d]) : Kept(files[d][i])

KeepInv == TypeOK /\ InTime(points) /\ Past(points) /\ Pushing /\ Saving /\ FilesKept

\* No readings are in order and in the past.
LEMMA EmptyInTime == InTime(<<>>) /\ Past(<<>>) /\ <<>> \in Seq(Reading) /\ Len(<<>>) = 0
BY DEF InTime, Past

\* Nothing has been recorded at first.
LEMMA InitKeeps == Init => KeepInv
<1> SUFFICES ASSUME Init PROVE KeepInv
  OBVIOUS
<1>1. 0 \in Times /\ 0 \in 0 .. SaveEvery - 1 /\ 0 \in 0 .. MaxPushes /\ 0 \in 0 .. MaxRestarts
      /\ 0 <= MaxPoints
  BY Constants, MaxRestartsAssumption DEF Times
<1>2. TypeOK
  BY <1>1, EmptyInTime DEF Init, TypeOK
<1>3. FilesKept
  BY EmptyInTime DEF Init, FilesKept, Past
<1> QED
  BY <1>2, <1>3, EmptyInTime DEF Init, KeepInv, Pushing, Saving

\* Typing, where the prover needs it in one piece.
LEMMA Typed ==
  ASSUME TypeOK
  PROVE  /\ now \in Times /\ now \in Nat /\ stamp \in Times /\ stamp \in Nat
         /\ points \in Seq(Reading) /\ Len(points) \in Nat /\ Len(points) <= MaxPoints
         /\ DOMAIN points = 1 .. Len(points)
         /\ FilesTyped /\ pushed \in Nat
         /\ Today \in Days /\ Today \in Nat /\ Today * DayLength \in Nat
         /\ Retention * DayLength \in Nat /\ Retention * DayLength >= DayLength
         /\ Today * DayLength <= now /\ now < Today * DayLength + DayLength
<1>1. now \in Times /\ stamp \in Times /\ points \in Seq(Reading) /\ Len(points) <= MaxPoints
  BY DEF TypeOK
<1>2. now \in Nat /\ stamp \in Nat
  BY <1>1, Constants
<1>3. Len(points) \in Nat /\ DOMAIN points = 1 .. Len(points)
  BY <1>1, LenProperties
<1>4. FilesTyped /\ pushed \in 0 .. MaxPushes
  BY DEF TypeOK, FilesTyped
<1>5. pushed \in Nat
  BY <1>4, Constants
<1>6. /\ Today \in Days /\ Today \in Nat
      /\ Today * DayLength <= now /\ now < Today * DayLength + DayLength
  BY <1>1, DayTyped DEF Today
<1>7. Today * DayLength \in Nat
  BY <1>6, Constants, SMT
<1>8. Retention * DayLength \in Nat /\ Retention * DayLength >= DayLength
  <2>1. Retention \in Nat /\ Retention > 0 /\ DayLength \in Nat /\ DayLength > 0
    BY Constants
  <2>2. \A a, b \in Nat : a > 0 => a * b \in Nat /\ a * b >= b
    OBVIOUS
  <2> QED
    BY <2>1, <2>2
<1> QED
  BY <1>1, <1>2, <1>3, <1>4, <1>5, <1>6, <1>7, <1>8

\* A day's file is a sequence of readings.
LEMMA FileTyped ==
  ASSUME TypeOK, NEW d \in Days
  PROVE  /\ files[d] \in Seq(Reading) /\ Len(files[d]) \in Nat
         /\ DOMAIN files[d] = 1 .. Len(files[d])
         /\ \A i \in 1 .. Len(files[d]) : files[d][i] \in Reading /\ files[d][i].t \in Nat
<1>1. files[d] \in Seq(Reading)
  BY DEF TypeOK
<1>2. Len(files[d]) \in Nat /\ DOMAIN files[d] = 1 .. Len(files[d])
  BY <1>1, LenProperties
<1>3. \A i \in 1 .. Len(files[d]) : files[d][i] \in Reading
  BY <1>1, ElementOfSeq
<1> QED
  BY <1>1, <1>2, <1>3, ReadingTyped

\* The points in memory are readings.
LEMMA PointsTyped ==
  ASSUME TypeOK, NEW i \in 1 .. Len(points)
  PROVE  points[i] \in Reading /\ points[i].t \in Nat
<1>1. points \in Seq(Reading)
  BY DEF TypeOK
<1>2. points[i] \in Reading
  BY <1>1, ElementOfSeq
<1> QED
  BY <1>2, ReadingTyped

\* A measurement takes a time stamp and changes nothing else.
LEMMA MeasureKeeps == ASSUME KeepInv, Measure PROVE KeepInv'
<1>1. /\ stamp' = now /\ pc = "idle" /\ pc' = "measured" /\ pushed < MaxPushes
      /\ UNCHANGED <<now, points, saveN, toSave, files, pushed, restarts>>
  BY DEF Measure, buffer
<1>2. now \in Times /\ now \in Nat
  BY Typed DEF KeepInv
<1>3. TypeOK'
  BY <1>1, <1>2 DEF KeepInv, TypeOK
<1>4. InTime(points)' /\ Past(points)'
  BY <1>1 DEF KeepInv, InTime, Past
<1>5. Pushing'
  BY <1>1, <1>2 DEF KeepInv, Pushing, Past
<1>6. Saving'
  BY <1>1 DEF Saving
<1>7. FilesKept'
  BY <1>1 DEF KeepInv, FilesKept, Past, Kept
<1> QED
  BY <1>3, <1>4, <1>5, <1>6, <1>7 DEF KeepInv

\* The clock takes every reading further into the past.
LEMMA TickKeeps == ASSUME KeepInv, Tick PROVE KeepInv'
<1>1. /\ now < MaxTime /\ now' = now + 1
      /\ UNCHANGED <<pc, stamp, points, saveN, toSave, files, pushed, restarts>>
  BY DEF Tick, buffer
<1>2. TypeOK
  BY DEF KeepInv
<1>3. now \in Nat /\ stamp \in Nat /\ now' \in Nat /\ now' \in Times
  BY <1>1, <1>2, Typed, Constants DEF Times
<1>4. TypeOK'
  BY <1>1, <1>2, <1>3 DEF TypeOK
<1>5. InTime(points)' /\ Past(points)'
  <2>1. InTime(points)'
    BY <1>1 DEF KeepInv, InTime
  <2>2. \A i \in 1 .. Len(points) : points[i].t \in Nat /\ points[i].t <= now
    BY <1>2, PointsTyped DEF KeepInv, Past
  <2> QED
    BY <1>1, <1>3, <2>1, <2>2 DEF Past
<1>6. Pushing'
  BY <1>1, <1>3 DEF KeepInv, Pushing
<1>7. Saving'
  <2> SUFFICES ASSUME pc' = "saving"
               PROVE  \E time \in Int : time <= (Today * DayLength)' /\ toSave' = From(time, points)'
    BY DEF Saving
  <2>1. PICK time \in Int : time <= Today * DayLength /\ toSave = From(time, points)
    BY <1>1 DEF KeepInv, Saving
  <2>2. Today * DayLength <= Today' * DayLength
    BY <1>1, <1>2, <1>3, Typed, DaysGrow DEF Today
  <2>3. Today * DayLength \in Nat /\ (Today * DayLength)' \in Nat
    <3>1. Today * DayLength \in Nat
      BY <1>2, Typed
    <3>2. Today' \in Nat /\ DayLength \in Nat
      BY <1>3, DayTyped, Constants DEF Today
    <3>3. \A a, b \in Nat : a * b \in Nat
      OBVIOUS
    <3> QED
      BY <3>1, <3>2, <3>3
  <2>4. time <= (Today * DayLength)'
    <3> DEFINE D == Today * DayLength
               E == Today' * DayLength
    <3>1. D \in Nat /\ E \in Nat /\ D <= E /\ time <= D
      BY <2>1, <2>2, <2>3
    <3>2. time <= E
      <4> HIDE DEF D, E
      <4> QED
        BY <3>1
    <3> QED
      BY <3>2
  <2>5. toSave' = From(time, points)'
    BY <1>1, <2>1
  <2> QED
    BY <2>4, <2>5
<1>8. FilesKept'
  <2>1. \A d \in Days : \A i \in 1 .. Len(files[d]) : files[d][i].t \in Nat
    BY <1>2, FileTyped
  <2>2. Retention * DayLength \in Nat
    BY <1>2, Typed
  <2>3. ASSUME NEW p, p.t \in Nat, KeptIn(points, now, p) PROVE KeptIn(points', now', p)
    BY <1>1, <1>3, <2>2, <2>3 DEF KeptIn
  <2>4. \A d \in Days : Past(files[d])'
    BY <1>1, <1>3, <2>1 DEF KeepInv, FilesKept, Past
  <2>5. pc # "down" => \A d \in Days : \A i \in 1 .. Len(files[d]) : KeptIn(points', now', files[d][i])
    BY <2>1, <2>3 DEF KeepInv, FilesKept, Kept
  <2> QED
    BY <1>1, <2>4, <2>5 DEF FilesKept, Kept
<1> QED
  BY <1>4, <1>5, <1>6, <1>7, <1>8 DEF KeepInv

\* A push loses only what is not newer than all that it keeps.
LEMMA PushKeeps == ASSUME KeepInv, Push PROVE KeepInv'
<1> DEFINE r == [t |-> stamp, n |-> pushed + 1]
           u == Append(points, r)
<1>1. /\ pc = "measured"
      /\ points' = Newest(u)
      /\ pushed' = pushed + 1
      /\ UNCHANGED <<now, stamp, files, restarts>>
      /\ \/ /\ saveN' = 0 /\ toSave' = TodayPoints(points') /\ pc' = "saving"
         \/ /\ saveN + 1 < SaveEvery
            /\ saveN' = saveN + 1 /\ toSave' = <<>> /\ pc' = "idle"
  <2>1. saveN \in Nat /\ SaveEvery \in Nat
    BY Constants DEF KeepInv, TypeOK
  <2> QED
    BY <2>1 DEF Push
<1>2. TypeOK
  BY DEF KeepInv
<1>3. /\ points \in Seq(Reading) /\ Len(points) \in Nat /\ Len(points) <= MaxPoints
      /\ stamp \in Nat /\ now \in Nat
  BY <1>2, Typed
<1>4. /\ InTime(points) /\ pushed < MaxPushes /\ stamp <= now
      /\ \A i \in 1 .. Len(points) : points[i].t <= stamp
  BY <1>1 DEF KeepInv, Pushing
<1>5. r \in Reading /\ r.t = stamp
  <2>1. stamp \in Times /\ pushed \in 0 .. MaxPushes
    BY <1>2 DEF TypeOK
  <2>2. pushed + 1 \in 1 .. MaxPushes
    BY <1>4, <2>1, Constants
  <2> QED
    BY <2>1, <2>2 DEF Reading
<1>6. /\ u \in Seq(Reading) /\ InTime(u) /\ Len(u) = Len(points) + 1
      /\ \A i \in 1 .. Len(points) : u[i] = points[i]
      /\ u[Len(points) + 1] = r
  <2> HIDE DEF r
  <2> QED
    BY <1>3, <1>4, <1>5, AppendInTime
<1> HIDE DEF r, u
<1>7. /\ points' \in Seq(Reading)
      /\ Len(points') = IF Len(u) > MaxPoints THEN MaxPoints ELSE Len(u)
      /\ InTime(points')
      /\ \A j \in 1 .. Len(points') : \E i \in 1 .. Len(u) : points'[j] = u[i]
      /\ \A i \in 1 .. Len(u) :
           \/ \E j \in 1 .. Len(points') : points'[j] = u[i]
           \/ /\ Len(points') = MaxPoints
              /\ \A j \in 1 .. Len(points') : u[i].t <= points'[j].t
  BY <1>1, <1>6, NewestProperties
<1>8. Len(points') \in Nat /\ Len(points') <= MaxPoints
  BY <1>3, <1>6, <1>7, Constants
<1>9. \A i \in 1 .. Len(u) : u[i].t \in Nat /\ u[i].t <= stamp
  <2> TAKE i \in 1 .. Len(u)
  <2>1. CASE i \in 1 .. Len(points)
    BY <1>2, <1>4, <1>6, <2>1, PointsTyped
  <2>2. CASE i = Len(points) + 1
    BY <1>3, <1>5, <1>6, <2>2
  <2> QED
    BY <1>3, <1>6, <2>1, <2>2
<1>10. \A j \in 1 .. Len(points') : points'[j].t \in Nat /\ points'[j].t <= stamp
  BY <1>7, <1>9
<1>11. toSave' \in Seq(Reading) /\ Len(toSave') <= MaxPoints
  <2>1. CASE toSave' = <<>>
    BY <2>1, EmptyInTime, Constants
  <2>2. CASE toSave' = TodayPoints(points')
    <3>1. TodayPoints(points') = From(Today * DayLength, points')
      BY DEF TodayPoints
    <3>2. Today * DayLength \in Int
      BY <1>2, Typed
    <3> DEFINE D == Today * DayLength
               v == From(D, points')
    <3> HIDE DEF D
    <3>3. v \in Seq(Reading) /\ Len(v) \in Nat /\ Len(v) <= Len(points')
      <4>1. D \in Int
        BY <3>2 DEF D
      <4> QED
        BY <1>7, <4>1, FromProperties
    <3>4. toSave' = v
      BY <2>2, <3>1 DEF D
    <3> HIDE DEF v
    <3> QED
      BY <1>8, <3>3, <3>4, Constants
  <2> QED
    BY <1>1, <2>1, <2>2
<1>12. TypeOK'
  <2>1. saveN' \in 0 .. SaveEvery - 1
    BY <1>1, <1>2, Constants DEF TypeOK
  <2>2. pushed' \in 0 .. MaxPushes
    BY <1>1, <1>2, <1>4, Constants DEF TypeOK
  <2> QED
    BY <1>1, <1>2, <1>7, <1>8, <1>11, <2>1, <2>2 DEF TypeOK
<1>13. InTime(points)' /\ Past(points)'
  <2>1. \A j \in 1 .. Len(points') : points'[j].t <= now
    BY <1>3, <1>4, <1>10
  <2> QED
    BY <1>1, <1>7, <2>1 DEF InTime, Past
<1>14. Pushing'
  BY <1>1 DEF Pushing
<1>15. Saving'
  <2> SUFFICES ASSUME pc' = "saving"
               PROVE  \E time \in Int : time <= (Today * DayLength)' /\ toSave' = From(time, points)'
    BY DEF Saving
  <2>1. toSave' = From(Today * DayLength, points')
    BY <1>1 DEF TodayPoints
  <2>2. Today * DayLength \in Nat
    BY <1>2, Typed
  <2>3. (Today * DayLength)' = Today * DayLength
    BY <1>1 DEF Today
  <2> QED
    BY <2>1, <2>2, <2>3
<1>16. FilesKept'
  <2>1. ASSUME NEW p, p.t \in Nat, KeptIn(points, now, p) PROVE KeptIn(points', now', p)
    <3>1. CASE \E j \in 1 .. Len(points) : points[j] = p
      <4>1. PICK j \in 1 .. Len(points) : points[j] = p
        BY <3>1
      <4>2. j \in 1 .. Len(u) /\ u[j] = p
        BY <1>3, <1>6, <4>1
      <4> QED
        BY <1>7, <4>2 DEF Kept, KeptIn
    <3>2. CASE p.t < now - Retention * DayLength
      BY <1>1, <3>2 DEF Kept, KeptIn
    <3>3. CASE Len(points) = MaxPoints /\ \A j \in 1 .. Len(points) : p.t <= points[j].t
      <4>1. Len(u) = MaxPoints + 1 /\ Len(points') = MaxPoints
        BY <1>3, <1>6, <1>7, <3>3, Constants
      <4>2. 1 \in 1 .. Len(points) /\ Len(points) + 1 \in 1 .. Len(u)
        BY <1>3, <1>6, <3>3, Constants
      <4>3. p.t <= stamp
        <5>1. p.t <= points[1].t /\ points[1].t <= stamp /\ points[1].t \in Nat
          BY <1>2, <1>4, <3>3, <4>2, PointsTyped
        <5> QED
          BY <1>3, <2>1, <5>1
      <4>4. \A i \in 1 .. Len(u) : p.t <= u[i].t
        <5> TAKE i \in 1 .. Len(u)
        <5>1. CASE i \in 1 .. Len(points)
          BY <1>6, <3>3, <5>1
        <5>2. CASE i = Len(points) + 1
          BY <1>5, <1>6, <4>3, <5>2
        <5> QED
          BY <1>3, <1>6, <5>1, <5>2
      <4>5. \A j \in 1 .. Len(points') : p.t <= points'[j].t
        BY <1>7, <4>4
      <4> QED
        BY <4>1, <4>5 DEF Kept, KeptIn
    <3> QED
      BY <2>1, <3>1, <3>2, <3>3 DEF Kept, KeptIn
  <2>2. \A d \in Days : \A i \in 1 .. Len(files[d]) : files[d][i].t \in Nat
    BY <1>2, FileTyped
  <2>3. \A d \in Days : Past(files[d])'
    BY <1>1 DEF KeepInv, FilesKept, Past
  <2>4. \A d \in Days : \A i \in 1 .. Len(files[d]) : Kept(files[d][i])
    BY <1>1 DEF KeepInv, FilesKept
  <2>5. \A d \in Days : \A i \in 1 .. Len(files[d]) : KeptIn(points', now', files[d][i])
    BY <2>1, <2>2, <2>4 DEF Kept
  <2> QED
    BY <1>1, <2>3, <2>5 DEF FilesKept, Kept
<1> QED
  BY <1>12, <1>13, <1>14, <1>15, <1>16 DEF KeepInv

\* What is saved is in memory.
LEMMA SaveTodayKeeps == ASSUME KeepInv, SaveToday PROVE KeepInv'
<1>1. /\ pc = "saving" /\ pc' = "idle" /\ toSave' = <<>>
      /\ files' = files \/ files' = [files EXCEPT ![Today] = toSave]
      /\ UNCHANGED <<now, stamp, points, saveN, pushed, restarts>>
  BY DEF SaveToday, buffer
<1>2. TypeOK
  BY DEF KeepInv
<1>3. points \in Seq(Reading) /\ FilesTyped /\ Today \in Days /\ DOMAIN points = 1 .. Len(points)
  BY <1>2, Typed
<1>4. PICK time \in Int : toSave = From(time, points)
  BY <1>1 DEF KeepInv, Saving
<1>5. \A k \in 1 .. Len(toSave) : \E i \in 1 .. Len(points) : toSave[k] = points[i]
  <2>1. \A k \in 1 .. Len(From(time, points)) :
          \E i \in Late(time, points) : From(time, points)[k] = points[i]
    BY <1>3, FromProperties
  <2>2. Late(time, points) \subseteq 1 .. Len(points)
    BY <1>3 DEF Late
  <2> QED
    BY <1>4, <2>1, <2>2
<1>6. toSave \in Seq(Reading) /\ Len(toSave) <= MaxPoints
  BY <1>2 DEF TypeOK
<1>7. /\ DOMAIN files' = Days
      /\ \A d \in Days : files'[d] = files[d] \/ files'[d] = toSave
  BY <1>1, <1>3 DEF FilesTyped
<1>8. TypeOK'
  <2>1. \A d \in Days : files'[d] \in Seq(Reading) /\ Len(files'[d]) <= MaxPoints
    BY <1>3, <1>6, <1>7 DEF FilesTyped
  <2> QED
    BY <1>1, <1>2, <1>7, <2>1, EmptyInTime, Constants DEF TypeOK
<1>9. InTime(points)' /\ Past(points)' /\ Pushing' /\ Saving'
  BY <1>1 DEF KeepInv, InTime, Past, Pushing, Saving
<1>10. Past(toSave)
  BY <1>5 DEF KeepInv, Past
<1>11. \A k \in 1 .. Len(toSave) : Kept(toSave[k])
  BY <1>5 DEF Kept, KeptIn
<1>12. \A d \in Days : Past(files'[d])
  BY <1>7, <1>10 DEF KeepInv, FilesKept
<1>13. \A d \in Days : \A i \in 1 .. Len(files'[d]) : Kept(files'[d][i])
  BY <1>1, <1>7, <1>11 DEF KeepInv, FilesKept
<1>14. FilesKept'
  BY <1>1, <1>12, <1>13 DEF FilesKept, Past, Kept
<1> QED
  BY <1>8, <1>9, <1>14 DEF KeepInv

\* What is in memory is lost, the files stay.
LEMMA ExitKeeps == ASSUME KeepInv, Exit PROVE KeepInv'
<1>1. /\ restarts < MaxRestarts
      /\ pc' = "down" /\ stamp' = 0 /\ points' = <<>> /\ saveN' = 0 /\ toSave' = <<>>
      /\ UNCHANGED <<now, files, pushed, restarts>>
  BY DEF Exit
<1>2. 0 \in Times /\ 0 \in 0 .. SaveEvery - 1 /\ 0 <= MaxPoints
  BY Constants DEF Times
<1>3. TypeOK'
  BY <1>1, <1>2, EmptyInTime DEF KeepInv, TypeOK
<1>4. InTime(points)' /\ Past(points)'
  BY <1>1 DEF InTime, Past
<1>5. Pushing' /\ Saving'
  BY <1>1 DEF Pushing, Saving
<1>6. FilesKept'
  BY <1>1 DEF KeepInv, FilesKept, Past
<1> QED
  BY <1>3, <1>4, <1>5, <1>6 DEF KeepInv

\* A start loads what is not too old, and what it loses of that is not newer than the rest.
LEMMA BootKeeps == ASSUME KeepInv, Boot PROVE KeepInv'
<1> DEFINE cutoff == now - Retention * DayLength
           slots == SlotsSince(cutoff)
           u == Sorted(slots)
<1>1. /\ pc' = "idle" /\ points' = Newest(u) /\ restarts' = restarts + 1
      /\ pc = "down"
      /\ UNCHANGED <<now, stamp, saveN, toSave, files, pushed>>
  BY DEF Boot, Loaded
<1>2. TypeOK
  BY DEF KeepInv
<1>3. FilesTyped /\ now \in Nat
  BY <1>2, Typed
<1>4. slots \in SUBSET Places
  BY DEF SlotsSince, Places
<1>5. \A s \in Places : Stored(s).t >= cutoff => s \in slots
  BY DEF SlotsSince, Places, Stored
<1> HIDE DEF cutoff, slots, u
<1>6. /\ u \in Seq(Reading)
      /\ \A k \in 1 .. Len(u) : \E s \in slots : u[k] = Stored(s)
      /\ \A s \in slots : \E k \in 1 .. Len(u) : u[k] = Stored(s)
      /\ InTime(u)
  BY <1>3, <1>4, SortedProperties DEF InTime, u
<1>7. /\ points' \in Seq(Reading)
      /\ Len(points') = IF Len(u) > MaxPoints THEN MaxPoints ELSE Len(u)
      /\ InTime(points')
      /\ \A j \in 1 .. Len(points') : \E i \in 1 .. Len(u) : points'[j] = u[i]
      /\ \A i \in 1 .. Len(u) :
           \/ \E j \in 1 .. Len(points') : points'[j] = u[i]
           \/ /\ Len(points') = MaxPoints
              /\ \A j \in 1 .. Len(points') : u[i].t <= points'[j].t
  BY <1>1, <1>6, NewestProperties
<1>8. Len(points') <= MaxPoints
  BY <1>6, <1>7, LenProperties, Constants
<1>9. TypeOK'
  <2>1. restarts' \in 0 .. MaxRestarts
    BY <1>1, <1>2, MaxRestartsAssumption DEF KeepInv, Pushing, TypeOK
  <2> QED
    BY <1>1, <1>2, <1>7, <1>8, <2>1 DEF TypeOK
<1>10. \A s \in Places : Stored(s).t <= now
  <2> TAKE s \in Places
  <2>1. s[1] \in Days /\ s[2] \in 1 .. Len(files[s[1]])
    BY <1>3, PlaceTyped
  <2> QED
    BY <2>1 DEF KeepInv, FilesKept, Past, Stored
<1>11. InTime(points)' /\ Past(points)'
  <2>1. \A k \in 1 .. Len(u) : u[k].t <= now
    BY <1>4, <1>6, <1>10
  <2>2. \A j \in 1 .. Len(points') : points'[j].t <= now
    BY <1>7, <2>1
  <2> QED
    BY <1>1, <1>7, <2>2 DEF InTime, Past
<1>12. Pushing' /\ Saving'
  BY <1>1 DEF Pushing, Saving
<1>13. FilesKept'
  <2>1. \A d \in Days : Past(files[d])'
    BY <1>1 DEF KeepInv, FilesKept, Past
  <2>2. ASSUME NEW d \in Days, NEW i \in 1 .. Len(files[d]) PROVE Kept(files[d][i])'
    <3> DEFINE s == <<d, i>>
               p == files[d][i]
    <3>1. s \in Places /\ Stored(s) = p
      <4>1. DOMAIN files[d] = 1 .. Len(files[d]) /\ Len(files[d]) <= MaxPoints /\ Len(files[d]) \in Nat
        BY <1>2, <1>3, FileTyped DEF FilesTyped
      <4>2. i \in 1 .. MaxPoints /\ i \in DOMAIN files[d]
        BY <4>1, Constants
      <4> QED
        BY <4>2 DEF Places, Stored
    <3>2. p.t \in Nat
      BY <1>2, FileTyped
    <3> HIDE DEF s, p
    <3>3. CASE p.t >= cutoff
      <4>1. PICK k \in 1 .. Len(u) : u[k] = p
        BY <1>5, <1>6, <3>1, <3>3
      <4> QED
        BY <1>1, <1>7, <4>1 DEF Kept, KeptIn, p
    <3>4. CASE ~ (p.t >= cutoff)
      <4>1. cutoff \in Int
        BY <1>2, <1>3, Typed DEF cutoff
      <4>2. p.t < cutoff
        BY <3>2, <3>4, <4>1
      <4> QED
        BY <1>1, <4>2 DEF Kept, KeptIn, cutoff, p
    <3> QED
      BY <3>3, <3>4
  <2> QED
    BY <1>1, <2>1, <2>2 DEF FilesKept
<1> QED
  BY <1>9, <1>11, <1>12, <1>13 DEF KeepInv

\* A step of another component changes nothing.
LEMMA NoStepKeeps == ASSUME KeepInv, UNCHANGED vars PROVE KeepInv'
<1>1. UNCHANGED <<now, pc, stamp, points, saveN, toSave, files, pushed, restarts>>
  BY DEF vars, buffer
<1>2. TypeOK'
  BY <1>1 DEF KeepInv, TypeOK
<1>3. InTime(points)' /\ Past(points)' /\ Pushing'
  BY <1>1 DEF KeepInv, InTime, Past, Pushing
<1>4. Saving'
  BY <1>1 DEF KeepInv, Saving, Today
<1>5. FilesKept'
  BY <1>1 DEF KeepInv, FilesKept, Past, Kept, KeptIn
<1> QED
  BY <1>2, <1>3, <1>4, <1>5 DEF KeepInv

\* Every step keeps the invariant.
LEMMA StepKeeps == KeepInv /\ [Next]_vars => KeepInv'
BY MeasureKeeps, PushKeeps, SaveTodayKeeps, ExitKeeps, BootKeeps, TickKeeps, NoStepKeeps DEF Next

\* So it holds for ever.
LEMMA KeepInvariant == Spec => []KeepInv
<1>1. Init => KeepInv
  BY InitKeeps
<1>2. KeepInv /\ [Next]_vars => KeepInv'
  BY StepKeeps
<1> QED
  BY <1>1, <1>2, PTL DEF Spec

\* The buffer, each day's file and what is saved hold readings, at most MaxPoints of them.
THEOREM TypeCorrect == Spec => []TypeOK
<1>1. KeepInv => TypeOK
  BY DEF KeepInv
<1> QED
  BY <1>1, KeepInvariant, PTL

\* Through pushes, saves that fail, crashes and loads, no reading of a file that a page
\* could be shown is missing in memory, but for those that a full buffer has no room for.
THEOREM KeepsNewest == Spec => []NewestKept
<1>1. KeepInv => NewestKept
  <2> SUFFICES ASSUME KeepInv, pc # "down", NEW d \in Days, NEW i \in DOMAIN files[d]
               PROVE  \/ \E j \in DOMAIN points : points[j] = files[d][i]
                      \/ files[d][i].t < now - Retention * DayLength
                      \/ Len(points) = MaxPoints
                         /\ \A j \in DOMAIN points : files[d][i].t <= points[j].t
    BY DEF NewestKept
  <2>1. TypeOK
    BY DEF KeepInv
  <2>2. i \in 1 .. Len(files[d])
    BY <2>1, FileTyped
  <2>3. DOMAIN points = 1 .. Len(points)
    BY <2>1, Typed
  <2>4. Kept(files[d][i])
    BY <2>2 DEF KeepInv, FilesKept
  <2> QED
    BY <2>3, <2>4 DEF Kept, KeptIn
<1> QED
  BY <1>1, KeepInvariant, PTL
-----------------------------------------------------------------------------
(* Ranges and graphs.                                                       *)

\* The late readings of a buffer that is in order are its end.
LEMMA LateIsTheEnd ==
  ASSUME KeepInv, NEW time \in Int, NEW k \in Late(time, points),
         \A j \in Late(time, points) : k <= j
  PROVE  Late(time, points) = k .. Len(points)
<1>1. /\ points \in Seq(Reading) /\ Len(points) \in Nat /\ DOMAIN points = 1 .. Len(points)
      /\ InTime(points) /\ \A i \in 1 .. Len(points) : points[i].t \in Nat
  BY Typed, PointsTyped DEF KeepInv
<1>2. k \in 1 .. Len(points) /\ points[k].t >= time
  BY <1>1 DEF Late
<1>3. \A j \in k .. Len(points) : j \in Late(time, points)
  <2> TAKE j \in k .. Len(points)
  <2>1. j \in 1 .. Len(points)
    BY <1>1, <1>2
  <2>2. points[k].t <= points[j].t
    BY <1>1, <1>2, <2>1 DEF InTime
  <2>3. points[j].t >= time
    BY <1>1, <1>2, <2>1, <2>2
  <2> QED
    BY <1>1, <2>1, <2>3 DEF Late
<1>4. \A j \in Late(time, points) : j \in k .. Len(points)
  BY <1>1, <1>2 DEF Late
<1> QED
  BY <1>3, <1>4

\* A set of places that is not empty has a first.
LEMMA FirstPlace ==
  ASSUME NEW n \in Nat, NEW S \in SUBSET (1 .. n), S # {}
  PROVE  \E k \in S : \A j \in S : k <= j
<1>1. IsFiniteSet(1 .. n)
  BY FS_Interval
<1>2. IsFiniteSet(S)
  BY <1>1, FS_Subset
<1>3. Cardinality(S) \in Nat /\ Cardinality(S) # 0
  BY <1>2, FS_CardinalityType, FS_EmptySet
<1>4. S \in SUBSET Int
  OBVIOUS
<1>5. 1 \in 1 .. Cardinality(S) /\ Ordered(S, Lower(S))
  BY <1>3, <1>4, LowerOrders
<1>6. PICK k \in S : Rank(S, Lower(S), k) = 1 - 1
  BY <1>2, <1>5, RankReached
<1>7. Ahead(S, Lower(S), k) = {}
  <2> DEFINE A == Ahead(S, Lower(S), k)
  <2>1. A \in SUBSET S
    BY DEF Ahead
  <2>2. Cardinality(A) = 0
    BY <1>6 DEF Rank
  <2> HIDE DEF A
  <2>3. A = {}
    BY <1>2, <2>1, <2>2, FS_Subset, FS_EmptySet
  <2> QED
    BY <2>3 DEF A
<1>8. \A j \in S : ~ (j < k)
  BY <1>7 DEF Ahead, Lower
<1> QED
  BY <1>4, <1>8

\* The readings in a range are the end of the buffer.
LEMMA SinceIsFrom ==
  ASSUME KeepInv, NEW d \in Ranges
  PROVE  /\ Since(d) = From(now - d, points)
         /\ \/ Since(d) = <<>>
            \/ \E k \in 1 .. Len(points) : Since(d) = SubSeq(points, k, Len(points))
<1> DEFINE time == now - d
           L == Late(time, points)
           At(q) == CHOOSE i \in L : Cardinality({j \in L : j < i}) = q - 1
<1>1. /\ points \in Seq(Reading) /\ Len(points) \in Nat /\ DOMAIN points = 1 .. Len(points)
      /\ now \in Nat /\ d \in Nat
  BY Typed, RangesAssumption DEF KeepInv
<1>2. time \in Int /\ L \in SUBSET (1 .. Len(points))
  BY <1>1 DEF Late
<1>3. Since(d) = IF L = {} THEN <<>>
                 ELSE SubSeq(points, CHOOSE i \in L : \A j \in L : i <= j, Len(points))
  BY DEF Since, Late
<1>4. From(time, points) = [q \in 1 .. Cardinality(L) |-> points[At(q)]]
  BY DEF From, Late
<1> HIDE DEF L
<1>5. CASE L = {}
  <2>1. Cardinality(L) = 0
    BY <1>5, FS_EmptySet
  <2>2. From(time, points) \in Seq(Reading) /\ Len(From(time, points)) = 0
    BY <1>1, <1>2, <2>1, FromProperties DEF L
  <2>3. From(time, points) = <<>>
    BY <2>2, EmptySeq
  <2> QED
    BY <1>3, <1>5, <2>3 DEF time
<1>6. CASE L # {}
  <2> DEFINE k == CHOOSE i \in L : \A j \in L : i <= j
             n == Len(points)
  <2>1. \E i \in L : \A j \in L : i <= j
    BY <1>1, <1>2, <1>6, FirstPlace
  <2>2. k \in L /\ \A j \in L : k <= j
    BY <2>1
  <2>3. Since(d) = SubSeq(points, k, n)
    BY <1>3, <1>6
  <2> HIDE DEF k
  <2>4. L = k .. n
    BY <1>2, <2>2, LateIsTheEnd DEF L
  <2>5. k \in 1 .. n /\ n \in Nat /\ k \in Int
    BY <1>1, <1>2, <2>2
  <2>6. Cardinality(L) = n - k + 1
    BY <2>4, <2>5, FS_Interval
  <2>7. \A i \in k .. n : points[i] \in Reading
    BY <1>1, <2>5, ElementOfSeq
  <2>8. /\ SubSeq(points, k, n) \in Seq(Reading)
        /\ Len(SubSeq(points, k, n)) = n - k + 1
        /\ \A q \in 1 .. n - k + 1 : SubSeq(points, k, n)[q] = points[k + q - 1]
    BY <1>1, <2>5, <2>7, SubSeqProperties
  <2>9. ASSUME NEW q \in 1 .. n - k + 1 PROVE At(q) = k + q - 1
    <3>1. ASSUME NEW i \in L PROVE Cardinality({j \in L : j < i}) = i - k
      <4>1. i \in Int /\ i >= k /\ i <= n
        BY <2>4, <2>5, <3>1
      <4>2. {j \in L : j < i} = k .. i - 1
        BY <2>4, <2>5, <4>1
      <4>3. Cardinality(k .. i - 1) = i - k
        <5>1. k \in Int /\ i - 1 \in Int
          BY <2>5, <4>1
        <5>2. Cardinality(k .. i - 1) = IF k > i - 1 THEN 0 ELSE i - 1 - k + 1
          BY <5>1, FS_Interval
        <5> QED
          BY <2>5, <4>1, <5>2
      <4> QED
        BY <4>2, <4>3
    <3>3. \E i \in L : Cardinality({j \in L : j < i}) = q - 1
      <4> DEFINE i == k + q - 1
      <4>1. i \in L /\ i - k = q - 1
        BY <2>4, <2>5
      <4> HIDE DEF i
      <4>2. Cardinality({j \in L : j < i}) = q - 1
        BY <3>1, <4>1
      <4> QED
        BY <4>1, <4>2
    <3>4. At(q) \in L /\ Cardinality({j \in L : j < At(q)}) = q - 1
      BY <3>3
    <3> HIDE DEF At
    <3>5. At(q) - k = q - 1 /\ At(q) \in Int
      <4>1. At(q) \in Int
        BY <2>4, <2>5, <3>4
      <4> QED
        BY <3>1, <3>4, <4>1
    <3> QED
      BY <2>5, <3>5
  <2> HIDE DEF At
  <2>10. From(time, points) = [q \in 1 .. n - k + 1 |-> points[k + q - 1]]
    BY <1>4, <2>6, <2>9
  <2>11. SubSeq(points, k, n) = [q \in 1 .. n - k + 1 |-> points[k + q - 1]]
    BY <2>5 DEF SubSeq
  <2>12. From(time, points) = SubSeq(points, k, n)
    BY <2>10, <2>11
  <2> QED
    BY <2>3, <2>5, <2>12 DEF time
<1> QED
  BY <1>5, <1>6

\* Whatever was pushed, saved and loaded, a page is shown all of the readings in its range
\* and no others, or the whole buffer if there are none.
THEOREM RangesExact == Spec => []RangeExact
<1>1. KeepInv => RangeExact
  BY SinceIsFrom DEF RangeExact, Shown
<1> QED
  BY <1>1, KeepInvariant, PTL

\* What a page is shown are readings, in the order of time.
LEMMA ShownInTime ==
  ASSUME KeepInv, NEW d \in Ranges
  PROVE  Len(Shown(d)) \in Nat /\ InTime(Shown(d))
<1>1. points \in Seq(Reading) /\ Len(points) \in Nat /\ InTime(points)
  BY Typed DEF KeepInv
<1>2. CASE Shown(d) = points
  BY <1>1, <1>2
<1>3. ASSUME NEW k \in 1 .. Len(points), Shown(d) = SubSeq(points, k, Len(points))
      PROVE  Len(Shown(d)) \in Nat /\ InTime(Shown(d))
  <2> DEFINE n == Len(points)
             u == SubSeq(points, k, n)
  <2>1. k \in Int /\ k \in 1 .. n /\ n \in Nat
    BY <1>1
  <2>2. \A i \in k .. n : points[i] \in Reading
    BY <1>1, <2>1, ElementOfSeq
  <2>3. Len(u) = n - k + 1 /\ \A q \in 1 .. n - k + 1 : u[q] = points[k + q - 1]
    BY <1>1, <2>1, <2>2, SubSeqProperties
  <2> HIDE DEF u
  <2>4. ASSUME NEW i \in 1 .. n - k + 1, NEW j \in 1 .. n - k + 1, i < j PROVE u[i].t <= u[j].t
    <3>1. k + i - 1 \in 1 .. n /\ k + j - 1 \in 1 .. n /\ k + i - 1 < k + j - 1
      BY <2>1, <2>4
    <3> QED
      BY <1>1, <2>3, <3>1 DEF InTime
  <2>5. Len(u) \in Nat /\ InTime(u)
    BY <2>1, <2>3, <2>4 DEF InTime
  <2> QED
    BY <1>3, <2>5 DEF u
<1> QED
  BY <1>2, <1>3, SinceIsFrom DEF Shown

\* The places in a sample go up by more than the rounding takes back.
LEMMA SamplesGrow ==
  ASSUME NEW n \in Nat, NEW m \in Nat, m > 0, n > m, NEW i \in Nat,
         NEW a \in SampleIndex(n, m, i), NEW b \in SampleIndex(n, m, i + 1)
  PROVE  a \in Nat /\ a < b
<1> DEFINE x == i * n
           y == (i + 1) * n
           q1 == x \div m
           r1 == x % m
           q2 == y \div m
           r2 == y % m
<1>1. x \in Nat /\ y \in Nat /\ y = x + n /\ (i # 0 => x >= n)
  <2>1. x \in Nat /\ y \in Nat /\ y = x + n
    BY SMT
  <2>2. \A j, k \in Nat : j # 0 => j * k >= k
    BY SMT
  <2> QED
    BY <2>1, <2>2
<1> HIDE DEF x, y
<1>2. q1 \in Nat /\ r1 \in Nat /\ r1 < m /\ x = q1 * m + r1
  BY <1>1, SMT
<1>3. q2 \in Nat /\ r2 \in Nat /\ r2 < m /\ y = q2 * m + r2
  BY <1>1, SMT
<1>4. a = q1 \/ (a = q1 - 1 /\ r1 = 0 /\ i # 0)
  BY DEF SampleIndex, x
<1>5. b = q2 \/ (b = q2 - 1 /\ r2 = 0)
  BY DEF SampleIndex, y
<1> HIDE DEF q1, q2, r1, r2
<1>6. q1 * m \in Nat /\ q2 * m \in Nat
  BY <1>2, <1>3, SMT
<1>7. q1 + 1 <= q2
  <2> SUFFICES ASSUME q2 <= q1 PROVE FALSE
    BY <1>2, <1>3
  <2>1. q2 * m <= q1 * m
    BY <1>2, <1>3, SMT
  <2> QED
    BY <1>1, <1>2, <1>3, <1>6, <2>1
<1>8. r2 = 0 => q1 + 2 <= q2
  <2> SUFFICES ASSUME r2 = 0, q2 <= q1 + 1 PROVE FALSE
    BY <1>2, <1>3
  <2>1. q2 * m <= (q1 + 1) * m
    BY <1>2, <1>3, SMT
  <2>2. (q1 + 1) * m = q1 * m + m
    BY <1>2, SMT
  <2> QED
    BY <1>1, <1>2, <1>3, <1>6, <2>1, <2>2
<1>9. i # 0 => q1 > 0
  <2> SUFFICES ASSUME i # 0, q1 = 0 PROVE FALSE
    BY <1>2
  <2>1. q1 * m = 0
    BY SMT
  <2> QED
    BY <1>1, <1>2, <2>1
<1> QED
  BY <1>2, <1>3, <1>4, <1>5, <1>7, <1>8, <1>9

\* The last place in a sample of m is within the n.
LEMMA SamplesEnd ==
  ASSUME NEW n \in Nat, NEW m \in Nat, m > 0, n > m, NEW i \in 0 .. m - 1
  PROVE  SampleIndex(n, m, i) \subseteq 0 .. n - 1
<1> SUFFICES ASSUME NEW a \in SampleIndex(n, m, i) PROVE a \in 0 .. n - 1
  OBVIOUS
<1>1. i \in Nat /\ i < m
  OBVIOUS
<1> DEFINE b == ((i + 1) * n) \div m
<1>2. b \in SampleIndex(n, m, i + 1)
  BY <1>1 DEF SampleIndex
<1>3. a \in Nat /\ a < b
  BY <1>1, <1>2, SamplesGrow
<1>4. b \in Nat /\ b <= n
  <2> DEFINE y == (i + 1) * n
             r == y % m
  <2>1. y \in Nat /\ y <= m * n
    BY <1>1, SMT
  <2> HIDE DEF y
  <2>2. b = y \div m
    BY DEF y
  <2>3. b \in Nat /\ r \in Nat /\ y = b * m + r
    BY <2>1, <2>2, SMT
  <2> HIDE DEF b, r
  <2>4. b <= n
    <3> SUFFICES ASSUME n + 1 <= b PROVE FALSE
      BY <2>3
    <3>1. (n + 1) * m <= b * m
      BY <2>3, SMT
    <3>2. (n + 1) * m = m * n + m
      BY SMT
    <3>3. m * n \in Nat /\ b * m \in Nat
      BY <2>3, SMT
    <3> QED
      BY <2>1, <2>3, <3>1, <3>2, <3>3
  <2> QED
    BY <2>3, <2>4
<1> HIDE DEF b
<1> QED
  BY <1>3, <1>4

\* However many readings there are, and however few a graph may have, its points are
\* readings of what is shown, each from a place of its own, in the order of time.
THEOREM GraphsInOrder == Spec => []GraphInOrder
<1>1. KeepInv => GraphInOrder
  <2> SUFFICES ASSUME KeepInv, NEW d \in Ranges, NEW m \in Limits, Len(Shown(d)) > m
               PROVE  /\ \A i \in 0 .. m - 1 :
                           SampleIndex(Len(Shown(d)), m, i) \subseteq 0 .. Len(Shown(d)) - 1
                      /\ \A i \in 0 .. m - 2 :
                           \A a \in SampleIndex(Len(Shown(d)), m, i),
                              b \in SampleIndex(Len(Shown(d)), m, i + 1) :
                             a < b /\ Shown(d)[a + 1].t <= Shown(d)[b + 1].t
    BY DEF GraphInOrder
  <2> DEFINE n == Len(Shown(d))
             s == Shown(d)
  <2>1. n \in Nat /\ InTime(s)
    BY ShownInTime
  <2>2. m \in Nat /\ m > 0 /\ n > m
    BY LimitsAssumption
  <2>3. Len(s) = n
    OBVIOUS
  <2> HIDE DEF n, s
  <2>4. \A i \in 0 .. m - 1 : SampleIndex(n, m, i) \subseteq 0 .. n - 1
    BY <2>1, <2>2, SamplesEnd
  <2>5. ASSUME NEW i \in 0 .. m - 2, NEW a \in SampleIndex(n, m, i), NEW b \in SampleIndex(n, m, i + 1)
        PROVE  a < b /\ s[a + 1].t <= s[b + 1].t
    <3>1. i \in Nat /\ i \in 0 .. m - 1 /\ i + 1 \in 0 .. m - 1
      BY <2>2
    <3>2. a < b
      BY <2>1, <2>2, <3>1, SamplesGrow
    <3>3. a \in 0 .. n - 1 /\ b \in 0 .. n - 1
      BY <2>4, <3>1
    <3>4. a + 1 \in 1 .. n /\ b + 1 \in 1 .. n /\ a + 1 < b + 1
      BY <2>1, <3>2, <3>3
    <3> QED
      BY <2>1, <2>3, <3>2, <3>4 DEF InTime
  <2> QED
    BY <2>4, <2>5 DEF n, s
<1> QED
  BY <1>1, KeepInvariant, PTL
-----------------------------------------------------------------------------
(* The files.                                                               *)

DayKept ==
  \A d \in Days : \A i \in DOMAIN files[d] :
    Day(files[d][i].t) = d =>
      \/ \E j \in DOMAIN files'[d] : files'[d][j] = files[d][i]
      \/ Len(files'[d]) = MaxPoints

\* A reading of today that was kept in memory is among those that are saved, unless
\* these are as many as a buffer holds.
LEMMA TodayIsSaved ==
  ASSUME KeepInv, pc = "saving", NEW i \in 1 .. Len(files[Today]),
         Day(files[Today][i].t) = Today
  PROVE  \/ \E j \in 1 .. Len(toSave) : toSave[j] = files[Today][i]
         \/ Len(toSave) = MaxPoints
<1> DEFINE p == files[Today][i]
<1>1. TypeOK
  BY DEF KeepInv
<1>2. /\ now \in Nat /\ points \in Seq(Reading) /\ Len(points) \in Nat
      /\ DOMAIN points = 1 .. Len(points) /\ Today \in Days
      /\ Today * DayLength \in Nat /\ now < Today * DayLength + DayLength
      /\ Retention * DayLength \in Nat /\ Retention * DayLength >= DayLength
  BY <1>1, Typed
<1>3. p \in Reading /\ p.t \in Nat /\ p.t \in Times
  BY <1>1, <1>2, FileTyped DEF Reading
<1>4. Today * DayLength <= p.t
  BY <1>3, DayTyped
<1>5. PICK time \in Int : time <= Today * DayLength /\ toSave = From(time, points)
  BY DEF KeepInv, Saving
<1> DEFINE D == Today * DayLength
           Ret == Retention * DayLength
<1>6. /\ Len(toSave) = Cardinality(Late(time, points))
      /\ \A k \in Late(time, points) : \E j \in 1 .. Len(toSave) : toSave[j] = points[k]
  <2>1. /\ Len(From(time, points)) = Cardinality(Late(time, points))
        /\ \A k \in Late(time, points) :
             \E j \in 1 .. Len(From(time, points)) : From(time, points)[j] = points[k]
    BY <1>2, FromProperties
  <2> QED
    BY <1>5, <2>1
<1>7. Kept(p)
  BY <1>2 DEF KeepInv, FilesKept
<1>8. D \in Nat /\ Ret \in Nat /\ Ret >= DayLength /\ now < D + DayLength /\ D <= p.t /\ time <= D
  BY <1>2, <1>4, <1>5
<1>9. \A k \in 1 .. Len(points) : points[k].t \in Nat
  BY <1>1, PointsTyped
<1>10. (\E k \in 1 .. Len(points) : points[k] = p) \/ p.t < now - Ret
         \/ (Len(points) = MaxPoints /\ \A k \in 1 .. Len(points) : p.t <= points[k].t)
  BY <1>7 DEF Kept, KeptIn
<1> HIDE DEF p, D, Ret
<1>11. CASE \E k \in 1 .. Len(points) : points[k] = p
  <2>1. PICK k \in 1 .. Len(points) : points[k] = p
    BY <1>11
  <2>2. k \in Late(time, points)
    BY <1>2, <1>3, <1>8, <2>1 DEF Late
  <2>3. \E j \in 1 .. Len(toSave) : toSave[j] = p
    BY <1>6, <2>1, <2>2
  <2> QED
    BY <2>3 DEF p
<1>12. CASE p.t < now - Ret
  BY <1>2, <1>3, <1>8, <1>12, Constants
<1>13. CASE Len(points) = MaxPoints /\ \A k \in 1 .. Len(points) : p.t <= points[k].t
  <2>1. \A k \in 1 .. Len(points) : points[k].t >= time
    BY <1>3, <1>8, <1>9, <1>13
  <2>2. Late(time, points) = 1 .. MaxPoints
    BY <1>2, <1>13, <2>1 DEF Late
  <2>3. Cardinality(1 .. MaxPoints) = MaxPoints
    BY Constants, FS_Interval
  <2> QED
    BY <1>6, <2>2, <2>3
<1> QED
  BY <1>10, <1>11, <1>12, <1>13

\* No step takes a reading from the file of its day, unless that is full.
LEMMA StepKeepsDays == KeepInv /\ [Next]_vars => [DayKept]_vars
<1> SUFFICES ASSUME KeepInv, [Next]_vars PROVE DayKept \/ UNCHANGED vars
  OBVIOUS
<1>1. CASE UNCHANGED files
  BY <1>1 DEF DayKept
<1>2. CASE SaveToday /\ files' # files
  <2>1. files' = [files EXCEPT ![Today] = toSave] /\ pc = "saving"
    BY <1>2 DEF SaveToday
  <2>2. DOMAIN files = Days /\ Today \in Days /\ toSave \in Seq(Reading)
    BY Typed DEF KeepInv, TypeOK, FilesTyped
  <2>3. DOMAIN toSave = 1 .. Len(toSave)
    BY <2>2, LenProperties
  <2>4. files'[Today] = toSave /\ \A d \in Days \ {Today} : files'[d] = files[d]
    BY <2>1, <2>2
  <2>5. DOMAIN files[Today] = 1 .. Len(files[Today])
    BY <2>2, FileTyped DEF KeepInv
  <2>6. ASSUME NEW d \in Days, NEW i \in DOMAIN files[d], Day(files[d][i].t) = d
        PROVE  \/ \E j \in DOMAIN files'[d] : files'[d][j] = files[d][i]
               \/ Len(files'[d]) = MaxPoints
    <3>1. CASE d = Today
      <4>1. \/ \E j \in 1 .. Len(toSave) : toSave[j] = files[Today][i]
            \/ Len(toSave) = MaxPoints
        BY <2>1, <2>5, <2>6, <3>1, TodayIsSaved
      <4> QED
        BY <2>3, <2>4, <3>1, <4>1
    <3>2. CASE d # Today
      BY <2>4, <3>2
    <3> QED
      BY <3>1, <3>2
  <2> QED
    BY <2>6 DEF DayKept
<1>3. files' = files \/ (SaveToday /\ files' # files)
  BY DEF Next, Measure, Push, SaveToday, Exit, Boot, Tick, vars
<1> QED
  BY <1>1, <1>2, <1>3

\* Whatever is lost of memory, and whichever writes fail, a write takes no reading of its
\* day from the day's file, unless the day has more of them than the buffer holds.
THEOREM DayFilesKept == Spec => DayFilesKeep
<1>1. KeepInv /\ [Next]_vars => [DayKept]_vars
  BY StepKeepsDays
<1> QED
  BY <1>1, KeepInvariant, PTL DEF Spec, DayFilesKeep, DayKept
=============================================================================
