--------------------------- MODULE LogBuffer_proofs -------------------------
(***************************************************************************)
(* The theorems of LogBuffer.  Heap, slice and map are changed together,   *)
(* so their consistency is one predicate of the three values, which each   *)
(* of the three ways to change them preserves.                             *)
(***************************************************************************)
EXTENDS LogBuffer, SequenceTheorems, TLAPS

WellTyped(h, es, ks) ==
  /\ DOMAIN h \subseteq Ptr
  /\ h \in [DOMAIN h -> Entry]
  /\ es \in Seq(DOMAIN h)
  /\ ks \in [DOMAIN ks -> DOMAIN h]

Indexed(h, es, ks) ==
  /\ \A i \in 1 .. Len(es) : /\ KeyOf(h[es[i]]) \in DOMAIN ks
                             /\ ks[KeyOf(h[es[i]])] = es[i]
  /\ \A k \in DOMAIN ks : \E i \in 1 .. Len(es) : k = KeyOf(h[es[i]])
  /\ \A i, j \in 1 .. Len(es) : es[i] = es[j] => i = j

Chronological(h, es) ==
  \A i, j \in 1 .. Len(es) : i <= j => h[es[i]].ts <= h[es[j]].ts

Spanned(x) == x.ts <= x.lastSeen /\ Bucket(x.lastSeen) = Bucket(x.ts)

Consistent(h, es, ks) ==
  /\ WellTyped(h, es, ks)
  /\ Indexed(h, es, ks)
  /\ Chronological(h, es)
  /\ \A p \in DOMAIN h : Spanned(h[p])

\* The parts of the state no invariant but type correctness speaks of.
Scalars ==
  /\ now \in Times
  /\ loading \in BOOLEAN
  /\ addN \in 0 .. PruneEvery - 1
  /\ loaded \in Nat
  /\ fed \in Nat

Inv == Scalars /\ Consistent(heap, entries, keyed)

USE BucketSizeAssumption, MaxTimeAssumption, MaxAgeAssumption,
    MaxSizeAssumption, PruneEveryAssumption
-----------------------------------------------------------------------------
(* What aggregation does to one entry.                                     *)

\* An event absorbed by the entry of its key leaves a well-formed entry with
\* the same key and time stamp.
LEMMA AbsorbKeeps ==
  ASSUME NEW x \in Entry, NEW e \in Event, KeyOf(x) = KeyOf(e), Spanned(x)
  PROVE  /\ Absorb(x, e) \in Entry
         /\ Absorb(x, e).ts = x.ts
         /\ KeyOf(Absorb(x, e)) = KeyOf(x)
         /\ Spanned(Absorb(x, e))
<1>1. e.ts \in Times /\ x.ts \in Times /\ x.lastSeen \in Times
  BY DEF Entry, Event
<1>2. Bucket(x.ts) = Bucket(e.ts)
  BY DEF KeyOf
<1>3. Later(e.ts, x.lastSeen) \in Times /\ x.ts <= Later(e.ts, x.lastSeen)
  BY <1>1 DEF Later, Times, Spanned
<1>4. Bucket(Later(e.ts, x.lastSeen)) = Bucket(x.ts)
  BY <1>2 DEF Later, Spanned
<1>5. Worse(e.sev, x.sev) \in Severities
  BY DEF Worse, Entry, Event
<1>6. x.count + 1 \in Nat \ {0}
  BY DEF Entry
<1>7. /\ Absorb(x, e) \in Entry
      /\ Absorb(x, e).ts = x.ts
      /\ Absorb(x, e).kind = x.kind
      /\ Absorb(x, e).lastSeen = Later(e.ts, x.lastSeen)
  BY <1>3, <1>5, <1>6 DEF Entry, Absorb
<1> QED
  BY <1>3, <1>4, <1>7 DEF KeyOf, Spanned

\* The same for an entry of a day file.
LEMMA CombineKeeps ==
  ASSUME NEW x \in Entry, NEW d \in Entry, KeyOf(x) = KeyOf(d),
         Spanned(x), Spanned(d)
  PROVE  /\ Combine(x, d) \in Entry
         /\ Combine(x, d).ts = x.ts
         /\ KeyOf(Combine(x, d)) = KeyOf(x)
         /\ Spanned(Combine(x, d))
<1>1. d.lastSeen \in Times /\ x.ts \in Times /\ x.lastSeen \in Times
  BY DEF Entry
<1>2. Bucket(x.ts) = Bucket(d.ts)
  BY DEF KeyOf
<1>3. Later(d.lastSeen, x.lastSeen) \in Times /\ x.ts <= Later(d.lastSeen, x.lastSeen)
  BY <1>1 DEF Later, Times, Spanned
<1>4. Bucket(Later(d.lastSeen, x.lastSeen)) = Bucket(x.ts)
  BY <1>2 DEF Later, Spanned
<1>5. x.count + d.count \in Nat \ {0}
  BY DEF Entry
<1>6. /\ Combine(x, d) \in Entry
      /\ Combine(x, d).ts = x.ts
      /\ Combine(x, d).kind = x.kind
      /\ Combine(x, d).lastSeen = Later(d.lastSeen, x.lastSeen)
  BY <1>3, <1>5 DEF Entry, Combine
<1> QED
  BY <1>3, <1>4, <1>6 DEF KeyOf, Spanned

\* A new entry, of an event or of a day file, is well formed.
LEMMA FirstIsEntry ==
  ASSUME NEW e \in Event
  PROVE  FirstOf(e) \in Entry /\ Spanned(FirstOf(e)) /\ KeyOf(FirstOf(e)) = KeyOf(e)
  BY DEF Entry, Event, FirstOf, Spanned, KeyOf, Times

\* A day-file entry is well formed once it has the defaults of AddAggregated.
LEMMA NormalisedIsEntry ==
  ASSUME NEW d \in Saved
  PROVE  Normalised(d) \in Entry /\ Spanned(Normalised(d))
<1> DEFINE c == IF d.count = 0 THEN 1 ELSE d.count
           l == IF d.lastSeen = Zero THEN d.ts ELSE d.lastSeen
<1>1. /\ d \in DiskEntry
      /\ d.lastSeen # Zero => d.ts <= d.lastSeen /\ Bucket(d.lastSeen) = Bucket(d.ts)
  BY SavedAssumption
<1>2. c \in Nat \ {0} /\ l \in Times
  BY <1>1 DEF DiskEntry, Times, Zero
<1>3. d.ts <= l /\ Bucket(l) = Bucket(d.ts)
  BY <1>1 DEF DiskEntry, Times
<1>4. /\ Normalised(d) \in Entry
      /\ Normalised(d).ts = d.ts
      /\ Normalised(d).lastSeen = l
  BY <1>1, <1>2 DEF Normalised, DiskEntry, Entry
<1> QED
  BY <1>3, <1>4 DEF Spanned
-----------------------------------------------------------------------------
(* What the two operations on the slice do.                                *)

\* An insertion shifts what follows it and moves nothing else.
LEMMA InsertedProperties ==
  ASSUME NEW S, NEW es \in Seq(S), NEW i \in 0 .. Len(es), NEW p
  PROVE  /\ Inserted(es, i, p) \in Seq(S \cup {p})
         /\ Len(Inserted(es, i, p)) = Len(es) + 1
         /\ \A j \in 1 .. i : Inserted(es, i, p)[j] = es[j]
         /\ Inserted(es, i, p)[i + 1] = p
         /\ \A j \in i + 2 .. Len(es) + 1 : Inserted(es, i, p)[j] = es[j - 1]
  BY DEF Inserted

\* Dropping from the front keeps the rest in place.
LEMMA SuffixProperties ==
  ASSUME NEW S, NEW es \in Seq(S), NEW d \in 0 .. Len(es)
  PROVE  /\ Suffix(es, d) \in Seq(S)
         /\ Len(Suffix(es, d)) = Len(es) - d
         /\ \A j \in 1 .. Len(es) - d : Suffix(es, d)[j] = es[j + d]
  BY DEF Suffix
-----------------------------------------------------------------------------
(* The three ways to change heap, slice and map.                           *)

\* An entry changed in place keeps its key and its place in time.
LEMMA AggregateConsistent ==
  ASSUME NEW h, NEW es, NEW ks, Consistent(h, es, ks),
         NEW p \in DOMAIN h, NEW x \in Entry, Spanned(x),
         x.ts = h[p].ts, KeyOf(x) = KeyOf(h[p])
  PROVE  Consistent([h EXCEPT ![p] = x], es, ks)
<1> DEFINE g == [h EXCEPT ![p] = x]
<1>1. /\ DOMAIN g = DOMAIN h
      /\ \A q \in DOMAIN h : g[q].ts = h[q].ts /\ KeyOf(g[q]) = KeyOf(h[q])
  BY DEF Consistent, WellTyped
<1>2. \A q \in DOMAIN h : g[q] \in Entry /\ Spanned(g[q])
  BY DEF Consistent, WellTyped
<1>3. \A i \in 1 .. Len(es) : es[i] \in DOMAIN h
  BY DEF Consistent, WellTyped
<1>4. WellTyped(g, es, ks)
  BY <1>1, <1>2 DEF Consistent, WellTyped
<1>5. Indexed(g, es, ks)
  BY <1>1, <1>3 DEF Consistent, Indexed
<1>6. Chronological(g, es)
  BY <1>1, <1>3 DEF Consistent, Chronological
<1> QED
  BY <1>1, <1>2, <1>4, <1>5, <1>6 DEF Consistent

\* A new entry under a fresh address and a key the map lacks, at a place
\* where no older entry follows and no younger one precedes.
LEMMA InsertConsistent ==
  ASSUME NEW h, NEW es, NEW ks, Consistent(h, es, ks),
         NEW p \in Ptr, p \notin DOMAIN h,
         NEW x \in Entry, Spanned(x), KeyOf(x) \notin DOMAIN ks,
         NEW n \in 0 .. Len(es),
         \A j \in 1 .. n : h[es[j]].ts <= x.ts,
         \A j \in n + 1 .. Len(es) : x.ts <= h[es[j]].ts
  PROVE  Consistent(With(h, p, x), Inserted(es, n, p), With(ks, KeyOf(x), p))
<1> DEFINE g == With(h, p, x)
           fs == Inserted(es, n, p)
           ls == With(ks, KeyOf(x), p)
<1>1. /\ DOMAIN g = DOMAIN h \cup {p}
      /\ g[p] = x
      /\ \A q \in DOMAIN h : g[q] = h[q]
  BY DEF With
<1>2. /\ DOMAIN ls = DOMAIN ks \cup {KeyOf(x)}
      /\ ls[KeyOf(x)] = p
      /\ \A k \in DOMAIN ks : ls[k] = ks[k]
  BY DEF With
<1>3. /\ es \in Seq(DOMAIN h)
      /\ Len(es) \in Nat
      /\ \A j \in 1 .. Len(es) : es[j] \in DOMAIN h
  BY DEF Consistent, WellTyped
<1>4. /\ fs \in Seq(DOMAIN h \cup {p})
      /\ Len(fs) = Len(es) + 1
      /\ \A j \in 1 .. n : fs[j] = es[j]
      /\ fs[n + 1] = p
      /\ \A j \in n + 2 .. Len(es) + 1 : fs[j] = es[j - 1]
  <2>1. es \in Seq(DOMAIN h) /\ n \in 0 .. Len(es)
    BY <1>3
  <2>2. fs \in Seq(DOMAIN h \cup {p})
    BY <2>1, InsertedProperties
  <2>3. Len(fs) = Len(es) + 1
    BY <2>1, InsertedProperties
  <2>4. \A j \in 1 .. n : fs[j] = es[j]
    BY <2>1 DEF Inserted
  <2>5. fs[n + 1] = p
    BY <2>1 DEF Inserted
  <2>6. \A j \in n + 2 .. Len(es) + 1 : fs[j] = es[j - 1]
    BY <2>1 DEF Inserted
  <2> QED
    BY <2>2, <2>3, <2>4, <2>5, <2>6
<1> HIDE DEF g, fs, ls
<1>5. \A j \in 1 .. Len(fs) :
        \/ j <= n /\ j \in 1 .. Len(es) /\ fs[j] = es[j]
        \/ j = n + 1 /\ fs[j] = p
        \/ j > n + 1 /\ j - 1 \in n + 1 .. Len(es) /\ fs[j] = es[j - 1]
  BY <1>3, <1>4
<1>6. WellTyped(g, fs, ls)
  <2>1. DOMAIN g \subseteq Ptr /\ g \in [DOMAIN g -> Entry]
    BY <1>1 DEF Consistent, WellTyped, g, With
  <2>2. ls \in [DOMAIN ls -> DOMAIN g]
    BY <1>1, <1>2 DEF Consistent, WellTyped, ls, With
  <2> QED
    BY <2>1, <2>2, <1>1, <1>4 DEF WellTyped
<1>7. Indexed(g, fs, ls)
  <2>1. ASSUME NEW j \in 1 .. Len(fs)
        PROVE  KeyOf(g[fs[j]]) \in DOMAIN ls /\ ls[KeyOf(g[fs[j]])] = fs[j]
    <3>1. CASE fs[j] = p
      BY <3>1, <1>1, <1>2
    <3>2. CASE \E i \in 1 .. Len(es) : fs[j] = es[i]
      BY <3>2, <1>1, <1>2, <1>3 DEF Consistent, Indexed
    <3> QED
      BY <3>1, <3>2, <1>3, <1>5
  <2>2. ASSUME NEW k \in DOMAIN ls
        PROVE  \E j \in 1 .. Len(fs) : k = KeyOf(g[fs[j]])
    <3>1. CASE k = KeyOf(x)
      BY SMTT(30), <3>1, <1>1, <1>3, <1>4
    <3>2. CASE k \in DOMAIN ks
      <4>1. PICK i \in 1 .. Len(es) : k = KeyOf(h[es[i]])
        BY <3>2 DEF Consistent, Indexed
      <4>2. \E j \in 1 .. Len(fs) : fs[j] = es[i]
        <5>1. CASE i <= n
          BY <5>1, <1>3, <1>4
        <5>2. CASE i > n
          <6>1. i + 1 \in n + 2 .. Len(es) + 1 /\ (i + 1) - 1 = i
            BY <5>2, <1>3
          <6>2. fs[i + 1] = es[i]
            BY <6>1, <1>4
          <6>3. i + 1 \in 1 .. Len(fs)
            BY <1>3, <1>4
          <6> QED
            BY <6>2, <6>3
        <5> QED
          BY <5>1, <5>2
      <4> QED
        BY <4>1, <4>2, <1>1, <1>3
    <3> QED
      BY <3>1, <3>2, <1>2
  <2>3. ASSUME NEW i \in 1 .. Len(fs), NEW j \in 1 .. Len(fs), fs[i] = fs[j]
        PROVE  i = j
    <3>1. \A m \in 1 .. Len(es) : es[m] # p
      BY <1>3
    <3>2. \A l, m \in 1 .. Len(es) : es[l] = es[m] => l = m
      BY DEF Consistent, Indexed
    <3> QED
      BY <2>3, <3>1, <3>2, <1>3, <1>5
  <2> QED
    BY <2>1, <2>2, <2>3 DEF Indexed
<1>8. Chronological(g, fs)
  <2>1. \A i, j \in 1 .. Len(es) : i <= j => h[es[i]].ts <= h[es[j]].ts
    BY DEF Consistent, Chronological
  <2>2. \A i \in 1 .. Len(es) : h[es[i]].ts \in Int /\ g[es[i]] = h[es[i]]
    <3>1. \A q \in DOMAIN h : h[q] \in Entry
      BY DEF Consistent, WellTyped
    <3> QED
      BY SMTT(30), <3>1, <1>1, <1>3 DEF Entry, Times
  <2>3. x.ts \in Int /\ g[p] = x
    BY <1>1 DEF Entry, Times
  <2>4. ASSUME NEW i \in 1 .. Len(fs), NEW j \in 1 .. Len(fs), i <= j
        PROVE  g[fs[i]].ts <= g[fs[j]].ts
    <3>1. CASE j <= n
      BY SMTT(30), <3>1, <2>1, <2>2, <2>4, <1>3, <1>5
    <3>2. CASE j = n + 1
      BY SMTT(30), <3>2, <2>2, <2>3, <2>4, <1>3, <1>5
    <3>3. CASE j > n + 1
      <4>1. j - 1 \in n + 1 .. Len(es) /\ fs[j] = es[j - 1]
        BY <3>3, <1>3, <1>5
      <4>2. CASE i <= n
        BY <4>1, <4>2, <2>1, <2>2, <1>3, <1>5
      <4>3. CASE i = n + 1
        BY SMTT(30), <4>1, <4>3, <2>2, <2>3, <1>3, <1>5
      <4>4. CASE i > n + 1
        <5>1. i - 1 \in n + 1 .. Len(es) /\ fs[i] = es[i - 1] /\ i - 1 <= j - 1
          BY <4>4, <2>4, <1>3, <1>4, <1>5
        <5>2. i - 1 \in 1 .. Len(es) /\ j - 1 \in 1 .. Len(es)
          BY <4>1, <5>1, <1>3
        <5>3. h[es[i - 1]].ts <= h[es[j - 1]].ts
          BY <5>1, <5>2, <2>1
        <5> QED
          BY <4>1, <5>1, <5>2, <5>3, <2>2
      <4> QED
        BY <4>2, <4>3, <4>4
    <3> QED
      BY <3>1, <3>2, <3>3
  <2> QED
    BY <2>4 DEF Chronological
<1>9. \A q \in DOMAIN g : Spanned(g[q])
  BY <1>1 DEF Consistent
<1> QED
  BY <1>6, <1>7, <1>8, <1>9 DEF Consistent, g, fs, ls

\* pruneLocked drops no more than there is and leaves at most MaxSize.
LEMMA DropsInRange ==
  ASSUME NEW h, NEW S, NEW es \in Seq(S), NEW d \in Drops(h, es)
  PROVE  d \in 0 .. Len(es) /\ Len(es) - d <= MaxSize
<1>1. PICK c \in 0 .. Len(es) :
        d = IF Len(es) - c > MaxSize THEN Len(es) - MaxSize ELSE c
  BY DEF Drops, CutsAt
<1> QED
  BY <1>1

\* Dropping from the front of the slice, with the dropped keys deleted.
LEMMA PruneConsistent ==
  ASSUME NEW h, NEW es, NEW ks, Consistent(h, es, ks), NEW d \in 0 .. Len(es)
  PROVE  Consistent(Reachable(h, Suffix(es, d), Without(ks, h, es, d)),
                    Suffix(es, d), Without(ks, h, es, d))
<1> DEFINE gone == {KeyOf(h[es[i]]) : i \in 1 .. d}
           fs == Suffix(es, d)
           ls == Without(ks, h, es, d)
           g == Reachable(h, fs, ls)
<1>1. /\ es \in Seq(DOMAIN h)
      /\ Len(es) \in Nat
      /\ \A j \in 1 .. Len(es) : es[j] \in DOMAIN h
  BY DEF Consistent, WellTyped
<1>2. /\ fs \in Seq(DOMAIN h)
      /\ Len(fs) = Len(es) - d
      /\ \A j \in 1 .. Len(es) - d : fs[j] = es[j + d]
  BY SMTT(30), <1>1 DEF Suffix
<1>3. /\ DOMAIN ls = DOMAIN ks \ gone
      /\ \A k \in DOMAIN ls : ls[k] = ks[k]
  BY DEF Without, Restricted
<1>4. DOMAIN g = Image(fs) \cup Image(ls) /\ \A p \in DOMAIN g : g[p] = h[p]
  BY DEF Reachable, Restricted
<1>5. \A k \in DOMAIN ls : \E j \in 1 .. Len(fs) : k = KeyOf(h[fs[j]]) /\ ls[k] = fs[j]
  <2>1. TAKE k \in DOMAIN ls
  <2>2. PICK i \in 1 .. Len(es) : k = KeyOf(h[es[i]]) /\ ks[k] = es[i]
    BY <1>3 DEF Consistent, Indexed
  <2>3. i \notin 1 .. d
    BY <2>2, <1>3
  <2>4. i - d \in 1 .. Len(fs) /\ fs[i - d] = es[i]
    BY <2>3, <1>1, <1>2
  <2> QED
    BY <2>2, <2>4, <1>3
<1>6. \A j \in 1 .. Len(fs) : j + d \in d + 1 .. Len(es) /\ fs[j] = es[j + d]
  BY <1>1, <1>2
<1> HIDE DEF fs, ls, g, gone
<1>7. DOMAIN g \subseteq DOMAIN h /\ \A j \in 1 .. Len(fs) : fs[j] \in DOMAIN g
  <2>1. Image(fs) = {fs[j] : j \in 1 .. Len(fs)}
    BY <1>2 DEF Image
  <2>2. Image(ls) \subseteq Image(fs)
    BY <2>1, <1>5 DEF Image
  <2> QED
    BY SMTT(30), <2>1, <2>2, <1>1, <1>4, <1>6
<1>8. WellTyped(g, fs, ls)
  <2>1. DOMAIN g \subseteq Ptr /\ g \in [DOMAIN g -> Entry]
    BY <1>4, <1>7 DEF Consistent, WellTyped, g, Reachable, Restricted
  <2>2. fs \in Seq(DOMAIN g)
    BY <1>2, <1>7
  <2>3. ls \in [DOMAIN ls -> DOMAIN g]
    <3>1. \A k \in DOMAIN ls : ls[k] \in DOMAIN g
      BY <1>5, <1>7
    <3> QED
      BY <3>1 DEF ls, Without, Restricted
  <2> QED
    BY <2>1, <2>2, <2>3 DEF WellTyped
<1>9. Indexed(g, fs, ls)
  <2>1. ASSUME NEW j \in 1 .. Len(fs)
        PROVE  KeyOf(g[fs[j]]) \in DOMAIN ls /\ ls[KeyOf(g[fs[j]])] = fs[j]
    <3> DEFINE k == KeyOf(h[es[j + d]])
    <3>1. j + d \in 1 .. Len(es) /\ j + d \notin 1 .. d /\ fs[j] = es[j + d]
      BY <1>1, <1>6
    <3>2. k \in DOMAIN ks /\ ks[k] = es[j + d]
      BY <3>1 DEF Consistent, Indexed
    <3>3. k \notin gone
      <4>1. SUFFICES ASSUME NEW i \in 1 .. d, k = KeyOf(h[es[i]])
                     PROVE  FALSE
        BY DEF gone
      <4>2. ks[k] = es[i] /\ i \in 1 .. Len(es)
        BY <4>1, <1>1 DEF Consistent, Indexed
      <4>3. i = j + d
        BY <4>2, <3>1, <3>2 DEF Consistent, Indexed
      <4> QED
        BY <4>3, <3>1
    <3>4. g[fs[j]] = h[es[j + d]]
      BY <3>1, <1>4, <1>7
    <3> QED
      BY <3>1, <3>2, <3>3, <3>4, <1>3
  <2>2. \A k \in DOMAIN ls : \E j \in 1 .. Len(fs) : k = KeyOf(g[fs[j]])
    BY <1>4, <1>5, <1>7
  <2>3. ASSUME NEW i \in 1 .. Len(fs), NEW j \in 1 .. Len(fs), fs[i] = fs[j]
        PROVE  i = j
    <3>1. /\ i + d \in 1 .. Len(es) /\ j + d \in 1 .. Len(es)
          /\ es[i + d] = es[j + d]
      BY <2>3, <1>1, <1>6
    <3>2. i + d = j + d
      BY <3>1 DEF Consistent, Indexed
    <3> QED
      BY <3>2
  <2> QED
    BY <2>1, <2>2, <2>3 DEF Indexed
<1>10. Chronological(g, fs)
  <2>1. ASSUME NEW i \in 1 .. Len(fs), NEW j \in 1 .. Len(fs), i <= j
        PROVE  g[fs[i]].ts <= g[fs[j]].ts
    <3>1. /\ i + d \in 1 .. Len(es) /\ j + d \in 1 .. Len(es) /\ i + d <= j + d
          /\ fs[i] = es[i + d] /\ fs[j] = es[j + d]
      BY <2>1, <1>1, <1>6
    <3>2. h[es[i + d]].ts <= h[es[j + d]].ts
      BY <3>1 DEF Consistent, Chronological
    <3> QED
      BY <3>1, <3>2, <1>4, <1>7
  <2> QED
    BY <2>1 DEF Chronological
<1>11. \A p \in DOMAIN g : Spanned(g[p])
  BY <1>4, <1>7 DEF Consistent
<1> QED
  BY <1>8, <1>9, <1>10, <1>11 DEF Consistent, g, fs, ls

\* Where the slice is in order, sort.Search finds the one place for a new entry.
LEMMA InsertionInOrder ==
  ASSUME Inv, NEW ts \in Times, NEW n \in InsertionPoints(ts)
  PROVE  /\ n \in 0 .. Len(entries)
         /\ \A j \in 1 .. n : heap[entries[j]].ts <= ts
         /\ \A j \in n + 1 .. Len(entries) : ts <= heap[entries[j]].ts
<1>1. Len(entries) \in Nat /\ ts \in Int
  BY DEF Inv, Consistent, WellTyped, Times
<1>2. \A j \in 1 .. Len(entries) : heap[entries[j]].ts \in Int
  <2>1. \A p \in DOMAIN heap : heap[p] \in Entry
    BY DEF Inv, Consistent, WellTyped
  <2>2. \A j \in 1 .. Len(entries) : entries[j] \in DOMAIN heap
    BY DEF Inv, Consistent, WellTyped
  <2> QED
    BY <2>1, <2>2 DEF Entry, Times
<1>3. \A i, j \in 1 .. Len(entries) : i <= j => heap[entries[i]].ts <= heap[entries[j]].ts
  BY DEF Inv, Consistent, Chronological
<1>4. CASE Len(entries) = 0 \/ At(Len(entries)).ts <= ts
  <2>1. n = Len(entries)
    BY <1>4 DEF InsertionPoints
  <2>2. ASSUME NEW j \in 1 .. n
        PROVE  heap[entries[j]].ts <= ts
    <3>1. Len(entries) \in 1 .. Len(entries) /\ j <= Len(entries)
      BY <2>1, <1>1
    <3>2. heap[entries[j]].ts <= heap[entries[Len(entries)]].ts
      BY <2>1, <3>1, <1>3
    <3> QED
      BY <1>1, <1>2, <1>4, <2>1, <3>1, <3>2 DEF At
  <2> QED
    BY <1>1, <2>1, <2>2
<1>5. CASE ~(Len(entries) = 0 \/ At(Len(entries)).ts <= ts)
  <2>1. /\ n \in 0 .. Len(entries)
        /\ n < Len(entries) => heap[entries[n + 1]].ts > ts
        /\ n > 0 => heap[entries[n]].ts <= ts
    BY <1>5 DEF InsertionPoints, At
  <2>2. ASSUME NEW j \in 1 .. n
        PROVE  heap[entries[j]].ts <= ts
    <3>1. j \in 1 .. Len(entries) /\ n \in 1 .. Len(entries) /\ j <= n
      BY <2>1, <1>1
    <3>2. heap[entries[j]].ts <= heap[entries[n]].ts
      BY <3>1, <1>3
    <3> QED
      BY <1>1, <1>2, <2>1, <3>1, <3>2
  <2>3. ASSUME NEW j \in n + 1 .. Len(entries)
        PROVE  ts <= heap[entries[j]].ts
    <3>1. j \in 1 .. Len(entries) /\ n + 1 \in 1 .. Len(entries) /\ n + 1 <= j
      BY <2>1, <1>1
    <3>2. heap[entries[n + 1]].ts <= heap[entries[j]].ts
      BY <3>1, <1>3
    <3> QED
      BY <1>1, <1>2, <2>1, <3>1, <3>2
  <2> QED
    BY <2>1, <2>2, <2>3
<1> QED
  BY <1>4, <1>5

\* The end of an insertion, pruning or not.
LEMMA TallyConsistent ==
  ASSUME Inv, NEW h, NEW es, NEW ks, Consistent(h, es, ks), Tally(h, es, ks)
  PROVE  Consistent(heap, entries, keyed)' /\ addN' \in 0 .. PruneEvery - 1
<1>1. addN' \in 0 .. PruneEvery - 1
  BY DEF Tally, Inv, Scalars
<1>2. CASE addN + 1 >= PruneEvery
  <2>1. Prune(h, es, ks)
    BY <1>2 DEF Tally
  <2>2. es \in Seq(DOMAIN h)
    BY DEF Consistent, WellTyped
  <2>3. PICK d \in Drops(h, es) :
          /\ entries' = Suffix(es, d)
          /\ keyed' = Without(ks, h, es, d)
          /\ heap' = Reachable(h, Suffix(es, d), Without(ks, h, es, d))
    BY <2>1 DEF Prune
  <2>4. d \in 0 .. Len(es)
    BY <2>2, DropsInRange
  <2>5. Consistent(Reachable(h, Suffix(es, d), Without(ks, h, es, d)),
                   Suffix(es, d), Without(ks, h, es, d))
    BY <2>4, PruneConsistent
  <2> QED
    BY <1>1, <2>3, <2>5 DEF Consistent, WellTyped, Indexed, Chronological
<1>3. CASE ~(addN + 1 >= PruneEvery)
  <2>1. heap' = h /\ entries' = es /\ keyed' = ks
    BY <1>3 DEF Tally
  <2> QED
    BY <2>1, <1>1 DEF Consistent, WellTyped, Indexed, Chronological
<1> QED
  BY <1>2, <1>3
-----------------------------------------------------------------------------
(* The inductive invariant.                                                *)

\* The empty buffer satisfies the invariant.
LEMMA InitInv ==
  ASSUME Init
  PROVE  Inv
<1>1. Scalars
  BY DEF Init, Scalars, Times
<1>2. /\ DOMAIN heap = {} /\ DOMAIN entries = {} /\ DOMAIN keyed = {}
      /\ Len(entries) = 0 /\ entries \in Seq(DOMAIN heap)
  BY DEF Init
<1>3. Consistent(heap, entries, keyed)
  BY <1>2 DEF Consistent, WellTyped, Indexed, Chronological, Init
<1> QED
  BY <1>1, <1>3 DEF Inv

\* An entry the map leads to may be changed in place.
LEMMA KnownEntry ==
  ASSUME Inv, NEW k \in DOMAIN keyed
  PROVE  /\ keyed[k] \in DOMAIN heap
         /\ heap[keyed[k]] \in Entry
         /\ KeyOf(heap[keyed[k]]) = k
         /\ Spanned(heap[keyed[k]])
<1>1. PICK i \in 1 .. Len(entries) : k = KeyOf(heap[entries[i]])
  BY DEF Inv, Consistent, Indexed
<1>2. keyed[k] = entries[i]
  BY <1>1 DEF Inv, Consistent, Indexed
<1>3. keyed[k] \in DOMAIN heap
  BY DEF Inv, Consistent, WellTyped
<1> QED
  BY <1>1, <1>2, <1>3 DEF Inv, Consistent, WellTyped

\* AddEvent preserves the invariant, whether it aggregates, inserts or prunes.
LEMMA AddEventInv ==
  ASSUME Inv, NEW e \in Event, AddEvent(e)
  PROVE  Inv'
<1>1. /\ now' \in Times /\ loading' \in BOOLEAN /\ loaded' \in Nat /\ fed' \in Nat
  BY DEF AddEvent, Inv, Scalars
<1>2. CASE KeyOf(e) \in DOMAIN keyed
  <2> DEFINE p == keyed[KeyOf(e)]
             x == Absorb(heap[p], e)
  <2>1. /\ p \in DOMAIN heap /\ heap[p] \in Entry
        /\ KeyOf(heap[p]) = KeyOf(e) /\ Spanned(heap[p])
    BY <1>2, KnownEntry
  <2>2. x \in Entry /\ Spanned(x) /\ x.ts = heap[p].ts /\ KeyOf(x) = KeyOf(heap[p])
    BY <2>1, AbsorbKeeps
  <2>3. /\ heap' = [heap EXCEPT ![p] = x]
        /\ entries' = entries /\ keyed' = keyed /\ addN' = addN
    BY <1>2 DEF AddEvent, Aggregate
  <2> HIDE DEF p, x
  <2>4. Consistent([heap EXCEPT ![p] = x], entries, keyed)
    BY <2>1, <2>2, AggregateConsistent DEF Inv
  <2> QED
    BY <1>1, <2>3, <2>4 DEF Inv, Scalars
<1>3. CASE KeyOf(e) \notin DOMAIN keyed
  <2>1. PICK p \in Ptr \ DOMAIN heap, n \in InsertionPoints(e.ts) :
          Tally(With(heap, p, FirstOf(e)), Inserted(entries, n, p),
                With(keyed, KeyOf(e), p))
    BY <1>3 DEF AddEvent
  <2> DEFINE x == FirstOf(e)
  <2>2. x \in Entry /\ Spanned(x) /\ KeyOf(x) = KeyOf(e) /\ x.ts = e.ts
    BY FirstIsEntry DEF FirstOf
  <2>3. e.ts \in Times
    BY DEF Event
  <2>4. /\ n \in 0 .. Len(entries)
        /\ \A j \in 1 .. n : heap[entries[j]].ts <= x.ts
        /\ \A j \in n + 1 .. Len(entries) : x.ts <= heap[entries[j]].ts
    BY <2>2, <2>3, InsertionInOrder
  <2>5. Tally(With(heap, p, x), Inserted(entries, n, p), With(keyed, KeyOf(x), p))
    BY <2>1, <2>2
  <2> HIDE DEF x
  <2>6. Consistent(With(heap, p, x), Inserted(entries, n, p), With(keyed, KeyOf(x), p))
    BY <1>3, <2>2, <2>4, InsertConsistent DEF Inv
  <2>7. Consistent(heap, entries, keyed)' /\ addN' \in 0 .. PruneEvery - 1
    BY <2>5, <2>6, TallyConsistent
  <2> QED
    BY <1>1, <2>7 DEF Inv, Scalars
<1> QED
  BY <1>2, <1>3

\* So does AddAggregated, which never prunes.
LEMMA AddAggregatedInv ==
  ASSUME Inv, NEW d \in Saved, AddAggregated(d)
  PROVE  Inv'
<1> DEFINE e == Normalised(d)
<1>1. Scalars'
  BY DEF AddAggregated, Inv, Scalars
<1>2. e \in Entry /\ Spanned(e) /\ e.ts \in Times
  BY NormalisedIsEntry DEF Entry
<1>3. CASE KeyOf(e) \in DOMAIN keyed
  <2> DEFINE p == keyed[KeyOf(e)]
             x == Combine(heap[p], e)
  <2>1. /\ p \in DOMAIN heap /\ heap[p] \in Entry
        /\ KeyOf(heap[p]) = KeyOf(e) /\ Spanned(heap[p])
    BY <1>3, KnownEntry
  <2>2. x \in Entry /\ Spanned(x) /\ x.ts = heap[p].ts /\ KeyOf(x) = KeyOf(heap[p])
    BY <1>2, <2>1, CombineKeeps
  <2>3. heap' = [heap EXCEPT ![p] = x] /\ entries' = entries /\ keyed' = keyed
    BY <1>3 DEF AddAggregated
  <2> HIDE DEF p, x
  <2>4. Consistent([heap EXCEPT ![p] = x], entries, keyed)
    BY <2>1, <2>2, AggregateConsistent DEF Inv
  <2> QED
    BY <1>1, <2>3, <2>4 DEF Inv
<1>4. CASE KeyOf(e) \notin DOMAIN keyed
  <2>1. PICK p \in Ptr \ DOMAIN heap, n \in InsertionPoints(e.ts) :
          /\ heap' = With(heap, p, e)
          /\ entries' = Inserted(entries, n, p)
          /\ keyed' = With(keyed, KeyOf(e), p)
    BY <1>4 DEF AddAggregated
  <2> HIDE DEF e
  <2>2. /\ n \in 0 .. Len(entries)
        /\ \A j \in 1 .. n : heap[entries[j]].ts <= e.ts
        /\ \A j \in n + 1 .. Len(entries) : e.ts <= heap[entries[j]].ts
    BY <1>2, InsertionInOrder
  <2>3. Consistent(With(heap, p, e), Inserted(entries, n, p), With(keyed, KeyOf(e), p))
    BY <1>2, <1>4, <2>2, InsertConsistent DEF Inv
  <2> QED
    BY <1>1, <2>1, <2>3 DEF Inv
<1> QED
  BY <1>3, <1>4

\* Every step preserves the invariant.
LEMMA NextInv ==
  ASSUME Inv, [Next]_vars
  PROVE  Inv'
<1>1. ASSUME NEW e \in Event, AddEvent(e)
      PROVE  Inv'
  BY <1>1, AddEventInv
<1>2. ASSUME NEW d \in Saved, AddAggregated(d)
      PROVE  Inv'
  BY <1>2, AddAggregatedInv
<1>3. CASE Loaded
  <2>1. Len(entries) \in Nat
    BY DEF Inv, Consistent, WellTyped
  <2>2. Scalars'
    BY <1>3, <2>1 DEF Loaded, Inv, Scalars
  <2> QED
    BY <1>3, <2>2 DEF Loaded, Inv
<1>4. CASE Tick
  <2>1. Scalars'
    BY <1>4 DEF Tick, Inv, Scalars, Times
  <2> QED
    BY <1>4, <2>1 DEF Tick, Inv
<1>5. CASE UNCHANGED vars
  <2>1. Scalars'
    BY <1>5 DEF vars, Inv, Scalars
  <2> QED
    BY <1>5, <2>1 DEF vars, Inv
<1> QED
  BY <1>1, <1>2, <1>3, <1>4, <1>5 DEF Next

\* The inductive invariant holds of every behaviour of the buffer.
THEOREM Invariance == Spec => []Inv
<1>1. Init => Inv
  BY InitInv
<1>2. Inv /\ [Next]_vars => Inv'
  BY NextInv
<1> QED
  BY <1>1, <1>2, PTL DEF Spec

\* Every address the slice and the map hold is that of an entry, and the
\* pruning counter never reaches its threshold.
THEOREM TypeCorrect == Spec => []TypeOK
<1>1. Inv => TypeOK
  BY DEF Inv, Scalars, Consistent, WellTyped, TypeOK
<1> QED
  BY <1>1, Invariance, PTL

\* The slice that is shown and the map events are counted through hold the
\* same entries: no event is counted in an entry nobody sees, none is shown twice.
THEOREM IndexStaysInSync == Spec => []IndexInSync
<1>1. Inv => IndexInSync
  <2>1. Inv => DOMAIN entries = 1 .. Len(entries)
    BY DEF Inv, Consistent, WellTyped
  <2> QED
    BY <2>1 DEF Inv, Consistent, Indexed, IndexInSync, At
<1> QED
  BY <1>1, Invariance, PTL

\* No entry was last seen before it was opened or outside its bucket.
THEOREM SpansStayInBucket == Spec => []SpanInBucket
<1>1. Inv => SpanInBucket
  BY DEF Inv, Consistent, Spanned, SpanInBucket
<1> QED
  BY <1>1, Invariance, PTL

\* Window queries return exactly the entries of the window, because the slice
\* is in the order sort.Search relies on.
THEOREM QueriesExact == Spec => []RangeQueriesExact
<1>1. Inv => RangeQueriesExact
  <2>1. SUFFICES ASSUME Inv, NEW t \in 0 .. MaxTime + 1, NEW u \in 0 .. MaxTime + 1,
                        t <= u,
                        NEW lo \in CutsAt(heap, entries, t),
                        NEW hi \in CutsAt(heap, entries, u)
                 PROVE  /\ lo <= hi
                        /\ lo + 1 .. hi =
                             {i \in DOMAIN entries : t <= At(i).ts /\ At(i).ts < u}
    BY DEF RangeQueriesExact
  <2> DEFINE T(i) == heap[entries[i]].ts
  <2>2. DOMAIN entries = 1 .. Len(entries) /\ Len(entries) \in Nat
    BY <2>1 DEF Inv, Consistent, WellTyped
  <2>3. \A i \in 1 .. Len(entries) : T(i) \in Int
    <3>1. \A p \in DOMAIN heap : heap[p] \in Entry
      BY <2>1 DEF Inv, Consistent, WellTyped
    <3>2. \A i \in 1 .. Len(entries) : entries[i] \in DOMAIN heap
      BY <2>1 DEF Inv, Consistent, WellTyped
    <3> QED
      BY <3>1, <3>2 DEF Entry, Times
  <2>4. \A i, j \in 1 .. Len(entries) : i <= j => T(i) <= T(j)
    BY <2>1 DEF Inv, Consistent, Chronological
  <2>5. /\ lo \in 0 .. Len(entries)
        /\ lo < Len(entries) => T(lo + 1) >= t
        /\ lo > 0 => T(lo) < t
    BY <2>1 DEF CutsAt
  <2>6. /\ hi \in 0 .. Len(entries)
        /\ hi < Len(entries) => T(hi + 1) >= u
        /\ hi > 0 => T(hi) < u
    BY <2>1 DEF CutsAt
  <2> HIDE DEF T
  <2>7. \A i \in 1 .. Len(entries) : (i <= lo => T(i) < t) /\ (i > lo => T(i) >= t)
    BY SMTT(30), <2>1, <2>2, <2>3, <2>4, <2>5
  <2>8. \A i \in 1 .. Len(entries) : (i <= hi => T(i) < u) /\ (i > hi => T(i) >= u)
    BY <2>1, <2>2, <2>3, <2>4, <2>6
  <2>9. lo <= hi
    <3>1. SUFFICES ASSUME lo > hi
                   PROVE  FALSE
      BY <2>5, <2>6
    <3>2. lo \in 1 .. Len(entries) /\ lo > hi
      BY <3>1, <2>5, <2>6
    <3>3. T(lo) < t /\ T(lo) >= u /\ T(lo) \in Int
      BY <3>2, <2>3, <2>7, <2>8
    <3> QED
      BY <3>3, <2>1
  <2>10. \A i \in DOMAIN entries :
           i \in lo + 1 .. hi <=> (t <= T(i) /\ T(i) < u)
    BY <2>2, <2>3, <2>5, <2>6, <2>7, <2>8
  <2>11. lo + 1 .. hi \subseteq DOMAIN entries
    BY <2>2, <2>5, <2>6
  <2> QED
    BY <2>9, <2>10, <2>11 DEF At, T
<1> QED
  BY <1>1, Invariance, PTL
-----------------------------------------------------------------------------
(* The size of the slice.                                                  *)

\* While day files are loaded nothing is tallied; afterwards each insertion
\* since the last prune adds one to the larger of the cap and what was loaded.
SizeInv ==
  IF loading
  THEN addN = 0
  ELSE Len(entries) <= addN + (IF loaded > MaxSize THEN loaded ELSE MaxSize)

\* AddEvent keeps the buffer within its cap and the insertions since the last prune.
LEMMA AddEventSize ==
  ASSUME Inv, SizeInv, NEW e \in Event, AddEvent(e)
  PROVE  SizeInv'
<1>1. /\ ~loading /\ ~loading' /\ loaded' = loaded
      /\ Len(entries) \in Nat /\ addN \in Nat /\ loaded \in Nat
  BY DEF AddEvent, Inv, Scalars, Consistent, WellTyped
<1>2. Len(entries) <= addN + (IF loaded > MaxSize THEN loaded ELSE MaxSize)
  BY <1>1 DEF SizeInv
<1>3. CASE KeyOf(e) \in DOMAIN keyed
  <2>1. entries' = entries /\ addN' = addN
    BY <1>3 DEF AddEvent, Aggregate
  <2> QED
    BY <1>1, <1>2, <2>1 DEF SizeInv
<1>4. CASE KeyOf(e) \notin DOMAIN keyed
  <2>1. PICK p \in Ptr \ DOMAIN heap, n \in InsertionPoints(e.ts) :
          Tally(With(heap, p, FirstOf(e)), Inserted(entries, n, p),
                With(keyed, KeyOf(e), p))
    BY <1>4 DEF AddEvent
  <2>2. n \in 0 .. Len(entries)
    BY <1>1 DEF InsertionPoints
  <2> DEFINE es == Inserted(entries, n, p)
             h == With(heap, p, FirstOf(e))
  <2>3. entries \in Seq(DOMAIN heap)
    BY DEF Inv, Consistent, WellTyped
  <2>4. es \in Seq(DOMAIN heap \cup {p}) /\ Len(es) = Len(entries) + 1
    BY <2>2, <2>3, InsertedProperties
  <2> HIDE DEF es
  <2>5. CASE addN + 1 >= PruneEvery
    <3>1. PICK d \in Drops(h, es) : entries' = Suffix(es, d)
      BY <2>1, <2>5 DEF Tally, Prune, es
    <3>2. d \in 0 .. Len(es) /\ Len(es) - d <= MaxSize
      BY <2>4, DropsInRange
    <3>3. Len(entries') <= MaxSize /\ Len(entries') \in Nat
      BY <2>4, <3>1, <3>2, SuffixProperties
    <3>4. addN' = 0
      BY <2>1, <2>5 DEF Tally
    <3> QED
      BY <1>1, <3>3, <3>4 DEF SizeInv
  <2>6. CASE ~(addN + 1 >= PruneEvery)
    <3>1. entries' = es /\ addN' = addN + 1
      BY <2>1, <2>6 DEF Tally, es
    <3> QED
      BY <1>1, <1>2, <2>4, <3>1 DEF SizeInv
  <2> QED
    BY <2>5, <2>6
<1> QED
  BY <1>3, <1>4

\* The buffer exceeds its cap, or what the day files held, by less than the
\* number of insertions between two prunes.
THEOREM SizeStaysBounded == Spec => []SizeBounded
<1>1. Init => SizeInv
  BY DEF Init, SizeInv
<1>2. Inv /\ SizeInv /\ [Next]_vars => SizeInv'
  <2>1. SUFFICES ASSUME Inv, SizeInv, [Next]_vars
                 PROVE  SizeInv'
    OBVIOUS
  <2>2. ASSUME NEW e \in Event, AddEvent(e)
        PROVE  SizeInv'
    BY <2>1, <2>2, AddEventSize
  <2>3. ASSUME NEW d \in Saved, AddAggregated(d)
        PROVE  SizeInv'
    BY <2>1, <2>3 DEF AddAggregated, SizeInv
  <2>4. CASE Loaded
    <3>1. Len(entries) \in Nat
      BY <2>1 DEF Inv, Consistent, WellTyped
    <3> QED
      BY <2>1, <2>4, <3>1 DEF Loaded, SizeInv
  <2>5. CASE Tick
    BY <2>1, <2>5 DEF Tick, SizeInv
  <2>6. CASE UNCHANGED vars
    BY <2>1, <2>6 DEF vars, SizeInv
  <2> QED
    BY <2>1, <2>2, <2>3, <2>4, <2>5, <2>6 DEF Next
<1>3. SizeInv => SizeBounded
  BY DEF SizeInv, SizeBounded
<1> QED
  BY <1>1, <1>2, <1>3, Invariance, PTL DEF Spec
-----------------------------------------------------------------------------
(* The buffer implements the incident log.                                 *)

Shown(h, es) == {h[es[i]] : i \in 1 .. Len(es)}

\* Changing an entry in place replaces one incident by its successor.
LEMMA AggregateShown ==
  ASSUME NEW h, NEW es, NEW ks, Consistent(h, es, ks), NEW k \in DOMAIN ks, NEW x
  PROVE  Shown([h EXCEPT ![ks[k]] = x], es) =
           (Shown(h, es) \ {h[ks[k]]}) \cup {x}
<1> DEFINE p == ks[k]
           g == [h EXCEPT ![p] = x]
<1>1. PICK i \in 1 .. Len(es) : k = KeyOf(h[es[i]])
  BY DEF Consistent, Indexed
<1>2. es[i] = p /\ p \in DOMAIN h
  BY <1>1 DEF Consistent, Indexed, WellTyped
<1>3. \A j \in 1 .. Len(es) : es[j] \in DOMAIN h
  BY DEF Consistent, WellTyped
<1>4. g[p] = x /\ \A q \in DOMAIN h : q # p => g[q] = h[q]
  BY <1>2
<1>5. \A j \in 1 .. Len(es) : j # i => es[j] # p /\ h[es[j]] # h[p]
  <2>1. ASSUME NEW j \in 1 .. Len(es), j # i
        PROVE  es[j] # p
    BY <2>1, <1>1, <1>2 DEF Consistent, Indexed
  <2>2. ASSUME NEW j \in 1 .. Len(es), j # i, h[es[j]] = h[p]
        PROVE  FALSE
    <3>1. KeyOf(h[es[j]]) = k
      BY <2>2, <1>1, <1>2
    <3>2. ks[k] = es[j]
      BY <2>2, <3>1 DEF Consistent, Indexed
    <3> QED
      BY <2>1, <2>2, <3>2
  <2> QED
    BY <2>1, <2>2
<1> HIDE DEF p, g
<1>6. ASSUME NEW y \in Shown(g, es)
      PROVE  y \in (Shown(h, es) \ {h[p]}) \cup {x}
  BY <1>2, <1>3, <1>4, <1>5 DEF Shown
<1>7. ASSUME NEW y \in (Shown(h, es) \ {h[p]}) \cup {x}
      PROVE  y \in Shown(g, es)
  BY <1>2, <1>3, <1>4, <1>5 DEF Shown
<1>8. Shown(g, es) = (Shown(h, es) \ {h[p]}) \cup {x}
  BY <1>6, <1>7
<1> QED
  BY <1>8 DEF p, g

\* An insertion adds one incident and changes no other.
LEMMA InsertShown ==
  ASSUME NEW h, NEW S, NEW es \in Seq(S), S \subseteq DOMAIN h,
         NEW n \in 0 .. Len(es), NEW p, p \notin DOMAIN h, NEW x
  PROVE  Shown(With(h, p, x), Inserted(es, n, p)) = Shown(h, es) \cup {x}
<1> DEFINE g == With(h, p, x)
           fs == Inserted(es, n, p)
<1>1. g[p] = x /\ \A q \in DOMAIN h : g[q] = h[q]
  BY DEF With
<1>2. Len(es) \in Nat /\ \A j \in 1 .. Len(es) : es[j] \in DOMAIN h
  OBVIOUS
<1>3. /\ Len(fs) = Len(es) + 1
      /\ \A j \in 1 .. n : fs[j] = es[j]
      /\ fs[n + 1] = p
      /\ \A j \in n + 2 .. Len(es) + 1 : fs[j] = es[j - 1]
  BY DEF Inserted
<1> HIDE DEF g, fs
<1>4. ASSUME NEW j \in 1 .. Len(fs)
      PROVE  g[fs[j]] \in Shown(h, es) \cup {x}
  <2>1. CASE j <= n
    BY <2>1, <1>1, <1>2, <1>3 DEF Shown
  <2>2. CASE j = n + 1
    BY <2>2, <1>1, <1>3
  <2>3. CASE j > n + 1
    <3>1. j - 1 \in 1 .. Len(es) /\ fs[j] = es[j - 1]
      BY <2>3, <1>2, <1>3
    <3> QED
      BY <3>1, <1>1, <1>2 DEF Shown
  <2> QED
    BY <2>1, <2>2, <2>3
<1>5. ASSUME NEW j \in 1 .. Len(es)
      PROVE  \E i \in 1 .. Len(fs) : g[fs[i]] = h[es[j]]
  <2>1. CASE j <= n
    <3>1. j \in 1 .. Len(fs) /\ fs[j] = es[j]
      BY <2>1, <1>2, <1>3
    <3> QED
      BY <3>1, <1>1, <1>2
  <2>2. CASE j > n
    <3>1. j + 1 \in n + 2 .. Len(es) + 1 /\ (j + 1) - 1 = j
      BY <2>2, <1>2
    <3>2. j + 1 \in 1 .. Len(fs) /\ fs[j + 1] = es[j]
      BY <3>1, <1>2, <1>3
    <3> QED
      BY <3>2, <1>1, <1>2
  <2> QED
    BY <2>1, <2>2
<1>6. \E i \in 1 .. Len(fs) : g[fs[i]] = x
  <2>1. n + 1 \in 1 .. Len(fs)
    BY <1>2, <1>3
  <2> QED
    BY <2>1, <1>1, <1>3
<1>7. Shown(g, fs) \subseteq Shown(h, es) \cup {x}
  BY <1>4 DEF Shown
<1>8. ASSUME NEW y \in Shown(h, es) \cup {x}
      PROVE  y \in Shown(g, fs)
  <2>1. CASE y = x
    BY <2>1, <1>6 DEF Shown
  <2>2. CASE y \in Shown(h, es)
    <3>1. PICK j \in 1 .. Len(es) : y = h[es[j]]
      BY <2>2 DEF Shown
    <3>2. \E i \in 1 .. Len(fs) : g[fs[i]] = y
      BY <1>5, <3>1
    <3> QED
      BY <3>2 DEF Shown
  <2> QED
    BY <2>1, <2>2
<1> QED
  BY <1>7, <1>8 DEF g, fs

\* A prune keeps a subset of the incidents, none older than a dropped one.
LEMMA PruneShown ==
  ASSUME NEW h, NEW es, NEW ks, Consistent(h, es, ks), NEW d \in 0 .. Len(es)
  PROVE  LET kept == Shown(Reachable(h, Suffix(es, d), Without(ks, h, es, d)),
                           Suffix(es, d))
         IN  /\ kept \subseteq Shown(h, es)
             /\ \A x \in kept, y \in Shown(h, es) \ kept : y.ts <= x.ts
<1> DEFINE fs == Suffix(es, d)
           g == Reachable(h, fs, Without(ks, h, es, d))
           kept == Shown(g, fs)
<1>1. es \in Seq(DOMAIN h) /\ Len(es) \in Nat
  BY DEF Consistent, WellTyped
<1>2. /\ Len(fs) = Len(es) - d /\ DOMAIN fs = 1 .. Len(fs)
      /\ \A j \in 1 .. Len(fs) : j + d \in d + 1 .. Len(es) /\ fs[j] = es[j + d]
  BY <1>1 DEF Suffix
<1>3. \A j \in 1 .. Len(fs) : g[fs[j]] = h[fs[j]]
  BY <1>2 DEF Reachable, Restricted, Image
<1> HIDE DEF fs, g
<1>4. ASSUME NEW x \in kept
      PROVE  \E j \in d + 1 .. Len(es) : x = h[es[j]]
  <2>1. PICK j \in 1 .. Len(fs) : x = g[fs[j]]
    BY <1>4 DEF Shown
  <2> QED
    BY <2>1, <1>2, <1>3
<1>5. ASSUME NEW j \in d + 1 .. Len(es)
      PROVE  h[es[j]] \in kept
  <2>1. j - d \in 1 .. Len(fs) /\ (j - d) + d = j
    BY <1>1, <1>2
  <2>2. fs[j - d] = es[j] /\ g[fs[j - d]] = h[es[j]]
    BY <2>1, <1>2, <1>3
  <2> QED
    BY <2>1, <2>2 DEF Shown
<1>6. kept \subseteq Shown(h, es)
  <2>1. ASSUME NEW x \in kept
        PROVE  x \in Shown(h, es)
    <3>1. PICK j \in d + 1 .. Len(es) : x = h[es[j]]
      BY <1>4
    <3>2. j \in 1 .. Len(es)
      BY <1>1
    <3> QED
      BY <3>1, <3>2 DEF Shown
  <2> QED
    BY <2>1
<1>7. ASSUME NEW x \in kept, NEW y \in Shown(h, es) \ kept
      PROVE  y.ts <= x.ts
  <2>1. PICK j \in d + 1 .. Len(es) : x = h[es[j]]
    BY <1>4
  <2>2. PICK i \in 1 .. Len(es) : y = h[es[i]]
    BY DEF Shown
  <2>3. i \in 1 .. d
    BY <1>5, <2>2, <1>1
  <2>4. i <= j /\ j \in 1 .. Len(es)
    BY <2>3, <1>1
  <2> QED
    BY <2>1, <2>2, <2>4 DEF Consistent, Chronological
<1> QED
  BY <1>6, <1>7 DEF fs, g

\* The map finds the incident of a key, and no incident where it has none.
LEMMA SameIncident ==
  ASSUME Inv, NEW x
  PROVE  /\ KeyOf(x) \in DOMAIN keyed =>
              heap[keyed[KeyOf(x)]] \in Timeline!Same(x)
         /\ KeyOf(x) \notin DOMAIN keyed => Timeline!Same(x) = {}
<1>1. {At(i) : i \in DOMAIN entries} = Shown(heap, entries)
  BY DEF Inv, Consistent, WellTyped, Shown, At
<1>2. Timeline!Same(x) = {y \in Shown(heap, entries) : KeyOf(y) = KeyOf(x)}
  BY <1>1 DEF Timeline!Same, Timeline!KeyOf, Timeline!Bucket, KeyOf, Bucket
<1>3. ASSUME KeyOf(x) \in DOMAIN keyed
      PROVE  heap[keyed[KeyOf(x)]] \in Timeline!Same(x)
  <2>1. PICK i \in 1 .. Len(entries) : KeyOf(x) = KeyOf(heap[entries[i]])
    BY <1>3 DEF Inv, Consistent, Indexed
  <2>2. keyed[KeyOf(x)] = entries[i]
    BY <2>1 DEF Inv, Consistent, Indexed
  <2> QED
    BY <1>2, <2>1, <2>2 DEF Shown
<1>4. ASSUME KeyOf(x) \notin DOMAIN keyed
      PROVE  Timeline!Same(x) = {}
  BY <1>2, <1>4 DEF Inv, Consistent, Indexed, Shown
<1> QED
  BY <1>3, <1>4

\* AddEvent is a Count or an Open of the incident log.
LEMMA AddEventImplements ==
  ASSUME Inv, Inv', NEW e \in Event, AddEvent(e)
  PROVE  Timeline!Count(e) \/ Timeline!Open(e)
<1>1. /\ {At(i) : i \in DOMAIN entries} = Shown(heap, entries)
      /\ {At(i) : i \in DOMAIN entries}' = Shown(heap', entries')
  <2>1. DOMAIN entries = 1 .. Len(entries) /\ DOMAIN entries' = 1 .. Len(entries')
    BY DEF Inv, Consistent, WellTyped
  <2> QED
    BY <2>1 DEF Shown, At
<1>2. CASE KeyOf(e) \in DOMAIN keyed
  <2> DEFINE x == heap[keyed[KeyOf(e)]]
  <2>1. x \in Timeline!Same(e)
    BY <1>2, SameIncident
  <2>2. heap' = [heap EXCEPT ![keyed[KeyOf(e)]] = Absorb(x, e)] /\ entries' = entries
    BY <1>2 DEF AddEvent, Aggregate
  <2>3. Shown(heap', entries') = (Shown(heap, entries) \ {x}) \cup {Absorb(x, e)}
    <3>1. Consistent(heap, entries, keyed)
      BY DEF Inv
    <3>2. Shown([heap EXCEPT ![keyed[KeyOf(e)]] = Absorb(x, e)], entries) =
            (Shown(heap, entries) \ {x}) \cup {Absorb(x, e)}
      BY <3>1, <1>2, AggregateShown
    <3> QED
      BY <2>2, <3>2
  <2>4. Absorb(x, e) = Timeline!Absorb(x, e)
    BY DEF Absorb, Later, Worse, SeverityRank,
           Timeline!Absorb, Timeline!Later, Timeline!Worse, Timeline!SeverityRank
  <2> QED
    BY <1>1, <2>1, <2>3, <2>4 DEF Timeline!Count
<1>3. CASE KeyOf(e) \notin DOMAIN keyed
  <2>1. PICK p \in Ptr \ DOMAIN heap, n \in InsertionPoints(e.ts) :
          Tally(With(heap, p, FirstOf(e)), Inserted(entries, n, p),
                With(keyed, KeyOf(e), p))
    BY <1>3 DEF AddEvent
  <2> DEFINE x == FirstOf(e)
             h == With(heap, p, x)
             es == Inserted(entries, n, p)
             ks == With(keyed, KeyOf(x), p)
             all == Shown(heap, entries) \cup {x}
  <2>2. x \in Entry /\ Spanned(x) /\ KeyOf(x) = KeyOf(e) /\ x.ts = e.ts
    BY FirstIsEntry DEF FirstOf
  <2>3. /\ n \in 0 .. Len(entries)
        /\ \A j \in 1 .. n : heap[entries[j]].ts <= x.ts
        /\ \A j \in n + 1 .. Len(entries) : x.ts <= heap[entries[j]].ts
    BY <2>2, InsertionInOrder DEF Event
  <2>4. Tally(h, es, ks)
    BY <2>1, <2>2
  <2>5. Shown(h, es) = all
    <3>1. entries \in Seq(DOMAIN heap)
      BY DEF Inv, Consistent, WellTyped
    <3>2. p \notin DOMAIN heap
      BY <2>1
    <3>3. n \in 0 .. Len(entries)
      BY <2>3
    <3> HIDE DEF x
    <3>4. Shown(With(heap, p, x), Inserted(entries, n, p)) = Shown(heap, entries) \cup {x}
      BY <3>1, <3>2, <3>3, InsertShown
    <3> QED
      BY <3>4
  <2>6. x = Timeline!FirstOf(e) /\ Timeline!Same(e) = {}
    BY <1>3, SameIncident DEF FirstOf, Timeline!FirstOf
  <2> HIDE DEF x
  <2>7. Consistent(h, es, ks)
    BY <1>3, <2>2, <2>3, InsertConsistent DEF Inv
  <2> HIDE DEF h, es, ks
  <2>8. /\ Shown(heap', entries') \subseteq all
        /\ \A y \in Shown(heap', entries'), z \in all \ Shown(heap', entries') :
             z.ts <= y.ts
    <3>1. CASE addN + 1 >= PruneEvery
      <4>1. PICK d \in Drops(h, es) :
              /\ entries' = Suffix(es, d)
              /\ heap' = Reachable(h, Suffix(es, d), Without(ks, h, es, d))
        BY <2>4, <3>1 DEF Tally, Prune
      <4>2. es \in Seq(DOMAIN h)
        BY <2>7 DEF Consistent, WellTyped
      <4>3. d \in 0 .. Len(es)
        BY <4>2, DropsInRange
      <4> QED
        BY <2>5, <2>7, <4>1, <4>3, PruneShown
    <3>2. CASE ~(addN + 1 >= PruneEvery)
      BY <2>4, <2>5, <3>2 DEF Tally
    <3> QED
      BY <3>1, <3>2
  <2>9. Timeline!Open(e)
    BY <1>1, <2>6, <2>8 DEF Timeline!Open
  <2> QED
    BY <2>9
<1> QED
  BY <1>2, <1>3

\* AddAggregated is a Restore of the incident log.
LEMMA AddAggregatedImplements ==
  ASSUME Inv, Inv', NEW d \in Saved, AddAggregated(d)
  PROVE  Timeline!Restore(d)
<1> DEFINE e == Normalised(d)
<1>1. /\ {At(i) : i \in DOMAIN entries} = Shown(heap, entries)
      /\ {At(i) : i \in DOMAIN entries}' = Shown(heap', entries')
  <2>1. DOMAIN entries = 1 .. Len(entries) /\ DOMAIN entries' = 1 .. Len(entries')
    BY DEF Inv, Consistent, WellTyped
  <2> QED
    BY <2>1 DEF Shown, At
<1>2. e = Timeline!Normalised(d)
  BY DEF Normalised, Zero, Timeline!Normalised, Timeline!Zero
<1>3. e \in Entry /\ e.ts \in Times
  BY NormalisedIsEntry DEF Entry
<1>4. KeyOf(e) = KeyOf(d) /\ Timeline!Same(e) = Timeline!Same(d)
  <2>1. d \in DiskEntry
    BY SavedAssumption
  <2>2. e.ts = d.ts /\ e.kind = d.kind
    BY <2>1 DEF DiskEntry, Normalised
  <2> QED
    BY <2>2 DEF KeyOf, Timeline!Same, Timeline!KeyOf
<1>5. CASE KeyOf(e) \in DOMAIN keyed
  <2> DEFINE x == heap[keyed[KeyOf(e)]]
  <2>1. x \in Timeline!Same(d)
    BY <1>4, <1>5, SameIncident
  <2>2. heap' = [heap EXCEPT ![keyed[KeyOf(e)]] = Combine(x, e)] /\ entries' = entries
    BY <1>5 DEF AddAggregated
  <2>3. Shown(heap', entries') = (Shown(heap, entries) \ {x}) \cup {Combine(x, e)}
    <3>1. Consistent(heap, entries, keyed)
      BY DEF Inv
    <3>2. Shown([heap EXCEPT ![keyed[KeyOf(e)]] = Combine(x, e)], entries) =
            (Shown(heap, entries) \ {x}) \cup {Combine(x, e)}
      BY <3>1, <1>5, AggregateShown
    <3> QED
      BY <2>2, <3>2
  <2>4. Combine(x, e) = Timeline!Combine(x, e)
    BY DEF Combine, Later, Timeline!Combine, Timeline!Later
  <2> QED
    BY <1>1, <1>2, <2>1, <2>3, <2>4 DEF Timeline!Restore
<1>6. CASE KeyOf(e) \notin DOMAIN keyed
  <2>1. PICK p \in Ptr \ DOMAIN heap, n \in InsertionPoints(e.ts) :
          heap' = With(heap, p, e) /\ entries' = Inserted(entries, n, p)
    BY <1>6 DEF AddAggregated
  <2>2. n \in 0 .. Len(entries)
    BY <1>3, InsertionInOrder
  <2>3. Shown(heap', entries') = Shown(heap, entries) \cup {e}
    <3>1. entries \in Seq(DOMAIN heap)
      BY DEF Inv, Consistent, WellTyped
    <3>2. Shown(With(heap, p, e), Inserted(entries, n, p)) = Shown(heap, entries) \cup {e}
      BY <2>2, <3>1, InsertShown
    <3> QED
      BY <2>1, <3>2
  <2>4. Timeline!Same(d) = {}
    BY <1>4, <1>6, SameIncident
  <2> QED
    BY <1>1, <1>2, <2>3, <2>4 DEF Timeline!Restore
<1> QED
  BY <1>5, <1>6

\* Whatever order events arrive in and whenever it prunes, the buffer counts
\* every event in the one incident of its bucket and forgets oldest first.
THEOREM Implements == Spec => BufferIsIncidentLog
<1>1. Init => Timeline!Init
  BY DEF Init, Timeline!Init
<1>2. Inv /\ Inv' /\ [Next]_vars =>
        [Timeline!Next]_({At(i) : i \in DOMAIN entries})
  <2>1. SUFFICES ASSUME Inv, Inv', [Next]_vars
                 PROVE  [Timeline!Next]_({At(i) : i \in DOMAIN entries})
    OBVIOUS
  <2>2. ASSUME NEW e \in Event, AddEvent(e)
        PROVE  Timeline!Next
    <3>1. Event = Timeline!Event
      BY DEF Event, Times, Timeline!Event, Timeline!Times
    <3>2. Timeline!Count(e) \/ Timeline!Open(e)
      BY <2>1, <2>2, AddEventImplements
    <3> QED
      BY <3>1, <3>2 DEF Timeline!Next
  <2>3. ASSUME NEW d \in Saved, AddAggregated(d)
        PROVE  Timeline!Next
    <3>1. Timeline!Restore(d)
      BY <2>1, <2>3, AddAggregatedImplements
    <3> QED
      BY <3>1 DEF Timeline!Next
  <2>4. CASE Loaded \/ Tick \/ UNCHANGED vars
    BY <2>4 DEF Loaded, Tick, vars, At
  <2> QED
    BY <2>1, <2>2, <2>3, <2>4 DEF Next
<1> QED
  BY <1>1, <1>2, Invariance, PTL DEF Spec, BufferIsIncidentLog, Timeline!Spec
=============================================================================
