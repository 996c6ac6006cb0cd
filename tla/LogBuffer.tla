------------------------------ MODULE LogBuffer -----------------------------
(***************************************************************************)
(* The aggregating in-memory store of log entries (logBuffer in            *)
(* logwatch.go).  The slice and the map share their entries by pointer, so *)
(* the model has a heap: an entry reached by one of them only is an entry  *)
(* that is shown and not counted, or counted and not shown.  Every method  *)
(* holds lb.mu throughout, hence one action each.                          *)
(***************************************************************************)
EXTENDS LogEntries, FiniteSets, Sequences

CONSTANTS Ptr,         \* addresses of entries
          MaxAge,      \* logBufferMaxAge
          MaxSize,     \* logBufferMaxSize
          PruneEvery,  \* insertions between two prunes: 64 in the code
          MaxFed       \* bound on the events and disk entries of a behaviour

ASSUME MaxAgeAssumption == MaxAge \in Nat \ {0}
ASSUME MaxSizeAssumption == MaxSize \in Nat \ {0}
ASSUME PruneEveryAssumption == PruneEvery \in Nat \ {0}

VARIABLES now,      \* time.Now()
          loading,  \* true until NewLogWatcher has returned
          heap,     \* the reachable entries, by address
          entries,  \* lb.entries, oldest first
          keyed,    \* lb.keyed, a partial function
          addN,     \* lb.addN
          loaded,   \* history: Len(entries) when loading ended
          fed       \* history: events and disk entries taken in

vars == <<now, loading, heap, entries, keyed, addN, loaded, fed>>

Image(f) == {f[x] : x \in DOMAIN f}
Restricted(f, S) == [x \in S |-> f[x]]
With(f, x, y) == [z \in DOMAIN f \cup {x} |-> IF z = x THEN y ELSE f[z]]

At(i) == heap[entries[i]]

\* What sort.Search promises for the test "not before t", sorted or not: an
\* index where the test turns true, counted as the entries in front of it.
\* EntriesSince and EntriesForDay cut the slice there, pruneLocked too.
CutsAt(h, es, t) ==
  {i \in 0 .. Len(es) : /\ i < Len(es) => h[es[i + 1]].ts >= t
                        /\ i > 0 => h[es[i]].ts < t}

AlwaysLast(ts) == {Len(entries)}

\* Where a new entry goes: at the end if it is not older than the last one,
\* else before an entry that is younger, found by sort.Search.
InsertionPoints(ts) ==
  IF Len(entries) = 0 \/ At(Len(entries)).ts <= ts
  THEN {Len(entries)}
  ELSE {i \in 0 .. Len(entries) : /\ i < Len(entries) => At(i + 1).ts > ts
                                  /\ i > 0 => At(i).ts <= ts}

Inserted(es, i, p) ==
  [j \in 1 .. Len(es) + 1 |->
     IF j <= i THEN es[j] ELSE IF j = i + 1 THEN p ELSE es[j - 1]]

Suffix(es, d) == [j \in 1 .. Len(es) - d |-> es[j + d]]

DropsByAgeOnly(h, es) == CutsAt(h, es, now - MaxAge)

\* dropFromFront: the entries too old, or more of them if too many remain.
Drops(h, es) ==
  {IF Len(es) - d > MaxSize THEN Len(es) - MaxSize ELSE d :
     d \in CutsAt(h, es, now - MaxAge)}

\* delete(lb.keyed, key) for the d entries in front.
Without(ks, h, es, d) ==
  Restricted(ks, DOMAIN ks \ {KeyOf(h[es[i]]) : i \in 1 .. d})

\* An entry neither the slice nor the map reaches is collected.
Reachable(h, es, ks) == Restricted(h, Image(es) \cup Image(ks))

PruneSliceOnly(h, es, ks) ==
  \E d \in Drops(h, es) :
    /\ entries' = Suffix(es, d)
    /\ keyed' = ks
    /\ heap' = Reachable(h, Suffix(es, d), ks)

PruneNewest(h, es, ks) ==
  \E d \in Drops(h, es) :
    LET es2 == SubSeq(es, 1, Len(es) - d)
        ks2 == Restricted(ks, {KeyOf(h[es2[i]]) : i \in DOMAIN es2})
    IN  entries' = es2 /\ keyed' = ks2 /\ heap' = Reachable(h, es2, ks2)

\* pruneLocked on the heap h, slice es and map ks.
Prune(h, es, ks) ==
  \E d \in Drops(h, es) :
    /\ entries' = Suffix(es, d)
    /\ keyed' = Without(ks, h, es, d)
    /\ heap' = Reachable(h, Suffix(es, d), Without(ks, h, es, d))

AbsorbLatest(x, e) ==
  /\ heap' = [heap EXCEPT ![x] = [Absorb(@, e) EXCEPT !.lastSeen = e.ts]]
  /\ UNCHANGED <<entries, keyed, addN>>

\* AddEvent on a key the map knows: the entry is changed in place.
Aggregate(p, e) ==
  /\ heap' = [heap EXCEPT ![p] = Absorb(@, e)]
  /\ UNCHANGED <<entries, keyed, addN>>

TallyUnreset(h, es, ks) ==
  /\ addN' = addN + 1
  /\ IF addN + 1 >= PruneEvery
     THEN Prune(h, es, ks)
     ELSE heap' = h /\ entries' = es /\ keyed' = ks

\* The end of AddEvent on a new key: every PruneEvery-th insertion prunes.
Tally(h, es, ks) ==
  IF addN + 1 >= PruneEvery
  THEN addN' = 0 /\ Prune(h, es, ks)
  ELSE addN' = addN + 1 /\ heap' = h /\ entries' = es /\ keyed' = ks

AddEvent(e) ==
  /\ ~loading
  /\ fed < MaxFed
  /\ fed' = fed + 1
  /\ \/ /\ KeyOf(e) \in DOMAIN keyed
        /\ Aggregate(keyed[KeyOf(e)], e)
     \/ /\ KeyOf(e) \notin DOMAIN keyed
        /\ \E p \in Ptr \ DOMAIN heap, i \in InsertionPoints(e.ts) :
             Tally(With(heap, p, FirstOf(e)),
                   Inserted(entries, i, p),
                   With(keyed, KeyOf(e), p))
  /\ UNCHANGED <<now, loading, loaded>>

\* loadLogs hands over an entry of a day file.
AddAggregated(d) ==
  /\ loading
  /\ fed < MaxFed
  /\ fed' = fed + 1
  /\ LET e == Normalised(d)
     IN  \/ /\ KeyOf(e) \in DOMAIN keyed
            /\ heap' = [heap EXCEPT ![keyed[KeyOf(e)]] = Combine(@, e)]
            /\ UNCHANGED <<entries, keyed>>
         \/ /\ KeyOf(e) \notin DOMAIN keyed
            /\ \E p \in Ptr \ DOMAIN heap, i \in InsertionPoints(e.ts) :
                 /\ heap' = With(heap, p, e)
                 /\ entries' = Inserted(entries, i, p)
                 /\ keyed' = With(keyed, KeyOf(e), p)
  /\ UNCHANGED <<now, loading, addN, loaded>>

\* NewLogWatcher returns, and the tails, the scheduler and the syncer start.
Loaded ==
  /\ loading
  /\ loading' = FALSE
  /\ loaded' = Len(entries)
  /\ UNCHANGED <<now, heap, entries, keyed, addN, fed>>

Tick ==
  /\ now < MaxTime
  /\ now' = now + 1
  /\ UNCHANGED <<loading, heap, entries, keyed, addN, loaded, fed>>

Init ==
  /\ now = 1
  /\ loading = TRUE
  /\ heap = << >>
  /\ entries = << >>
  /\ keyed = << >>
  /\ addN = 0
  /\ loaded = 0
  /\ fed = 0

Next ==
  \/ \E e \in Event : AddEvent(e)
  \/ \E d \in Saved : AddAggregated(d)
  \/ Loaded
  \/ Tick

Spec == Init /\ [][Next]_vars
-----------------------------------------------------------------------------
\* Every pointer leads to an entry; the counter stays below its threshold.
TypeOK ==
  /\ now \in Times
  /\ loading \in BOOLEAN
  /\ DOMAIN heap \subseteq Ptr
  /\ heap \in [DOMAIN heap -> Entry]
  /\ entries \in Seq(DOMAIN heap)
  /\ keyed \in [DOMAIN keyed -> DOMAIN heap]
  /\ addN \in 0 .. PruneEvery - 1
  /\ loaded \in Nat
  /\ fed \in Nat

\* The slice that is shown and saved and the map that finds the entry to
\* count an event in reach the same entries, each once and under its key.
IndexInSync ==
  /\ \A i \in DOMAIN entries :
       /\ KeyOf(At(i)) \in DOMAIN keyed
       /\ keyed[KeyOf(At(i))] = entries[i]
  /\ \A k \in DOMAIN keyed : \E i \in DOMAIN entries : k = KeyOf(At(i))
  /\ \A i, j \in DOMAIN entries : entries[i] = entries[j] => i = j

\* The binary searches of EntriesSince and EntriesForDay return exactly the
\* entries of the window asked for, and never cross (a slice whose bounds
\* cross panics), in whatever order events arrived.
RangeQueriesExact ==
  \A t, u \in 0 .. MaxTime + 1 :
    t <= u => \A lo \in CutsAt(heap, entries, t), hi \in CutsAt(heap, entries, u) :
                /\ lo <= hi
                /\ lo + 1 .. hi =
                     {i \in DOMAIN entries : t <= At(i).ts /\ At(i).ts < u}

\* An entry covers a span inside its own bucket: it was not last seen before
\* it was opened, and never again in a later bucket.  scanRecent trusts
\* LastSeen for what was counted already.
SpanInBucket ==
  \A p \in DOMAIN heap :
    /\ heap[p].ts <= heap[p].lastSeen
    /\ Bucket(heap[p].lastSeen) = Bucket(heap[p].ts)

\* What the readers of the slice see.
Timeline == INSTANCE IncidentLog WITH incidents <- {At(i) : i \in DOMAIN entries}

\* Whatever the pruning counter and the arrival order, the slice behaves as
\* the abstract incident log: events are counted in the one incident of their
\* bucket, and only the oldest incidents are ever forgotten.
BufferIsIncidentLog == Timeline!Spec

\* The cap is enforced every PruneEvery insertions only, and what the day
\* files held is not capped before the first of them.
SizeBounded ==
  ~loading => Len(entries) <= addN + (IF loaded > MaxSize THEN loaded ELSE MaxSize)
=============================================================================
