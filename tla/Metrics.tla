------------------------------- MODULE Metrics -----------------------------
(***************************************************************************)
(* The seven days of readings behind the graphs of the dashboard           *)
(* (metrics.go, and handleMetrics in server.go): the buffer the scheduler  *)
(* pushes to, the day files it is saved to and loaded from, and what a     *)
(* page gets to see of it.  A reading is its time stamp, and a number that *)
(* tells two readings apart; what was measured plays no part.              *)
(***************************************************************************)
EXTENDS Integers, Sequences, FiniteSets

CONSTANTS MaxPoints,   \* metricsMaxPoints: 20160 in the code
          SaveEvery,   \* readings between two saves: 20 in the code
          DayLength,   \* seconds of a UTC day
          Retention,   \* days a start loads: 7 in the code
          Ranges,      \* what a page asks for, in seconds
          Limits,      \* how many points a graph may have: 2016 in the code
          MaxTime,     \* bound on the clock
          MaxPushes,   \* bound on the readings
          MaxRestarts  \* bound on the restarts of the program

ASSUME MaxPointsAssumption == MaxPoints \in Nat \ {0}
ASSUME SaveEveryAssumption == SaveEvery \in Nat \ {0}
ASSUME DayLengthAssumption == DayLength \in Nat \ {0}
ASSUME RetentionAssumption == Retention \in Nat \ {0}
ASSUME RangesAssumption == Ranges \subseteq Nat
ASSUME LimitsAssumption == Limits \subseteq Nat \ {0}
ASSUME MaxTimeAssumption == MaxTime \in Nat
ASSUME MaxPushesAssumption == MaxPushes \in Nat
ASSUME MaxRestartsAssumption == MaxRestarts \in Nat

VARIABLES
  now,      \* time.Now().Unix()
  pc,       \* where the scheduler is, the only one to push
  stamp,    \* the time stamp of the reading to push
  points,   \* mb.points
  saveN,    \* mb.saveN
  toSave,   \* what a push that saves has selected
  files,    \* the readings in each day's file, empty if there is none
  pushed,   \* history: readings so far
  restarts  \* history: restarts so far

buffer == <<points, saveN>>
vars == <<now, pc, stamp, buffer, toSave, files, pushed, restarts>>

Times == 0 .. MaxTime
Day(t) == t \div DayLength
Today == Day(now)
Days == {Day(t) : t \in Times}
Reading == [t : Times, n : 1 .. MaxPushes]

Oldest(s) == SubSeq(s, 1, IF Len(s) < MaxPoints THEN Len(s) ELSE MaxPoints)

\* A buffer that is too long loses its front.
Newest(s) == IF Len(s) > MaxPoints THEN SubSeq(s, Len(s) - MaxPoints + 1, Len(s)) ELSE s

LatestPoints(s) == IF Len(s) > SaveEvery THEN SubSeq(s, Len(s) - SaveEvery + 1, Len(s)) ELSE s

\* The readings of s from a time on, in their order.
From(time, s) ==
  LET late == {i \in DOMAIN s : s[i].t >= time} IN
  [k \in 1 .. Cardinality(late) |->
     s[CHOOSE i \in late : Cardinality({j \in late : j < i}) = k - 1]]

\* todayPoints of the buffer s
TodayPoints(s) == From(Today * DayLength, s)
-----------------------------------------------------------------------------
\* load: a slot is a place in a file.
SlotsSince(cutoff) == {s \in Days \X (1 .. MaxPoints) :
                         s[2] \in DOMAIN files[s[1]] /\ files[s[1]][s[2]].t >= cutoff}
Stored(s) == files[s[1]][s[2]]

Earlier(r, s) == r[1] < s[1] \/ (r[1] = s[1] /\ r[2] < s[2])

\* The order of sort.Slice.  It may leave readings of one second in any order;
\* here it is that of the files.
Before(r, s) == \/ Stored(r).t < Stored(s).t
                \/ Stored(r).t = Stored(s).t /\ Earlier(r, s)

Sorted(slots) ==
  [k \in 1 .. Cardinality(slots) |->
     Stored(CHOOSE s \in slots : Cardinality({r \in slots : Before(r, s)}) = k - 1)]

LoadedAll == Sorted(SlotsSince(now - Retention * DayLength))
Loaded == Newest(Sorted(SlotsSince(now - Retention * DayLength)))
-----------------------------------------------------------------------------
Init ==
  /\ now = 0
  /\ pc = "idle"
  /\ stamp = 0
  /\ points = <<>> /\ saveN = 0 /\ toSave = <<>>
  /\ files = [d \in Days |-> <<>>]
  /\ pushed = 0 /\ restarts = 0

\* extractMetricPoint stamps the reading, before the buffer is locked.
Measure ==
  /\ pc = "idle" /\ pushed < MaxPushes
  /\ stamp' = now
  /\ pc' = "measured"
  /\ UNCHANGED <<now, buffer, toSave, files, pushed, restarts>>

\* Push, as far as it has the lock.
Push ==
  /\ pc = "measured"
  /\ points' = Newest(Append(points, [t |-> stamp, n |-> pushed + 1]))
  /\ IF saveN + 1 >= SaveEvery
     THEN saveN' = 0 /\ toSave' = TodayPoints(points') /\ pc' = "saving"
     ELSE saveN' = saveN + 1 /\ toSave' = <<>> /\ pc' = "idle"
  /\ pushed' = pushed + 1
  /\ UNCHANGED <<now, stamp, files, restarts>>

\* saveToday computes the day again; a failed write is ignored.
SaveToday ==
  /\ pc = "saving"
  /\ \/ toSave # <<>> /\ files' = [files EXCEPT ![Today] = toSave]
     \/ UNCHANGED files
  /\ toSave' = <<>>
  /\ pc' = "idle"
  /\ UNCHANGED <<now, stamp, buffer, pushed, restarts>>

Exit ==
  /\ pc # "down" /\ restarts < MaxRestarts
  /\ pc' = "down"
  /\ stamp' = 0 /\ points' = <<>> /\ saveN' = 0 /\ toSave' = <<>>
  /\ UNCHANGED <<now, files, pushed, restarts>>

\* NewMetricsBuffer, with load
Boot ==
  /\ pc = "down"
  /\ pc' = "idle"
  /\ points' = Loaded
  /\ restarts' = restarts + 1
  /\ UNCHANGED <<now, stamp, saveN, toSave, files, pushed>>

Tick ==
  /\ now < MaxTime
  /\ now' = now + 1
  /\ UNCHANGED <<pc, stamp, buffer, toSave, files, pushed, restarts>>

Next == Measure \/ Push \/ SaveToday \/ Exit \/ Boot \/ Tick

Spec == Init /\ [][Next]_vars
-----------------------------------------------------------------------------
\* Since: from the first reading that is in the range.
Since(d) ==
  LET late == {i \in DOMAIN points : points[i].t >= now - d} IN
  IF late = {} THEN <<>>
  ELSE SubSeq(points, CHOOSE i \in late : \A j \in late : i <= j, Len(points))

\* handleMetrics: a range without readings shows the whole buffer.
Shown(d) == IF Since(d) = <<>> THEN points ELSE Since(d)

StretchedIndex(n, m, i) == {(i * n) \div (m - 1)}

\* The index, from zero, of point i of the m shown of n: i times n / m, which
\* floating-point numbers may put just below a whole number.
SampleIndex(n, m, i) ==
  LET q == (i * n) \div m IN
  IF i # 0 /\ (i * n) % m = 0 THEN {q - 1, q} ELSE {q}
-----------------------------------------------------------------------------
\* Among the shapes: the buffer and the counter stay below their bounds.
TypeOK ==
  /\ now \in Times
  /\ pc \in {"idle", "measured", "saving", "down"}
  /\ stamp \in Times
  /\ points \in Seq(Reading) /\ Len(points) <= MaxPoints
  /\ saveN \in 0 .. SaveEvery - 1
  /\ toSave \in Seq(Reading) /\ Len(toSave) <= MaxPoints
  /\ DOMAIN files = Days
  /\ \A d \in Days : files[d] \in Seq(Reading) /\ Len(files[d]) <= MaxPoints
  /\ pushed \in 0 .. MaxPushes
  /\ restarts \in 0 .. MaxRestarts

\* A page that asks for a range is shown the readings in it, all of those and no
\* others, though Since stops at the first: the buffer stays in the order of time,
\* across midnights, restarts, and files that hold readings of the day before.
\* Only a range that has none is shown the whole buffer, where the comment of
\* handleMetrics has it filtered to the last seconds too.
RangeExact ==
  \A d \in Ranges :
    LET inRange == From(now - d, points) IN
    Shown(d) = IF inRange = <<>> THEN points ELSE inRange

\* The points of a graph of at most m are readings of what is shown, each from a
\* place of its own and none before another that is older, however the fractions
\* are rounded.  Two may be one reading, which a start can load from two files.
GraphInOrder ==
  \A d \in Ranges, m \in Limits :
    LET n == Len(Shown(d)) IN
    n > m =>
      /\ \A i \in 0 .. m - 1 : SampleIndex(n, m, i) \subseteq 0 .. n - 1
      /\ \A i \in 0 .. m - 2 :
           \A a \in SampleIndex(n, m, i), b \in SampleIndex(n, m, i + 1) :
             a < b /\ Shown(d)[a + 1].t <= Shown(d)[b + 1].t

\* What a file has is in memory too, unless it is past the retention or the
\* buffer is full of what is not older; so a save takes nothing from a file that a
\* page could have shown.
NewestKept ==
  pc # "down" =>
    \A d \in Days : \A i \in DOMAIN files[d] :
      LET p == files[d][i] IN
      \/ \E j \in DOMAIN points : points[j] = p
      \/ p.t < now - Retention * DayLength
      \/ Len(points) = MaxPoints /\ \A j \in DOMAIN points : p.t <= points[j].t

\* The file of a day loses no reading of that day, whatever was lost of memory
\* since, unless the day has more readings than the buffer holds.
DayFilesKeep ==
  [][\A d \in Days : \A i \in DOMAIN files[d] :
       Day(files[d][i].t) = d =>
         \/ \E j \in DOMAIN files'[d] : files'[d][j] = files[d][i]
         \/ Len(files'[d]) = MaxPoints]_vars
=============================================================================
