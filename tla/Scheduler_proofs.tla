-------------------------- MODULE Scheduler_proofs --------------------------
(***************************************************************************)
(* The theorems of Scheduler and of HistoryEvidence.  Types, the order of  *)
(* the recorded days, the timing of outages and what the day files hold    *)
(* need each other: a day has one status in memory because the days are in *)
(* order, and they are in order after a restart because the files were     *)
(* never ahead of the clock.  A day has the worst status since its last     *)
(* short outage because an outage is timed as the record times it, what is *)
(* critical today stays so until it is forgiven, the files were written    *)
(* from such a memory, and restarts load nothing else.                     *)
(***************************************************************************)
EXTENDS HistoryEvidence, SequenceTheorems, FunctionTheorems, FiniteSetTheorems, TLAPS

HistoryEntry == [date : Nat, status : Status]

\* The days of one component, on the day `today`.
Ordered(days, today) ==
  /\ Len(days) <= Retention
  /\ \A i \in 1 .. Len(days) : days[i].date <= today
  /\ \A i, j \in 1 .. Len(days) : i < j => days[i].date < days[j].date

Control ==
  /\ now \in 0 .. MaxTime
  /\ pc \in {"down", "idle", "collecting", "alerting", "saving", "returned"}
  /\ stopping \in BOOLEAN
  /\ running \subseteq Checkers
  /\ channel \in Seq([name : Checkers, results : Seq(Result)])
  /\ batch \in Seq(Result)
  /\ DOMAIN results \subseteq Checkers
  /\ results \in [DOMAIN results -> Seq(Result)]
  /\ logRecords \in Seq(Result)
  /\ saved \in BOOLEAN
  /\ restarts \in 0 .. MaxRestarts

Alerting ==
  /\ previousStatus \in [Components -> Status \cup {None}]
  /\ alerts \in Seq([component : Components, status : Status, previous : Status])
  /\ told \in [Components -> Status \cup {None}]

Timed ==
  /\ criticalSince \in [Components -> (0 .. MaxTime) \cup {Never}]
  /\ OutageIsTimed

Recorded ==
  /\ history \in [Components -> Seq(HistoryEntry)]
  /\ \A c \in Components : Ordered(history[c], Today)

FilesTyped ==
  /\ DOMAIN disk \subseteq 0 .. Today
  /\ \A d \in DOMAIN disk : /\ DOMAIN disk[d] \subseteq Components
                            /\ disk[d] \in [DOMAIN disk[d] -> Status \ {"unknown"}]

\* The window GetHistory has padded covers every recorded day until the save.
Padded ==
  /\ window \in Nat
  /\ window <= Today
  /\ pc = "saving" =>
       \A c \in Components : \A i \in 1 .. Len(history[c]) : history[c][i].date <= window

Inv ==
  /\ Control
  /\ Alerting
  /\ Timed
  /\ Recorded
  /\ FilesTyped
  /\ Padded
  /\ SavedBetweenCycles

USE ReportsAssumption, DayLengthAssumption, ThresholdAssumption,
    RetentionAssumption, MaxTimeAssumption, MaxRestartsAssumption
-----------------------------------------------------------------------------
(* Days.                                                                   *)

\* A moment belongs to a day.
LEMMA DayNat == ASSUME NEW t \in Nat PROVE Day(t) \in Nat
  BY DEF Day

\* Later moments belong to no earlier day.
LEMMA DayMonotonic ==
  ASSUME NEW t \in Nat, NEW u \in Nat, t <= u
  PROVE  Day(t) <= Day(u)
  BY DEF Day

\* What a recorded day consists of.
LEMMA RecordedDay ==
  ASSUME NEW days \in Seq(HistoryEntry), NEW i \in 1 .. Len(days)
  PROVE  /\ days[i] \in HistoryEntry
         /\ days[i].date \in Nat
         /\ days[i].status \in Status
<1>1. days[i] \in HistoryEntry
  OBVIOUS
<1> QED
  BY <1>1 DEF HistoryEntry

\* Days in order stay in order on a later day.
LEMMA OrderedLater ==
  ASSUME NEW days \in Seq(HistoryEntry), NEW t \in Nat, NEW u \in Nat, t <= u,
         Ordered(days, t)
  PROVE  Ordered(days, u)
  BY RecordedDay DEF Ordered

\* Opening the present day keeps the days in order and within the retention.
LEMMA WithTodayOrdered ==
  ASSUME NEW days \in Seq(HistoryEntry), now \in Nat, Ordered(days, Today)
  PROVE  /\ WithToday(days) \in Seq(HistoryEntry)
         /\ Len(WithToday(days)) > 0
         /\ Ordered(WithToday(days), Today)
<1> DEFINE day == [date |-> Today, status |-> "unknown"]
           more == Append(days, day)
<1>1. Today \in Nat
  BY DayNat DEF Today
<1>2. CASE days # << >> /\ Last(days).date = Today
  BY <1>2 DEF WithToday
<1>3. CASE ~(days # << >> /\ Last(days).date = Today)
  <2>1. /\ more \in Seq(HistoryEntry)
        /\ Len(more) = Len(days) + 1
        /\ \A i \in 1 .. Len(days) : more[i] = days[i]
        /\ more[Len(days) + 1].date = Today
    BY <1>1 DEF HistoryEntry, Status
  <2>2. \A i \in 1 .. Len(days) : days[i].date < Today
    <3> SUFFICES ASSUME NEW i \in 1 .. Len(days)
                 PROVE  days[i].date < Today
      OBVIOUS
    <3>1. days # << >> /\ Len(days) \in 1 .. Len(days)
      OBVIOUS
    <3>2. /\ days[Len(days)].date # Today
          /\ days[Len(days)].date <= Today
          /\ days[Len(days)].date \in Nat
      BY <1>3, <3>1, RecordedDay DEF Last, Ordered
    <3>3. i = Len(days) \/ days[i].date < days[Len(days)].date
      BY <3>1 DEF Ordered
    <3> QED
      BY <1>1, <3>2, <3>3, RecordedDay
  <2>3. \A i, j \in 1 .. Len(more) : i < j => more[i].date < more[j].date
    BY <2>1, <2>2 DEF Ordered
  <2>4. \A i \in 1 .. Len(more) : more[i].date <= Today
    BY <2>1, <2>2, <1>1 DEF Ordered, HistoryEntry
  <2> HIDE DEF more
  <2>5. CASE Len(more) > Retention
    <3> DEFINE cut == SubSeq(more, Len(more) - Retention + 1, Len(more))
    <3>1. /\ cut \in Seq(HistoryEntry)
          /\ Len(cut) = Retention
          /\ \A i \in 1 .. Retention : cut[i] = more[Len(more) - Retention + i]
      BY <2>1, <2>5
    <3>2. WithToday(days) = cut
      BY <1>3, <2>5 DEF WithToday, more
    <3> HIDE DEF cut
    <3>3. Ordered(cut, Today)
      <4>1. \A i \in 1 .. Len(cut) : cut[i].date <= Today
        BY <3>1, <2>1, <2>4, <2>5
      <4>2. ASSUME NEW i \in 1 .. Len(cut), NEW j \in 1 .. Len(cut), i < j
            PROVE  cut[i].date < cut[j].date
        <5>1. /\ Len(more) - Retention + i \in 1 .. Len(more)
              /\ Len(more) - Retention + j \in 1 .. Len(more)
              /\ Len(more) - Retention + i < Len(more) - Retention + j
          BY <4>2, <3>1, <2>1, <2>5
        <5> QED
          BY <5>1, <4>2, <3>1, <2>3
      <4>3. Len(cut) <= Retention
        BY <3>1
      <4> QED
        BY <4>1, <4>2, <4>3 DEF Ordered
    <3> QED
      BY <3>1, <3>2, <3>3
  <2>6. CASE ~(Len(more) > Retention)
    <3>1. WithToday(days) = more
      BY <1>3, <2>6 DEF WithToday, more
    <3> QED
      BY <3>1, <2>1, <2>3, <2>4, <2>6 DEF Ordered
  <2> QED
    BY <2>5, <2>6
<1> QED
  BY <1>2, <1>3

\* Recording a status keeps the days in order: only a status changes.
LEMMA UpdatedOrdered ==
  ASSUME NEW days \in Seq(HistoryEntry), NEW s \in Status, now \in Nat,
         Ordered(days, Today)
  PROVE  /\ Updated(days, s) \in Seq(HistoryEntry)
         /\ Ordered(Updated(days, s), Today)
<1> DEFINE more == WithToday(days)
           raised == [more EXCEPT ![Len(more)].status = s]
<1>1. more \in Seq(HistoryEntry) /\ Len(more) > 0 /\ Ordered(more, Today)
  BY WithTodayOrdered
<1> HIDE DEF more
<1>2. /\ raised \in Seq(HistoryEntry)
      /\ Len(raised) = Len(more)
      /\ \A i \in 1 .. Len(more) : raised[i].date = more[i].date
  <2>1. [more[Len(more)] EXCEPT !.status = s] \in HistoryEntry
    <3>1. more[Len(more)] \in HistoryEntry
      BY <1>1
    <3> QED
      BY <3>1 DEF HistoryEntry
  <2>2. [more[Len(more)] EXCEPT !.status = s].date = more[Len(more)].date
    BY <1>1 DEF HistoryEntry
  <2> QED
    BY <1>1, <2>1, <2>2
<1>3. Ordered(raised, Today)
  BY <1>1, <1>2 DEF Ordered
<1>4. Updated(days, s) \in {days, more, raised}
  BY DEF Updated, more
<1> QED
  BY <1>1, <1>2, <1>3, <1>4

\* So does forgiving a short outage.
LEMMA DowngradedOrdered ==
  ASSUME NEW days \in Seq(HistoryEntry), Ordered(days, Today)
  PROVE  /\ Downgraded(days) \in Seq(HistoryEntry)
         /\ Ordered(Downgraded(days), Today)
<1>1. /\ Downgraded(days) \in Seq(HistoryEntry)
      /\ Len(Downgraded(days)) = Len(days)
      /\ \A i \in 1 .. Len(days) : Downgraded(days)[i].date = days[i].date
  <2> DEFINE new(i) == IF days[i].date = Today /\ days[i].status = "critical"
                       THEN [days[i] EXCEPT !.status = "ok"]
                       ELSE days[i]
  <2>1. \A i \in 1 .. Len(days) : new(i) \in HistoryEntry /\ new(i).date = days[i].date
    BY RecordedDay DEF HistoryEntry, Status
  <2>2. Downgraded(days) = [i \in 1 .. Len(days) |-> new(i)]
    BY DEF Downgraded
  <2> HIDE DEF new
  <2> QED
    BY <2>1, <2>2
<1> QED
  BY <1>1 DEF Ordered
-----------------------------------------------------------------------------
(* Day files.                                                              *)

\* What Load leaves on disk.
KeptFiles == Kept(disk, {d \in DOMAIN disk : d > Today - Retention})

\* What it loads of them, where the files of the days `read` can be.
ReadFiles(read) == Kept(KeptFiles, read)

\* They are files of recent days, as they are on disk.
LEMMA ReadAreKept ==
  ASSUME NEW read
  PROVE  /\ DOMAIN ReadFiles(read) = {d \in DOMAIN disk : d > Today - Retention} \cap read
         /\ \A d \in DOMAIN ReadFiles(read) : ReadFiles(read)[d] = disk[d]
  BY DEF ReadFiles, KeptFiles, Kept

\* The files kept at startup hold, for each component, days in order, no more
\* than the retention, with a status each.
LEMMA LoadedOrdered ==
  ASSUME now \in Nat, FilesTyped, NEW c \in Components, NEW read,
         NEW s \in OldestFirst(DaysOnDisk(ReadFiles(read), c))
  PROVE  /\ s \in Seq(HistoryEntry)
         /\ Ordered(s, Today)
         /\ \A i \in 1 .. Len(s) : /\ s[i].date \in DOMAIN ReadFiles(read)
                                   /\ c \in DOMAIN ReadFiles(read)[s[i].date]
                                   /\ s[i].status = ReadFiles(read)[s[i].date][c]
<1> DEFINE first == Today - Retention + 1
           files == ReadFiles(read)
           days == DaysOnDisk(files, c)
<1>1. Today \in Nat
  BY DayNat DEF Today
<1>2. DOMAIN files \subseteq first .. Today
  <2>1. \A d \in DOMAIN files : d \in DOMAIN disk /\ d > Today - Retention
    BY ReadAreKept
  <2> HIDE DEF files
  <2> QED
    BY <1>1, <2>1 DEF FilesTyped
<1>3. \A x \in days : /\ x \in HistoryEntry
                      /\ x.date \in DOMAIN files
                      /\ c \in DOMAIN files[x.date]
                      /\ x.status = files[x.date][c]
  <2>1. \A d \in DOMAIN files : /\ d \in Nat
                               /\ \A x \in DOMAIN files[d] : files[d][x] \in Status
    <3>1. \A d \in DOMAIN files : d \in DOMAIN disk /\ files[d] = disk[d]
      BY ReadAreKept
    <3> HIDE DEF files
    <3> QED
      BY <1>1, <3>1 DEF FilesTyped
  <2> HIDE DEF files
  <2> QED
    BY <2>1 DEF DaysOnDisk, HistoryEntry
<1>4. IsFiniteSet(first .. Today) /\ Cardinality(first .. Today) = Retention
  BY <1>1, FS_Interval
<1>5. IsFiniteSet(days) /\ Cardinality(days) <= Retention
  <2> DEFINE dates == {x \in DOMAIN files : c \in DOMAIN files[x]}
             f == [x \in dates |-> [date |-> x, status |-> files[x][c]]]
  <2>1. IsFiniteSet(dates) /\ Cardinality(dates) <= Retention
    BY <1>2, <1>4, FS_Subset
  <2>2. f \in Surjection(dates, days)
    BY DEF DaysOnDisk, Surjection
  <2> QED
    BY <2>1, <2>2, <1>3, FS_Surjection, FS_CardinalityType
<1>6. Cardinality(days) \in Nat
  BY <1>5, FS_CardinalityType
<1>7. /\ s \in [1 .. Cardinality(days) -> days]
      /\ \A i, j \in 1 .. Cardinality(days) : i < j => s[i].date < s[j].date
  BY DEF OldestFirst
<1> HIDE DEF days
<1>8. /\ s \in Seq(days)
      /\ Len(s) = Cardinality(days)
  BY <1>6, <1>7
<1>9. \A i \in 1 .. Len(s) : s[i] \in days
  BY <1>8
<1>10. s \in Seq(HistoryEntry)
  BY <1>3, <1>8
<1>11. \A i \in 1 .. Len(s) : s[i].date <= Today
  BY <1>1, <1>2, <1>3, <1>9
<1> QED
  BY <1>3, <1>5, <1>7, <1>8, <1>9, <1>10, <1>11 DEF Ordered

\* Where the days are in order, Save writes for each known component the one
\* status memory holds of the present day.
LEMMA OneStatusToday ==
  ASSUME now \in Nat, Recorded, NEW c \in Components,
         NEW i \in 1 .. Len(history[c]), history[c][i].date = Today
  PROVE  StatusToday(c) = history[c][i].status
<1>1. history[c] \in Seq(HistoryEntry) /\ Ordered(history[c], Today)
  BY DEF Recorded
<1>2. DOMAIN history[c] = 1 .. Len(history[c])
  BY <1>1
<1> DEFINE j == CHOOSE k \in DOMAIN history[c] : history[c][k].date = Today
<1>3. j \in 1 .. Len(history[c]) /\ history[c][j].date = Today
  BY <1>2
<1> HIDE DEF j
<1>4. j = i
  <2>1. Today \in Nat
    BY DayNat DEF Today
  <2>2. ~(j < i) /\ ~(i < j)
    BY <1>1, <1>3, <2>1 DEF Ordered
  <2> QED
    BY <1>3, <2>2
<1> QED
  BY <1>4 DEF StatusToday, j
-----------------------------------------------------------------------------
(* The inductive invariant, one operation at a time.                       *)

\* Memory and files are empty and the scheduler idle at the start.
LEMMA InitInv == Init => Inv
<1> SUFFICES ASSUME Init PROVE Inv
  OBVIOUS
<1>1. Control /\ Alerting
  <2>1. DOMAIN results = {} /\ results \in [{} -> Seq(Result)]
    BY DEF Init
  <2>2. DOMAIN results \subseteq Checkers /\ results \in [DOMAIN results -> Seq(Result)]
    BY <2>1
  <2>3. /\ channel \in Seq([name : Checkers, results : Seq(Result)])
        /\ batch \in Seq(Result)
        /\ logRecords \in Seq(Result)
    BY DEF Init
  <2>4. Control
    <3>1. now \in 0 .. MaxTime /\ restarts \in 0 .. MaxRestarts
      BY DEF Init
    <3>2. pc = "idle" /\ stopping \in BOOLEAN /\ running \subseteq Checkers /\ saved \in BOOLEAN
      BY DEF Init
    <3> QED
      BY <2>2, <2>3, <3>1, <3>2 DEF Control
  <2>5. Alerting
    BY DEF Init, Alerting
  <2> QED
    BY <2>4, <2>5
<1>2. Timed
  BY DEF Init, Timed, OutageIsTimed, None, Never
<1>3. Today \in Nat
  BY DayNat DEF Init, Today
<1>4. Recorded
  BY DEF Init, Recorded, Ordered
<1>5. FilesTyped /\ Padded
  BY <1>3 DEF Init, FilesTyped, Padded
<1>6. SavedBetweenCycles
  BY DEF Init, SavedBetweenCycles
<1> QED
  BY <1>1, <1>2, <1>4, <1>5, <1>6 DEF Inv

\* What neither the clock, the memory nor the files take part in.
Frame == UNCHANGED <<now, memory, disk, saved, window>>

\* A step that only moves reports, alerts or the scheduler's place keeps the
\* invariant on days, outages and files.
LEMMA FrameInv ==
  ASSUME Inv, Frame,
         pc' = "saving" => pc = "saving",
         pc' \in {"idle", "returned"} => pc \in {"idle", "returned"}
  PROVE  Timed' /\ Recorded' /\ FilesTyped' /\ Padded' /\ SavedBetweenCycles'
<1>1. Today' = Today
  BY DEF Frame, Today
<1>2. Timed' /\ Recorded' /\ FilesTyped'
  BY <1>1 DEF Inv, Frame, memory, Timed, OutageIsTimed, Recorded, FilesTyped
<1>3. Padded'
  BY <1>1 DEF Inv, Frame, memory, Padded
<1>4. SavedBetweenCycles'
  BY <1>1 DEF Inv, Frame, memory, SavedBetweenCycles
<1> QED
  BY <1>2, <1>3, <1>4

\* A cycle starts.
LEMMA StartCycleInv == Inv /\ StartCycle => Inv'
<1> SUFFICES ASSUME Inv, StartCycle PROVE Inv'
  OBVIOUS
<1>1. Control' /\ Alerting'
  BY DEF Inv, StartCycle, Control, Alerting, memory, pending, stored
<1>2. Frame
  BY DEF StartCycle, Frame, memory, pending, stored
<1> QED
  BY <1>1, <1>2, FrameInv DEF StartCycle, Inv

\* A check reports.
LEMMA FinishInv ==
  ASSUME Inv, NEW k \in Checkers, Finish(k)
  PROVE  Inv'
<1> PICK report \in Reports[k] \cup (IF stopping THEN Cancelled[k] ELSE {}) :
      channel' = Append(channel, [name |-> k, results |-> report])
  BY DEF Finish
<1>1. [name |-> k, results |-> report] \in [name : Checkers, results : Seq(Result)]
  BY DEF Finish
<1>2. Control'
  BY <1>1 DEF Inv, Finish, Control, memory, pending, stored
<1>3. Alerting'
  BY DEF Inv, Finish, Alerting, memory, pending, stored
<1>4. Frame
  BY DEF Finish, Frame, memory, pending, stored
<1> QED
  BY <1>2, <1>3, <1>4, FrameInv DEF Finish, Inv

\* The collector takes a report.
LEMMA ReceiveInv == Inv /\ Receive => Inv'
<1> SUFFICES ASSUME Inv, Receive PROVE Inv'
  OBVIOUS
<1>1. Head(channel) \in [name : Checkers, results : Seq(Result)]
  <2> DEFINE Report == [name : Checkers, results : Seq(Result)]
  <2>1. channel \in Seq(Report) /\ channel # << >>
    BY DEF Inv, Control, Receive
  <2> HIDE DEF Report
  <2>2. Head(channel) \in Report
    BY <2>1, HeadTailProperties
  <2> QED
    BY <2>2 DEF Report
<1>2. /\ DOMAIN results' \subseteq Checkers
      /\ results' \in [DOMAIN results' -> Seq(Result)]
  BY <1>1 DEF Inv, Control, Receive
<1>3. /\ channel' \in Seq([name : Checkers, results : Seq(Result)])
      /\ batch' \in Seq(Result)
  BY <1>1 DEF Inv, Control, Receive
<1>4. Control'
  BY <1>2, <1>3 DEF Inv, Receive, Control, pending, stored
<1>5. Alerting'
  BY DEF Inv, Receive, Alerting, pending, stored
<1>6. Today' = Today
  BY DEF Receive, Today
<1>7. Timed' /\ Recorded' /\ FilesTyped' /\ Padded' /\ SavedBetweenCycles'
  BY <1>6 DEF Inv, Receive, Timed, OutageIsTimed, Recorded, FilesTyped, Padded,
              SavedBetweenCycles, stored
<1> QED
  BY <1>4, <1>5, <1>7 DEF Inv

\* The last report is in and the collector closes.
LEMMA CollectedInv == Inv /\ Collected => Inv'
<1> SUFFICES ASSUME Inv, Collected PROVE Inv'
  OBVIOUS
<1>1. Control' /\ Alerting'
  BY DEF Inv, Collected, Control, Alerting, memory, pending, stored
<1>2. Frame
  BY DEF Collected, Frame, memory, pending, stored
<1> QED
  BY <1>1, <1>2, FrameInv DEF Collected, Inv

\* An alert is sent.
LEMMA SendAlertInv == Inv /\ SendAlert => Inv'
<1> SUFFICES ASSUME Inv, SendAlert PROVE Inv'
  OBVIOUS
<1>1. Control'
  BY DEF Inv, SendAlert, Control, memory, stored
<1>2. Head(alerts) \in [component : Components, status : Status, previous : Status]
  <2> DEFINE News == [component : Components, status : Status, previous : Status]
  <2>1. alerts \in Seq(News) /\ alerts # << >>
    BY DEF Inv, Alerting, SendAlert
  <2> HIDE DEF News
  <2>2. Head(alerts) \in News
    BY <2>1, HeadTailProperties
  <2> QED
    BY <2>2 DEF News
<1>3. Alerting'
  BY <1>2 DEF Inv, SendAlert, Alerting, memory, stored
<1>4. Frame
  BY DEF SendAlert, Frame, memory, stored
<1> QED
  BY <1>1, <1>3, <1>4, FrameInv DEF SendAlert, Inv

\* A bad result goes to the log timeline.
LEMMA RecordInv == Inv /\ Record => Inv'
<1> SUFFICES ASSUME Inv, Record PROVE Inv'
  OBVIOUS
<1>1. Control' /\ Alerting'
  BY DEF Inv, Record, Control, Alerting, memory, stored
<1>2. Frame
  BY DEF Record, Frame, memory, stored
<1> QED
  BY <1>1, <1>2, FrameInv DEF Record, Inv

\* One result is applied: the days of its component stay in order, and its
\* outage is timed from now, goes on, or ends.
LEMMA ApplyInv == Inv /\ Apply => Inv'
<1> SUFFICES ASSUME Inv, Apply PROVE Inv'
  OBVIOUS
<1> DEFINE r == Head(batch)
           c == r.component
           days == Updated(history[c], r.status)
           new == IF ShortOutage(r) THEN Downgraded(days) ELSE days
<1>1. r \in Result /\ Tail(batch) \in Seq(Result)
  BY HeadTailProperties DEF Inv, Control, Apply
<1>2. c \in Components /\ r.status \in Status
  BY <1>1 DEF Result
<1>3. now \in Nat /\ Today \in Nat /\ Today' = Today
  BY SMTT(30), DayNat DEF Inv, Control, Apply, Today
<1>4. history[c] \in Seq(HistoryEntry) /\ Ordered(history[c], Today)
  BY <1>2 DEF Inv, Recorded
<1>5. days \in Seq(HistoryEntry) /\ Ordered(days, Today)
  BY <1>2, <1>3, <1>4, UpdatedOrdered
<1>6. new \in Seq(HistoryEntry) /\ Ordered(new, Today)
  BY <1>5, DowngradedOrdered
<1>7. history' = [history EXCEPT ![c] = new]
  BY DEF Apply
<1> HIDE DEF new, days
<1>8. Recorded'
  BY <1>2, <1>3, <1>6, <1>7 DEF Inv, Recorded
<1>9. Control'
  <2>1. logRecords' \in Seq(Result)
    BY <1>1 DEF Inv, Control, Apply
  <2> QED
    BY <1>1, <2>1 DEF Inv, Control, Apply, stored
<1>10. Alerting'
  <2> DEFINE News == [component : Components, status : Status, previous : Status]
  <2>1. previousStatus' \in [Components -> Status \cup {None}]
    BY <1>2 DEF Inv, Alerting, Apply
  <2>2. AlertOf(r) \in News
    BY <1>2 DEF Inv, Alerting, AlertOf, Status
  <2>3. alerts' \in Seq(News)
    <3>1. alerts \in Seq(News)
      BY DEF Inv, Alerting
    <3>2. alerts' \in {alerts, Append(alerts, AlertOf(r))}
      BY DEF Apply
    <3> HIDE DEF News
    <3> QED
      BY <2>2, <3>1, <3>2
  <2> QED
    BY <2>1, <2>3 DEF Inv, Alerting, Apply
<1>11. Timed'
  <2>1. previousStatus' = [previousStatus EXCEPT ![c] = r.status]
    BY DEF Apply
  <2>2. criticalSince' = [criticalSince EXCEPT ![c] =
                            IF r.status = "critical"
                            THEN IF @ = Never THEN now ELSE @
                            ELSE IF EndsOutage(r) THEN Never ELSE @]
    BY DEF Apply
  <2>3. now' = now
    BY DEF Apply
  <2>4. now # Never /\ now \in 0 .. MaxTime
    BY DEF Inv, Control, Never
  <2>5. /\ criticalSince \in [Components -> (0 .. MaxTime) \cup {Never}]
        /\ previousStatus \in [Components -> Status \cup {None}]
        /\ \A x \in Components : /\ criticalSince[x] # Never <=> previousStatus[x] = "critical"
                                 /\ criticalSince[x] <= now
    BY DEF Inv, Timed, OutageIsTimed, Alerting
  <2>6. criticalSince' \in [Components -> (0 .. MaxTime) \cup {Never}]
    BY <1>2, <2>2, <2>4, <2>5
  <2>7. CASE r.status = "critical"
    <3>1. criticalSince'[c] # Never /\ criticalSince'[c] <= now
      BY <1>2, <2>2, <2>4, <2>5, <2>7
    <3> QED
      BY <1>2, <2>1, <2>2, <2>3, <2>5, <2>6, <2>7, <3>1 DEF Timed, OutageIsTimed
  <2>8. CASE r.status # "critical"
    <3>1. EndsOutage(r) \/ previousStatus[c] # "critical"
      BY <2>8 DEF EndsOutage, None
    <3>2. criticalSince'[c] = Never
      BY <1>2, <2>2, <2>5, <2>8, <3>1
    <3>3. \A x \in Components \ {c} : /\ criticalSince'[x] = criticalSince[x]
                                      /\ previousStatus'[x] = previousStatus[x]
      BY <2>1, <2>2, <2>5
    <3>4. previousStatus'[c] = r.status
      BY <1>2, <2>1, <2>5
    <3>5. criticalSince'[c] <= now
      BY <1>3, <3>2 DEF Never
    <3> QED
      BY <2>3, <2>5, <2>6, <2>8, <3>2, <3>3, <3>4, <3>5 DEF Timed, OutageIsTimed
  <2> QED
    BY <2>7, <2>8
<1>12. FilesTyped' /\ Padded' /\ SavedBetweenCycles'
  BY <1>3 DEF Inv, FilesTyped, Padded, SavedBetweenCycles, Apply, stored
<1> QED
  BY <1>8, <1>9, <1>10, <1>11, <1>12 DEF Inv

\* The history is padded up to the present day.
LEMMA GetHistoryInv == Inv /\ GetHistory => Inv'
<1> SUFFICES ASSUME Inv, GetHistory PROVE Inv'
  OBVIOUS
<1>1. Today' = Today /\ Today \in Nat
  BY DayNat DEF Inv, Control, GetHistory, Today
<1>2. Control' /\ Alerting'
  BY DEF Inv, GetHistory, Control, Alerting, memory, pending, stored
<1>3. Timed' /\ Recorded' /\ FilesTyped' /\ SavedBetweenCycles'
  BY <1>1 DEF Inv, GetHistory, Timed, OutageIsTimed, Recorded, FilesTyped,
              SavedBetweenCycles, memory, pending, stored
<1>4. \A c \in Components : \A i \in 1 .. Len(history[c]) : history[c][i].date <= Today
  BY DEF Inv, Recorded, Ordered
<1>5. window' = Today /\ history' = history
  BY DEF GetHistory, memory
<1>6. Padded'
  BY <1>1, <1>4, <1>5 DEF Padded
<1> QED
  BY <1>2, <1>3, <1>6 DEF Inv

\* Nothing is written of today only when nothing is known of today.
LEMMA SaveInv == Inv /\ Save => Inv'
<1> SUFFICES ASSUME Inv, Save PROVE Inv'
  OBVIOUS
<1>1. Today' = Today /\ now \in Nat /\ Today \in Nat
  BY DayNat DEF Inv, Control, Save, Today
<1>2. Control' /\ Alerting' /\ Timed' /\ Recorded' /\ Padded'
  BY <1>1 DEF Inv, Save, Control, Alerting, Timed, OutageIsTimed, Recorded, Padded,
              memory, pending
<1>3. ASSUME NEW c \in Known
      PROVE  c \in Components /\ StatusToday(c) \in Status \ {"unknown"}
  <2>1. c \in Components
    BY DEF Known
  <2>2. history[c] \in Seq(HistoryEntry)
    BY <2>1 DEF Inv, Recorded
  <2>3. PICK i \in 1 .. Len(history[c]) : /\ history[c][i].date = Today
                                         /\ history[c][i].status # "unknown"
    BY <2>2 DEF Known
  <2>4. history[c][i].status \in Status
    BY <2>2, RecordedDay
  <2>5. StatusToday(c) = history[c][i].status
    BY <1>1, <2>1, <2>3, OneStatusToday DEF Inv
  <2> QED
    BY <2>1, <2>3, <2>4, <2>5
<1> DEFINE new == [c \in Known |-> StatusToday(c)]
<1>4. new \in [Known -> Status \ {"unknown"}] /\ Known \subseteq Components
  BY <1>3
<1> HIDE DEF new
<1>5. CASE NothingToSave
  <2>1. disk' = disk
    BY <1>5 DEF Save
  <2>2. FilesTyped'
    BY <1>1, <2>1 DEF Inv, FilesTyped
  <2>3. ASSUME NEW c \in Components, NEW i \in 1 .. Len(history[c]),
               history[c][i].date = Today, history[c][i].status # "unknown"
        PROVE  FALSE
    <3>1. history[c] \in Seq(HistoryEntry)
      BY DEF Inv, Recorded
    <3>2. c \in Known
      BY <3>1, <2>3 DEF Known
    <3>3. history[c][i].date <= window /\ window <= Today /\ window \in Nat
      BY DEF Inv, Padded, Save
    <3> QED
      BY <1>1, <1>5, <2>3, <3>2, <3>3 DEF NothingToSave
  <2>4. history' = history
    BY DEF Save, memory
  <2>5. \A c \in Components : DOMAIN history[c] = 1 .. Len(history[c])
    BY DEF Inv, Recorded
  <2>6. SavedBetweenCycles'
    BY <1>1, <2>3, <2>4, <2>5 DEF SavedBetweenCycles
  <2> QED
    BY <1>2, <2>2, <2>6 DEF Inv
<1>6. CASE ~NothingToSave
  <2>1. disk' = [d \in DOMAIN disk \cup {Today} |-> IF d = Today THEN new ELSE disk[d]]
    BY <1>6 DEF Save, new
  <2>2. FilesTyped'
    BY <1>1, <1>4, <2>1 DEF Inv, FilesTyped
  <2>3. ASSUME NEW c \in Components, NEW i \in 1 .. Len(history[c]),
               history[c][i].date = Today, history[c][i].status # "unknown"
        PROVE  c \in Known /\ StatusToday(c) = history[c][i].status
    <3>1. history[c] \in Seq(HistoryEntry)
      BY DEF Inv, Recorded
    <3>2. c \in Known
      BY <3>1, <2>3 DEF Known
    <3> QED
      BY <1>1, <2>3, <3>2, OneStatusToday DEF Inv
  <2>4. history' = history
    BY DEF Save, memory
  <2>5. \A c \in Components : DOMAIN history[c] = 1 .. Len(history[c])
    BY DEF Inv, Recorded
  <2>6. Today \in DOMAIN disk' /\ disk'[Today] = [c \in Known |-> StatusToday(c)]
    BY <2>1 DEF new
  <2>7. SavedBetweenCycles'
    BY <1>1, <2>3, <2>4, <2>5, <2>6 DEF SavedBetweenCycles
  <2> QED
    BY <1>2, <2>2, <2>7 DEF Inv
<1> QED
  BY <1>5, <1>6

\* A failed write leaves the files as they are and is remembered as failed.
LEMMA SaveFailsInv == Inv /\ SaveFails => Inv'
<1> SUFFICES ASSUME Inv, SaveFails PROVE Inv'
  OBVIOUS
<1>1. Today' = Today /\ Today \in Nat
  BY DayNat DEF Inv, Control, SaveFails, Today
<1>2. Control' /\ Alerting'
  BY DEF Inv, SaveFails, Control, Alerting, memory, pending
<1>3. Timed' /\ Recorded' /\ FilesTyped' /\ Padded' /\ SavedBetweenCycles'
  BY <1>1 DEF Inv, SaveFails, Timed, OutageIsTimed, Recorded, FilesTyped, Padded,
              SavedBetweenCycles, memory, pending
<1> QED
  BY <1>2, <1>3 DEF Inv

\* Midnight: the recorded days stay past ones, and nothing is known of the new.
LEMMA TickInv == Inv /\ Tick => Inv'
<1> SUFFICES ASSUME Inv, Tick PROVE Inv'
  OBVIOUS
<1>1. now \in Nat /\ now' = now + 1 /\ now' \in 0 .. MaxTime
  BY DEF Inv, Control, Tick
<1>2. Today \in Nat /\ Today' \in Nat /\ Today <= Today'
  BY <1>1, DayNat, DayMonotonic DEF Today
<1>3. Control' /\ Alerting'
  BY <1>1 DEF Inv, Tick, Control, Alerting, memory, pending, stored
<1>4. Timed'
  BY <1>1 DEF Inv, Tick, Timed, OutageIsTimed, Alerting, memory, Never
<1>5. history' = history /\ disk' = disk /\ saved' = saved /\ window' = window /\ pc' = pc
  BY DEF Tick, memory, stored
<1>6. Recorded'
  BY <1>2, <1>5, OrderedLater DEF Inv, Recorded
<1>7. FilesTyped' /\ Padded'
  BY <1>2, <1>5 DEF Inv, FilesTyped, Padded
<1>8. SavedBetweenCycles'
  <2>1. CASE Today' = Today
    BY <2>1, <1>5 DEF Inv, SavedBetweenCycles
  <2>2. CASE Today' # Today
    <3>1. ASSUME NEW c \in Components, NEW i \in DOMAIN history[c]
          PROVE  history[c][i].date # Today'
      <4>1. history[c] \in Seq(HistoryEntry) /\ Ordered(history[c], Today)
        BY DEF Inv, Recorded
      <4>2. i \in 1 .. Len(history[c])
        BY <4>1
      <4> QED
        BY <1>2, <2>2, <4>1, <4>2, RecordedDay DEF Ordered
    <3> QED
      BY <1>5, <3>1 DEF SavedBetweenCycles
  <2> QED
    BY <2>1, <2>2
<1> QED
  BY <1>3, <1>4, <1>6, <1>7, <1>8 DEF Inv

\* The program is told to stop.
LEMMA CancelInv == Inv /\ Cancel => Inv'
<1> SUFFICES ASSUME Inv, Cancel PROVE Inv'
  OBVIOUS
<1>1. Control' /\ Alerting'
  BY DEF Inv, Cancel, Control, Alerting, memory, pending, stored
<1>2. Frame
  BY DEF Cancel, Frame, memory, pending, stored
<1> QED
  BY <1>1, <1>2, FrameInv DEF Cancel, Inv

\* The scheduler returns.
LEMMA ReturnInv == Inv /\ Return => Inv'
<1> SUFFICES ASSUME Inv, Return PROVE Inv'
  OBVIOUS
<1>1. Control' /\ Alerting'
  BY DEF Inv, Return, Control, Alerting, memory, pending, stored
<1>2. Frame
  BY DEF Return, Frame, memory, pending, stored
<1> QED
  BY <1>1, <1>2, FrameInv DEF Return, Inv

\* The process ends: memory is gone, the files are not.
LEMMA ExitInv == Inv /\ Exit => Inv'
<1> SUFFICES ASSUME Inv, Exit PROVE Inv'
  OBVIOUS
<1>1. Today' = Today /\ now \in Nat /\ Today \in Nat
  BY DayNat DEF Inv, Control, Exit, Today
<1>2. DOMAIN results' \subseteq Checkers /\ results' \in [DOMAIN results' -> Seq(Result)]
  <2>1. DOMAIN results' = {} /\ results' \in [{} -> Seq(Result)]
    BY DEF Exit
  <2> QED
    BY <2>1
<1>3. Control'
  <2>1. /\ channel' \in Seq([name : Checkers, results : Seq(Result)])
        /\ batch' \in Seq(Result)
        /\ logRecords' \in Seq(Result)
    BY DEF Exit
  <2>2. now' \in 0 .. MaxTime /\ saved' \in BOOLEAN
    BY DEF Inv, Control, Exit, stored
  <2>3. restarts' \in 0 .. MaxRestarts
    BY DEF Inv, Control, Exit
  <2>4. pc' = "down" /\ stopping' \in BOOLEAN /\ running' \subseteq Checkers
    BY DEF Exit
  <2> QED
    BY <1>2, <2>1, <2>2, <2>3, <2>4 DEF Control
<1>4. Alerting'
  BY DEF Exit, Alerting
<1>5. Timed'
  BY <1>1 DEF Exit, Timed, OutageIsTimed, None, Never
<1>6. Recorded'
  BY DEF Exit, Recorded, Ordered
<1>7. FilesTyped' /\ Padded' /\ SavedBetweenCycles'
  BY <1>1 DEF Inv, Exit, FilesTyped, Padded, SavedBetweenCycles, stored
<1> QED
  BY <1>3, <1>4, <1>5, <1>6, <1>7 DEF Inv

\* The process starts: memory holds what the recent files hold.
LEMMA BootInv == Inv /\ Boot => Inv'
<1> SUFFICES ASSUME Inv, Boot PROVE Inv'
  OBVIOUS
<1> PICK read \in SUBSET DOMAIN disk : BootReading(read)
  BY DEF Boot
<1>1. Today' = Today /\ now \in Nat /\ Today \in Nat
  BY DayNat DEF Inv, Control, BootReading, Today
<1>2. disk' = KeptFiles
  BY DEF BootReading, KeptFiles
<1>3. ASSUME NEW c \in Components
      PROVE  /\ history'[c] \in Seq(HistoryEntry)
             /\ Ordered(history'[c], Today)
             /\ \A i \in 1 .. Len(history'[c]) :
                  /\ history'[c][i].date \in DOMAIN disk'
                  /\ c \in DOMAIN disk'[history'[c][i].date]
                  /\ history'[c][i].status = disk'[history'[c][i].date][c]
  <2>1. history'[c] \in OldestFirst(DaysOnDisk(Kept(disk', read), c))
    BY DEF BootReading
  <2> DEFINE s == history'[c]
  <2>2. FilesTyped
    BY DEF Inv
  <2>3. s \in OldestFirst(DaysOnDisk(ReadFiles(read), c))
    BY <1>2, <2>1 DEF ReadFiles
  <2> HIDE DEF s
  <2>4. /\ s \in Seq(HistoryEntry)
        /\ Ordered(s, Today)
        /\ \A i \in 1 .. Len(s) : /\ s[i].date \in DOMAIN ReadFiles(read)
                                  /\ c \in DOMAIN ReadFiles(read)[s[i].date]
                                  /\ s[i].status = ReadFiles(read)[s[i].date][c]
    BY <1>1, <2>2, <2>3, LoadedOrdered
  <2>5. \A d \in DOMAIN ReadFiles(read) : /\ d \in DOMAIN KeptFiles
                                          /\ ReadFiles(read)[d] = KeptFiles[d]
    BY DEF ReadFiles, Kept
  <2> QED
    BY <1>2, <2>4, <2>5 DEF s
<1>4. DOMAIN history' = Components /\ history' = [c \in Components |-> history'[c]]
  BY DEF BootReading
<1>5. Recorded'
  BY <1>1, <1>3, <1>4 DEF Recorded
<1>6. Control' /\ Alerting' /\ Timed'
  BY DEF Inv, BootReading, Control, Alerting, Timed, OutageIsTimed, pending
<1>7. FilesTyped'
  BY <1>1, <1>2 DEF Inv, FilesTyped, KeptFiles, Kept
<1>8. Padded'
  BY <1>1 DEF Inv, Padded, BootReading
<1>9. SavedBetweenCycles'
  <2>1. \A c \in Components : DOMAIN history'[c] = 1 .. Len(history'[c])
    BY <1>3
  <2> QED
    BY <1>1, <1>3, <2>1 DEF SavedBetweenCycles
<1> QED
  BY <1>5, <1>6, <1>7, <1>8, <1>9 DEF Inv

\* Every step preserves the invariant.
LEMMA NextInv == Inv /\ [Next]_vars => Inv'
<1> SUFFICES ASSUME Inv, [Next]_vars PROVE Inv'
  OBVIOUS
<1>1. CASE UNCHANGED vars
  <2>1. Today' = Today
    BY <1>1 DEF vars, Today
  <2> QED
    BY <1>1, <2>1 DEF vars, memory, pending, stored, Inv, Control, Alerting, Timed,
                      OutageIsTimed, Recorded, FilesTyped, Padded, SavedBetweenCycles
<1>2. CASE \E k \in Checkers : Finish(k)
  BY <1>2, FinishInv
<1> QED
  BY <1>1, <1>2, StartCycleInv, ReceiveInv, ApplyInv, CollectedInv, SendAlertInv,
     RecordInv, GetHistoryInv, SaveInv, SaveFailsInv, TickInv, CancelInv, ReturnInv,
     ExitInv, BootInv DEF Next

\* The inductive invariant holds of every behaviour of the scheduler.
THEOREM Invariance == Spec => []Inv
<1>1. Init => Inv
  BY InitInv
<1>2. Inv /\ [Next]_vars => Inv'
  BY NextInv
<1> QED
  BY <1>1, <1>2, PTL DEF Spec
-----------------------------------------------------------------------------
\* The maps, lists and files have their shapes: in particular a day file never
\* holds "unknown", and no map holds a component that was not checked.
THEOREM TypeCorrect == Spec => []TypeOK
<1>1. Inv => TypeOK
  <2> SUFFICES ASSUME Inv PROVE TypeOK
    OBVIOUS
  <2>1. Today \in Nat
    BY DayNat DEF Inv, Control, Today
  <2>2. history \in [Components -> Days]
    BY DEF Inv, Recorded, Days, HistoryEntry
  <2>3. DOMAIN disk \subseteq Nat
    BY <2>1 DEF Inv, FilesTyped
  <2>4. /\ criticalSince \in [Components -> (0 .. MaxTime) \cup {Never}]
        /\ \A d \in DOMAIN disk : /\ DOMAIN disk[d] \subseteq Components
                                  /\ disk[d] \in [DOMAIN disk[d] -> Status \ {"unknown"}]
        /\ window \in Nat
    BY DEF Inv, Timed, FilesTyped, Padded
  <2> QED
    BY <2>2, <2>3, <2>4 DEF Inv, Control, Alerting, TypeOK
<1> QED
  BY <1>1, Invariance, PTL

\* An outage is timed exactly while its component is critical.
THEOREM OutagesAreTimed == Spec => []OutageIsTimed
<1>1. Inv => OutageIsTimed
  BY DEF Inv, Timed
<1> QED
  BY <1>1, Invariance, PTL

\* The recorded days are in order, each once, within the retention and never
\* ahead of the clock, across midnights and restarts.
THEOREM HistoryStaysInOrder == Spec => []HistoryInOrder
<1>1. Inv => HistoryInOrder
  <2> SUFFICES ASSUME Inv, NEW c \in Components
               PROVE  /\ Len(history[c]) <= Retention
                      /\ \A i \in DOMAIN history[c] : history[c][i].date <= Today
                      /\ \A i, j \in DOMAIN history[c] :
                           i < j => history[c][i].date < history[c][j].date
    BY DEF HistoryInOrder
  <2>1. history[c] \in Seq(HistoryEntry) /\ Ordered(history[c], Today)
    BY DEF Inv, Recorded
  <2>2. DOMAIN history[c] = 1 .. Len(history[c])
    BY <2>1
  <2> QED
    BY <2>1, <2>2 DEF Ordered
<1> QED
  BY <1>1, Invariance, PTL

\* Between two cycles the file of the present day holds what memory holds of it.
THEOREM TodayIsOnDisk == Spec => []SavedBetweenCycles
<1>1. Inv => SavedBetweenCycles
  BY DEF Inv
<1> QED
  BY <1>1, Invariance, PTL
-----------------------------------------------------------------------------
(* The chain of alerts of one component: t is the last status told, al the   *)
(* pending alerts, p the present status.                                     *)

Chain(al, c, t, p) ==
  /\ About(al, c) = {} => t = p \/ (t = None /\ p \in {None, "ok", "unknown"})
  /\ \A i \in About(al, c) :
       /\ (\A j \in About(al, c) : j <= i) => al[i].status = p
       /\ (\A j \in About(al, c) : i <= j) =>
            t = al[i].previous \/ (t = None /\ al[i].previous \in {"ok", "unknown"})
  /\ \A h, i \in About(al, c) :
       (h < i /\ \A j \in About(al, c) : j <= h \/ i <= j) =>
         al[i].previous = al[h].status

News == [component : Components, status : Status, previous : Status]

\* A component with a pending alert has a status.
Linked ==
  \A c \in Components : /\ Chain(alerts, c, told[c], previousStatus[c])
                        /\ previousStatus[c] = None => About(alerts, c) = {}

\* The chain is what AlertsTellStatus says of every component.
LEMMA LinkedTells == Linked => AlertsTellStatus
  BY DEF Linked, Chain, AlertsTellStatus

\* The alerts about c are at places of the list.
LEMMA AboutPlaces ==
  ASSUME NEW al \in Seq(News), NEW c
  PROVE  About(al, c) = {i \in 1 .. Len(al) : al[i].component = c}
  BY DEF About

\* An alert about another component changes nothing for c.
LEMMA ChainElsewhere ==
  ASSUME NEW al \in Seq(News), NEW a \in News, NEW c, a.component # c,
         NEW t, NEW p, Chain(al, c, t, p)
  PROVE  Chain(Append(al, a), c, t, p) /\ About(Append(al, a), c) = About(al, c)
<1> DEFINE bs == Append(al, a)
<1>1. /\ bs \in Seq(News)
      /\ Len(bs) = Len(al) + 1
      /\ \A i \in 1 .. Len(al) : bs[i] = al[i]
      /\ bs[Len(al) + 1] = a
  OBVIOUS
<1> HIDE DEF bs
<1>b. /\ About(al, c) = {i \in 1 .. Len(al) : al[i].component = c}
      /\ About(bs, c) = {i \in 1 .. Len(bs) : bs[i].component = c}
  BY <1>1, AboutPlaces
<1>c. /\ Len(al) \in Nat
      /\ \A i \in 1 .. Len(bs) : i \in 1 .. Len(al) \/ i = Len(al) + 1
  BY <1>1
<1>a. About(bs, c) = About(al, c) /\ \A i \in About(al, c) : bs[i] = al[i]
  BY <1>1, <1>b, <1>c
<1>2. Chain(bs, c, t, p)
  BY <1>a DEF Chain
<1> QED
  BY <1>a, <1>2 DEF bs

\* A new alert about c goes on from the status before and tells the new one.
LEMMA ChainGrows ==
  ASSUME NEW al \in Seq(News), NEW a \in News, NEW t, NEW p, NEW c,
         a.component = c, Chain(al, c, t, p),
         p = None => About(al, c) = {},
         a.previous = (IF p = None THEN "unknown" ELSE p)
  PROVE  Chain(Append(al, a), c, t, a.status)
<1> DEFINE bs == Append(al, a)
           n == Len(al) + 1
<1>a. /\ bs \in Seq(News)
      /\ Len(bs) = n
      /\ \A i \in 1 .. Len(al) : bs[i] = al[i]
      /\ bs[n] = a
      /\ n \in Nat
  OBVIOUS
<1> HIDE DEF bs
<1>b. \A i \in About(al, c) : bs[i] = al[i] /\ i \in Nat /\ i < n
  BY <1>a, AboutPlaces
<1>c. \A i : i \in About(bs, c) <=> i \in About(al, c) \/ i = n
  BY SMTT(30), <1>a, AboutPlaces
<1> HIDE DEF n
<1>1. /\ \A i : i \in About(bs, c) <=> i \in About(al, c) \/ i = n
      /\ \A i \in About(al, c) : bs[i] = al[i] /\ i \in Nat /\ i < n
      /\ bs[n] = a /\ n \in Nat
  BY <1>a, <1>b, <1>c
<1>2. ASSUME NEW i \in About(bs, c), \A j \in About(bs, c) : j <= i
      PROVE  bs[i].status = a.status
  BY <1>1, <1>2
<1>3. ASSUME NEW i \in About(bs, c), \A j \in About(bs, c) : i <= j
      PROVE  t = bs[i].previous \/ (t = None /\ bs[i].previous \in {"ok", "unknown"})
  <2>1. CASE i \in About(al, c)
    BY <1>1, <1>3, <2>1 DEF Chain
  <2>2. CASE i = n /\ About(al, c) = {}
    BY <1>1, <2>2 DEF Chain, None
  <2>3. ASSUME i = n, NEW j \in About(al, c)
        PROVE  FALSE
    <3>1. i <= j
      BY <1>1, <1>3
    <3>2. j \in Nat /\ n \in Nat /\ j < n
      BY <1>1
    <3> QED
      BY <2>3, <3>1, <3>2
  <2> QED
    BY <1>1, <2>1, <2>2, <2>3
<1>4. ASSUME NEW h \in About(bs, c), NEW i \in About(bs, c), h < i,
             \A j \in About(bs, c) : j <= h \/ i <= j
      PROVE  bs[i].previous = bs[h].status
  <2>1. h \in About(al, c)
    BY <1>1, <1>4
  <2>2. CASE i \in About(al, c)
    BY <1>1, <1>4, <2>1, <2>2 DEF Chain
  <2>3. CASE i = n
    <3>1. ASSUME NEW j \in About(al, c)
          PROVE  j <= h
      <4>1. j \in About(bs, c)
        BY <1>1
      <4>2. j <= h \/ i <= j
        BY <1>4, <4>1
      <4>3. j < n /\ j \in Nat /\ n \in Nat
        BY <1>1
      <4> QED
        BY <2>3, <4>2, <4>3
    <3> QED
      BY <1>1, <2>1, <2>3, <3>1 DEF Chain
  <2> QED
    BY <1>1, <2>2, <2>3
<1>5. About(bs, c) # {}
  BY <1>1
<1>6. Chain(bs, c, t, a.status)
  BY <1>2, <1>3, <1>4, <1>5 DEF Chain
<1> QED
  BY <1>6 DEF bs

\* Sending the first alert tells its status; the rest goes on from there.
LEMMA ChainShrinks ==
  ASSUME NEW al \in Seq(News), al # << >>, NEW c, NEW t, NEW p,
         Chain(al, c, t, p)
  PROVE  /\ Chain(Tail(al), c, IF Head(al).component = c THEN Head(al).status ELSE t, p)
         /\ About(al, c) = {} => About(Tail(al), c) = {}
<1> DEFINE bs == Tail(al)
<1>a. /\ bs \in Seq(News)
      /\ Len(bs) = Len(al) - 1
      /\ Len(al) \in Nat /\ Len(al) >= 1
      /\ \A i \in 1 .. Len(al) - 1 : bs[i] = al[i + 1]
      /\ Head(al) = al[1]
  OBVIOUS
<1> HIDE DEF bs
<1>b. /\ About(al, c) = {i \in 1 .. Len(al) : al[i].component = c}
      /\ About(bs, c) = {i \in 1 .. Len(bs) : bs[i].component = c}
  BY <1>a, AboutPlaces
<1>c. ASSUME NEW i \in About(bs, c)
      PROVE  bs[i] = al[i + 1] /\ i + 1 \in About(al, c) /\ i \in Nat /\ i >= 1
  BY <1>a, <1>b
<1>d. ASSUME NEW i \in About(al, c)
      PROVE  i \in Nat /\ i >= 1 /\ (i = 1 \/ i - 1 \in About(bs, c))
  BY <1>a, <1>b
<1>1. /\ \A i \in About(bs, c) : bs[i] = al[i + 1] /\ i + 1 \in About(al, c)
                                 /\ i \in Nat /\ i >= 1
      /\ \A i \in About(al, c) : i \in Nat /\ i >= 1 /\ (i = 1 \/ i - 1 \in About(bs, c))
      /\ 1 \in About(al, c) <=> Head(al).component = c
      /\ Head(al) = al[1]
  BY <1>a, <1>b, <1>c, <1>d
<1>2. \A i \in About(bs, c) :
        (\A j \in About(bs, c) : j <= i) => bs[i].status = p
  <2> SUFFICES ASSUME NEW i \in About(bs, c), \A j \in About(bs, c) : j <= i
               PROVE  bs[i].status = p
    OBVIOUS
  <2>1. \A j \in About(al, c) : j <= i + 1
    BY <1>1
  <2> QED
    BY <1>1, <2>1 DEF Chain
<1>3. ASSUME NEW h \in About(bs, c), NEW i \in About(bs, c), h < i,
             \A j \in About(bs, c) : j <= h \/ i <= j
      PROVE  bs[i].previous = bs[h].status
  <2>1. h + 1 \in About(al, c) /\ i + 1 \in About(al, c) /\ h + 1 < i + 1
    BY <1>1, <1>3
  <2>a. ASSUME NEW j \in About(al, c)
        PROVE  j <= h + 1 \/ i + 1 <= j
    <3>1. j = 1 \/ j - 1 <= h \/ i <= j - 1
      BY <1>1, <1>3
    <3>2. j \in Nat /\ h \in Nat /\ i \in Nat /\ h >= 1
      BY <1>1
    <3> QED
      BY <3>1, <3>2
  <2>2. al[i + 1].previous = al[h + 1].status
    BY <2>1, <2>a DEF Chain
  <2> QED
    BY <1>1, <2>2
<1>4. CASE Head(al).component = c
  <2>1. 1 \in About(al, c)
    BY <1>1, <1>4
  <2>2. ASSUME About(bs, c) = {}
        PROVE  Head(al).status = p
    <3>1. \A j \in About(al, c) : j <= 1
      BY <1>1, <2>2
    <3> QED
      BY <1>1, <2>1, <3>1 DEF Chain
  <2>3. ASSUME NEW i \in About(bs, c), \A j \in About(bs, c) : i <= j
        PROVE  Head(al).status = bs[i].previous
    <3>1. /\ i + 1 \in About(al, c) /\ 1 < i + 1
          /\ \A j \in About(al, c) : j <= 1 \/ i + 1 <= j
      BY <1>1, <2>3
    <3>2. al[i + 1].previous = al[1].status
      BY <2>1, <3>1 DEF Chain
    <3> QED
      BY <1>1, <3>2
  <2>4. Chain(bs, c, Head(al).status, p)
    BY <1>2, <1>3, <2>2, <2>3 DEF Chain
  <2> QED
    BY <1>4, <2>1, <2>4 DEF bs
<1>5. CASE Head(al).component # c
  <2>1. ASSUME About(bs, c) = {}
        PROVE  About(al, c) = {}
    BY <1>1, <1>5, <2>1
  <2>2. ASSUME NEW i \in About(bs, c), \A j \in About(bs, c) : i <= j
        PROVE  t = bs[i].previous \/ (t = None /\ bs[i].previous \in {"ok", "unknown"})
    <3>1. i + 1 \in About(al, c) /\ \A j \in About(al, c) : i + 1 <= j
      BY SMTT(30), <1>1, <1>5, <2>2
    <3> QED
      BY <1>1, <3>1 DEF Chain
  <2>3. Chain(bs, c, t, p)
    BY <1>2, <1>3, <2>1, <2>2 DEF Chain
  <2> QED
    BY <1>1, <1>5, <2>3 DEF bs
<1> QED
  BY <1>4, <1>5

\* Every step keeps the chains.
LEMMA LinkedNext == Inv /\ Linked /\ [Next]_vars => Linked'
<1> SUFFICES ASSUME Inv, Linked, [Next]_vars PROVE Linked'
  OBVIOUS
<1>1. CASE UNCHANGED <<alerts, told, previousStatus>>
  BY <1>1 DEF Linked
<1>2. CASE Apply
  <2> DEFINE r == Head(batch)
  <2>1. r \in Result
    BY <1>2, HeadTailProperties DEF Inv, Control, Apply
  <2>2. r.component \in Components /\ r.status \in Status
    BY <2>1 DEF Result
  <2>3. /\ alerts \in Seq(News)
        /\ previousStatus \in [Components -> Status \cup {None}]
    BY DEF Inv, Alerting, News
  <2>4. /\ previousStatus' = [previousStatus EXCEPT ![r.component] = r.status]
        /\ told' = told
    BY <1>2 DEF Apply
  <2>5. AlertOf(r) \in News
    BY <2>2, <2>3 DEF AlertOf, News, Status
  <2>6. /\ AlertOf(r).component = r.component
        /\ AlertOf(r).status = r.status
        /\ AlertOf(r).previous = IF previousStatus[r.component] = None
                                 THEN "unknown" ELSE previousStatus[r.component]
    BY DEF AlertOf
  <2>7. r.status # None
    BY <2>2 DEF Status, None
  <2> HIDE DEF r
  <2>8. CASE IsNews(r)
    <3>1. alerts' = Append(alerts, AlertOf(r))
      BY <1>2, <2>8 DEF Apply, r
    <3>2. Chain(alerts', r.component, told[r.component], r.status)
      BY <2>2, <2>3, <2>5, <2>6, <3>1, ChainGrows DEF Linked
    <3>3. ASSUME NEW c \in Components, c # r.component
          PROVE  /\ Chain(alerts', c, told[c], previousStatus[c])
                 /\ previousStatus[c] = None => About(alerts', c) = {}
      BY <2>3, <2>5, <2>6, <3>1, <3>3, ChainElsewhere DEF Linked
    <3> QED
      BY <2>2, <2>3, <2>4, <2>7, <3>2, <3>3 DEF Linked
  <2>9. CASE ~IsNews(r)
    <3>1. alerts' = alerts
      BY <1>2, <2>9 DEF Apply, r
    <3>2. Chain(alerts, r.component, told[r.component], r.status)
      <4>1. CASE previousStatus[r.component] # None
        BY <2>2, <2>9, <4>1 DEF IsNews, Linked
      <4>2. CASE previousStatus[r.component] = None
        <5>1. /\ About(alerts, r.component) = {}
              /\ r.status \in {"ok", "unknown"}
              /\ told[r.component] = None
          BY <2>2, <2>9, <4>2 DEF IsNews, Linked, Chain, Status
        <5> QED
          BY <5>1 DEF Chain
      <4> QED
        BY <4>1, <4>2
    <3> QED
      BY <2>2, <2>3, <2>4, <2>7, <3>1, <3>2 DEF Linked
  <2> QED
    BY <2>8, <2>9
<1>3. CASE SendAlert
  <2>1. /\ alerts \in Seq(News) /\ alerts # << >>
        /\ told \in [Components -> Status \cup {None}]
    BY <1>3 DEF Inv, Alerting, News, SendAlert
  <2>2. /\ alerts' = Tail(alerts)
        /\ told' = [told EXCEPT ![Head(alerts).component] = Head(alerts).status]
        /\ previousStatus' = previousStatus
    BY <1>3 DEF SendAlert, memory
  <2>3. \A c \in Components :
          told'[c] = IF Head(alerts).component = c THEN Head(alerts).status ELSE told[c]
    BY <2>1, <2>2
  <2> QED
    BY <2>1, <2>2, <2>3, ChainShrinks DEF Linked
<1>4. CASE Exit
  <2>1. /\ alerts' = << >>
        /\ \A c \in Components : told'[c] = None /\ previousStatus'[c] = None
    BY <1>4 DEF Exit
  <2>2. \A c : About(<< >>, c) = {}
    BY DEF About
  <2> QED
    BY <2>1, <2>2 DEF Linked, Chain
<1>5. ASSUME NEW k \in Checkers, Finish(k)
      PROVE  UNCHANGED <<alerts, told, previousStatus>>
  BY <1>5 DEF Finish, memory, pending
<1>6. CASE \/ StartCycle \/ Receive \/ Collected \/ Record \/ GetHistory \/ Save \/ SaveFails
           \/ Tick \/ Cancel \/ Return \/ Boot \/ UNCHANGED vars
  <2>1. UNCHANGED <<alerts, told, previousStatus>>
    BY <1>6 DEF StartCycle, Receive, Collected, Record, GetHistory, Save, SaveFails,
                Tick, Cancel, Return, Boot, BootReading, vars, memory, pending
  <2> QED
    BY <1>1, <2>1
<1> QED
  BY <1>1, <1>2, <1>3, <1>4, <1>5, <1>6 DEF Next

\* Who follows the alerts knows the status of every component: the latest one
\* tells it, each goes on from the one before, and there is none only while the
\* component has never been bad.
THEOREM AlertsTell == Spec => []AlertsTellStatus
<1>1. Init => Linked
  <2> SUFFICES ASSUME Init PROVE Linked
    OBVIOUS
  <2>1. \A c : About(<< >>, c) = {}
    BY DEF About
  <2> QED
    BY <2>1 DEF Init, Linked, Chain
<1>2. Linked /\ [Inv /\ Next]_vars => Linked'
  <2>1. ASSUME Linked, UNCHANGED vars PROVE Linked'
    BY <2>1 DEF vars, memory, pending, Linked
  <2> QED
    BY <2>1, LinkedNext
<1>3. Inv /\ [Next]_vars => [Inv /\ Next]_vars
  OBVIOUS
<1> QED
  BY <1>1, <1>2, <1>3, Invariance, LinkedTells, PTL DEF Spec
-----------------------------------------------------------------------------
(* Where the results about a component agree, its alerts are not repeated. *)

\* The results that some check may return, cancelled or not.
Returns ==
  UNION {{report[i] : i \in 1 .. Len(report)} :
           report \in UNION {Reports[k] \cup Cancelled[k] : k \in Checkers}}

\* Whatever is returned about a component says the same of it: nothing changes,
\* a cancelled check included, and no two results disagree, as those of two
\* mounts may.
Agreeing ==
  \A r, s \in Returns : r.component = s.component => r.status = s.status

\* What is on its way was returned, a status is one that was returned, what was
\* told has a status, and no alert that a cycle gathers is about what was told.
Quiet ==
  /\ channel \in Seq([name : Checkers, results : Seq(Returns)])
  /\ batch \in Seq(Returns)
  /\ \A c \in Components :
       /\ previousStatus[c] # None =>
            \E r \in Returns : r.component = c /\ r.status = previousStatus[c]
       /\ previousStatus[c] = None => told[c] = None
  /\ \A i \in 1 .. Len(alerts) : previousStatus[alerts[i].component] # None
  /\ pc \notin {"collecting", "alerting"} => alerts = << >>
  /\ pc = "collecting" => \A i \in 1 .. Len(alerts) : told[alerts[i].component] = None

\* A report consists of results that are returned.
LEMMA ReportReturns ==
  ASSUME NEW k \in Checkers, NEW report \in Reports[k] \cup Cancelled[k]
  PROVE  report \in Seq(Returns)
<1>1. report \in Seq(Result)
  OBVIOUS
<1>2. \A i \in 1 .. Len(report) : report[i] \in Returns
  BY DEF Returns
<1> HIDE DEF Returns
<1>3. Len(report) \in Nat /\ report = [i \in 1 .. Len(report) |-> report[i]]
  BY <1>1
<1> QED
  BY <1>2, <1>3, IsASeq

\* Results that are returned have a component and a status.
LEMMA ReturnsTyped == Returns \subseteq Result
<1> SUFFICES ASSUME NEW k \in Checkers, NEW report \in Reports[k] \cup Cancelled[k],
                    NEW i \in 1 .. Len(report)
             PROVE  report[i] \in Result
  BY DEF Returns
<1>1. report \in Seq(Result)
  OBVIOUS
<1> QED
  BY <1>1

\* Every step keeps quiet.
LEMMA QuietNext == Agreeing /\ Inv /\ Quiet /\ [Next]_vars => Quiet'
<1> SUFFICES ASSUME Agreeing, Inv, Quiet, [Next]_vars PROVE Quiet'
  OBVIOUS
<1> USE DEF Quiet
<1>t. /\ alerts \in Seq(News)
      /\ previousStatus \in [Components -> Status \cup {None}]
      /\ told \in [Components -> Status \cup {None}]
  BY DEF Inv, Alerting, News
<1>1. CASE UNCHANGED <<channel, batch, previousStatus, alerts, told, pc>>
  BY <1>1
<1>2. CASE StartCycle
  BY <1>2, <1>t DEF StartCycle, memory, pending
<1>3. ASSUME NEW k \in Checkers, Finish(k)
      PROVE  Quiet'
  <2>1. PICK report \in Reports[k] \cup Cancelled[k] :
          channel' = Append(channel, [name |-> k, results |-> report])
    BY <1>3 DEF Finish
  <2>2. channel' \in Seq([name : Checkers, results : Seq(Returns)])
    BY <2>1, ReportReturns
  <2> QED
    BY <1>3, <2>2 DEF Finish, memory, pending
<1>4. CASE Receive
  <2>1. Head(channel) \in [name : Checkers, results : Seq(Returns)]
        /\ Tail(channel) \in Seq([name : Checkers, results : Seq(Returns)])
    BY <1>4, HeadTailProperties DEF Receive
  <2> QED
    BY <1>4, <2>1 DEF Receive, pending
<1>5. CASE Apply
  <2> DEFINE r == Head(batch)
  <2>1. /\ r \in Returns
        /\ Tail(batch) \in Seq(Returns)
    BY <1>5, HeadTailProperties DEF Apply
  <2>2. r.component \in Components /\ r.status \in Status
    BY <2>1, ReturnsTyped DEF Result
  <2>3. /\ previousStatus' = [previousStatus EXCEPT ![r.component] = r.status]
        /\ alerts' = IF IsNews(r) THEN Append(alerts, AlertOf(r)) ELSE alerts
        /\ pc = "collecting"
        /\ UNCHANGED <<channel, told, pc>>
        /\ batch' = Tail(batch)
    BY <1>5 DEF Apply
  <2>4. AlertOf(r).component = r.component
    BY DEF AlertOf
  <2>5. r.status # None
    BY <2>2 DEF Status, None
  <2>6. AlertOf(r) \in News
    BY <2>2, <1>t DEF AlertOf, News, Status
  <2> HIDE DEF r
  \* A component that has a status has the one it is reported with.
  <2>7. IsNews(r) => told[r.component] = None
    <3>1. CASE previousStatus[r.component] = None
      BY <2>2, <3>1
    <3>2. CASE previousStatus[r.component] # None
      BY <2>1, <2>2, <3>2 DEF Agreeing, IsNews
    <3> QED
      BY <3>1, <3>2
  <2>8. \A i \in 1 .. Len(alerts') :
          \/ i \in 1 .. Len(alerts) /\ alerts'[i] = alerts[i]
          \/ IsNews(r) /\ alerts'[i] = AlertOf(r)
    <3>1. CASE IsNews(r)
      BY <1>t, <2>3, <2>6, <3>1
    <3> QED
      BY <2>3, <3>1
  <2>9. \A i \in 1 .. Len(alerts) : alerts[i].component \in Components
    <3>1. \A i \in 1 .. Len(alerts) : alerts[i] \in News
      BY <1>t
    <3> QED
      BY <3>1 DEF News
  <2>10. \A c \in Components :
           previousStatus'[c] = IF c = r.component THEN r.status ELSE previousStatus[c]
    BY <1>t, <2>2, <2>3
  <2>11. \A i \in 1 .. Len(alerts') : /\ previousStatus'[alerts'[i].component] # None
                                      /\ told[alerts'[i].component] = None
    BY <2>2, <2>3, <2>4, <2>5, <2>7, <2>8, <2>9, <2>10
  <2>12. \A c \in Components :
           /\ previousStatus'[c] # None =>
                \E s \in Returns : s.component = c /\ s.status = previousStatus'[c]
           /\ previousStatus'[c] = None => told'[c] = None
    BY <2>1, <2>3, <2>5, <2>10
  <2> QED
    BY <2>1, <2>3, <2>11, <2>12
<1>6. CASE Collected
  BY <1>6 DEF Collected, memory, pending
<1>7. CASE SendAlert
  <2> DEFINE a == Head(alerts)
  <2>1. /\ a \in News
        /\ a = alerts[1]
        /\ 1 \in 1 .. Len(alerts)
        /\ Tail(alerts) \in Seq(News)
        /\ \A i \in 1 .. Len(Tail(alerts)) : i + 1 \in 1 .. Len(alerts)
                                             /\ Tail(alerts)[i] = alerts[i + 1]
    BY <1>7, <1>t, HeadTailProperties DEF SendAlert
  <2>2. /\ told' = [told EXCEPT ![a.component] = a.status]
        /\ alerts' = Tail(alerts)
        /\ pc = "alerting"
        /\ UNCHANGED <<pc, channel, batch, previousStatus>>
    BY <1>7 DEF SendAlert, memory
  <2> HIDE DEF a
  <2>3. previousStatus[a.component] # None
    BY <2>1
  <2>4. \A c \in Components : told'[c] = told[c] \/ c = a.component
    BY <1>t, <2>2
  <2> QED
    BY <2>1, <2>2, <2>3, <2>4
<1>8. CASE GetHistory
  BY <1>8 DEF GetHistory, memory, pending
<1>9. CASE Save \/ SaveFails \/ Return
  BY <1>9 DEF Save, SaveFails, Return, memory, pending
<1>12. CASE Boot
  BY <1>12 DEF Boot, BootReading, pending
<1>10. CASE Exit
  BY <1>10 DEF Exit
<1>11. CASE Record \/ Tick \/ Cancel \/ UNCHANGED vars
  BY <1>1, <1>11 DEF Record, Tick, Cancel, vars, memory, pending
<1> QED
  BY <1>2, <1>3, <1>4, <1>5, <1>6, <1>7, <1>8, <1>9, <1>10, <1>11, <1>12 DEF Next

\* Where the results about a component agree, what was alerted once is not
\* alerted again: the repeated alerts about linux-disk come from results that
\* disagree, and not from the order of reports, from processResult or from a
\* restart.
THEOREM AgreeingIsQuiet == Agreeing /\ Spec => []SteadyIsQuiet
<1>1. Init => Quiet
  BY DEF Init, Quiet
<1>2. Agreeing /\ Quiet /\ [Inv /\ Next]_vars => Quiet'
  <2>1. ASSUME Quiet, UNCHANGED vars PROVE Quiet'
    BY <2>1 DEF vars, memory, pending, Quiet
  <2> QED
    BY <2>1, QuietNext
<1>3. Inv /\ Quiet => SteadyIsQuiet
  <2> SUFFICES ASSUME Inv, Quiet PROVE SteadyIsQuiet
    OBVIOUS
  <2>1. DOMAIN alerts = 1 .. Len(alerts)
    BY DEF Inv, Alerting
  <2> QED
    BY <2>1 DEF Quiet, SteadyIsQuiet
<1>4. Inv /\ [Next]_vars => [Inv /\ Next]_vars
  OBVIOUS
<1>5. Agreeing => Agreeing'
  BY DEF Agreeing, Returns
<1> QED
  BY <1>1, <1>2, <1>3, <1>4, <1>5, Invariance, PTL DEF Spec
-----------------------------------------------------------------------------
(* What was returned, and what the history and the files say of it.        *)

\* The status that the record t has of a day of c, as a set.
On(t, d, c) == {s \in Status : <<d, c, s>> \in t}

\* The days of c say what the record t has, and leave no recent day out.
Explained(days, t, c) ==
  \A i \in 1 .. Len(days) : On(t, days[i].date, c) = {days[i].status}

Complete(days, t, c, today) ==
  \A d \in 0 .. today :
    (d > today - Retention /\ On(t, d, c) # {}) => \E i \in 1 .. Len(days) : days[i].date = d

Records == (0 .. Today) \X Components \X (Status \ {"unknown"})

RecordTyped == seen \subseteq Records /\ durable \subseteq Records

\* A component that is critical has been so since its last status of the day.
CriticalToday ==
  \A c \in Components : previousStatus[c] = "critical" =>
    \A i \in 1 .. Len(history[c]) : history[c][i].date = Today => history[c][i].status = "critical"

\* The record times an outage as the scheduler does; a program that is down times none.
SinceAgrees ==
  /\ since = criticalSince
  /\ pc = "down" => \A c \in Components : previousStatus[c] = None

MemoryExplained ==
  \A c \in Components :
    pc # "down" => Explained(history[c], seen, c) /\ Complete(history[c], seen, c, Today)

FilesExplained ==
  /\ \A d \in DOMAIN disk : \A c \in DOMAIN disk[d] : On(durable, d, c) = {disk[d][c]}
  /\ \A d \in 0 .. Today : \A c \in Components :
       (d > Today - Retention /\ On(durable, d, c) # {}) => d \in DOMAIN disk /\ c \in DOMAIN disk[d]

EInv == RecordTyped /\ CriticalToday /\ SinceAgrees /\ MemoryExplained /\ FilesExplained
-----------------------------------------------------------------------------
\* The worse of two statuses.
Worse(s, x) == IF Priority(s) > Priority(x) THEN s ELSE x

\* The worst of one status is that one, and of two the worse.
LEMMA WorstOfTwo ==
  ASSUME NEW s \in Status, NEW x \in Status
  PROVE  Worst({s}) = s /\ Worst({x} \cup {s}) = Worse(s, x)
<1>1. \A y, z \in Status : /\ Priority(y) \in Nat
                           /\ Priority(y) = Priority(z) => y = z
  BY DEF Priority, Status
<1>2. ASSUME NEW all \in SUBSET Status, NEW y \in all,
             \A z \in all : Priority(z) <= Priority(y)
      PROVE  Worst(all) = y
  <2> DEFINE w == Worst(all)
  <2>1. w \in all /\ \A z \in all : Priority(z) <= Priority(w)
    BY <1>2 DEF Worst
  <2> HIDE DEF w
  <2>2. Priority(w) <= Priority(y) /\ Priority(y) <= Priority(w)
    BY <1>2, <2>1
  <2> QED
    BY <1>1, <2>1, <2>2 DEF w
<1>3. Worst({s}) = s
  BY <1>1, <1>2
<1>4. Worse(s, x) \in {x} \cup {s} /\ \A z \in {x} \cup {s} : Priority(z) <= Priority(Worse(s, x))
  BY <1>1 DEF Worse
<1>5. Worst({x} \cup {s}) = Worse(s, x)
  BY <1>2, <1>4
<1> QED
  BY <1>3, <1>5

\* Days in order take a day each.
LEMMA DaysSpread ==
  ASSUME NEW days \in Seq(HistoryEntry), Len(days) > 0,
         \A i, j \in 1 .. Len(days) : i < j => days[i].date < days[j].date
  PROVE  days[1].date + Len(days) - 1 <= days[Len(days)].date
<1> DEFINE n == Len(days)
           f == [i \in 1 .. n |-> days[i].date]
           T == days[1].date .. days[n].date
<1>1. n \in Nat /\ 1 \in 1 .. n /\ n \in 1 .. n
  OBVIOUS
<1>2. \A i \in 1 .. n : days[i].date \in Nat
  BY RecordedDay
<1>3. \A i \in 1 .. n : days[i].date \in T
  <2> SUFFICES ASSUME NEW i \in 1 .. n PROVE days[i].date \in T
    OBVIOUS
  <2>1. i = 1 \/ days[1].date < days[i].date
    BY <1>1
  <2>2. i = n \/ days[i].date < days[n].date
    BY <1>1
  <2> QED
    BY <1>1, <1>2, <2>1, <2>2
<1>4. \A i, j \in 1 .. n : f[i] = f[j] => i = j
  BY <1>1, <1>2
<1>5. f \in [1 .. n -> T]
  BY <1>3
<1>6. IsFiniteSet(T) /\ Cardinality(T) = IF days[1].date > days[n].date THEN 0
                                         ELSE days[n].date - days[1].date + 1
  <2>1. days[1].date \in Int /\ days[n].date \in Int
    BY <1>1, <1>2
  <2> QED
    BY <2>1, FS_Interval
<1>7. IsFiniteSet(1 .. n) /\ Cardinality(1 .. n) = n
  BY <1>1, FS_Interval
<1> HIDE DEF f
<1>8. f \in Injection(1 .. n, T)
  BY <1>4, <1>5, Fun_IsInj
<1>9. n <= Cardinality(T)
  BY <1>6, <1>7, <1>8, FS_Injection
<1> QED
  BY <1>1, <1>2, <1>6, <1>9

\* Opening the present day adds a day of which nothing is known, if there was
\* none, and forgets only days past the retention.
LEMMA WithTodayKeeps ==
  ASSUME NEW days \in Seq(HistoryEntry), now \in Nat, Ordered(days, Today)
  PROVE  LET more == WithToday(days) IN
         /\ more[Len(more)].date = Today
         /\ \A i \in 1 .. Len(more) :
              \/ \E j \in 1 .. Len(days) : days[j] = more[i]
              \/ /\ i = Len(more) /\ more[i].status = "unknown"
                 /\ \A j \in 1 .. Len(days) : days[j].date # Today
         /\ \A j \in 1 .. Len(days) :
              days[j].date > Today - Retention => \E i \in 1 .. Len(more) : more[i] = days[j]
<1> DEFINE day == [date |-> Today, status |-> "unknown"]
           more == Append(days, day)
           n == Len(days)
<1>1. Today \in Nat
  BY DayNat DEF Today
<1>2. CASE days # << >> /\ Last(days).date = Today
  <2>1. WithToday(days) = days
    BY <1>2 DEF WithToday
  <2>2. n \in 1 .. n /\ days[n].date = Today
    BY <1>2 DEF Last
  <2> QED
    BY <2>1, <2>2
<1>3. CASE ~(days # << >> /\ Last(days).date = Today)
  <2>1. /\ more \in Seq(HistoryEntry)
        /\ Len(more) = n + 1 /\ n \in Nat
        /\ \A i \in 1 .. n : more[i] = days[i]
        /\ more[n + 1] = day
    BY <1>1 DEF HistoryEntry, Status
  <2>2. \A j \in 1 .. n : days[j].date # Today
    <3> SUFFICES ASSUME NEW j \in 1 .. n, days[j].date = Today PROVE FALSE
      OBVIOUS
    <3>1. n \in 1 .. n /\ days # << >>
      OBVIOUS
    <3>2. days[n].date \in Nat /\ days[n].date <= Today /\ days[n].date # Today
      BY <1>3, <3>1, RecordedDay DEF Last, Ordered
    <3>3. j = n \/ days[j].date < days[n].date
      BY <3>1 DEF Ordered
    <3> QED
      BY <1>1, <3>2, <3>3
  <2>3. more[n + 1].date = Today /\ more[n + 1].status = "unknown"
    BY <2>1
  <2> HIDE DEF more
  <2>4. CASE Len(more) > Retention
    <3> DEFINE cut == SubSeq(more, Len(more) - Retention + 1, Len(more))
    <3>0. n <= Retention
      BY DEF Ordered
    <3>1. n = Retention /\ n >= 1
      BY <2>1, <2>4, <3>0
    <3>2. WithToday(days) = cut
      BY <1>3, <2>4 DEF WithToday, more
    <3>3. /\ Len(cut) = n
          /\ \A i \in 1 .. n : cut[i] = more[i + 1]
      BY <2>1, <3>1
    <3> HIDE DEF cut
    <3>4. days[1].date <= Today - Retention
      <4>1. days[1].date + n - 1 <= days[n].date
        BY <3>1, DaysSpread DEF Ordered
      <4>2. n \in 1 .. n /\ 1 \in 1 .. n
        BY <2>1, <3>1
      <4>3. days[n].date \in Nat /\ days[1].date \in Nat /\ days[n].date < Today
        BY <1>1, <2>2, <4>2, RecordedDay DEF Ordered
      <4> QED
        BY <1>1, <3>1, <4>1, <4>3
    <3>5. cut[n].date = Today /\ cut[n].status = "unknown"
      BY <2>1, <2>3, <3>1, <3>3
    <3>6. ASSUME NEW i \in 1 .. n, i # n
          PROVE  \E j \in 1 .. n : days[j] = cut[i]
      <4>1. i + 1 \in 1 .. n
        BY <2>1, <3>6
      <4>2. days[i + 1] = cut[i]
        BY <2>1, <3>3, <4>1
      <4> QED
        BY <4>1, <4>2
    <3>7. ASSUME NEW j \in 1 .. n, days[j].date > Today - Retention
          PROVE  \E i \in 1 .. n : cut[i] = days[j]
      <4>1. j # 1
        <5>1. days[1].date \in Nat
          BY <3>1, RecordedDay
        <5> QED
          BY <1>1, <3>4, <3>7, <5>1
      <4>a. j - 1 \in 1 .. n /\ (j - 1) + 1 = j
        BY <2>1, <4>1
      <4>2. j - 1 \in 1 .. n /\ cut[j - 1] = more[j]
        BY <3>3, <4>a
      <4> QED
        BY <2>1, <4>2
    <3> QED
      BY <2>2, <3>2, <3>3, <3>5, <3>6, <3>7
  <2>5. CASE ~(Len(more) > Retention)
    <3>1. WithToday(days) = more
      BY <1>3, <2>5 DEF WithToday, more
    <3> QED
      BY <2>1, <2>2, <2>3, <3>1
  <2> QED
    BY <2>4, <2>5
<1> QED
  BY <1>2, <1>3

\* What recording a status that is known makes of the days of a component: the
\* present day has it, or keeps a worse one that it had; no other day changes, and
\* none of the last Retention goes.
LEMMA UpdatedDays ==
  ASSUME NEW days \in Seq(HistoryEntry), now \in Nat, Ordered(days, Today),
         NEW s \in Status \ {"unknown"}
  PROVE  LET new == Updated(days, s)
             n == Len(new)
         IN  /\ n \in 1 .. n /\ new[n].date = Today
             /\ \A i \in 1 .. n : i # n =>
                  /\ new[i].date # Today
                  /\ \E j \in 1 .. Len(days) : /\ days[j].date = new[i].date
                                               /\ days[j].status = new[i].status
             /\ \A j \in 1 .. Len(days) :
                  days[j].date > Today - Retention => \E i \in 1 .. n : new[i].date = days[j].date
             /\ \/ new[n].status = s /\ \A j \in 1 .. Len(days) : days[j].date # Today
                \/ \E j \in 1 .. Len(days) : /\ days[j].date = Today
                                             /\ new[n].status = Worse(s, days[j].status)
<1> DEFINE more == WithToday(days)
           n == Len(more)
           top == Worse(s, more[n].status)
           new == Updated(days, s)
<1>1. Today \in Nat
  BY DayNat DEF Today
<1>2. more \in Seq(HistoryEntry) /\ n > 0 /\ Ordered(more, Today) /\ n \in Nat
  BY WithTodayOrdered
<1>3. /\ more[n].date = Today
      /\ \A i \in 1 .. n :
           \/ \E j \in 1 .. Len(days) : days[j] = more[i]
           \/ /\ i = n /\ more[i].status = "unknown"
              /\ \A j \in 1 .. Len(days) : days[j].date # Today
      /\ \A j \in 1 .. Len(days) :
           days[j].date > Today - Retention => \E i \in 1 .. n : more[i] = days[j]
  BY WithTodayKeeps
<1>4. new = IF Priority(s) > Priority(more[n].status) THEN [more EXCEPT ![n].status = s] ELSE more
  <2>1. s # "unknown"
    OBVIOUS
  <2> QED
    BY <2>1 DEF Updated, Last
<1> HIDE DEF more
<1>5. \A i \in 1 .. n : more[i] \in HistoryEntry /\ more[i].date \in Nat /\ more[i].status \in Status
  BY <1>2, RecordedDay
<1>6. /\ Len(new) = n
      /\ \A i \in 1 .. n : new[i].date = more[i].date
      /\ \A i \in 1 .. n : i # n => new[i].status = more[i].status
      /\ new[n].status = top
  <2>1. CASE Priority(s) > Priority(more[n].status)
    <3>1. more[n] \in HistoryEntry /\ n \in 1 .. n
      BY <1>2, <1>5
    <3>2. [more[n] EXCEPT !.status = s].date = more[n].date /\ [more[n] EXCEPT !.status = s].status = s
      BY <3>1 DEF HistoryEntry
    <3>3. new = [more EXCEPT ![n] = [more[n] EXCEPT !.status = s]]
      BY <1>4, <2>1
    <3> QED
      BY <1>2, <2>1, <3>1, <3>2, <3>3 DEF Worse
  <2>2. CASE ~(Priority(s) > Priority(more[n].status))
    BY <1>4, <2>2 DEF Worse
  <2> QED
    BY <2>1, <2>2
<1> HIDE DEF new, top
<1>7. n \in 1 .. n
  BY <1>2
<1>8. \A i \in 1 .. n : i # n => more[i].date # Today
  BY <1>1, <1>2, <1>3, <1>5, <1>7 DEF Ordered
<1>9. \/ top = s /\ \A j \in 1 .. Len(days) : days[j].date # Today
      \/ \E j \in 1 .. Len(days) : days[j].date = Today /\ top = Worse(s, days[j].status)
  <2>1. CASE \E j \in 1 .. Len(days) : days[j] = more[n]
    BY <1>3, <2>1 DEF top
  <2>2. CASE more[n].status = "unknown" /\ \A j \in 1 .. Len(days) : days[j].date # Today
    BY <2>2 DEF top, Worse, Priority, Status
  <2> QED
    BY <1>3, <1>7, <2>1, <2>2
<1>10. ASSUME NEW i \in 1 .. n, i # n
       PROVE  \E j \in 1 .. Len(days) : /\ days[j].date = new[i].date
                                        /\ days[j].status = new[i].status
  BY <1>3, <1>6, <1>10
<1>11. ASSUME NEW j \in 1 .. Len(days), days[j].date > Today - Retention
       PROVE  \E i \in 1 .. n : new[i].date = days[j].date
  BY <1>3, <1>6, <1>11
<1> QED
  BY <1>3, <1>6, <1>7, <1>8, <1>9, <1>10, <1>11 DEF new

\* Recording a status goes on explaining the days of a component, where the record
\* takes the worst of it and of what was returned on the present day before.
LEMMA UpdatedExplained ==
  ASSUME NEW days \in Seq(HistoryEntry), now \in Nat, Ordered(days, Today),
         NEW s \in Status \ {"unknown"}, NEW c, NEW t, NEW u,
         Explained(days, t, c), Complete(days, t, c, Today),
         On(u, Today, c) = {Worst(On(t, Today, c) \cup {s})},
         \A d : d # Today => On(u, d, c) = On(t, d, c)
  PROVE  Explained(Updated(days, s), u, c) /\ Complete(Updated(days, s), u, c, Today)
<1> DEFINE new == Updated(days, s)
           n == Len(new)
<1>1. /\ n \in 1 .. n /\ new[n].date = Today
      /\ \A i \in 1 .. n : i # n =>
           /\ new[i].date # Today
           /\ \E j \in 1 .. Len(days) : /\ days[j].date = new[i].date
                                        /\ days[j].status = new[i].status
      /\ \A j \in 1 .. Len(days) :
           days[j].date > Today - Retention => \E i \in 1 .. n : new[i].date = days[j].date
      /\ \/ new[n].status = s /\ \A j \in 1 .. Len(days) : days[j].date # Today
         \/ \E j \in 1 .. Len(days) : /\ days[j].date = Today
                                      /\ new[n].status = Worse(s, days[j].status)
  BY UpdatedDays
<1>2. Today \in Nat /\ Today \in 0 .. Today /\ Today > Today - Retention
  BY DayNat DEF Today
<1> HIDE DEF new
<1>3. On(u, Today, c) = {new[n].status}
  <2>1. CASE new[n].status = s /\ \A j \in 1 .. Len(days) : days[j].date # Today
    <3>1. On(t, Today, c) = {}
      BY <1>2, <2>1 DEF Complete
    <3> QED
      BY <2>1, <3>1, WorstOfTwo
  <2>2. CASE \E j \in 1 .. Len(days) : /\ days[j].date = Today
                                       /\ new[n].status = Worse(s, days[j].status)
    <3>1. PICK j \in 1 .. Len(days) : /\ days[j].date = Today
                                      /\ new[n].status = Worse(s, days[j].status)
      BY <2>2
    <3>2. On(t, Today, c) = {days[j].status} /\ days[j].status \in Status
      BY <3>1, RecordedDay DEF Explained
    <3>3. Worst({days[j].status} \cup {s}) = Worse(s, days[j].status)
      BY <3>2, WorstOfTwo
    <3> QED
      BY <3>1, <3>2, <3>3
  <2> QED
    BY <1>1, <2>1, <2>2
<1>4. Explained(new, u, c)
  <2> SUFFICES ASSUME NEW i \in 1 .. n PROVE On(u, new[i].date, c) = {new[i].status}
    BY DEF Explained
  <2>1. CASE i = n
    BY <1>1, <1>3, <2>1
  <2>2. CASE i # n
    <3>1. PICK j \in 1 .. Len(days) : days[j].date = new[i].date /\ days[j].status = new[i].status
      BY <1>1, <2>2
    <3>2. On(t, days[j].date, c) = {days[j].status}
      BY DEF Explained
    <3>3. On(u, new[i].date, c) = On(t, new[i].date, c)
      BY <1>1, <2>2
    <3> QED
      BY <3>1, <3>2, <3>3
  <2> QED
    BY <2>1, <2>2
<1>5. Complete(new, u, c, Today)
  <2> SUFFICES ASSUME NEW d \in 0 .. Today, d > Today - Retention, On(u, d, c) # {}
               PROVE  \E i \in 1 .. n : new[i].date = d
    BY DEF Complete
  <2>1. CASE d = Today
    BY <1>1, <2>1
  <2>2. CASE d # Today
    BY <1>1, <2>2 DEF Complete
  <2> QED
    BY <2>1, <2>2
<1> QED
  BY <1>4, <1>5 DEF new

\* Forgiving the outage that an "ok" ends leaves that "ok" to the day, and the record
\* takes no more of it either.
LEMMA ForgivenExplained ==
  ASSUME NEW days \in Seq(HistoryEntry), now \in Nat, Ordered(days, Today),
         NEW c, NEW t, NEW u,
         Explained(days, t, c), Complete(days, t, c, Today),
         \A j \in 1 .. Len(days) : days[j].date = Today => days[j].status = "critical",
         On(u, Today, c) = {Worst({} \cup {"ok"})},
         \A d : d # Today => On(u, d, c) = On(t, d, c)
  PROVE  LET new == Downgraded(Updated(days, "ok"))
         IN  Explained(new, u, c) /\ Complete(new, u, c, Today)
<1> DEFINE old == Updated(days, "ok")
           n == Len(old)
           new == Downgraded(old)
<1>0. "ok" \in Status \ {"unknown"}
  BY DEF Status
<1>1. /\ n \in 1 .. n /\ old[n].date = Today
      /\ \A i \in 1 .. n : i # n =>
           /\ old[i].date # Today
           /\ \E j \in 1 .. Len(days) : /\ days[j].date = old[i].date
                                        /\ days[j].status = old[i].status
      /\ \A j \in 1 .. Len(days) :
           days[j].date > Today - Retention => \E i \in 1 .. n : old[i].date = days[j].date
      /\ \/ old[n].status = "ok" /\ \A j \in 1 .. Len(days) : days[j].date # Today
         \/ \E j \in 1 .. Len(days) : /\ days[j].date = Today
                                      /\ old[n].status = Worse("ok", days[j].status)
  BY <1>0, UpdatedDays
<1>2. old \in Seq(HistoryEntry)
  BY <1>0, UpdatedOrdered
<1> HIDE DEF old
<1>3. /\ Len(new) = n
      /\ \A i \in 1 .. n : new[i].date = old[i].date
      /\ \A i \in 1 .. n : i # n => new[i].status = old[i].status
      /\ old[n].status \in {"ok", "critical"} => new[n].status = "ok"
  <2>1. \A i \in 1 .. n : old[i] \in HistoryEntry
    BY <1>2
  <2>2. Len(new) = n /\ \A i \in 1 .. n :
          new[i] = IF old[i].date = Today /\ old[i].status = "critical"
                   THEN [old[i] EXCEPT !.status = "ok"] ELSE old[i]
    BY <1>2 DEF Downgraded
  <2> HIDE DEF new
  <2> QED
    BY <1>1, <2>1, <2>2 DEF HistoryEntry
<1>4. new[n].status = "ok"
  <2>1. Worse("ok", "critical") = "critical"
    BY DEF Worse, Priority
  <2> HIDE DEF new
  <2> QED
    BY <1>1, <1>3, <2>1
<1> HIDE DEF new
<1>5. On(u, Today, c) = {"ok"}
  <2>1. {} \cup {"ok"} = {"ok"}
    OBVIOUS
  <2> QED
    BY <1>0, <2>1, WorstOfTwo
<1>6. Explained(new, u, c)
  <2> SUFFICES ASSUME NEW i \in 1 .. n PROVE On(u, new[i].date, c) = {new[i].status}
    BY <1>3 DEF Explained
  <2>1. CASE i = n
    BY <1>1, <1>3, <1>4, <1>5, <2>1
  <2>2. CASE i # n
    <3>1. PICK j \in 1 .. Len(days) : days[j].date = old[i].date /\ days[j].status = old[i].status
      BY <1>1, <2>2
    <3>2. On(t, old[i].date, c) = {old[i].status}
      BY <3>1 DEF Explained
    <3> QED
      BY <1>1, <1>3, <2>2, <3>2
  <2> QED
    BY <2>1, <2>2
<1>7. Complete(new, u, c, Today)
  <2> SUFFICES ASSUME NEW d \in 0 .. Today, d > Today - Retention, On(u, d, c) # {}
               PROVE  \E i \in 1 .. n : old[i].date = d
    BY <1>3 DEF Complete
  <2>1. CASE d = Today
    BY <1>1, <2>1
  <2>2. CASE d # Today
    <3>1. On(t, d, c) # {}
      BY <2>2
    <3>2. PICK j \in 1 .. Len(days) : days[j].date = d
      BY <3>1 DEF Complete
    <3> QED
      BY <1>1, <3>2
  <2> QED
    BY <2>1, <2>2
<1> QED
  BY <1>6, <1>7 DEF new, old

\* A day on which a component becomes critical, or goes on being so, is critical.
LEMMA CriticalStays ==
  ASSUME NEW days \in Seq(HistoryEntry), now \in Nat, Ordered(days, Today),
         NEW i \in 1 .. Len(Updated(days, "critical")),
         Updated(days, "critical")[i].date = Today
  PROVE  Updated(days, "critical")[i].status = "critical"
<1> DEFINE new == Updated(days, "critical")
           n == Len(new)
<1>0. "critical" \in Status \ {"unknown"}
  BY DEF Status
<1>1. /\ \A k \in 1 .. n : k # n => new[k].date # Today
      /\ \/ new[n].status = "critical"
         \/ \E j \in 1 .. Len(days) : new[n].status = Worse("critical", days[j].status)
  BY <1>0, UpdatedDays
<1>2. \A j \in 1 .. Len(days) : Worse("critical", days[j].status) = "critical"
  BY RecordedDay DEF Worse, Priority, Status
<1> QED
  BY <1>1, <1>2
-----------------------------------------------------------------------------
(* The record and the history, one operation at a time.                    *)

\* Nothing has been returned yet.
LEMMA EInitInv == EInit => EInv
<1> SUFFICES ASSUME EInit PROVE EInv
  OBVIOUS
<1>1. \A d, c : On(seen, d, c) = {} /\ On(durable, d, c) = {}
  BY DEF EInit, On
<1>2. RecordTyped
  BY DEF EInit, Init, RecordTyped
<1>3. MemoryExplained
  BY <1>1 DEF EInit, Init, MemoryExplained, Explained, Complete
<1>4. FilesExplained
  BY <1>1 DEF EInit, Init, FilesExplained
<1>5. CriticalToday
  BY DEF EInit, Init, CriticalToday, None
<1>6. SinceAgrees
  BY DEF EInit, Init, SinceAgrees, NoOutage
<1> QED
  BY <1>2, <1>3, <1>4, <1>5, <1>6 DEF EInv

\* A result is recorded, and the day of its component explained by it.
LEMMA ApplyEvidence == ASSUME Inv, EInv, Apply, Observe PROVE EInv'
<1> DEFINE r == Head(batch)
           c == r.component
           s == r.status
           days == Updated(history[c], s)
           new == IF ShortOutage(r) THEN Downgraded(days) ELSE days
           before == IF EndsShortOutage(r) THEN {} ELSE SeenOn(Today, c)
<1>1. r \in Result
  BY HeadTailProperties DEF Inv, Control, Apply
<1>2. c \in Components /\ s \in Status
  BY <1>1 DEF Result
<1>3. now \in Nat /\ Today \in Nat /\ Today' = Today /\ Today \in 0 .. Today
  BY SMTT(30), DayNat DEF Inv, Control, Apply, Today
<1>4. history[c] \in Seq(HistoryEntry) /\ Ordered(history[c], Today)
  BY <1>2 DEF Inv, Recorded
<1>5. days \in Seq(HistoryEntry)
  BY <1>2, <1>3, <1>4, UpdatedOrdered
<1>6. history' = [history EXCEPT ![c] = new] /\ DOMAIN history = Components
  BY DEF Apply, Inv, Recorded
<1>7. seen' = IF s = "unknown" THEN seen
              ELSE {t \in seen : t[1] # Today \/ t[2] # c}
                     \cup {<<Today, c, Worst(before \cup {s})>>}
  BY DEF Observe
<1>8. durable' = durable /\ disk' = disk /\ pc' = pc /\ pc = "collecting"
  BY DEF Observe, Apply, stored
<1>9. Explained(history[c], seen, c) /\ Complete(history[c], seen, c, Today)
  BY <1>2, <1>8 DEF EInv, MemoryExplained
<1>10. EndsShortOutage(r) <=> ShortOutage(r)
  BY <1>2, <1>3 DEF EndsShortOutage, ShortOutage, EInv, SinceAgrees, Inv, Timed, OutageIsTimed
<1>11. SeenOn(Today, c) = On(seen, Today, c)
  BY DEF SeenOn, On
<1>12. s # "unknown" => before \subseteq Status /\ Worst(before \cup {s}) \in Status \ {"unknown"}
  <2> SUFFICES ASSUME s # "unknown" PROVE before \subseteq Status /\ Worst(before \cup {s}) \in Status \ {"unknown"}
    OBVIOUS
  <2>1. before = {} \/ \E x \in Status \ {"unknown"} : before = {x}
    <3>1. CASE \E i \in 1 .. Len(history[c]) : history[c][i].date = Today
      <4>1. PICK i \in 1 .. Len(history[c]) : history[c][i].date = Today
        BY <3>1
      <4>2. On(seen, Today, c) = {history[c][i].status}
        BY <1>9, <4>1 DEF Explained
      <4>3. history[c][i].status \in Status \ {"unknown"}
        <5> DEFINE x == history[c][i].status
        <5>1. x \in Status /\ <<Today, c, x>> \in seen
          BY <4>2 DEF On
        <5>2. <<Today, c, x>> \in Records
          BY <5>1 DEF EInv, RecordTyped
        <5> HIDE DEF x
        <5>3. x \in Status \ {"unknown"}
          BY <5>2 DEF Records
        <5> QED
          BY <5>3 DEF x
      <4> QED
        BY <1>11, <4>2, <4>3
    <3>2. CASE ~ \E i \in 1 .. Len(history[c]) : history[c][i].date = Today
      <4>1. On(seen, Today, c) = {}
        BY <1>3, <1>9, <3>2 DEF Complete
      <4> QED
        BY <1>11, <4>1
    <3> QED
      BY <3>1, <3>2
  <2>2. CASE before = {}
    <3>1. before \cup {s} = {s}
      BY <2>2
    <3> QED
      BY <1>2, <2>2, <3>1, WorstOfTwo
  <2>3. CASE \E x \in Status \ {"unknown"} : before = {x}
    <3>1. PICK x \in Status \ {"unknown"} : before = {x}
      BY <2>3
    <3>2. Worst({x} \cup {s}) = Worse(s, x)
      BY <1>2, WorstOfTwo
    <3> QED
      BY <1>2, <3>1, <3>2 DEF Worse
  <2> QED
    BY <2>1, <2>2, <2>3
<1> HIDE DEF before
<1>13. \A d, x : (s = "unknown" \/ d # Today \/ x # c) => On(seen', d, x) = On(seen, d, x)
  BY <1>7 DEF On
<1>14. s # "unknown" => On(seen', Today, c) = {Worst(before \cup {s})}
  BY <1>7, <1>12 DEF On
<1>15. Explained(new, seen', c) /\ Complete(new, seen', c, Today)
  <2>1. CASE s = "unknown"
    <3>1. seen' = seen /\ days = history[c]
      BY <1>7, <2>1 DEF Updated
    <3>2. ~ ShortOutage(r)
      BY <2>1 DEF ShortOutage
    <3> QED
      BY <1>9, <3>1, <3>2
  <2>2. CASE s # "unknown" /\ ~ ShortOutage(r)
    <3>1. s \in Status \ {"unknown"} /\ before = On(seen, Today, c)
      BY <1>2, <1>10, <1>11, <2>2 DEF before
    <3>2. \A d : d # Today => On(seen', d, c) = On(seen, d, c)
      BY <1>13
    <3>3. Explained(days, seen', c) /\ Complete(days, seen', c, Today)
      BY <1>3, <1>4, <1>9, <1>14, <2>2, <3>1, <3>2, UpdatedExplained
    <3> QED
      BY <2>2, <3>3
  <2>3. CASE ShortOutage(r)
    <3>1. s = "ok" /\ previousStatus[c] = "critical"
      BY <2>3 DEF ShortOutage
    <3>2. before = {}
      BY <1>10, <2>3 DEF before
    <3>3. \A j \in 1 .. Len(history[c]) : history[c][j].date = Today => history[c][j].status = "critical"
      BY <1>2, <3>1 DEF EInv, CriticalToday
    <3>4. On(seen', Today, c) = {Worst({} \cup {"ok"})}
      BY <1>14, <3>1, <3>2
    <3>5. \A d : d # Today => On(seen', d, c) = On(seen, d, c)
      BY <1>13
    <3>6. new = Downgraded(Updated(history[c], "ok"))
      BY <2>3, <3>1
    <3> HIDE DEF new, days, s, c
    <3>7. Explained(Downgraded(Updated(history[c], "ok")), seen', c)
          /\ Complete(Downgraded(Updated(history[c], "ok")), seen', c, Today)
      BY <1>3, <1>4, <1>9, <3>3, <3>4, <3>5, ForgivenExplained
    <3> QED
      BY <3>6, <3>7
  <2> QED
    BY <2>1, <2>2, <2>3
<1>16. RecordTyped'
  <2>1. s # "unknown" => <<Today, c, Worst(before \cup {s})>> \in Records
    BY <1>2, <1>3, <1>12 DEF Records
  <2> QED
    BY <1>3, <1>7, <1>8, <2>1 DEF EInv, RecordTyped, Records
<1>17. CriticalToday'
  <2> SUFFICES ASSUME NEW x \in Components, previousStatus'[x] = "critical",
                      NEW i \in 1 .. Len(history'[x]), history'[x][i].date = Today
               PROVE  history'[x][i].status = "critical"
    BY <1>3 DEF CriticalToday
  <2>1. previousStatus' = [previousStatus EXCEPT ![c] = s] /\ DOMAIN previousStatus = Components
    BY DEF Apply, Inv, Alerting
  <2>2. CASE x = c
    <3>1. s = "critical"
      BY <1>2, <2>1, <2>2
    <3>2. history'[x] = Updated(history[c], "critical")
      BY <1>2, <1>6, <2>2, <3>1 DEF ShortOutage
    <3> QED
      BY <1>3, <1>4, <3>2, CriticalStays
  <2>3. CASE x # c
    <3>1. history'[x] = history[x] /\ previousStatus'[x] = previousStatus[x]
      BY <1>6, <2>1, <2>3
    <3> QED
      BY <3>1 DEF EInv, CriticalToday
  <2> QED
    BY <2>2, <2>3
<1>18. SinceAgrees'
  <2>1. criticalSince' = [criticalSince EXCEPT ![c] = IF s = "critical"
                                                      THEN IF @ = Never THEN now ELSE @
                                                      ELSE IF EndsOutage(r) THEN Never ELSE @]
    BY DEF Apply
  <2>2. since' = [since EXCEPT ![c] = IF s # "critical" THEN Never
                                     ELSE IF @ = Never THEN now ELSE @]
    BY DEF Observe
  <2>3. since = criticalSince /\ criticalSince \in [Components -> (0 .. MaxTime) \cup {Never}]
    BY DEF EInv, SinceAgrees, Inv, Timed
  <2>4. s # "critical" => EndsOutage(r) \/ criticalSince[c] = Never
    <3>1. criticalSince[c] # Never <=> previousStatus[c] = "critical"
      BY <1>2 DEF Inv, Timed, OutageIsTimed
    <3> QED
      BY <3>1 DEF EndsOutage, None
  <2>5. since' = criticalSince'
    BY <1>2, <2>1, <2>2, <2>3, <2>4
  <2> QED
    BY <1>8, <2>5 DEF SinceAgrees
<1> HIDE DEF new, days, s, c, r
<1>19. MemoryExplained'
  <2>1. ASSUME NEW x \in Components
        PROVE  Explained(history'[x], seen', x) /\ Complete(history'[x], seen', x, Today)
    <3>1. CASE x = c
      BY <1>2, <1>6, <1>15, <3>1
    <3>2. CASE x # c
      <4>1. history'[x] = history[x]
        BY <1>6, <3>2
      <4>2. Explained(history[x], seen, x) /\ Complete(history[x], seen, x, Today)
        BY <1>8 DEF EInv, MemoryExplained
      <4>3. \A d : On(seen', d, x) = On(seen, d, x)
        BY <1>13, <3>2
      <4> QED
        BY <4>1, <4>2, <4>3 DEF Explained, Complete
    <3> QED
      BY <3>1, <3>2
  <2> QED
    BY <1>3, <2>1 DEF MemoryExplained
<1>20. FilesExplained'
  BY <1>3, <1>8 DEF EInv, FilesExplained
<1> QED
  BY <1>16, <1>17, <1>18, <1>19, <1>20 DEF EInv

\* What the record, the history and the files are about.
watched == <<seen, durable, since, history, disk, now, previousStatus, criticalSince>>

\* A step that leaves them alone.
LEMMA EvidenceFrame ==
  ASSUME EInv, UNCHANGED watched, pc' = "down" <=> pc = "down"
  PROVE  EInv'
<1> USE DEF watched
<1>1. Today' = Today
  BY DEF Today
<1>2. RecordTyped'
  BY <1>1 DEF EInv, RecordTyped, Records
<1>3. MemoryExplained'
  BY <1>1 DEF EInv, MemoryExplained
<1>4. FilesExplained'
  BY <1>1 DEF EInv, FilesExplained
<1>5. CriticalToday' /\ SinceAgrees'
  BY <1>1 DEF EInv, CriticalToday, SinceAgrees
<1> QED
  BY <1>2, <1>3, <1>4, <1>5 DEF EInv

\* A record that was returned today is in memory, hence in the file to be written,
\* and what is to be written is explained.
LEMMA KnownExplained ==
  ASSUME Inv, EInv, pc # "down", NEW c \in Components
  PROVE  /\ On(seen, Today, c) # {} => c \in Known
         /\ c \in Known => On(seen, Today, c) = {StatusToday(c)}
<1>1. /\ now \in Nat /\ Today \in Nat /\ Today \in 0 .. Today /\ Today > Today - Retention
      /\ Recorded
  BY DayNat DEF Inv, Control, Today
<1>2. Explained(history[c], seen, c) /\ Complete(history[c], seen, c, Today)
  BY DEF EInv, MemoryExplained
<1>3. DOMAIN history[c] = 1 .. Len(history[c])
  BY <1>1 DEF Recorded
<1>4. ASSUME On(seen, Today, c) # {} PROVE c \in Known
  <2>1. PICK i \in 1 .. Len(history[c]) : history[c][i].date = Today
    BY <1>1, <1>2, <1>4 DEF Complete
  <2>2. history[c][i].status \in On(seen, Today, c)
    BY <1>2, <2>1 DEF Explained
  <2>3. history[c][i].status # "unknown"
    BY <2>2 DEF On, EInv, RecordTyped, Records
  <2> QED
    BY <1>3, <2>1, <2>3 DEF Known
<1>5. ASSUME c \in Known PROVE On(seen, Today, c) = {StatusToday(c)}
  <2>1. PICK i \in 1 .. Len(history[c]) : history[c][i].date = Today
    BY <1>3, <1>5 DEF Known
  <2>2. StatusToday(c) = history[c][i].status
    BY <1>1, <2>1, OneStatusToday
  <2> QED
    BY <1>2, <2>1, <2>2 DEF Explained
<1> QED
  BY <1>4, <1>5

\* What is written for today is what memory has of it, and from then on durable.
LEMMA SaveEvidence == ASSUME Inv, EInv, Save, Written PROVE EInv'
<1>1. Today' = Today /\ Today \in Nat
  BY DayNat DEF Save, Inv, Control, Today
<1>2. /\ pc = "saving" /\ pc' = "idle" /\ seen' = seen /\ since' = since /\ history' = history
      /\ previousStatus' = previousStatus /\ criticalSince' = criticalSince
  BY DEF Save, Written, memory
<1>3. RecordTyped'
  BY <1>1, <1>2 DEF EInv, RecordTyped, Records, Written
<1>4. MemoryExplained' /\ CriticalToday' /\ SinceAgrees'
  BY <1>1, <1>2 DEF EInv, MemoryExplained, CriticalToday, SinceAgrees
<1>5. FilesExplained'
  <2>1. CASE NothingToSave
    BY <1>1, <2>1 DEF EInv, FilesExplained, Save, Written
  <2>2. CASE ~ NothingToSave
    <3>1. durable' = {t \in durable : t[1] # Today} \cup {t \in seen : t[1] = Today}
      BY <2>2 DEF Written
    <3>2. \A d, c : On(durable', d, c) = IF d = Today THEN On(seen, d, c) ELSE On(durable, d, c)
      BY <3>1 DEF On
    <3>3. /\ DOMAIN disk' = DOMAIN disk \cup {Today}
          /\ \A d \in DOMAIN disk' :
               disk'[d] = IF d = Today THEN [c \in Known |-> StatusToday(c)] ELSE disk[d]
      BY <2>2 DEF Save
    <3>4. ASSUME NEW d \in DOMAIN disk', NEW c \in DOMAIN disk'[d]
          PROVE  On(durable', d, c) = {disk'[d][c]}
      <4>1. CASE d = Today
        <5>1. disk'[d] = [x \in Known |-> StatusToday(x)]
          BY <3>3, <4>1
        <5>2. c \in Known /\ c \in Components /\ disk'[d][c] = StatusToday(c)
          BY <5>1 DEF Known
        <5>3. On(seen, Today, c) = {StatusToday(c)}
          BY <1>2, <5>2, KnownExplained
        <5> QED
          BY <3>2, <4>1, <5>2, <5>3
      <4>2. CASE d # Today
        BY <3>2, <3>3, <4>2 DEF EInv, FilesExplained
      <4> QED
        BY <4>1, <4>2
    <3>5. ASSUME NEW d \in 0 .. Today, NEW c \in Components,
                 d > Today - Retention, On(durable', d, c) # {}
          PROVE  d \in DOMAIN disk' /\ c \in DOMAIN disk'[d]
      <4>1. CASE d = Today
        <5>1. c \in Known
          BY <1>2, <3>2, <3>5, <4>1, KnownExplained
        <5> QED
          BY <3>3, <4>1, <5>1
      <4>2. CASE d # Today
        BY <3>2, <3>3, <3>5, <4>2 DEF EInv, FilesExplained
      <4> QED
        BY <4>1, <4>2
    <3> QED
      BY <1>1, <3>4, <3>5 DEF FilesExplained
  <2> QED
    BY <2>1, <2>2
<1> QED
  BY <1>3, <1>4, <1>5 DEF EInv

\* Only the files are left, and with them what was durable.
LEMMA ExitEvidence == ASSUME EInv, Exit, Lost PROVE EInv'
<1>1. Today' = Today
  BY DEF Exit, Today
<1>2. durable' = durable /\ disk' = disk /\ pc' = "down"
  BY DEF Exit, Lost, stored
<1>3. RecordTyped'
  BY <1>1, <1>2 DEF EInv, RecordTyped, Records, Lost
<1>4. MemoryExplained'
  BY <1>2 DEF MemoryExplained
<1>5. FilesExplained'
  BY <1>1, <1>2 DEF EInv, FilesExplained
<1>6. CriticalToday' /\ SinceAgrees'
  BY DEF Exit, Lost, NoOutage, CriticalToday, SinceAgrees, None
<1> QED
  BY <1>3, <1>4, <1>5, <1>6 DEF EInv

\* Every kept file of a component is loaded.
LEMMA LoadedComplete ==
  ASSUME now \in Nat, FilesTyped, NEW c \in Components, NEW read,
         NEW s \in OldestFirst(DaysOnDisk(ReadFiles(read), c)),
         NEW d \in DOMAIN ReadFiles(read), c \in DOMAIN ReadFiles(read)[d]
  PROVE  \E i \in 1 .. Len(s) : s[i].date = d
<1> DEFINE first == Today - Retention + 1
           files == ReadFiles(read)
           days == DaysOnDisk(files, c)
           n == Cardinality(days)
           I == 1 .. n
<1>1. IsFiniteSet(days)
  <2>1. Today \in Nat
    BY DayNat DEF Today
  <2> DEFINE dates == {x \in DOMAIN files : c \in DOMAIN files[x]}
             f == [x \in dates |-> [date |-> x, status |-> files[x][c]]]
  <2>2. dates \subseteq first .. Today
    <3>1. \A x \in DOMAIN files : x \in DOMAIN disk /\ x > Today - Retention
      BY ReadAreKept
    <3> HIDE DEF files
    <3> QED
      BY <2>1, <3>1 DEF FilesTyped
  <2>3. IsFiniteSet(first .. Today)
    BY <2>1, FS_Interval
  <2>4. f \in Surjection(dates, days)
    BY DEF DaysOnDisk, Surjection
  <2>5. IsFiniteSet(dates)
    BY <2>2, <2>3, FS_Subset
  <2> HIDE DEF f, dates, days
  <2> QED
    BY <2>4, <2>5, FS_Surjection
<1>2. n \in Nat
  BY <1>1, FS_CardinalityType
<1>3. [date |-> d, status |-> files[d][c]] \in days
  BY DEF DaysOnDisk
<1>4. /\ s \in [I -> days]
      /\ \A i, j \in I : i < j => s[i].date < s[j].date
  BY DEF OldestFirst
<1>5. \A x \in days : x.date \in Nat
  <2>1. DOMAIN files \subseteq Nat
    <3>1. \A x \in DOMAIN files : x \in DOMAIN disk
      BY ReadAreKept
    <3>2. Today \in Nat
      BY DayNat DEF Today
    <3> HIDE DEF files
    <3> QED
      BY <3>1, <3>2 DEF FilesTyped
  <2> QED
    BY <2>1 DEF DaysOnDisk
<1> HIDE DEF days
<1>6. Len(s) = n
  BY <1>2, <1>4
<1>7. \A i, j \in I : s[i] = s[j] => i = j
  <2> SUFFICES ASSUME NEW i \in I, NEW j \in I, s[i] = s[j], i # j PROVE FALSE
    OBVIOUS
  <2>1. s[i].date \in Nat /\ s[j].date \in Nat /\ s[i].date = s[j].date
    BY <1>4, <1>5
  <2>2. i < j \/ j < i
    BY <1>2
  <2> QED
    BY <1>4, <2>1, <2>2
<1>8. IsFiniteSet(I) /\ Cardinality(I) = n
  BY <1>2, FS_Interval
<1> HIDE DEF I
<1>9. s \in Injection(I, days)
  BY <1>4, <1>7, Fun_IsInj
<1>10. s \in Surjection(I, days)
  BY <1>1, <1>8, <1>9, FS_Injection
<1>11. PICK i \in I : s[i] = [date |-> d, status |-> files[d][c]]
  BY <1>3, <1>10, Fun_SurjectionProperties
<1> QED
  BY <1>6, <1>11 DEF I

\* What is loaded is explained as it was in the files, and leaves no recent day out.
LEMMA BootEvidence ==
  ASSUME Inv, EInv, NEW read \in SUBSET DOMAIN disk, BootReading(read), Remembered(read)
  PROVE  EInv'
<1>1. Today' = Today /\ now \in Nat /\ Today \in Nat /\ FilesTyped
  BY DayNat DEF BootReading, Inv, Control, Today
<1>2. /\ durable' = {t \in durable : t[1] > Today - Retention}
      /\ seen' = {t \in durable' : t[1] \in read}
      /\ pc = "down" /\ pc' # "down"
  BY DEF Remembered, BootReading
<1>3. disk' = KeptFiles
  BY DEF BootReading, KeptFiles
<1>4. /\ DOMAIN KeptFiles = {d \in DOMAIN disk : d > Today - Retention}
      /\ \A d \in DOMAIN KeptFiles : KeptFiles[d] = disk[d]
  BY DEF KeptFiles, Kept
<1>5. /\ \A d, c : On(durable', d, c) = IF d > Today - Retention THEN On(durable, d, c) ELSE {}
      /\ \A d, c : On(seen', d, c) = IF d \in read THEN On(durable', d, c) ELSE {}
  BY <1>2 DEF On
<1>6. RecordTyped'
  BY <1>1, <1>2 DEF EInv, RecordTyped, Records
<1>7. FilesExplained'
  BY <1>1, <1>3, <1>4, <1>5 DEF EInv, FilesExplained
<1>8. ASSUME NEW c \in Components
      PROVE  Explained(history'[c], seen', c) /\ Complete(history'[c], seen', c, Today)
  <2> DEFINE s == history'[c]
  <2>1. s \in OldestFirst(DaysOnDisk(ReadFiles(read), c))
    BY <1>3 DEF BootReading, ReadFiles
  <2> HIDE DEF s
  <2>2. \A i \in 1 .. Len(s) : /\ s[i].date \in DOMAIN ReadFiles(read)
                               /\ c \in DOMAIN ReadFiles(read)[s[i].date]
                               /\ s[i].status = ReadFiles(read)[s[i].date][c]
    BY <1>1, <2>1, LoadedOrdered
  <2>3. /\ DOMAIN ReadFiles(read) = {d \in DOMAIN disk : d > Today - Retention} \cap read
        /\ \A d \in DOMAIN ReadFiles(read) : ReadFiles(read)[d] = disk[d]
    BY ReadAreKept
  <2>4. Explained(s, seen', c)
    BY <1>5, <2>2, <2>3 DEF Explained, EInv, FilesExplained
  <2>5. ASSUME NEW d \in 0 .. Today, d > Today - Retention, On(seen', d, c) # {}
        PROVE  \E i \in 1 .. Len(s) : s[i].date = d
    <3>1. d \in read /\ d \in DOMAIN disk /\ c \in DOMAIN disk[d]
      BY <1>5, <2>5 DEF EInv, FilesExplained
    <3>2. d \in DOMAIN ReadFiles(read) /\ c \in DOMAIN ReadFiles(read)[d]
      BY <2>3, <2>5, <3>1
    <3> QED
      BY <1>1, <2>1, <3>2, LoadedComplete
  <2>6. Complete(s, seen', c, Today)
    BY <2>5 DEF Complete
  <2> QED
    BY <2>4, <2>6 DEF s
<1>9. MemoryExplained'
  BY <1>1, <1>8 DEF MemoryExplained
<1>10. previousStatus' = previousStatus /\ criticalSince' = criticalSince /\ since' = since
  BY DEF BootReading, Remembered
<1>11. CriticalToday' /\ SinceAgrees'
  BY <1>2, <1>10 DEF EInv, CriticalToday, SinceAgrees, None
<1> QED
  BY <1>6, <1>7, <1>9, <1>11 DEF EInv

\* A new day finds nothing returned of it, and forgets one.
LEMMA TickEvidence == ASSUME Inv, EInv, Tick, UNCHANGED evidence PROVE EInv'
<1>1. Today \in Nat /\ Today' \in Nat /\ Today <= Today'
  <2>1. now \in Nat /\ now' \in Nat /\ now <= now'
    BY DEF Tick, Inv, Control
  <2> QED
    BY <2>1, DayNat, DayMonotonic DEF Today
<1>2. /\ seen' = seen /\ durable' = durable /\ since' = since
      /\ pc' = pc /\ disk' = disk /\ history' = history
      /\ previousStatus' = previousStatus /\ criticalSince' = criticalSince
  BY DEF evidence, Tick, stored, memory
<1>3. RecordTyped'
  BY <1>1, <1>2 DEF EInv, RecordTyped, Records
<1>4. \A c, d : d \notin 0 .. Today => On(seen, d, c) = {} /\ On(durable, d, c) = {}
  BY DEF On, EInv, RecordTyped, Records
<1>5. ASSUME NEW d \in Nat, d > Today' - Retention
      PROVE  d > Today - Retention
  <2> DEFINE t == Today
             u == Today'
  <2>1. t \in Nat /\ u \in Nat /\ t <= u /\ d > u - Retention
    BY <1>1, <1>5
  <2> HIDE DEF t, u
  <2>2. d > t - Retention
    BY <2>1
  <2> QED
    BY <2>2 DEF t
<1>6. MemoryExplained'
  <2> SUFFICES ASSUME pc # "down", NEW c \in Components
               PROVE  Explained(history[c], seen, c) /\ Complete(history[c], seen, c, Today')
    BY <1>2 DEF MemoryExplained
  <2>1. Explained(history[c], seen, c) /\ Complete(history[c], seen, c, Today)
    BY DEF EInv, MemoryExplained
  <2> QED
    BY <1>4, <1>5, <2>1 DEF Complete
<1>7. FilesExplained'
  BY <1>2, <1>4, <1>5 DEF EInv, FilesExplained
<1>8. CriticalToday'
  <2> SUFFICES ASSUME NEW c \in Components, previousStatus[c] = "critical",
                      NEW i \in 1 .. Len(history[c]), history[c][i].date = Today'
               PROVE  history[c][i].status = "critical"
    BY <1>2 DEF CriticalToday
  <2>1. history[c] \in Seq(HistoryEntry) /\ Ordered(history[c], Today)
    BY DEF Inv, Recorded
  <2>2. history[c][i].date <= Today /\ history[c][i].date \in Nat
    BY <2>1, RecordedDay DEF Ordered
  <2>3. history[c][i].date = Today
    BY <1>1, <2>2
  <2> QED
    BY <2>3 DEF EInv, CriticalToday
<1>9. SinceAgrees'
  BY <1>2 DEF EInv, SinceAgrees
<1> QED
  BY <1>3, <1>6, <1>7, <1>8, <1>9 DEF EInv

\* Every step keeps the record, the memory and the files in agreement.
LEMMA EvidenceNext == Inv /\ EInv /\ [ENext]_<<vars, evidence>> => EInv'
<1> SUFFICES ASSUME Inv, EInv, [ENext]_<<vars, evidence>> PROVE EInv'
  OBVIOUS
<1>1. ASSUME NEW k \in Checkers, Finish(k), UNCHANGED evidence PROVE EInv'
  <2>1. UNCHANGED watched /\ pc' = pc
    BY <1>1 DEF Finish, memory, stored, evidence, watched
  <2> QED
    BY <2>1, EvidenceFrame
<1>2. CASE /\ \/ StartCycle \/ Receive \/ Collected \/ SendAlert \/ Record
              \/ GetHistory \/ SaveFails \/ Cancel \/ Return
           /\ UNCHANGED evidence
  <2>1. UNCHANGED watched
    BY <1>2 DEF StartCycle, Receive, Collected, SendAlert, Record, GetHistory, SaveFails,
                Cancel, Return, memory, stored, evidence, watched
  <2>2. pc' = "down" <=> pc = "down"
    BY <1>2 DEF StartCycle, Receive, Collected, SendAlert, Record, GetHistory, SaveFails,
                Cancel, Return
  <2> QED
    BY <2>1, <2>2, EvidenceFrame
<1>3. CASE UNCHANGED <<vars, evidence>>
  <2>1. UNCHANGED watched /\ pc' = pc
    BY <1>3 DEF vars, memory, stored, evidence, watched
  <2> QED
    BY <2>1, EvidenceFrame
<1>4. CASE Loaded
  BY <1>4, BootEvidence DEF Loaded
<1>5. CASE Judged
  BY <1>5, ApplyEvidence DEF Judged
<1>6. CASE Unjudged
  BY <1>1, <1>2, <1>6, SaveEvidence, ExitEvidence, TickEvidence DEF Unjudged
<1> QED
  BY <1>3, <1>4, <1>5, <1>6 DEF ENext

\* The record only watches: the scheduler steps as it does without it.
LEMMA EvidenceRefines == ESpec => Spec
<1>1. EInit => Init
  BY DEF EInit
<1>2. Loaded => Boot
  BY DEF Loaded, Boot
<1>3. [ENext]_<<vars, evidence>> => [Next]_vars
  BY <1>2 DEF ENext, Judged, Unjudged, Next
<1> QED
  BY <1>1, <1>3, PTL DEF ESpec, Spec

\* Every day of the history has the worst status returned since the last short
\* outage that ended on it, and no recent day is missing, before restarts or after.
THEOREM HistoryIsExplained == ESpec => []HistoryExplained
<1>1. EInit => EInv
  BY EInitInv
<1>2. EInv /\ [Inv /\ ENext]_<<vars, evidence>> => EInv'
  <2>1. ASSUME EInv, UNCHANGED <<vars, evidence>> PROVE EInv'
    <3>1. UNCHANGED watched /\ pc' = pc
      BY <2>1 DEF vars, memory, stored, evidence, watched
    <3> QED
      BY <2>1, <3>1, EvidenceFrame
  <2> QED
    BY <2>1, EvidenceNext
<1>3. Inv /\ EInv => HistoryExplained
  <2> SUFFICES ASSUME Inv, EInv, pc # "down", NEW c \in Components
               PROVE  /\ \A i \in DOMAIN history[c] :
                           SeenOn(history[c][i].date, c) = {history[c][i].status}
                      /\ \A t \in seen : (t[2] = c /\ t[1] > Today - Retention) =>
                           \E i \in DOMAIN history[c] : history[c][i].date = t[1]
    BY DEF HistoryExplained
  <2>1. DOMAIN history[c] = 1 .. Len(history[c])
    BY DEF Inv, Recorded
  <2>2. \A d : SeenOn(d, c) = On(seen, d, c)
    BY DEF SeenOn, On
  <2>3. Explained(history[c], seen, c) /\ Complete(history[c], seen, c, Today)
    BY DEF EInv, MemoryExplained
  <2>4. ASSUME NEW t \in seen, t[2] = c
        PROVE  t[1] \in 0 .. Today /\ On(seen, t[1], c) # {}
    <3>1. t \in Records
      BY DEF EInv, RecordTyped
    <3>2. t = <<t[1], t[2], t[3]>> /\ t[1] \in 0 .. Today /\ t[3] \in Status
      BY <3>1 DEF Records
    <3> QED
      BY <2>4, <3>2 DEF On
  <2> QED
    BY <2>1, <2>2, <2>3, <2>4 DEF Explained, Complete
<1>4. Inv /\ [ENext]_<<vars, evidence>> => [Inv /\ ENext]_<<vars, evidence>>
  OBVIOUS
<1> QED
  BY <1>1, <1>2, <1>3, <1>4, EvidenceRefines, Invariance, PTL DEF ESpec
=============================================================================
