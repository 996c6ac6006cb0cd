-------------------------- MODULE LogPersist_proofs -------------------------
(***************************************************************************)
(* The theorems of LogPersist.  What is in a day file, or on its way there,*)
(* is in memory too, unless it is too old for memory or its file could not *)
(* be loaded; so a save takes nothing from a file that was loaded, and a   *)
(* start that looks past the last event in memory counts a line again only *)
(* from a stamp that is ahead of it.                                       *)
(***************************************************************************)
EXTENDS LogPersist, FiniteSetTheorems, TLAPS

Places == {"down", "idle", "added", "tenth", "saving", "writing",
           "cutoff", "scan", "resave", "open", "done"}
Snap == [day : Int, events : SUBSET Event]

Up == \E t \in Threads : pc[t] # "down"

\* A process that is down is so as a whole, and comes back.
Whole ==
  /\ Up => \A t \in Threads : pc[t] # "down"
  /\ ~ Up => restarts < MaxRestarts /\ ~ open
  /\ ~ open => unread = {}
  /\ \A t \in Threads \ Counting : pc[t] \notin {"added", "tenth"}
  /\ \A t \in Threads : pc[t] # "writing" => snap[t].events = {}

\* Events on their way to a file.
Snapped == UNION {snap[t].events : t \in Threads}

\* Memory has them, and what is in the files it could load.
InMemory ==
  Up => /\ \A e \in Snapped : e \in mem \/ e.ts < now - MaxAge
        /\ \A e \in disk : e \in mem \/ e.ts < now - MaxAge \/ Day(e.ts) \in skipped

\* A snapshot has what it will replace.
Replaces ==
  \A t \in Threads : pc[t] = "writing" =>
    OfDay(disk, snap[t].day) \subseteq snap[t].events \/ snap[t].day \in skipped

Counters ==
  /\ (\A t \in Counting : pc[t] # "tenth") => saveN < SaveEvery
  /\ UnsavedBounded

Inv ==
  /\ TypeOK
  /\ Whole
  /\ InMemory
  /\ Replaces
  /\ Counters

USE SaveEveryAssumption, DayLengthAssumption, RetentionAssumption, MaxAgeAssumption,
    YearlessAssumption, YearLengthAssumption, ZoneAssumption, MaxTimeAssumption,
    MaxRestartsAssumption
USE DEF Places

\* It holds when the program is first started.
LEMMA Initially == Init => Inv
<1> SUFFICES ASSUME Init PROVE Inv
  OBVIOUS
<1>0. pc = Started /\ Started \in [Threads -> Places]
      /\ \A t \in Threads : pc[t] \in {"cutoff", "idle"} /\ pc["tail"] = "idle" /\ pc["checks"] = "idle"
  BY DEF Init, Started, Threads, Counting
<1>1. TypeOK
  <2>1. NoSnap \in Snap
    BY DEF NoSnap, Snap
  <2>2. snap \in [Threads -> Snap]
    BY <2>1 DEF Init
  <2>3. now \in Times /\ file \subseteq Times /\ unread \subseteq file /\ cutoff \in Int
    BY DEF Init, Times
  <2>4. /\ open \in BOOLEAN /\ resaved \in BOOLEAN /\ mem \subseteq Event /\ disk \subseteq Event
        /\ saveMu \in Threads \cup {None}
    BY DEF Init
  <2>5. saveN \in Nat /\ fresh \in Nat /\ skipped \subseteq Int /\ restarts \in 0 .. MaxRestarts
    BY DEF Init
  <2>6. \A t \in Threads : pc[t] = "writing" <=> saveMu = t
    BY <1>0 DEF Init, None, Threads, Counting
  <2> QED
    BY <1>0, <2>2, <2>3, <2>4, <2>5, <2>6 DEF TypeOK, Snap
<1>2. Whole
  BY <1>0 DEF Init, Whole, Up, Threads, Counting, NoSnap
<1>3. InMemory /\ Replaces
  <2>1. Snapped = {} /\ disk = {}
    BY DEF Init, Snapped, NoSnap
  <2> QED
    BY <1>0, <2>1 DEF InMemory, Replaces
<1>4. Counters
  <2>1. {t \in Counting : pc[t] = "added"} = {}
    BY <1>0 DEF Counting, Threads
  <2>2. Cardinality({t \in Counting : pc[t] = "added"}) = 0
    BY <2>1, FS_EmptySet
  <2>3. fresh = 0 /\ saveN = 0
    BY DEF Init
  <2> QED
    BY <2>2, <2>3 DEF Counters, UnsavedBounded
<1> QED
  BY <1>1, <1>2, <1>3, <1>4 DEF Inv

\* What happened today, or is stamped later, is not older than a day.
LEMMA DayAge ==
  ASSUME now \in Int, NEW ts \in Int, Day(ts) >= Today
  PROVE  ts > now - DayLength
<1>1. ts = DayLength * Day(ts) + (ts % DayLength) /\ ts % DayLength \in 0 .. DayLength - 1
  BY SMT DEF Day
<1>2. now = DayLength * Today + (now % DayLength) /\ now % DayLength \in 0 .. DayLength - 1
  BY SMT DEF Day, Today
<1>3. Day(ts) \in Int /\ Today \in Int
  BY SMT DEF Day, Today
<1>4. DayLength * Day(ts) >= DayLength * Today
  BY <1>3, SMT
<1> QED
  BY <1>1, <1>2, <1>3, <1>4, SMT

\* What AddEvent does to the buffer.
LEMMA Adds ==
  ASSUME NEW events \in SUBSET Event, mem \subseteq Event, Added(events)
  PROVE  /\ mem' \subseteq Event
         /\ mem' \subseteq mem \cup events
         /\ \A e \in mem : e \in mem' \/ ~ (e.ts >= now - MaxAge)
BY DEF Added

\* Events are well-formed.
LEMMA Sees ==
  ASSUME NEW l \in Times, NEW ts \in Int, NEW who \in {"tail", "scan"},
         restarts \in 0 .. MaxRestarts
  PROVE  /\ Seen(l, ts, who) \in Event
         /\ Seen(l, ts, who).line = l /\ Seen(l, ts, who).ts = ts /\ Seen(l, ts, who).by = who
BY DEF Seen, Event

\* So are those of the checks, which are of no line.
LEMMA Checks ==
  ASSUME NEW ts \in Int
  PROVE  Checked(ts) \in Event /\ Checked(ts).line = NoLine
BY DEF Checked, Event

\* A line is stamped with its time in the zone of the log, or with a time that is
\* later by whole years.
LEMMA Stamped ==
  ASSUME now \in Int, NEW l \in Int, l <= now
  PROVE  /\ Stamp(l) \in Int
         /\ Stamp(l) = l + Zone \/ Stamp(l) >= l + Zone + YearLength
<1> DEFINE years(x) == x \div YearLength
<1>1. CASE ~ Yearless
  BY <1>1 DEF Stamp
<1>2. CASE Yearless
  <2>1. /\ l + Zone \in Int /\ now + Zone \in Int /\ l + Zone <= now + Zone
        /\ years(l + Zone) \in Int /\ years(now + Zone) \in Int
        /\ (l + Zone) % YearLength \in Int
    BY SMT
  <2>2. l + Zone = YearLength * years(l + Zone) + ((l + Zone) % YearLength)
    BY <2>1, SMT
  <2>3. years(l + Zone) <= years(now + Zone)
    BY <2>1, SMT
  <2>4. Stamp(l) = YearLength * years(now + Zone) + ((l + Zone) % YearLength)
    BY <1>2 DEF Stamp
  <2> HIDE DEF years
  <2>5. CASE years(l + Zone) = years(now + Zone)
    BY <2>1, <2>2, <2>4, <2>5, SMT
  <2>6. CASE years(l + Zone) + 1 <= years(now + Zone)
    <3>1. YearLength * (years(l + Zone) + 1) <= YearLength * years(now + Zone)
      BY <2>1, <2>6, SMT
    <3> QED
      BY <2>1, <2>2, <2>4, <3>1, SMT
  <2> QED
    BY <2>1, <2>3, <2>5, <2>6, SMT
<1> QED
  BY <1>1, <1>2
-----------------------------------------------------------------------------
\* Every step keeps the shapes, and the lock with the saver that writes.
LEMMA TypeStep ==
  ASSUME Inv, [Next]_vars
  PROVE  TypeOK'
<1>0. /\ now \in Times /\ now \in Nat /\ Times = 0 .. MaxTime
      /\ file \subseteq Times /\ unread \subseteq file /\ open \in BOOLEAN
      /\ pc \in [Threads -> Places]
      /\ resaved \in BOOLEAN
      /\ cutoff \in Int
      /\ mem \subseteq Event /\ disk \subseteq Event
      /\ saveN \in Nat /\ fresh \in Nat
      /\ saveMu \in Threads \cup {None}
      /\ \A t \in Threads : pc[t] = "writing" <=> saveMu = t
      /\ snap \in [Threads -> Snap]
      /\ restarts \in 0 .. MaxRestarts
      /\ skipped \subseteq Int
  BY DEF Inv, TypeOK, Times, Snap
<1>1. CASE LogLine
  BY <1>0, <1>1 DEF LogLine, TypeOK, saver, history, Snap
<1>2. CASE ReadLine
  <2>1. PICK l \in unread : unread' = unread \ {l} /\ Added({Seen(l, now, "tail")})
    BY <1>2 DEF ReadLine
  <2>2. mem' \subseteq Event
    BY <1>0, <2>1, Sees, Adds
  <2>3. /\ pc' = [pc EXCEPT !["tail"] = "added"] /\ pc["tail"] = "idle" /\ fresh' = fresh + 1
        /\ UNCHANGED <<now, file, open, resaved, cutoff, saver, disk, skipped, restarts>>
    BY <1>2 DEF ReadLine, Goes
  <2>4. "tail" \in Threads
    BY DEF Threads, Counting
  <2> QED
    BY <1>0, <2>1, <2>2, <2>3, <2>4 DEF TypeOK, saver, Snap
<1>3. CASE RecordCheck
  <2>1. PICK ts \in {now - 1, now} \cap Times : 
          Added({Checked(ts)}) /\ fresh' = IF Day(ts) = Today THEN fresh + 1 ELSE fresh
    BY <1>3 DEF RecordCheck
  <2>2. mem' \subseteq Event
    <3>1. Checked(ts) \in Event
      BY <1>0, Checks
    <3>2. {Checked(ts)} \in SUBSET Event
      BY <3>1
    <3> QED
      BY <1>0, <2>1, <3>2, Adds
  <2>3. /\ pc' = [pc EXCEPT !["checks"] = "added"] /\ pc["checks"] = "idle"
        /\ UNCHANGED <<now, inputs, resaved, cutoff, saver, disk, skipped, restarts>>
    BY <1>3 DEF RecordCheck, Goes
  <2>4. "checks" \in Threads
    BY DEF Threads, Counting
  <2> QED
    BY <1>0, <2>1, <2>2, <2>3, <2>4 DEF TypeOK, saver, inputs, Snap
<1>4. ASSUME NEW t \in Threads, Count(t) \/ Reset(t) PROVE TypeOK'
  <2>1. /\ pc[t] \in {"added", "tenth"} /\ pc' = [pc EXCEPT ![t] = pc'[t]]
        /\ pc'[t] \in {"idle", "tenth", "saving"}
        /\ UNCHANGED <<now, inputs, resaved, cutoff, mem, saveMu, snap, disk, history, restarts>>
    BY <1>0, <1>4 DEF Count, Reset, Goes
  <2>2. saveN' \in Nat
    BY <1>0, <1>4 DEF Count, Reset
  <2>3. pc' \in [Threads -> Places] /\ \A b \in Threads : pc'[b] = "writing" <=> saveMu = b
    BY <1>0, <2>1
  <2> QED
    BY <1>0, <2>1, <2>2, <2>3 DEF TypeOK, inputs, history, Snap
<1>5. ASSUME NEW t \in Threads, Snapshot(t) PROVE TypeOK'
  <2>1. AfterSave(t) \in Places \ {"writing"}
    BY DEF AfterSave
  <2>2. UNCHANGED <<now, inputs, resaved, cutoff, mem, saveN, disk, skipped, restarts>> /\ fresh' = 0
    BY <1>5 DEF Snapshot
  <2>3. pc[t] = "saving" /\ saveMu = None
    BY <1>5 DEF Snapshot
  <2>4. CASE OfDay(mem, Today) = {}
    <3>1. pc' = [pc EXCEPT ![t] = AfterSave(t)] /\ UNCHANGED <<saveMu, snap>>
      BY <1>5, <2>4 DEF Snapshot, Goes
    <3> QED
      BY <1>0, <2>1, <2>2, <2>3, <3>1 DEF TypeOK, inputs, Snap
  <2>5. CASE OfDay(mem, Today) # {}
    <3>1. /\ pc' = [pc EXCEPT ![t] = "writing"] /\ saveMu' = t
          /\ snap' = [snap EXCEPT ![t] = [day |-> Today, events |-> OfDay(mem, Today)]]
      BY <1>5, <2>5 DEF Snapshot, Goes
    <3>2. [day |-> Today, events |-> OfDay(mem, Today)] \in Snap
      <4>1. Today \in Int /\ OfDay(mem, Today) \subseteq Event
        BY <1>0 DEF Today, Day, OfDay
      <4> QED
        BY <4>1 DEF Snap
    <3>3. snap' \in [Threads -> Snap]
      BY <1>0, <3>1, <3>2
    <3>4. \A b \in Threads : pc'[b] = "writing" <=> saveMu' = b
      BY <1>0, <2>3, <3>1 DEF None, Threads, Counting
    <3> QED
      BY <1>0, <2>2, <3>1, <3>3, <3>4 DEF TypeOK, inputs, Snap
  <2> QED
    BY <2>4, <2>5
<1>6. ASSUME NEW t \in Threads, WriteFile(t) PROVE TypeOK'
  <2>1. AfterSave(t) \in Places \ {"writing"}
    BY DEF AfterSave
  <2>2. /\ pc[t] = "writing" /\ pc' = [pc EXCEPT ![t] = AfterSave(t)] /\ saveMu' = None
        /\ snap' = [snap EXCEPT ![t] = NoSnap]
        /\ UNCHANGED <<now, inputs, resaved, cutoff, mem, saveN, fresh, restarts>>
    BY <1>6 DEF WriteFile, Goes
  <2>3. disk' \subseteq Event /\ skipped' \subseteq Int
    <3>1. snap[t] \in Snap
      BY <1>0
    <3>2. snap[t].events \subseteq Event
      BY <3>1 DEF Snap
    <3> QED
      BY <1>0, <1>6, <3>2 DEF WriteFile, Replaced
  <2>4. NoSnap \in Snap
    BY DEF NoSnap, Snap
  <2>5. snap' \in [Threads -> Snap]
    BY <1>0, <2>2, <2>4
  <2>6. \A b \in Threads : pc'[b] = "writing" <=> saveMu' = b
    BY <1>0, <2>1, <2>2 DEF None, Threads, Counting
  <2> QED
    BY <1>0, <2>1, <2>2, <2>3, <2>5, <2>6 DEF TypeOK, inputs, Snap
<1>7. CASE Cutoff
  <2>1. "start" \in Threads
    BY DEF Threads
  <2>2. /\ pc' = [pc EXCEPT !["start"] = "scan"] /\ pc["start"] = "cutoff"
        /\ UNCHANGED <<now, inputs, resaved, mem, saver, disk, history, restarts>>
    BY <1>7 DEF Cutoff, Goes
  <2>3. cutoff' \in Int
    <3>1. CASE mem = {} /\ cutoff' = now - DayLength
      BY <1>0, <3>1
    <3>2. ASSUME NEW last \in MaxLastSeen, NEW fraction \in {0, 1},
                 cutoff' = Later(last + 1 + fraction, now - DayLength)
          PROVE  cutoff' \in Int
      <4>1. last \in Int
        BY <1>0 DEF MaxLastSeen, Event
      <4> QED
        BY <1>0, <3>2, <4>1 DEF Later
    <3> QED
      BY <1>7, <3>1, <3>2 DEF Cutoff
  <2> QED
    BY <1>0, <2>1, <2>2, <2>3 DEF TypeOK, inputs, saver, history, Snap
<1>8. CASE Scan
  <2> DEFINE found == {l \in file : Stamp(l) >= cutoff}
  <2>1. "start" \in Threads
    BY DEF Threads
  <2>2. /\ pc["start"] = "scan" /\ Added({Seen(l, Stamp(l), "scan") : l \in found})
        /\ pc' = [pc EXCEPT !["start"] = IF found = {} THEN "resave" ELSE "saving"]
        /\ cutoff' = 0
        /\ UNCHANGED <<now, inputs, resaved, saver, disk, history, restarts>>
    BY <1>8 DEF Scan, Goes
  <2>3. {Seen(l, Stamp(l), "scan") : l \in found} \in SUBSET Event
    <3>1. ASSUME NEW l \in file PROVE Seen(l, Stamp(l), "scan") \in Event
      <4>1. l \in Times /\ Stamp(l) \in Int
        BY <1>0 DEF Stamp
      <4> QED
        BY <1>0, <4>1, Sees
    <3> QED
      BY <3>1
  <2>4. mem' \subseteq Event
    BY <1>0, <2>2, <2>3, Adds
  <2> QED
    BY <1>0, <2>1, <2>2, <2>4 DEF TypeOK, inputs, saver, history, Snap
<1>9. CASE Resave \/ OpenTail \/ Signal
  <2>1. "start" \in Threads /\ "main" \in Threads
    BY DEF Threads
  <2> QED
    BY <1>0, <1>9, <2>1 DEF Resave, OpenTail, Signal, Goes, TypeOK, inputs, saver, history,
       Snap
<1>10. CASE Exit
  <2>1. NoSnap \in Snap
    BY DEF NoSnap, Snap
  <2>2. snap' \in [Threads -> Snap] /\ pc' \in [Threads -> Places]
        /\ \A t \in Threads : pc'[t] = "down"
    BY <1>10, <2>1 DEF Exit
  <2>3. \A t \in Threads : pc'[t] = "writing" <=> saveMu' = t
    BY <1>10, <2>2 DEF Exit, None, Threads, Counting
  <2>4. /\ unread' = {} /\ open' = FALSE /\ resaved' = FALSE /\ cutoff' = 0 /\ mem' = {}
        /\ saveN' = 0 /\ saveMu' = None /\ fresh' = 0 /\ skipped' = {}
        /\ UNCHANGED <<now, file, disk, restarts>>
    BY <1>10 DEF Exit
  <2>5. cutoff' \in Int /\ saveN' \in Nat /\ fresh' \in Nat /\ skipped' \subseteq Int
    BY <2>4
  <2>8. open' \in BOOLEAN /\ resaved' \in BOOLEAN
    BY <2>4, Zenon
  <2>6. mem' \subseteq Event /\ disk' \subseteq Event /\ unread' \subseteq file' /\ file' \subseteq Times
    BY <1>0, <2>4
  <2>7. saveMu' \in Threads \cup {None} /\ now' \in Times /\ restarts' \in 0 .. MaxRestarts
    BY <1>0, <2>4
  <2> QED
    BY <2>2, <2>3, <2>5, <2>6, <2>7, <2>8 DEF TypeOK, Snap
<1>11. CASE Boot
  <2>1. ~ Up /\ restarts < MaxRestarts
    BY <1>11 DEF Boot, Up, Inv, Whole
  <2>2. /\ pc' \in [Threads -> Places] /\ \A t \in Threads : pc'[t] # "writing" /\ pc[t] # "writing"
        /\ restarts' \in 0 .. MaxRestarts
        /\ disk' \subseteq disk /\ mem' \subseteq disk
        /\ UNCHANGED <<now, inputs, resaved, cutoff, saver, fresh>>
    BY <1>0, <1>11, <2>1 DEF Boot, Started
  <2>3. skipped' \subseteq Int
    <3>1. \A e \in disk' : e.ts \in Int
      BY <1>0, <2>2 DEF Event
    <3>2. \A e \in disk' : Day(e.ts) \in Int
      BY <3>1, SMT DEF Day
    <3>3. skipped' \subseteq {Day(e.ts) : e \in disk'}
      BY <1>11 DEF Boot, DaysOf
    <3> QED
      BY <3>2, <3>3
  <2> QED
    BY <1>0, <2>2, <2>3 DEF TypeOK, Snap, inputs, saver
<1>12. CASE Tick
  BY <1>0, <1>12 DEF Tick, TypeOK, Snap, inputs, saver
<1>13. CASE UNCHANGED vars
  BY <1>0, <1>13 DEF vars, TypeOK, Snap, inputs, saver, history
<1> QED
  BY <1>1, <1>2, <1>3, <1>4, <1>5, <1>6, <1>7, <1>8, <1>9, <1>10, <1>11, <1>12, <1>13 DEF Next

\* But for an exit and a start, no goroutine comes or goes.
LEMMA Alive ==
  ASSUME Inv, [Next]_vars, ~ Exit, ~ Boot
  PROVE  /\ \A b \in Threads : pc'[b] = "down" <=> pc[b] = "down"
         /\ \A b \in Threads \ Counting : pc'[b] \notin {"added", "tenth"}
         /\ restarts' = restarts
<1>0. /\ pc \in [Threads -> Places] /\ \A b \in Threads \ Counting : pc[b] \notin {"added", "tenth"}
      /\ "tail" \in Counting /\ "checks" \in Counting /\ "start" \in Threads \ Counting
      /\ "main" \in Threads \ Counting /\ Counting \subseteq Threads
  BY DEF Inv, TypeOK, Whole, Threads, Counting
<1>1. CASE LogLine \/ Tick \/ UNCHANGED vars
  BY <1>0, <1>1 DEF LogLine, Tick, vars
<1>2. CASE ReadLine \/ RecordCheck
  BY <1>0, <1>2 DEF ReadLine, RecordCheck, Goes
<1>3. ASSUME NEW t \in Threads, Count(t) \/ Reset(t)
      PROVE  /\ \A b \in Threads : pc'[b] = "down" <=> pc[b] = "down"
             /\ \A b \in Threads \ Counting : pc'[b] \notin {"added", "tenth"}
             /\ restarts' = restarts
  <2>1. /\ pc[t] \in {"added", "tenth"} /\ pc' = [pc EXCEPT ![t] = pc'[t]]
        /\ pc'[t] \in {"idle", "tenth", "saving"} /\ restarts' = restarts
    BY <1>0, <1>3 DEF Count, Reset, Goes
  <2> QED
    BY <1>0, <2>1
<1>4. ASSUME NEW t \in Threads, Snapshot(t) \/ WriteFile(t)
      PROVE  /\ \A b \in Threads : pc'[b] = "down" <=> pc[b] = "down"
             /\ \A b \in Threads \ Counting : pc'[b] \notin {"added", "tenth"}
             /\ restarts' = restarts
  <2>1. AfterSave(t) \in Places \ {"down", "added", "tenth"}
    BY DEF AfterSave
  <2>2. /\ pc[t] \in {"saving", "writing"} /\ pc' = [pc EXCEPT ![t] = pc'[t]]
        /\ pc'[t] \in {"writing", AfterSave(t)} /\ restarts' = restarts
    BY <1>0, <1>4 DEF Snapshot, WriteFile, Goes
  <2> QED
    BY <1>0, <2>1, <2>2
<1>5. CASE Cutoff \/ Scan \/ Resave \/ OpenTail
  <2>1. /\ pc["start"] \in {"cutoff", "scan", "resave", "open"}
        /\ pc' = [pc EXCEPT !["start"] = pc'["start"]]
        /\ pc'["start"] \in {"scan", "resave", "open", "saving", "done"}
    <3>1. CASE Cutoff
      BY <1>0, <3>1 DEF Cutoff, Goes
    <3>2. CASE Scan
      BY <1>0, <3>2 DEF Scan, Goes
    <3>3. CASE Resave
      BY <1>0, <3>3 DEF Resave, Goes
    <3>4. CASE OpenTail
      BY <1>0, <3>4 DEF OpenTail, Goes
    <3> QED
      BY <1>5, <3>1, <3>2, <3>3, <3>4
  <2>2. restarts' = restarts
    BY <1>5 DEF Cutoff, Scan, Resave, OpenTail
  <2> QED
    BY <1>0, <2>1, <2>2
<1>6. CASE Signal
  BY <1>0, <1>6 DEF Signal, Goes
<1> QED
  BY <1>1, <1>2, <1>3, <1>4, <1>5, <1>6 DEF Next

\* Every step keeps the process whole.
LEMMA WholeStep ==
  ASSUME Inv, [Next]_vars
  PROVE  Whole'
<1>0. /\ pc \in [Threads -> Places] /\ snap \in [Threads -> Snap] /\ TypeOK'
      /\ \A t \in Threads : pc[t] = "writing" <=> saveMu = t
      /\ \A t \in Threads : pc'[t] = "writing" <=> saveMu' = t
      /\ "start" \in Threads
  BY TypeStep DEF Inv, TypeOK, Snap, Threads
<1>1. CASE Exit
  BY <1>0, <1>1 DEF Exit, Whole, Up, NoSnap
<1>2. CASE Boot
  <2>1. /\ ~ Up /\ ~ open /\ unread = {} /\ \A t \in Threads : snap[t].events = {}
    BY <1>2 DEF Boot, Up, Inv, Whole
  <2>2. /\ \A t \in Threads : pc'[t] \in {"cutoff", "idle"}
        /\ UNCHANGED <<open, unread, snap>>
    BY <1>2 DEF Boot, Started, inputs, saver
  <2> QED
    BY <1>0, <2>1, <2>2 DEF Whole, Up
<1>3. CASE ~ Exit /\ ~ Boot
  <2>1. /\ \A b \in Threads : pc'[b] = "down" <=> pc[b] = "down"
        /\ \A b \in Threads \ Counting : pc'[b] \notin {"added", "tenth"}
        /\ restarts' = restarts
    BY <1>3, Alive
  <2>2. Up' <=> Up
    BY <2>1 DEF Up
  <2>3. (~ Up => ~ open') /\ (~ open' => unread' = {})
    <3>1. CASE LogLine
      BY <3>1 DEF LogLine, Inv, Whole
    <3>2. CASE ReadLine
      BY <3>2 DEF ReadLine, Inv, Whole
    <3>3. CASE OpenTail
      BY <1>0, <3>3 DEF OpenTail, Up
    <3>4. CASE UNCHANGED <<open, unread>>
      BY <3>4 DEF Inv, Whole
    <3> QED
      BY <1>3, <3>1, <3>2, <3>3, <3>4
      DEF Next, vars, inputs, Tick, RecordCheck, Count, Reset, Snapshot, WriteFile, Cutoff,
          Scan, Resave, Signal
  <2>4. \A t \in Threads : pc'[t] # "writing" => snap'[t].events = {}
    <3>1. ASSUME NEW t \in Threads, Snapshot(t), NEW b \in Threads, pc'[b] # "writing"
          PROVE  snap'[b].events = {}
      <4>1. pc[t] = "saving" /\ pc[b] # "writing" /\ (b # t \/ snap' = snap)
        BY <1>0, <3>1 DEF Snapshot, Goes
      <4>2. snap[b].events = {}
        BY <4>1 DEF Inv, Whole
      <4>3. b # t => snap'[b] = snap[b]
        BY <1>0, <3>1 DEF Snapshot
      <4> QED
        BY <4>1, <4>2, <4>3
    <3>2. ASSUME NEW t \in Threads, WriteFile(t), NEW b \in Threads, pc'[b] # "writing"
          PROVE  snap'[b].events = {}
      <4>1. snap' = [snap EXCEPT ![t] = NoSnap]
        BY <3>2 DEF WriteFile
      <4>2. b # t => pc[b] # "writing"
        BY <1>0, <3>2 DEF WriteFile, Goes
      <4> QED
        BY <1>0, <4>1, <4>2 DEF Inv, Whole, NoSnap
    <3>3. CASE UNCHANGED <<snap, saveMu>>
      BY <1>0, <3>3 DEF Inv, Whole
    <3> QED
      BY <1>3, <3>1, <3>2, <3>3
      DEF Next, vars, saver, Tick, LogLine, ReadLine, RecordCheck, Count, Reset, Cutoff, Scan,
          Resave, OpenTail, Signal
  <2> QED
    BY <2>1, <2>2, <2>3, <2>4 DEF Whole, Inv
<1> QED
  BY <1>1, <1>2, <1>3

\* Nothing comes into a snapshot that was not in one or in memory.
LEMMA SnapsStep ==
  ASSUME Inv, [Next]_vars
  PROVE  Snapped' \subseteq Snapped \cup mem
<1>0. snap \in [Threads -> Snap]
  BY DEF Inv, TypeOK, Snap
<1>1. ASSUME NEW t \in Threads, Snapshot(t) PROVE Snapped' \subseteq Snapped \cup mem
  <2>1. ASSUME NEW b \in Threads PROVE snap'[b].events \subseteq snap[b].events \cup mem
    BY <1>0, <1>1 DEF Snapshot, OfDay
  <2> QED
    BY <2>1 DEF Snapped
<1>2. ASSUME NEW t \in Threads, WriteFile(t) PROVE Snapped' \subseteq Snapped \cup mem
  <2>1. ASSUME NEW b \in Threads PROVE snap'[b].events \subseteq snap[b].events
    BY <1>0, <1>2 DEF WriteFile, NoSnap
  <2> QED
    BY <2>1 DEF Snapped
<1>3. CASE Exit
  <2>1. \A b \in Threads : snap'[b].events = {}
    BY <1>3 DEF Exit, NoSnap
  <2> QED
    BY <2>1 DEF Snapped
<1>4. CASE UNCHANGED snap
  BY <1>4 DEF Snapped
<1> QED
  BY <1>1, <1>2, <1>3, <1>4
  DEF Next, vars, saver, Tick, LogLine, ReadLine, RecordCheck, Count, Reset, Cutoff, Scan,
      Resave, OpenTail, Signal, Boot

\* Nothing comes into a file that was not in a snapshot, and a file that was not
\* loaded is either left alone or replaced.
LEMMA FilesStep ==
  ASSUME Inv, [Next]_vars, ~ Exit, ~ Boot, NEW e \in disk'
  PROVE  e \in Snapped \/ (e \in disk /\ (Day(e.ts) \in skipped => Day(e.ts) \in skipped'))
<1>1. ASSUME NEW t \in Threads, WriteFile(t)
      PROVE  e \in Snapped \/ (e \in disk /\ (Day(e.ts) \in skipped => Day(e.ts) \in skipped'))
  <2>1. CASE UNCHANGED <<disk, skipped>>
    BY <2>1
  <2>2. CASE Replaced(t)
    <3>1. e \in snap[t].events \/ (e \in disk /\ Day(e.ts) # snap[t].day)
      BY <2>2 DEF Replaced, OfDay
    <3> QED
      BY <2>2, <3>1 DEF Replaced, Snapped
  <2> QED
    BY <1>1, <2>1, <2>2 DEF WriteFile
<1>2. CASE UNCHANGED <<disk, skipped>>
  BY <1>2
<1> QED
  BY <1>1, <1>2
  DEF Next, vars, history, Tick, LogLine, ReadLine, RecordCheck, Count, Reset, Snapshot, Cutoff,
      Scan, Resave, OpenTail, Signal

\* Of what it had of the files, memory has lost only what is too old for it.
LEMMA MemoryStep ==
  ASSUME Inv, [Next]_vars
  PROVE  InMemory'
<1>0. /\ mem \subseteq Event /\ now \in Int /\ pc \in [Threads -> Places]
      /\ unread \subseteq Times /\ file \subseteq Times /\ Times \subseteq Int
      /\ restarts \in 0 .. MaxRestarts
  BY DEF Inv, TypeOK, Times
<1>1. ASSUME NEW events \in SUBSET Event, Added(events), UNCHANGED <<now, disk, snap, skipped>>, Up
      PROVE  InMemory'
  <2>1. Snapped' = Snapped
    BY <1>1 DEF Snapped
  <2>2. \A e \in mem : e \in mem' \/ ~ (e.ts >= now - MaxAge)
    BY <1>0, <1>1, Adds
  <2>3. \A e \in mem : e.ts \in Int
    BY <1>0 DEF Event
  <2>4. \A e \in mem : e \in mem' \/ e.ts < now - MaxAge
    BY <1>0, <2>2, <2>3
  <2> QED
    BY <1>1, <2>1, <2>4 DEF Inv, InMemory
<1>2. CASE ReadLine
  <2>1. PICK l \in unread : Added({Seen(l, now, "tail")})
    BY <1>2 DEF ReadLine
  <2>2. {Seen(l, now, "tail")} \in SUBSET Event
    <3>1. Seen(l, now, "tail") \in Event
      BY <1>0, Sees
    <3> QED
      BY <3>1
  <2>3. UNCHANGED <<now, disk, snap, skipped>> /\ Up
    BY <1>2 DEF ReadLine, saver, Up, Threads, Counting
  <2> QED
    BY <1>1, <2>1, <2>2, <2>3
<1>3. CASE RecordCheck
  <2>1. PICK ts \in {now - 1, now} \cap Times : Added({Checked(ts)})
    BY <1>3 DEF RecordCheck
  <2>2. {Checked(ts)} \in SUBSET Event
    <3>1. Checked(ts) \in Event
      BY <1>0, Checks
    <3> QED
      BY <3>1
  <2>3. UNCHANGED <<now, disk, snap, skipped>> /\ Up
    BY <1>3 DEF RecordCheck, saver, Up, Threads, Counting
  <2> QED
    BY <1>1, <2>1, <2>2, <2>3
<1>4. CASE Scan
  <2> DEFINE found == {l \in file : Stamp(l) >= cutoff}
  <2>1. Added({Seen(l, Stamp(l), "scan") : l \in found})
    BY <1>4 DEF Scan
  <2>2. {Seen(l, Stamp(l), "scan") : l \in found} \in SUBSET Event
    <3>1. ASSUME NEW l \in file PROVE Seen(l, Stamp(l), "scan") \in Event
      <4>1. l \in Times /\ Stamp(l) \in Int
        BY <1>0 DEF Stamp
      <4> QED
        BY <1>0, <4>1, Sees
    <3> QED
      BY <3>1
  <2>3. UNCHANGED <<now, disk, snap, skipped>> /\ Up
    BY <1>4 DEF Scan, saver, history, Up, Threads
  <2> QED
    BY <1>1, <2>1, <2>2, <2>3
<1>5. CASE Exit
  BY <1>5 DEF Exit, InMemory, Up
<1>6. CASE Boot
  <2>1. /\ ~ Up /\ \A t \in Threads : snap[t].events = {}
    BY <1>6 DEF Boot, Up, Inv, Whole
  <2>2. Snapped' = {}
    BY <1>6, <2>1 DEF Boot, saver, Snapped
  <2>3. \A e \in disk' : e \in mem' \/ Day(e.ts) \in skipped'
    BY <1>6 DEF Boot, DaysOf
  <2> QED
    BY <2>2, <2>3 DEF InMemory
<1>7. CASE /\ UNCHANGED <<mem, now>> /\ ~ Exit /\ ~ Boot
  <2>1. Up' <=> Up
    BY <1>7, Alive DEF Up
  <2>2. Snapped' \subseteq Snapped \cup mem
    BY SnapsStep
  <2>3. \A e \in disk' :
          e \in Snapped \/ (e \in disk /\ (Day(e.ts) \in skipped => Day(e.ts) \in skipped'))
    BY <1>7, FilesStep
  <2> QED
    BY <1>7, <2>1, <2>2, <2>3 DEF Inv, InMemory
<1>8. CASE Tick
  <2>1. now' > now /\ now' \in Int /\ Snapped' = Snapped /\ (Up' <=> Up)
        /\ UNCHANGED <<mem, disk, skipped>>
    BY <1>0, <1>8 DEF Tick, Snapped, saver, Up
  <2>2. \A e \in Snapped \cup disk : e \in Event
    BY DEF Snapped, Inv, TypeOK
  <2>3. \A e \in Snapped \cup disk : e.ts \in Int
    BY <2>2 DEF Event
  <2> QED
    BY <1>0, <2>1, <2>3 DEF Inv, InMemory
<1> QED
  BY <1>2, <1>3, <1>4, <1>5, <1>6, <1>7, <1>8
  DEF Next, vars, LogLine, Count, Reset, Snapshot, WriteFile, Cutoff, Resave, OpenTail, Signal

\* What is stamped today or later is too young to be lost from memory.
LEMMA Young ==
  ASSUME Inv, Up, NEW e \in disk, Day(e.ts) >= Today, Day(e.ts) \notin skipped
  PROVE  e \in mem
<1>1. now \in Int /\ e \in Event
  BY DEF Inv, TypeOK, Times
<1>2. e.ts \in Int
  BY <1>1 DEF Event
<1>3. e.ts > now - DayLength
  BY <1>1, <1>2, DayAge
<1>4. ~ (e.ts < now - MaxAge)
  BY <1>1, <1>2, <1>3
<1> QED
  BY <1>4 DEF Inv, InMemory

\* A snapshot is taken and written under one lock, so it stays ahead of its file.
LEMMA ReplacesStep ==
  ASSUME Inv, [Next]_vars
  PROVE  Replaces'
<1>0. /\ pc \in [Threads -> Places] /\ snap \in [Threads -> Snap]
      /\ \A t \in Threads : pc[t] = "writing" <=> saveMu = t
      /\ \A t \in Threads : pc'[t] = "writing" <=> saveMu' = t
  BY TypeStep DEF Inv, TypeOK, Snap
<1>1. ASSUME NEW t \in Threads, Snapshot(t) PROVE Replaces'
  <2>1. CASE OfDay(mem, Today) = {}
    <3>1. UNCHANGED <<saveMu, snap, disk, skipped>>
      BY <1>1, <2>1 DEF Snapshot
    <3> QED
      BY <1>0, <3>1 DEF Inv, Replaces, OfDay
  <2>2. CASE OfDay(mem, Today) # {}
    <3>1. /\ saveMu' = t /\ disk' = disk /\ skipped' = skipped
          /\ snap'[t].day = Today /\ snap'[t].events = OfDay(mem, Today)
      BY <1>0, <1>1, <2>2 DEF Snapshot
    <3>2. Up
      BY <1>1 DEF Snapshot, Up
    <3>3. ASSUME NEW e \in disk, Day(e.ts) = Today, Today \notin skipped PROVE e \in mem
      <4>1. Today \in Int
        BY DEF Inv, TypeOK, Times, Today, Day
      <4>2. Day(e.ts) >= Today
        BY <3>3, <4>1
      <4> QED
        BY <3>2, <3>3, <4>2, Young
    <3>4. OfDay(disk', snap'[t].day) \subseteq snap'[t].events \/ snap'[t].day \in skipped'
      BY <3>1, <3>3 DEF OfDay
    <3> QED
      BY <1>0, <3>1, <3>4 DEF Replaces, OfDay
  <2> QED
    BY <2>1, <2>2
<1>2. ASSUME NEW t \in Threads, WriteFile(t) PROVE Replaces'
  BY <1>0, <1>2 DEF WriteFile, Replaces, None, Threads, Counting
<1>3. CASE Exit
  BY <1>3 DEF Exit, Replaces
<1>4. CASE Boot
  BY <1>4 DEF Boot, Started, Replaces
<1>5. CASE UNCHANGED <<disk, skipped, snap, saveMu>>
  BY <1>0, <1>5 DEF Inv, Replaces, OfDay
<1> QED
  BY <1>1, <1>2, <1>3, <1>4, <1>5
  DEF Next, vars, saver, history, Tick, LogLine, ReadLine, RecordCheck, Count, Reset, Cutoff, Scan,
      Resave, OpenTail, Signal
-----------------------------------------------------------------------------
\* One goroutine that is about to count, as a number.
One(f, t) == IF f[t] = "added" THEN 1 ELSE 0

\* How many are about to count, as a sum.
LEMMA AboutToCount ==
  ASSUME NEW f
  PROVE  Cardinality({t \in Counting : f[t] = "added"}) = One(f, "tail") + One(f, "checks")
<1> DEFINE waiting == {t \in Counting : f[t] = "added"}
<1>0. IsFiniteSet({"checks"}) /\ Cardinality({"checks"}) = 1 /\ Cardinality({"tail"}) = 1
      /\ Cardinality({}) = 0
  BY FS_Singleton, FS_EmptySet
<1>1. CASE f["tail"] = "added" /\ f["checks"] = "added"
  <2>1. waiting = {"checks"} \cup {"tail"} /\ "tail" \notin {"checks"}
    BY <1>1 DEF Counting
  <2>2. Cardinality(waiting) = 2
    BY <1>0, <2>1, FS_AddElement
  <2>3. One(f, "tail") = 1 /\ One(f, "checks") = 1
    BY <1>1 DEF One
  <2> QED
    BY <2>2, <2>3
<1>2. CASE f["tail"] = "added" /\ f["checks"] # "added"
  <2>1. waiting = {"tail"}
    BY <1>2 DEF Counting
  <2>2. One(f, "tail") = 1 /\ One(f, "checks") = 0
    BY <1>2 DEF One
  <2>3. Cardinality(waiting) = 1
    BY <1>0, <2>1
  <2> QED
    BY <2>2, <2>3
<1>3. CASE f["tail"] # "added" /\ f["checks"] = "added"
  <2>1. waiting = {"checks"}
    BY <1>3 DEF Counting
  <2>2. One(f, "tail") = 0 /\ One(f, "checks") = 1
    BY <1>3 DEF One
  <2>3. Cardinality(waiting) = 1
    BY <1>0, <2>1
  <2> QED
    BY <2>2, <2>3
<1>4. CASE f["tail"] # "added" /\ f["checks"] # "added"
  <2>1. waiting = {}
    BY <1>4 DEF Counting
  <2>2. One(f, "tail") = 0 /\ One(f, "checks") = 0
    BY <1>4 DEF One
  <2>3. Cardinality(waiting) = 0
    BY <1>0, <2>1
  <2> QED
    BY <2>2, <2>3
<1> QED
  BY <1>1, <1>2, <1>3, <1>4

\* A save is due or on its way.
Due(f) == \E t \in Counting : f[t] \in {"tenth", "saving"}

\* The counters, with the sum.
LEMMA Summed ==
  Counters <=> /\ (\A t \in Counting : pc[t] # "tenth") => saveN < SaveEvery
               /\ ~ Due(pc) => fresh <= saveN + (One(pc, "tail") + One(pc, "checks"))
<1>1. Cardinality({t \in Counting : pc[t] = "added"}) = One(pc, "tail") + One(pc, "checks")
  BY AboutToCount
<1>2. UnsavedBounded <=> (~ Due(pc) => /\ fresh <= saveN + (One(pc, "tail") + One(pc, "checks"))
                                       /\ saveN < SaveEvery)
  BY <1>1 DEF UnsavedBounded, Due
<1> QED
  BY <1>2 DEF Counters, Due

\* No step loses a count: whoever resets the counter goes on to save.
LEMMA CountersStep ==
  ASSUME Inv, [Next]_vars
  PROVE  Counters'
<1> DEFINE Low(f, n) == (\A t \in Counting : f[t] # "tenth") => n < SaveEvery
           Few(f, n, m) == ~ Due(f) => m <= n + (One(f, "tail") + One(f, "checks"))
<1>0. /\ pc \in [Threads -> Places] /\ saveN \in Nat /\ fresh \in Nat
      /\ "tail" \in Counting /\ "checks" \in Counting /\ Counting \subseteq Threads
      /\ Counting = {"tail", "checks"}
      /\ "start" \in Threads \ Counting /\ "main" \in Threads \ Counting
      /\ \A t \in Threads \ Counting : pc[t] \notin {"added", "tenth"}
  BY DEF Inv, TypeOK, Whole, Threads, Counting
<1>1. Low(pc, saveN) /\ Few(pc, saveN, fresh)
  BY Summed DEF Inv
<1>2. SUFFICES Low(pc', saveN') /\ Few(pc', saveN', fresh')
  <2>1. Counters' <=> Low(pc', saveN') /\ Few(pc', saveN', fresh')
    <3>1. Cardinality({t \in Counting : pc'[t] = "added"}) = One(pc', "tail") + One(pc', "checks")
      BY AboutToCount
    <3>2. UnsavedBounded' <=>
            (~ Due(pc') => /\ fresh' <= saveN' + (One(pc', "tail") + One(pc', "checks"))
                           /\ saveN' < SaveEvery)
      BY <3>1 DEF UnsavedBounded, Due
    <3> QED
      BY <3>2 DEF Counters, Due
  <2> QED
    BY <2>1
<1> USE DEF One, Due
<1>3. CASE ReadLine
  <2>1. /\ pc["tail"] = "idle" /\ pc' = [pc EXCEPT !["tail"] = "added"]
        /\ fresh' = fresh + 1 /\ saveN' = saveN
    BY <1>3 DEF ReadLine, Goes, saver
  <2> QED
    BY <1>0, <1>1, <2>1
<1>4. CASE RecordCheck
  <2>1. /\ pc["checks"] = "idle" /\ pc' = [pc EXCEPT !["checks"] = "added"] /\ saveN' = saveN
        /\ fresh' = fresh \/ fresh' = fresh + 1
    BY <1>4 DEF RecordCheck, Goes, saver
  <2> QED
    BY <1>0, <1>1, <2>1
<1>5. ASSUME NEW t \in Threads, Count(t) PROVE Low(pc', saveN') /\ Few(pc', saveN', fresh')
  <2>1. /\ pc[t] = "added" /\ t \in Counting /\ saveN' = saveN + 1 /\ fresh' = fresh
        /\ pc' = [pc EXCEPT ![t] = IF saveN + 1 >= SaveEvery THEN "tenth" ELSE "idle"]
    BY <1>0, <1>5 DEF Count, Goes, history
  <2>2. CASE saveN + 1 >= SaveEvery
    BY <1>0, <1>1, <2>1, <2>2
  <2>3. CASE ~ (saveN + 1 >= SaveEvery)
    BY <1>0, <1>1, <2>1, <2>3
  <2> QED
    BY <2>2, <2>3
<1>6. ASSUME NEW t \in Threads, Reset(t) PROVE Low(pc', saveN') /\ Few(pc', saveN', fresh')
  <2>1. /\ pc[t] = "tenth" /\ t \in Counting /\ saveN' = 0
        /\ pc' = [pc EXCEPT ![t] = "saving"]
    BY <1>0, <1>6 DEF Reset, Goes
  <2> QED
    BY <1>0, <2>1
<1>7. ASSUME NEW t \in Threads, Snapshot(t) PROVE Low(pc', saveN') /\ Few(pc', saveN', fresh')
  <2>1. AfterSave(t) \in {"idle", "done", "open", "resave"}
    BY DEF AfterSave
  <2>2. /\ pc[t] = "saving" /\ saveN' = saveN /\ fresh' = 0
        /\ pc' = [pc EXCEPT ![t] = pc'[t]] /\ pc'[t] \in {"writing", AfterSave(t)}
    BY <1>0, <1>7 DEF Snapshot, Goes
  <2> QED
    BY <1>0, <1>1, <2>1, <2>2
<1>8. ASSUME NEW t \in Threads, WriteFile(t) PROVE Low(pc', saveN') /\ Few(pc', saveN', fresh')
  <2>1. AfterSave(t) \in {"idle", "done", "open", "resave"}
    BY DEF AfterSave
  <2>2. /\ pc[t] = "writing" /\ saveN' = saveN /\ fresh' = fresh
        /\ pc' = [pc EXCEPT ![t] = AfterSave(t)]
    BY <1>8 DEF WriteFile, Goes
  <2> QED
    BY <1>0, <1>1, <2>1, <2>2
<1>9. CASE Exit
  <2>1. saveN' = 0 /\ fresh' = 0 /\ \A t \in Threads : pc'[t] = "down"
    BY <1>9 DEF Exit
  <2> QED
    BY <1>0, <2>1
<1>10. CASE Boot
  <2>1. saveN' = saveN /\ fresh' = fresh
        /\ \A t \in Threads : pc[t] = "down" /\ pc'[t] \in {"cutoff", "idle"}
    BY <1>10 DEF Boot, Started, saver
  <2> QED
    BY <1>0, <1>1, <2>1
<1>11. CASE Tick
  <2>1. saveN' = saveN /\ pc' = pc /\ (fresh' = fresh \/ fresh' = 0)
    BY <1>11 DEF Tick, saver
  <2> QED
    BY <1>0, <1>1, <2>1
<1>12. CASE LogLine \/ Cutoff \/ Scan \/ Resave \/ OpenTail \/ Signal \/ UNCHANGED vars
  <2>1. saveN' = saveN /\ fresh' = fresh /\ \A t \in Counting : pc'[t] = pc[t]
    <3>1. CASE LogLine \/ UNCHANGED vars
      BY <3>1 DEF LogLine, vars, saver, history
    <3>2. CASE Cutoff \/ Scan \/ Resave \/ OpenTail \/ Signal
      BY <1>0, <3>2 DEF Cutoff, Scan, Resave, OpenTail, Signal, Goes, saver, history
    <3> QED
      BY <1>12, <3>1, <3>2
  <2> QED
    BY <1>0, <1>1, <2>1
<1> QED
  BY <1>3, <1>4, <1>5, <1>6, <1>7, <1>8, <1>9, <1>10, <1>11, <1>12 DEF Next
-----------------------------------------------------------------------------
\* The inductive invariant.
THEOREM Invariance == Spec => []Inv
<1>1. Inv /\ [Next]_vars => Inv'
  BY TypeStep, WholeStep, MemoryStep, ReplacesStep, CountersStep DEF Inv
<1> QED
  BY <1>1, Initially, PTL DEF Spec

\* Every reachable state of persistence has the shapes of TypeOK; a saver has
\* the lock for as long as it writes.
THEOREM TypeCorrect == Spec => []TypeOK
<1>1. Inv => TypeOK
  BY DEF Inv
<1> QED
  BY <1>1, Invariance, PTL

\* For any save interval: the counter, read and reset by two operations of
\* several goroutines, loses no event that no save has seen.
THEOREM UnsavedStaysBounded == Spec => []UnsavedBounded
<1>1. Inv => UnsavedBounded
  BY DEF Inv, Counters
<1> QED
  BY <1>1, Invariance, PTL

\* For any number of events, days, restarts and failed writes, and any files that
\* cannot be read: what is in a day file that was read stays in it until its day
\* is past retention.
THEOREM FilesGrow == Spec => DayFilesGrow
<1> DEFINE Keeps ==
             \A e \in disk : (Day(e.ts) >= Today - Retention /\ Day(e.ts) \notin skipped) => e \in disk'
<1>1. ASSUME Inv, [Next]_vars PROVE Keeps
  <2>1. ASSUME NEW t \in Threads, WriteFile(t) PROVE Keeps
    <3>1. OfDay(disk, snap[t].day) \subseteq snap[t].events \/ snap[t].day \in skipped
      BY <1>1, <2>1 DEF Inv, Replaces, WriteFile
    <3> QED
      BY <2>1, <3>1 DEF WriteFile, Replaced, OfDay
  <2>2. CASE Boot
    <3>0. \A e \in disk : e \in Event
      BY <1>1 DEF Inv, TypeOK
    <3>1. \A e \in disk : Day(e.ts) \in Int
      BY <3>0, SMT DEF Event, Day
    <3>2. Today - Retention \in Int
      BY <1>1, SMT DEF Inv, TypeOK, Times, Today, Day
    <3> QED
      BY <2>2, <3>1, <3>2 DEF Boot
  <2>3. CASE UNCHANGED disk
    BY <2>3
  <2>4. ASSUME NEW t \in Threads, Count(t) \/ Reset(t) \/ Snapshot(t) PROVE UNCHANGED disk
    BY <2>4 DEF Count, Reset, Snapshot
  <2>5. CASE LogLine \/ Tick \/ ReadLine \/ RecordCheck \/ Cutoff \/ Scan \/ Resave
             \/ OpenTail \/ Signal \/ Exit \/ UNCHANGED vars
    BY <2>3, <2>5 DEF LogLine, Tick, ReadLine, RecordCheck, Cutoff, Scan, Resave, OpenTail,
       Signal, Exit, vars
  <2> QED
    BY <1>1, <2>1, <2>2, <2>3, <2>4, <2>5 DEF Next
<1>2. Inv /\ [Next]_vars => [Keeps]_vars
  BY <1>1
<1> QED
  BY <1>2, Invariance, PTL DEF Spec, DayFilesGrow
-----------------------------------------------------------------------------
\* Days are written in their order: no file is of a later day than the one that
\* is being written, and that one is not of the future.
Dated ==
  /\ \A x \in disk : Day(x.ts) <= Today
  /\ \A t \in Threads : pc[t] = "writing" =>
       /\ snap[t].day <= Today
       /\ \A x \in disk : Day(x.ts) <= snap[t].day
       /\ \A x \in snap[t].events : Day(x.ts) = snap[t].day

\* No file is there at first.
LEMMA DatedInitially == Init => Dated
BY DEF Init, Dated, Started, Threads, Counting

\* A snapshot is of the day it is taken, and the next one is taken when it is
\* written.
LEMMA DatedStep ==
  ASSUME Inv, Dated, [Next]_vars
  PROVE  Dated'
<1>0. /\ pc \in [Threads -> Places] /\ snap \in [Threads -> Snap] /\ now \in Int
      /\ \A t \in Threads : pc[t] = "writing" <=> saveMu = t
      /\ \A t \in Threads : pc'[t] = "writing" <=> saveMu' = t
  BY TypeStep DEF Inv, TypeOK, Snap, Times
<1>1. Today \in Int
  BY <1>0, SMT DEF Today, Day
<1>2. ASSUME NEW t \in Threads, Snapshot(t) PROVE Dated'
  <2>1. disk' = disk /\ Today' = Today /\ saveMu = None
    BY <1>2 DEF Snapshot, Today
  <2>2. CASE UNCHANGED <<saveMu, snap>>
    BY <1>0, <2>1, <2>2 DEF Dated
  <2>3. CASE /\ saveMu' = t
             /\ snap' = [snap EXCEPT ![t] = [day |-> Today, events |-> OfDay(mem, Today)]]
    <3>1. \A b \in Threads : pc'[b] = "writing" => b = t
      BY <1>0, <2>3
    <3>2. snap'[t].day = Today /\ \A x \in snap'[t].events : Day(x.ts) = Today
      BY <1>0, <2>3 DEF OfDay
    <3> QED
      BY <1>1, <2>1, <3>1, <3>2 DEF Dated
  <2> QED
    BY <1>2, <2>2, <2>3 DEF Snapshot
<1>3. ASSUME NEW t \in Threads, WriteFile(t) PROVE Dated'
  <2>1. pc[t] = "writing" /\ saveMu' = None /\ Today' = Today
    BY <1>3 DEF WriteFile, Today
  <2>2. \A b \in Threads : pc'[b] # "writing"
    BY <1>0, <2>1 DEF None, Threads, Counting
  <2>3. \A x \in disk' : x \in disk \/ x \in snap[t].events
    BY <1>3 DEF WriteFile, Replaced
  <2>4. \A x \in disk' : Day(x.ts) <= Today
    BY <2>1, <2>3 DEF Dated
  <2> QED
    BY <2>1, <2>2, <2>4 DEF Dated
<1>4. CASE Exit
  BY <1>4 DEF Exit, Dated, Today
<1>5. CASE Boot
  BY <1>5 DEF Boot, Started, Dated, Today
<1>6. CASE Tick
  <2>1. now' = now + 1 /\ UNCHANGED <<disk, snap, pc>>
    BY <1>6 DEF Tick, saver
  <2>2. Today <= Today' /\ Today' \in Int
    BY <1>0, <2>1, SMT DEF Today, Day
  <2>3. \A x \in disk : x \in Event
    BY DEF Inv, TypeOK
  <2>4. \A x \in disk : Day(x.ts) \in Int
    BY <2>3, SMT DEF Event, Day
  <2>5. \A t \in Threads : snap[t].day \in Int
    BY <1>0 DEF Snap
  <2>6. \A d \in Int : d <= Today => d <= Today'
    BY <1>1, <2>2
  <2> QED
    BY <2>1, <2>4, <2>5, <2>6 DEF Dated
<1>7. CASE UNCHANGED <<now, disk, snap, saveMu>>
  BY <1>0, <1>7 DEF Dated, Today
<1> QED
  BY <1>2, <1>3, <1>4, <1>5, <1>6, <1>7
  DEF Next, vars, saver, LogLine, ReadLine, RecordCheck, Count, Reset, Cutoff, Scan,
      Resave, OpenTail, Signal
-----------------------------------------------------------------------------
Held == mem \cup Snapped

\* What counted a line: the tail, no sooner than it was logged, or a scan, no
\* sooner than in the zone of the log.
Counted(x) ==
  /\ x.line \in file /\ x.line \notin unread
  /\ x.by \in {"tail", "scan"}
  /\ x.by = "tail" => x.ts >= x.line
  /\ x.by = "scan" => x.ts >= x.line + Zone

\* Two events that may be side by side.
Apart(x, y) == (x.line = y.line /\ x.line # NoLine) => x = y \/ DatedAhead(x, y) \/ DatedAhead(y, x)

\* A start that scans looks past all the events in memory, and past those of the
\* files it could load.
Past ==
  pc["start"] = "scan" =>
    /\ \A x \in Held : x.line # NoLine => x.ts < cutoff
    /\ \A x \in disk : x.line # NoLine => x.ts < cutoff \/ Day(x.ts) \in skipped

\* The tail is open only later, at the end of the file.  What counts a line again
\* is ahead of it, or else its day is not past that of a file that was not loaded,
\* and will be replaced first.
Lines ==
  /\ \A l \in file : l <= now
  /\ pc["start"] \in {"cutoff", "scan"} => ~ open
  /\ \A x \in Held \cup disk : x.line # NoLine => Counted(x)
  /\ Past
  /\ \A x, y \in Held : Apart(x, y)
  /\ \A x, y \in disk : Apart(x, y)
  /\ \A x \in disk, y \in Held : Apart(x, y) \/ (Day(x.ts) \in skipped /\ y.ts <= x.ts)

\* At first no file has a line in it.
LEMMA LinesInitially == Init => Lines
<1>1. Init => Held = {} /\ disk = {} /\ file = {} /\ ~ open
  BY DEF Init, Held, Snapped, NoSnap
<1> QED
  BY <1>1 DEF Lines, Past

\* Either way round.
LEMMA ApartEither == ASSUME NEW x, NEW y, Apart(x, y) PROVE Apart(y, x)
BY DEF Apart

\* A step that counts no line and leaves the files alone.
LEMMA LinesStay ==
  ASSUME Lines, UNCHANGED <<disk, skipped>>,
         \A x \in Held' : x \in Held \/ x.line = NoLine,
         file \subseteq file', unread' \cap file \subseteq unread,
         \A l \in file' : l <= now',
         pc'["start"] \in {"cutoff", "scan"} => ~ open',
         pc'["start"] = "scan" => pc["start"] = "scan" /\ cutoff' = cutoff
  PROVE  Lines'
<1>1. \A x \in Held' \cup disk' : x.line # NoLine => x \in Held \cup disk /\ Counted(x)
  BY DEF Lines
<1>2. \A x \in Held' \cup disk' : x.line # NoLine => Counted(x)'
  BY <1>1 DEF Counted
<1>3. Past'
  BY DEF Past, Lines
<1>4. \A x, y \in Held' : Apart(x, y)
  BY DEF Lines, Apart
<1>5. \A x \in disk', y \in Held' : Apart(x, y) \/ (Day(x.ts) \in skipped' /\ y.ts <= x.ts)
  BY DEF Lines, Apart
<1> QED
  BY <1>2, <1>3, <1>4, <1>5 DEF Lines

\* Where the events come from, if no snapshot changes.
LEMMA HeldStep ==
  ASSUME snap' = snap, NEW events, mem' \subseteq mem \cup events
  PROVE  Held' \subseteq Held \cup events
BY DEF Held, Snapped

\* The tail reads a line that no event has.
LEMMA ReadLineLines ==
  ASSUME Inv, Lines, ReadLine
  PROVE  Lines'
<1>0. /\ mem \subseteq Event /\ now \in Int /\ unread \subseteq file /\ file \subseteq Times
      /\ Times \subseteq Int /\ restarts \in 0 .. MaxRestarts /\ pc \in [Threads -> Places]
      /\ now \in Times /\ "start" \in Threads /\ "tail" \in Threads
  BY DEF Inv, TypeOK, Times, Threads, Counting
<1>1. PICK l \in unread : unread' = unread \ {l} /\ Added({Seen(l, now, "tail")})
  BY DEF ReadLine
<1>2. PICK read \in Event :
        read = Seen(l, now, "tail") /\ read.line = l /\ read.ts = now /\ read.by = "tail"
  BY <1>0, Sees
<1>3. Held' \subseteq Held \cup {read}
  <2>1. {read} \in SUBSET Event /\ Added({read})
    BY <1>1, <1>2
  <2>2. mem' \subseteq mem \cup {read}
    BY <1>0, <2>1, Adds
  <2>3. snap' = snap
    BY DEF ReadLine, saver
  <2> QED
    BY <2>2, <2>3, HeldStep
<1>4. /\ UNCHANGED <<now, file, open, cutoff, disk, skipped>>
      /\ pc'["start"] = pc["start"]
  BY <1>0 DEF ReadLine, Goes
<1>5. l \in file /\ l <= now /\ l \in Int
  BY <1>0, <1>1 DEF Lines
<1>6. \A x \in Held \cup disk : x.line # NoLine => x.line # l /\ Counted(x)
  BY <1>1 DEF Lines, Counted
<1>7. \A x \in Held' \cup disk' : x.line # NoLine => Counted(x)'
  <2>1. Counted(read)'
    BY <1>1, <1>2, <1>4, <1>5 DEF Counted
  <2> QED
    BY <1>1, <1>3, <1>4, <1>6, <2>1 DEF Counted
<1>8. pc'["start"] \notin {"cutoff", "scan"}
  <2>1. open
    BY <1>1 DEF Inv, Whole
  <2> QED
    BY <1>4, <2>1 DEF Lines
<1>9. \A x \in Held \cup disk : Apart(x, read) /\ Apart(read, x)
  BY <1>2, <1>6 DEF Apart
<1>10. \A x, y \in Held' : Apart(x, y)
  <2>1. Apart(read, read)
    BY DEF Apart
  <2> QED
    BY <1>3, <1>9, <2>1 DEF Lines
<1>11. \A x \in disk', y \in Held' : Apart(x, y) \/ (Day(x.ts) \in skipped' /\ y.ts <= x.ts)
  BY <1>3, <1>4, <1>9 DEF Lines
<1> QED
  BY <1>4, <1>7, <1>8, <1>10, <1>11 DEF Lines, Past

\* A start looks past the last event in memory, and past what is too old for it.
LEMMA CutoffLines ==
  ASSUME Inv, Lines, Cutoff
  PROVE  Lines'
<1>0. /\ mem \subseteq Event /\ now \in Int /\ pc \in [Threads -> Places] /\ "start" \in Threads
      /\ cutoff' \in Int
  <2>1. [Next]_vars
    BY DEF Next
  <2>2. cutoff' \in Int
    BY <2>1, TypeStep DEF TypeOK
  <2> QED
    BY <2>2 DEF Inv, TypeOK, Times, Threads, Counting
<1>1. /\ UNCHANGED <<now, file, open, unread, mem, snap, disk, skipped>>
      /\ pc["start"] = "cutoff" /\ pc'["start"] = "scan"
  BY <1>0 DEF Cutoff, Goes, inputs, saver, history
<1>2. Held' = Held
  BY <1>1 DEF Held, Snapped
<1>3. \A x \in Held \cup disk : x \in Event
  BY DEF Held, Snapped, Inv, TypeOK
<1>4. cutoff' >= now - DayLength /\ \A x \in mem : x.ts < cutoff'
  <2>1. CASE mem = {} /\ cutoff' = now - DayLength
    BY <1>0, <2>1
  <2>2. ASSUME NEW last \in MaxLastSeen, NEW fraction \in {0, 1},
               cutoff' = Later(last + 1 + fraction, now - DayLength)
        PROVE  cutoff' >= now - DayLength /\ \A x \in mem : x.ts < cutoff'
    <3>1. last \in Int /\ \A x \in mem : x.ts \in Int /\ x.ts <= last
      BY <1>0 DEF MaxLastSeen, Event
    <3>2. cutoff' >= now - DayLength /\ cutoff' > last
      BY <1>0, <2>2, <3>1 DEF Later
    <3> QED
      BY <1>0, <3>1, <3>2
  <2> QED
    BY <2>1, <2>2 DEF Cutoff
<1>5. \A x \in Held \cup disk : x.ts < now - MaxAge => x.ts < cutoff'
  <2>1. \A x \in Held \cup disk : x.ts \in Int
    BY <1>3 DEF Event
  <2> QED
    BY <1>0, <1>4, <2>1
<1>6. Past'
  <2>1. Up
    BY <1>1, <1>0 DEF Up
  <2> QED
    BY <1>1, <1>2, <1>4, <1>5, <2>1 DEF Past, Held, Inv, InMemory
<1> QED
  BY <1>1, <1>2, <1>6 DEF Lines, Counted

\* A scan counts no line again, unless from a stamp ahead of it, or of a file that
\* was not loaded.
LEMMA ScanLines ==
  ASSUME Inv, Lines, Scan
  PROVE  Lines'
<1> DEFINE found == {l \in file : Stamp(l) >= cutoff}
           scanned == {Seen(l, Stamp(l), "scan") : l \in found}
<1>0. /\ mem \subseteq Event /\ now \in Int /\ file \subseteq Times /\ Times \subseteq Int
      /\ restarts \in 0 .. MaxRestarts /\ pc \in [Threads -> Places] /\ "start" \in Threads
      /\ cutoff \in Int /\ \A l \in file : l <= now
  BY DEF Inv, TypeOK, Times, Threads, Counting, Lines
<1>1. ASSUME NEW l \in file
      PROVE  /\ Seen(l, Stamp(l), "scan") \in Event /\ Seen(l, Stamp(l), "scan").line = l
             /\ Seen(l, Stamp(l), "scan").ts = Stamp(l) /\ Seen(l, Stamp(l), "scan").by = "scan"
             /\ l \in Int /\ Stamp(l) \in Int
             /\ Stamp(l) = l + Zone \/ Stamp(l) >= l + Zone + YearLength
  <2>1. l \in Times /\ l \in Int /\ l <= now
    BY <1>0
  <2>2. Stamp(l) \in Int /\ (Stamp(l) = l + Zone \/ Stamp(l) >= l + Zone + YearLength)
    BY <1>0, <2>1, Stamped
  <2> QED
    BY <1>0, <2>1, <2>2, Sees
<1>2. scanned \in SUBSET Event
  BY <1>1
<1>3. \A x \in scanned :
        /\ x.line \in file /\ x.line \in Int /\ x.ts \in Int /\ x.by = "scan" /\ x.ts >= cutoff
        /\ x.ts = x.line + Zone \/ x.ts >= x.line + Zone + YearLength
        /\ x = Seen(x.line, Stamp(x.line), "scan")
  BY <1>1
<1>4. Added(scanned)
  BY DEF Scan
<1> HIDE DEF scanned
<1>5. Held' \subseteq Held \cup scanned
  <2>1. mem' \subseteq mem \cup scanned
    BY <1>0, <1>2, <1>4, Adds
  <2>2. snap' = snap
    BY DEF Scan, saver
  <2> QED
    BY <2>1, <2>2, HeldStep
<1>6. /\ UNCHANGED <<now, file, open, unread, disk, skipped>>
      /\ pc["start"] = "scan" /\ pc'["start"] \in {"resave", "saving"}
  BY <1>0 DEF Scan, Goes, inputs, history
<1>7. unread = {}
  BY <1>6 DEF Inv, Whole, Lines
<1>8. \A x \in Held \cup disk : x \in Event /\ x.ts \in Int
  <2>1. \A x \in Held \cup disk : x \in Event
    BY DEF Held, Snapped, Inv, TypeOK
  <2> QED
    BY <2>1 DEF Event
<1>9. \A x \in Held' \cup disk' : x.line # NoLine => Counted(x)'
  <2>1. \A x \in scanned : Counted(x)'
    BY <1>3, <1>6, <1>7 DEF Counted
  <2>2. \A x \in Held \cup disk : x.line # NoLine => Counted(x)'
    BY <1>6 DEF Lines, Counted
  <2> QED
    BY <1>5, <1>6, <2>1, <2>2
<1>10. ASSUME NEW x \in Held \cup disk, NEW y \in scanned, x.line = y.line, x.line # NoLine,
              y.ts > x.ts
       PROVE  DatedAhead(x, y)
  <2>1. Counted(x)
    BY <1>10 DEF Lines
  <2>2. y.line \in Int /\ y.ts \in Int /\ x.ts \in Int /\ y.by = "scan"
        /\ (y.ts = y.line + Zone \/ y.ts >= y.line + Zone + YearLength)
    BY <1>3, <1>8
  <2>3. CASE x.by = "tail"
    BY <1>10, <2>1, <2>2, <2>3 DEF Counted, DatedAhead
  <2>4. CASE x.by = "scan"
    <3>1. x.ts >= y.line + Zone
      BY <1>10, <2>1, <2>4 DEF Counted
    <3>2. y.ts > y.line
      BY <1>10, <2>2, <3>1
    <3> QED
      BY <1>10, <2>2, <3>2 DEF DatedAhead
  <2> QED
    BY <2>1, <2>3, <2>4 DEF Counted
<1>11. \A x \in Held, y \in scanned : Apart(x, y) /\ Apart(y, x)
  <2>1. ASSUME NEW x \in Held, NEW y \in scanned, x.line = y.line, x.line # NoLine
        PROVE  DatedAhead(x, y)
    <3>1. x.ts < cutoff
      BY <1>6, <2>1 DEF Lines, Past
    <3>2. y.ts > x.ts
      BY <1>0, <1>3, <1>8, <3>1
    <3> QED
      BY <1>10, <2>1, <3>2
  <2> QED
    BY <2>1 DEF Apart
<1>12. \A x, y \in scanned : Apart(x, y)
  BY <1>3 DEF Apart
<1>13. \A x, y \in Held' : Apart(x, y)
  BY <1>5, <1>11, <1>12 DEF Lines
<1>14. \A x \in disk', y \in Held' : Apart(x, y) \/ (Day(x.ts) \in skipped' /\ y.ts <= x.ts)
  <2>1. ASSUME NEW x \in disk, NEW y \in scanned, x.line = y.line, x.line # NoLine
        PROVE  DatedAhead(x, y) \/ (Day(x.ts) \in skipped /\ y.ts <= x.ts)
    <3>1. x.ts < cutoff \/ Day(x.ts) \in skipped
      BY <1>6, <2>1 DEF Lines, Past
    <3>2. x.ts \in Int /\ y.ts \in Int /\ y.ts >= cutoff
      BY <1>3, <1>8
    <3>3. CASE y.ts > x.ts
      BY <1>10, <2>1, <3>3
    <3>4. CASE ~ (y.ts > x.ts)
      BY <1>0, <3>1, <3>2, <3>4
    <3> QED
      BY <3>3, <3>4
  <2>2. \A x \in disk, y \in scanned : Apart(x, y) \/ (Day(x.ts) \in skipped /\ y.ts <= x.ts)
    BY <2>1 DEF Apart
  <2> QED
    BY <1>5, <1>6, <2>2 DEF Lines
<1> QED
  BY <1>0, <1>6, <1>9, <1>13, <1>14 DEF Lines, Past

\* What is written replaces what is of its day, so all that is of a file that was
\* not loaded; what is of another day is of an earlier one.
LEMMA WriteFileLines ==
  ASSUME Inv, Dated, Lines, NEW t \in Threads, WriteFile(t)
  PROVE  Lines'
<1>0. /\ pc \in [Threads -> Places] /\ snap \in [Threads -> Snap] /\ "start" \in Threads
      /\ disk \subseteq Event /\ now \in Int
  BY DEF Inv, TypeOK, Snap, Threads, Times
<1>1. /\ UNCHANGED <<now, file, unread, open, mem, cutoff>> /\ pc[t] = "writing"
      /\ snap' = [snap EXCEPT ![t] = NoSnap]
      /\ pc'["start"] = pc["start"] \/ pc'["start"] \notin {"cutoff", "scan"}
  BY <1>0 DEF WriteFile, inputs, Goes, AfterSave
<1>2. Held' \subseteq Held /\ snap[t].events \subseteq Held
  BY <1>0, <1>1 DEF Held, Snapped, NoSnap
<1>3. CASE UNCHANGED <<disk, skipped>>
  BY <1>1, <1>2, <1>3, LinesStay DEF Lines
<1>4. CASE Replaced(t)
  <2> DEFINE D == snap[t].day
  <2>1. \A x \in disk' :
          \/ x \in snap[t].events /\ Day(x.ts) = D
          \/ x \in disk /\ Day(x.ts) # D /\ Day(x.ts) <= D
    BY <1>1, <1>4 DEF Replaced, OfDay, Dated
  <2>2. skipped' = skipped \ {D}
    BY <1>4 DEF Replaced
  <2>3. \A x \in Held \cup disk : x.ts \in Int /\ Day(x.ts) \in Int
    <3>1. \A x \in Held \cup disk : x \in Event
      BY DEF Held, Snapped, Inv, TypeOK
    <3> QED
      BY <3>1, SMT DEF Event, Day
  <2>4. ASSUME NEW x \in disk, NEW y \in snap[t].events, Day(x.ts) # D, Day(x.ts) <= D
        PROVE  ~ (y.ts <= x.ts)
    <3>1. /\ Day(y.ts) = D /\ x.ts \in Int /\ y.ts \in Int
          /\ Day(x.ts) \in Int /\ Day(y.ts) \in Int
      BY <1>1, <1>2, <2>3 DEF Dated
    <3>2. Day(x.ts) < Day(y.ts)
      <4> HIDE DEF D
      <4> QED
        BY <2>4, <3>1
    <3>3. y.ts <= x.ts => Day(y.ts) <= Day(x.ts)
      BY <3>1, SMT DEF Day
    <3> HIDE DEF D
    <3> QED
      BY <3>1, <3>2, <3>3
  <2> HIDE DEF D
  <2>5. \A x \in Held' \cup disk' : x.line # NoLine => Counted(x)'
    BY <1>1, <1>2, <2>1 DEF Lines, Counted
  <2>6. Past'
    BY <1>1, <1>2, <2>1, <2>2 DEF Lines, Past
  <2>7. \A x, y \in Held' : Apart(x, y)
    BY <1>2 DEF Lines
  <2>8. \A x \in disk', y \in Held : Apart(x, y) \/ (Day(x.ts) \in skipped' /\ y.ts <= x.ts)
    BY <1>2, <2>1, <2>2 DEF Lines
  <2>9. ASSUME NEW x \in disk, NEW y \in snap[t].events, Day(x.ts) # D, Day(x.ts) <= D
        PROVE  Apart(x, y) /\ Apart(y, x)
    <3>1. Apart(x, y)
      BY <1>2, <2>4, <2>9 DEF Lines
    <3> QED
      BY <3>1, ApartEither
  <2>10. \A x, y \in disk' : Apart(x, y)
    BY <1>2, <2>1, <2>9 DEF Lines
  <2> QED
    BY <1>1, <1>2, <2>5, <2>6, <2>7, <2>8, <2>10 DEF Lines
<1> QED
  BY <1>3, <1>4 DEF WriteFile

\* A start has in memory what it read of the files.
LEMMA BootLines ==
  ASSUME Inv, Lines, Boot
  PROVE  Lines'
<1>1. /\ UNCHANGED <<now, file, unread, open, cutoff, snap>> /\ pc'["start"] = "cutoff"
      /\ disk' \subseteq disk /\ mem' \subseteq disk
  BY DEF Boot, Started, inputs, saver, Threads
<1>2. Held' \subseteq disk
  <2>1. \A t \in Threads : snap[t].events = {}
    BY DEF Boot, Inv, Whole
  <2> QED
    BY <1>1, <2>1 DEF Held, Snapped
<1>3. ~ open
  BY DEF Boot, Inv, Whole, Up
<1>4. mem' \subseteq disk' /\ Held' = mem'
  <2>1. \A t \in Threads : snap'[t].events = {}
    BY <1>1 DEF Boot, Inv, Whole
  <2>2. mem' \subseteq disk'
    BY DEF Boot, DaysOf
  <2> QED
    BY <2>1, <2>2 DEF Held, Snapped
<1>5. \A x \in Held' \cup disk' : x.line # NoLine => Counted(x)'
  BY <1>1, <1>2 DEF Lines, Counted
<1>6. \A x, y \in disk : Apart(x, y)
  BY DEF Lines
<1>7. \A l \in file' : l <= now'
  BY <1>1 DEF Lines
<1>8. Past'
  BY <1>1 DEF Past
<1>9. /\ \A x, y \in Held' : Apart(x, y)
      /\ \A x, y \in disk' : Apart(x, y)
      /\ \A x \in disk', y \in Held' : Apart(x, y)
  BY <1>1, <1>2, <1>6
<1> QED
  BY <1>1, <1>3, <1>5, <1>7, <1>8, <1>9 DEF Lines

\* A check has no line, and no other step adds an event.
LEMMA LinesStep ==
  ASSUME Inv, Dated, Lines, [Next]_vars
  PROVE  Lines'
<1>0. /\ mem \subseteq Event /\ disk \subseteq Event /\ now \in Int /\ file \subseteq Times
      /\ Times \subseteq Int
      /\ restarts \in 0 .. MaxRestarts /\ pc \in [Threads -> Places]
      /\ "start" \in Threads /\ "tail" \in Threads /\ "checks" \in Threads /\ "main" \in Threads
      /\ \A l \in file : l <= now
  BY DEF Inv, TypeOK, Times, Threads, Counting, Lines
<1>1. ASSUME mem' = mem PROVE Held' \subseteq Held
  BY <1>1, SnapsStep DEF Held
<1>2. ASSUME mem' = mem, UNCHANGED <<now, file, unread, open, cutoff, disk, skipped>>,
             pc'["start"] = pc["start"] \/ pc'["start"] \notin {"cutoff", "scan"}
      PROVE  Lines'
  <2>1. Held' \subseteq Held
    BY <1>1, <1>2
  <2> QED
    BY <1>0, <1>2, <2>1, LinesStay DEF Lines
<1>3. CASE LogLine
  <2>1. /\ UNCHANGED <<now, mem, open, cutoff, pc, disk, skipped>> /\ now \notin file
        /\ file' = file \cup {now} /\ unread' \subseteq unread \cup {now}
    BY <1>3 DEF LogLine, history
  <2>2. Held' \subseteq Held
    BY <1>1, <2>1
  <2>3. unread' \cap file \subseteq unread /\ file \subseteq file'
    BY <2>1
  <2>4. \A l \in file' : l <= now'
    BY <1>0, <2>1
  <2> QED
    BY <2>1, <2>2, <2>3, <2>4, LinesStay DEF Lines
<1>4. CASE Tick
  <2>1. UNCHANGED <<file, unread, open, mem, cutoff, pc, disk, skipped>> /\ now' = now + 1
    BY <1>4 DEF Tick, inputs
  <2>2. Held' \subseteq Held
    BY <1>1, <2>1
  <2>3. \A l \in file' : l <= now'
    BY <1>0, <2>1
  <2> QED
    BY <2>1, <2>2, <2>3, LinesStay DEF Lines
<1>5. CASE RecordCheck
  <2>1. PICK ts \in {now - 1, now} \cap Times : Added({Checked(ts)})
    BY <1>5 DEF RecordCheck
  <2>2. Checked(ts) \in Event /\ Checked(ts).line = NoLine
    BY <1>0, <2>1, Checks
  <2>3. {Checked(ts)} \in SUBSET Event
    BY <2>2
  <2>4. mem' \subseteq mem \cup {Checked(ts)}
    BY <1>0, <2>1, <2>3, Adds
  <2>5. Held' \subseteq Held \cup {Checked(ts)}
    <3>1. snap' = snap
      BY <1>5 DEF RecordCheck, saver
    <3> QED
      BY <2>4, <3>1, HeldStep
  <2>6. \A x \in Held' : x \in Held \/ x.line = NoLine
    BY <2>2, <2>5
  <2>7. /\ UNCHANGED <<now, file, unread, open, cutoff, disk, skipped>>
        /\ pc'["start"] = pc["start"]
    BY <1>0, <1>5 DEF RecordCheck, inputs, Goes
  <2> QED
    BY <1>0, <2>6, <2>7, LinesStay DEF Lines
<1>6. ASSUME NEW t \in Threads, Count(t) \/ Reset(t) \/ Snapshot(t) PROVE Lines'
  <2>1. UNCHANGED <<now, file, unread, open, mem, cutoff, disk, skipped>>
    BY <1>6 DEF Count, Reset, Snapshot, inputs, history
  <2>2. AfterSave(t) \in {"idle", "done", "open", "resave"}
    BY DEF AfterSave
  <2>3. /\ pc' = [pc EXCEPT ![t] = pc'[t]]
        /\ pc'[t] \in {"idle", "tenth", "saving", "writing", AfterSave(t)}
    BY <1>0, <1>6 DEF Count, Reset, Snapshot, Goes
  <2>4. pc'["start"] = pc["start"] \/ pc'["start"] \notin {"cutoff", "scan"}
    BY <1>0, <2>2, <2>3
  <2> QED
    BY <1>2, <2>1, <2>4
<1>7. CASE Resave \/ Signal
  <2>1. UNCHANGED <<now, file, unread, open, mem, cutoff, disk, skipped>>
    BY <1>7 DEF Resave, Signal, inputs, history
  <2>2. pc'["start"] = pc["start"] \/ pc'["start"] \notin {"cutoff", "scan"}
    BY <1>0, <1>7 DEF Resave, Signal, Goes
  <2> QED
    BY <1>2, <2>1, <2>2
<1>8. CASE OpenTail
  <2>1. UNCHANGED <<now, file, unread, mem, cutoff, disk, skipped>> /\ pc'["start"] = "done"
    BY <1>0, <1>8 DEF OpenTail, Goes, history
  <2>2. Held' \subseteq Held
    BY <1>1, <2>1
  <2> QED
    BY <1>0, <2>1, <2>2, LinesStay
<1>9. CASE Exit
  <2>1. /\ UNCHANGED <<now, file, disk>> /\ mem' = {} /\ unread' = {} /\ pc'["start"] = "down"
        /\ \A t \in Threads : snap'[t].events = {}
    BY <1>0, <1>9 DEF Exit, NoSnap
  <2>2. Held' = {}
    BY <2>1 DEF Held, Snapped
  <2> QED
    BY <2>1, <2>2 DEF Lines, Past, Counted
<1>10. CASE UNCHANGED vars
  <2>1. UNCHANGED <<now, file, unread, open, mem, cutoff, pc, disk, skipped>>
    BY <1>10 DEF vars, inputs, history
  <2> QED
    BY <1>2, <2>1
<1> QED
  BY <1>3, <1>4, <1>5, <1>6, <1>7, <1>8, <1>9, <1>10, ReadLineLines, CutoffLines,
     ScanLines, WriteFileLines, BootLines DEF Next

\* A line is counted once, whoever reads it, for any number of lines, restarts,
\* failed writes and files that cannot be read, any zone and length of the year,
\* any retention, and any age at which memory is pruned that is at least a day;
\* unless a start counts it again from a stamp that is ahead of the line.
THEOREM LinesCountOnce == Spec => []LinesCountedOnce
<1>1. Init => Dated /\ Lines
  BY DatedInitially, LinesInitially
<1>2. Inv /\ Dated /\ Lines /\ [Next]_vars => Dated' /\ Lines'
  BY DatedStep, LinesStep
<1>3. Lines => LinesCountedOnce
  BY DEF Lines, LinesCountedOnce, Held, Apart
<1> QED
  BY <1>1, <1>2, <1>3, Invariance, PTL DEF Spec
=============================================================================
