----------------------------- MODULE LogPersist ----------------------------
(***************************************************************************)
(* How the log timeline outlives the process (logwatch.go): the goroutines *)
(* that add events and save at every tenth, the day files, and what a      *)
(* start reads back from them and from the end of the log file.  LogBuffer *)
(* has the aggregation; here an event is just what was seen and when, and  *)
(* belongs to the file of the day of its time stamp.  One tailed file      *)
(* stands for all, with at most one matching line a second, known by it.   *)
(***************************************************************************)
EXTENDS Integers, FiniteSets

CONSTANTS SaveEvery,   \* events between two saves: 10 in the code
          DayLength,   \* seconds of a UTC day
          Retention,   \* logRetentionDays
          MaxAge,      \* logBufferMaxAge, in seconds
          Zone,        \* what the stamps in the log file are ahead of UTC
          Yearless,    \* whether they have no year, as those of syslog
          YearLength,  \* seconds of a year
          MaxTime,     \* bound on the clock
          MaxLines,    \* bound on the lines logged
          MaxRestarts  \* bound on the restarts of the program

ASSUME SaveEveryAssumption == SaveEvery \in Nat \ {0}
ASSUME DayLengthAssumption == DayLength \in Nat \ {0}
ASSUME RetentionAssumption == Retention \in Nat
ASSUME MaxAgeAssumption == MaxAge \in Nat /\ MaxAge >= DayLength
ASSUME YearlessAssumption == Yearless \in BOOLEAN
ASSUME YearLengthAssumption == YearLength \in Nat \ {0}
ASSUME ZoneAssumption == Zone \in Int /\ Zone > -YearLength
ASSUME MaxTimeAssumption == MaxTime \in Nat
ASSUME MaxLinesAssumption == MaxLines \in Nat
ASSUME MaxRestartsAssumption == MaxRestarts \in Nat

None == "none"
NoLine == -1

\* The goroutines: two that count their events, the start of the log watcher,
\* and main, which saves once more at a signal.
Counting == {"tail", "checks"}
Threads == Counting \cup {"start", "main"}

VARIABLES
  now,       \* time.Now(), in seconds
  file,      \* the lines of the log file
  unread,    \* lines behind the offset of the tail, once it is open
  open,      \* the tail has opened the file
  pc,        \* where each goroutine is
  resaved,   \* Start is past its scan
  cutoff,    \* local to scanRecent
  mem,       \* the events in lw.buffer
  saveN,     \* lw.saveN
  saveMu,    \* the goroutine that holds lw.saveMu, or None
  snap,      \* the day a saver writes and its events of that day
  disk,      \* the events in the day files
  fresh,     \* history: events of today counted since the last snapshot
  skipped,   \* history: days whose file this process did not load, nor write yet
  restarts   \* history: restarts so far

inputs == <<file, unread, open>>
saver == <<saveN, saveMu, snap>>
history == <<fresh, skipped>>
vars == <<now, inputs, pc, resaved, cutoff, mem, saver, disk, history, restarts>>

Day(t) == t \div DayLength
Today == Day(now)

Times == 0 .. MaxTime
Event == [line : Times \cup {NoLine}, ts : Int, by : {"tail", "scan", "check"},
          life : 0 .. MaxRestarts]

\* A line that is counted, and a check, which is known by its time alone.
Seen(l, t, who) == [line |-> l, ts |-> t, by |-> who, life |-> restarts]
Checked(t) == [line |-> NoLine, ts |-> t, by |-> "check", life |-> 0]

OfDay(events, d) == {e \in events : Day(e.ts) = d}
DaysOf(events) == {Day(e.ts) : e \in events}
NoSnap == [day |-> 0, events |-> {}]

Later(x, y) == IF x > y THEN x ELSE y

Goes(t, where) == pc' = [pc EXCEPT ![t] = where]

\* AddEvent for each of the events; one of them may prune what is then too old.
Added(events) ==
  \/ mem' = mem \cup events
  \/ \E late \in SUBSET events :
       mem' = {e \in mem \cup events : e.ts >= now - MaxAge} \cup late

\* parseLogTimestamp: the time stamp of a line is read as if UTC, and one without
\* a year as of the present year of the machine's clock, whenever it was written.
Stamp(l) ==
  IF Yearless
  THEN YearLength * ((now + Zone) \div YearLength) + ((l + Zone) % YearLength)
  ELSE l + Zone

\* MaxLastSeen of the buffer that has the events; none for the zero time.
MaxLastSeen == {t \in {e.ts : e \in mem} : \A e \in mem : e.ts <= t}
-----------------------------------------------------------------------------
Started == [t \in Threads |-> IF t = "start" THEN "cutoff" ELSE "idle"]

Init ==
  /\ now = 0
  /\ file = {} /\ unread = {} /\ open = FALSE
  /\ pc = Started
  /\ resaved = FALSE
  /\ cutoff = 0
  /\ mem = {}
  /\ saveN = 0
  /\ saveMu = None
  /\ snap = [t \in Threads |-> NoSnap]
  /\ disk = {}
  /\ fresh = 0 /\ skipped = {}
  /\ restarts = 0

\* The service logs a line that matches a pattern.
LogLine ==
  /\ now \notin file /\ Cardinality(file) < MaxLines
  /\ file' = file \cup {now}
  /\ unread' = IF open THEN unread \cup {now} ELSE unread
  /\ UNCHANGED <<now, open, pc, resaved, cutoff, mem, saver, disk, history, restarts>>

\* matchLine: the event is stamped with the time at which it is read.
ReadLine ==
  /\ pc["tail"] = "idle"
  /\ \E l \in unread :
       /\ \A m \in unread : l <= m
       /\ unread' = unread \ {l}
       /\ Added({Seen(l, now, "tail")})
  /\ fresh' = fresh + 1
  /\ Goes("tail", "added")
  /\ UNCHANGED <<now, file, open, resaved, cutoff, saver, disk, skipped, restarts>>

\* RecordCheckResult: the event is stamped with the time of the check, which may
\* be past, and even of yesterday, when its cycle comes to record it.
RecordCheck ==
  /\ pc["checks"] = "idle"
  /\ \E checkedAt \in {now - 1, now} \cap Times :
       /\ Added({Checked(checkedAt)})
       /\ fresh' = IF Day(checkedAt) = Today THEN fresh + 1 ELSE fresh
  /\ Goes("checks", "added")
  /\ UNCHANGED <<now, inputs, resaved, cutoff, saver, disk, skipped, restarts>>

\* saveN.Add(1) >= 10
Count(t) ==
  /\ pc[t] = "added"
  /\ saveN' = saveN + 1
  /\ Goes(t, IF saveN + 1 >= SaveEvery THEN "tenth" ELSE "idle")
  /\ UNCHANGED <<now, inputs, resaved, cutoff, mem, saveMu, snap, disk, history, restarts>>

\* saveN.Store(0), apart from the addition: others may have counted since.
Reset(t) ==
  /\ pc[t] = "tenth"
  /\ saveN' = 0
  /\ Goes(t, "saving")
  /\ UNCHANGED <<now, inputs, resaved, cutoff, mem, saveMu, snap, disk, history, restarts>>

AfterSave(t) ==
  CASE t \in Counting -> "idle"
    [] t = "main" -> "done"
    [] OTHER -> IF resaved THEN "open" ELSE "resave"

SnapshotUnlocked(t) ==
  /\ pc[t] = "saving"
  /\ OfDay(mem, Today) # {}
  /\ fresh' = 0
  /\ saveMu' = t
  /\ snap' = [snap EXCEPT ![t] = [day |-> Today, events |-> OfDay(mem, Today)]]
  /\ Goes(t, "writing")
  /\ UNCHANGED <<now, inputs, resaved, cutoff, mem, saveN, disk, skipped, restarts>>

\* saveLogs, up to the entries of today; without one it returns at once.
Snapshot(t) ==
  /\ pc[t] = "saving"
  /\ saveMu = None
  /\ fresh' = 0
  /\ IF OfDay(mem, Today) = {}
     THEN /\ Goes(t, AfterSave(t))
          /\ UNCHANGED <<saveMu, snap>>
     ELSE /\ saveMu' = t
          /\ snap' = [snap EXCEPT ![t] = [day |-> Today, events |-> OfDay(mem, Today)]]
          /\ Goes(t, "writing")
  /\ UNCHANGED <<now, inputs, resaved, cutoff, mem, saveN, disk, skipped, restarts>>

\* The file of the day of a snapshot has what the snapshot has.
Replaced(t) ==
  /\ disk' = (disk \ OfDay(disk, snap[t].day)) \cup snap[t].events
  /\ skipped' = skipped \ {snap[t].day}

WriteAndReset(t) ==
  /\ pc[t] = "writing"
  /\ Replaced(t)
  /\ snap' = [snap EXCEPT ![t] = NoSnap]
  /\ saveN' = 0
  /\ saveMu' = None
  /\ Goes(t, AfterSave(t))
  /\ UNCHANGED <<now, inputs, resaved, cutoff, mem, fresh, restarts>>

WriteOrKeepLock(t) ==
  /\ pc[t] = "writing"
  /\ \/ Replaced(t) /\ saveMu' = None
     \/ UNCHANGED <<disk, skipped, saveMu>>
  /\ snap' = [snap EXCEPT ![t] = NoSnap]
  /\ Goes(t, AfterSave(t))
  /\ UNCHANGED <<now, inputs, resaved, cutoff, mem, saveN, fresh, restarts>>

\* The file of that day is replaced by a rename, or one of the steps fails,
\* which is ignored.
WriteFile(t) ==
  /\ pc[t] = "writing"
  /\ Replaced(t) \/ UNCHANGED <<disk, skipped>>
  /\ snap' = [snap EXCEPT ![t] = NoSnap]
  /\ saveMu' = None
  /\ Goes(t, AfterSave(t))
  /\ UNCHANGED <<now, inputs, resaved, cutoff, mem, saveN, fresh, restarts>>

CutoffAtLastSeen ==
  /\ pc["start"] = "cutoff"
  /\ cutoff' \in IF mem = {} THEN {now - DayLength} ELSE MaxLastSeen
  /\ Goes("start", "scan")
  /\ UNCHANGED <<now, inputs, resaved, mem, saver, disk, history, restarts>>

\* scanRecent: a day back at most, and a second past the last event loaded,
\* which may be at any fraction of its own second.
Cutoff ==
  /\ pc["start"] = "cutoff"
  /\ \/ mem = {} /\ cutoff' = now - DayLength
     \/ \E last \in MaxLastSeen, fraction \in {0, 1} :
          cutoff' = Later(last + 1 + fraction, now - DayLength)
  /\ Goes("start", "scan")
  /\ UNCHANGED <<now, inputs, resaved, mem, saver, disk, history, restarts>>

\* scanFile: events carry the time stamps of their lines.
Scan ==
  /\ pc["start"] = "scan"
  /\ LET found == {l \in file : Stamp(l) >= cutoff} IN
       /\ Added({Seen(l, Stamp(l), "scan") : l \in found})
       /\ Goes("start", IF found = {} THEN "resave" ELSE "saving")
  /\ cutoff' = 0
  /\ UNCHANGED <<now, inputs, resaved, saver, disk, history, restarts>>

Resave ==
  /\ pc["start"] = "resave"
  /\ resaved' = TRUE
  /\ Goes("start", IF mem = {} THEN "open" ELSE "saving")
  /\ UNCHANGED <<now, inputs, cutoff, mem, saver, disk, history, restarts>>

\* tailFile opens the file at its end.
OpenTail ==
  /\ pc["start"] = "open"
  /\ open' = TRUE
  /\ resaved' = FALSE
  /\ Goes("start", "done")
  /\ UNCHANGED <<now, file, unread, cutoff, mem, saver, disk, history, restarts>>

\* main cancels the context and flushes; the other goroutines may go on.
Signal ==
  /\ pc["main"] = "idle"
  /\ Goes("main", "saving")
  /\ UNCHANGED <<now, inputs, resaved, cutoff, mem, saver, disk, history, restarts>>

\* The process ends, killed or because main has returned.
Exit ==
  /\ restarts < MaxRestarts
  /\ \E t \in Threads : pc[t] # "down"
  /\ pc' = [t \in Threads |-> "down"]
  /\ unread' = {} /\ open' = FALSE
  /\ resaved' = FALSE /\ cutoff' = 0
  /\ mem' = {}
  /\ saveN' = 0 /\ saveMu' = None /\ snap' = [t \in Threads |-> NoSnap]
  /\ fresh' = 0 /\ skipped' = {}
  /\ UNCHANGED <<now, file, disk, restarts>>

\* NewLogWatcher, with loadLogs: older files are deleted and the others loaded; but
\* a file may not be deleted, and one that cannot be read or parsed, or is of another
\* machine, is passed over, as all are where the directory cannot be read.
Boot ==
  /\ \A t \in Threads : pc[t] = "down"
  /\ pc' = Started
  /\ restarts' = restarts + 1
  /\ LET old == {d \in DaysOf(disk) : d < Today - Retention} IN
       \E left \in SUBSET old, read \in SUBSET (DaysOf(disk) \ old) :
         /\ disk' = {e \in disk : Day(e.ts) \notin old \ left}
         /\ mem' = {e \in disk : Day(e.ts) \in read}
         /\ skipped' = DaysOf(disk') \ read
  /\ UNCHANGED <<now, inputs, resaved, cutoff, saver, fresh>>

Tick ==
  /\ now < MaxTime
  /\ now' = now + 1
  /\ fresh' = IF Day(now + 1) = Today THEN fresh ELSE 0
  /\ UNCHANGED <<inputs, pc, resaved, cutoff, mem, saver, disk, skipped, restarts>>

Next ==
  \/ LogLine \/ Tick
  \/ ReadLine \/ RecordCheck
  \/ \E t \in Threads : Count(t) \/ Reset(t) \/ Snapshot(t) \/ WriteFile(t)
  \/ Cutoff \/ Scan \/ Resave \/ OpenTail
  \/ Signal \/ Exit \/ Boot

Spec == Init /\ [][Next]_vars
-----------------------------------------------------------------------------
\* Among the shapes: a saver has the lock for as long as it writes.
TypeOK ==
  /\ now \in Times
  /\ file \subseteq Times /\ unread \subseteq file /\ open \in BOOLEAN
  /\ pc \in [Threads -> {"down", "idle", "added", "tenth", "saving", "writing",
                         "cutoff", "scan", "resave", "open", "done"}]
  /\ resaved \in BOOLEAN
  /\ cutoff \in Int
  /\ mem \subseteq Event
  /\ saveN \in Nat
  /\ saveMu \in Threads \cup {None}
  /\ \A t \in Threads : pc[t] = "writing" <=> saveMu = t
  /\ snap \in [Threads -> [day : Int, events : SUBSET Event]]
  /\ disk \subseteq Event
  /\ fresh \in Nat /\ skipped \subseteq Int
  /\ restarts \in 0 .. MaxRestarts

\* The counter is read and reset by two operations of several goroutines, and
\* still loses no event: unless a save is due, the events of today that no save
\* has seen are those it counts and those about to be counted, fewer than ten
\* and one for each goroutine.
UnsavedBounded ==
  (\A t \in Counting : pc[t] \notin {"tenth", "saving"}) =>
    /\ fresh <= saveN + Cardinality({t \in Counting : pc[t] = "added"})
    /\ saveN < SaveEvery

\* A day file only grows while it is kept: no saver replaces it by an older
\* snapshot, and a restart first loads what it will overwrite, unless it could
\* not read the file.
DayFilesGrow ==
  [][\A e \in disk : (Day(e.ts) >= Today - Retention /\ Day(e.ts) \notin skipped) => e \in disk']_vars

\* y counts the line of x again, from a stamp that is ahead of the line itself.
DatedAhead(x, y) == y.by = "scan" /\ y.ts > x.ts /\ y.ts > y.line

\* A line of the log file is counted once, in memory and on disk, whether the
\* tail read it, a start scanned it or a file had it, however often the program
\* was restarted in between.  A second time only a start counts it, one that
\* takes it for newer than it is: the cutoff of scanRecent, which by its comment
\* prevents double counting, is no help where the stamps are ahead of UTC, or
\* have no year and are of the last one.
LinesCountedOnce ==
  \A events \in {mem, disk} : \A x, y \in events :
    (x.line = y.line /\ x.line # NoLine) => x = y \/ DatedAhead(x, y) \/ DatedAhead(y, x)
=============================================================================
