------------------------------ MODULE Scheduler -----------------------------
(***************************************************************************)
(* The check cycle of scheduler.go, with the day files of history.go and   *)
(* restarts of the program.  runAll starts every checker in a goroutine,   *)
(* takes their reports from a channel in the order they finish, applies    *)
(* each report under s.mu, then alerts, and saves today's history.  The    *)
(* pages read under the same lock, hence never in the middle of a report.  *)
(***************************************************************************)
EXTENDS Integers, Sequences, FiniteSets

CONSTANTS Checkers,      \* the names of the configured checkers
          Components,    \* the components their results are about
          Reports,       \* what each checker's Check may return
          Cancelled,     \* what it may return once its context is cancelled
          DayLength,     \* time units of a UTC day
          Threshold,     \* migrationThreshold
          Retention,     \* 7 days, in memory and on disk
          MaxTime,       \* bound on the clock
          MaxRestarts    \* bound on the restarts of the program

None == "none"
Never == -1

Status == {"ok", "warn", "critical", "unknown"}
Result == [component : Components, status : Status]

ASSUME ReportsAssumption ==
  /\ Reports \in [Checkers -> SUBSET Seq(Result)]
  /\ Cancelled \in [Checkers -> SUBSET Seq(Result)]
ASSUME DayLengthAssumption == DayLength \in Nat \ {0}
ASSUME ThresholdAssumption == Threshold \in Nat
ASSUME RetentionAssumption == Retention \in Nat \ {0}
ASSUME MaxTimeAssumption == MaxTime \in Nat
ASSUME MaxRestartsAssumption == MaxRestarts \in Nat

VARIABLES
  now,             \* time.Now()
  pc,              \* where the scheduler's goroutine is
  stopping,        \* main has called cancel()
  running,         \* checkers whose goroutine has not reported yet
  channel,         \* ch: reports in the order they were sent
  batch,           \* results of the report being applied, under s.mu
  results,         \* s.results, a partial function
  previousStatus,  \* s.previousStatus; None where the map has no entry
  criticalSince,   \* s.criticalSince; Never where the map has no entry
  history,         \* s.history
  alerts,          \* the local list of pending alerts
  logRecords,      \* the local list of results for the log timeline
  window,          \* the day GetHistory padded its answer up to, until it is saved
  disk,            \* the day files: day -> components of that day
  saved,           \* history: this process's last Save succeeded, if any
  told,            \* history: the last status alerted by this process
  restarts         \* history: restarts so far

memory == <<results, previousStatus, criticalSince, history>>
pending == <<alerts, logRecords>>
stored == <<disk, saved>>
vars == <<now, pc, stopping, running, channel, batch, memory, pending, window,
          stored, told, restarts>>

Day(t) == t \div DayLength
Today == Day(now)

\* historyPriority: unknown is no data.
Priority(s) ==
  CASE s = "critical" -> 3 [] s = "warn" -> 2 [] s = "ok" -> 1 [] OTHER -> 0

Last(s) == s[Len(s)]

UntrimmedDays(days) ==
  IF days # << >> /\ Last(days).date = Today
  THEN days
  ELSE Append(days, [date |-> Today, status |-> "unknown"])

\* The days of a component that has one for today.
WithToday(days) ==
  IF days # << >> /\ Last(days).date = Today
  THEN days
  ELSE LET more == Append(days, [date |-> Today, status |-> "unknown"])
       IN  IF Len(more) > Retention
           THEN SubSeq(more, Len(more) - Retention + 1, Len(more))
           ELSE more

UpdatedOnce(days, s) ==
  IF s = "unknown"
  THEN days
  ELSE LET more == WithToday(days)
       IN  IF Last(more).status = "unknown"
           THEN [more EXCEPT ![Len(more)].status = s]
           ELSE more

\* updateHistory
Updated(days, s) ==
  IF s = "unknown"
  THEN days
  ELSE LET more == WithToday(days)
       IN  IF Priority(s) > Priority(Last(more).status)
           THEN [more EXCEPT ![Len(more)].status = s]
           ELSE more

\* downgradeHistory
Downgraded(days) ==
  [i \in 1 .. Len(days) |->
     IF days[i].date = Today /\ days[i].status = "critical"
     THEN [days[i] EXCEPT !.status = "ok"]
     ELSE days[i]]

\* The outage that the result r ends was short: a migration, not an incident.
ShortOutage(r) ==
  /\ previousStatus[r.component] = "critical"
  /\ r.status = "ok"
  /\ criticalSince[r.component] # Never
  /\ now - criticalSince[r.component] <= Threshold

EndsOutageOnRecovery(r) ==
  previousStatus[r.component] = "critical" /\ r.status = "ok"

\* A component that has a status changes to one that is not critical.
EndsOutage(r) ==
  /\ previousStatus[r.component] \notin {None, r.status}
  /\ r.status # "critical"

ChangeIsNews(r) == previousStatus[r.component] \notin {None, r.status}

\* processResult announces the first result of a component if it is bad, and
\* then every change.
IsNews(r) ==
  IF previousStatus[r.component] = None
  THEN r.status \in {"critical", "warn"}
  ELSE r.status # previousStatus[r.component]

RawAlertOf(r) ==
  [component |-> r.component, status |-> r.status,
   previous |-> previousStatus[r.component]]

AlertOf(r) ==
  [component |-> r.component,
   status |-> r.status,
   previous |-> IF previousStatus[r.component] = None
                THEN "unknown" ELSE previousStatus[r.component]]

-----------------------------------------------------------------------------
Init ==
  /\ now = 0
  /\ pc = "idle"
  /\ stopping = FALSE
  /\ running = {}
  /\ channel = << >>
  /\ batch = << >>
  /\ results = << >>
  /\ previousStatus = [c \in Components |-> None]
  /\ criticalSince = [c \in Components |-> Never]
  /\ history = [c \in Components |-> << >>]
  /\ alerts = << >>
  /\ logRecords = << >>
  /\ window = 0
  /\ disk = << >>
  /\ saved = TRUE
  /\ told = [c \in Components |-> None]
  /\ restarts = 0

\* Start: the first cycle at once, the next ones at the ticks.  After cancel()
\* the select may still pick a tick that is due.
StartCycle ==
  /\ pc = "idle"
  /\ pc' = "collecting"
  /\ running' = Checkers
  /\ UNCHANGED <<now, stopping, channel, batch, memory, pending, window,
                stored, told, restarts>>

\* A check ends, by itself or because its context was cancelled.
Finish(k) ==
  /\ k \in running
  /\ running' = running \ {k}
  /\ \E report \in Reports[k] \cup (IF stopping THEN Cancelled[k] ELSE {}) :
       channel' = Append(channel, [name |-> k, results |-> report])
  /\ UNCHANGED <<now, pc, stopping, batch, memory, pending, window, stored,
                told, restarts>>

ReceiveOnce ==
  /\ pc = "collecting"
  /\ batch = << >>
  /\ channel # << >>
  /\ channel' = Tail(channel)
  /\ batch' = Head(channel).results
  /\ results' = [k \in DOMAIN results \cup {Head(channel).name} |->
                   IF k \in DOMAIN results THEN results[k] ELSE Head(channel).results]
  /\ UNCHANGED <<now, pc, stopping, running, previousStatus, criticalSince,
                history, pending, window, stored, told, restarts>>

\* The collector takes s.mu and replaces the results of one checker.
Receive ==
  /\ pc = "collecting"
  /\ batch = << >>
  /\ channel # << >>
  /\ channel' = Tail(channel)
  /\ batch' = Head(channel).results
  /\ results' = [k \in DOMAIN results \cup {Head(channel).name} |->
                   IF k = Head(channel).name THEN Head(channel).results ELSE results[k]]
  /\ UNCHANGED <<now, pc, stopping, running, previousStatus, criticalSince,
                history, pending, window, stored, told, restarts>>

\* One result of the report, still under s.mu: updateHistory and processResult.
Apply ==
  /\ pc = "collecting"
  /\ batch # << >>
  /\ LET r == Head(batch)
         c == r.component
         days == Updated(history[c], r.status)
     IN  /\ history' = [history EXCEPT ![c] =
                          IF ShortOutage(r) THEN Downgraded(days) ELSE days]
         /\ criticalSince' = [criticalSince EXCEPT ![c] =
                                IF r.status = "critical"
                                THEN IF @ = Never THEN now ELSE @
                                ELSE IF EndsOutage(r) THEN Never ELSE @]
         /\ previousStatus' = [previousStatus EXCEPT ![c] = r.status]
         /\ alerts' = IF IsNews(r) THEN Append(alerts, AlertOf(r)) ELSE alerts
         /\ logRecords' = IF r.status \in {"warn", "critical"}
                          THEN Append(logRecords, r) ELSE logRecords
  /\ batch' = Tail(batch)
  /\ UNCHANGED <<now, pc, stopping, running, channel, results, window, stored,
                told, restarts>>

\* The channel is closed once every checker has reported.
Collected ==
  /\ pc = "collecting"
  /\ running = {} /\ channel = << >> /\ batch = << >>
  /\ pc' = "alerting"
  /\ UNCHANGED <<now, stopping, running, channel, batch, memory, pending,
                window, stored, told, restarts>>

\* One alert at a time and without the lock; a failure is logged, not retried.
SendAlert ==
  /\ pc = "alerting"
  /\ alerts # << >>
  /\ told' = [told EXCEPT ![Head(alerts).component] = Head(alerts).status]
  /\ alerts' = Tail(alerts)
  /\ UNCHANGED <<now, pc, stopping, running, channel, batch, memory,
                logRecords, window, stored, restarts>>

\* RecordCheckResult takes the bad results one by one, once all is alerted.
Record ==
  /\ pc = "alerting"
  /\ alerts = << >>
  /\ logRecords # << >>
  /\ logRecords' = Tail(logRecords)
  /\ UNCHANGED <<now, pc, stopping, running, channel, batch, memory, alerts,
                 window, stored, told, restarts>>

\* After that, GetHistory pads every component up to the present day.
GetHistory ==
  /\ pc = "alerting"
  /\ alerts = << >>
  /\ logRecords = << >>
  /\ window' = Today
  /\ pc' = "saving"
  /\ UNCHANGED <<now, stopping, running, channel, batch, memory, pending,
                stored, told, restarts>>

\* The components that have a status for today in the answer of GetHistory.
Known == {c \in Components :
            \E i \in DOMAIN history[c] : /\ history[c][i].date = Today
                                         /\ history[c][i].status # "unknown"}

StatusToday(c) ==
  LET i == CHOOSE j \in DOMAIN history[c] : history[c][j].date = Today
  IN  history[c][i].status

\* Today, read again by Save, is past the window or has no status yet.
NothingToSave == window # Today \/ Known = {}

SaveOnceADay ==
  /\ pc = "saving"
  /\ disk' = IF NothingToSave \/ Today \in DOMAIN disk
             THEN disk
             ELSE [d \in DOMAIN disk \cup {Today} |->
                     IF d = Today THEN [c \in Known |-> StatusToday(c)] ELSE disk[d]]
  /\ saved' = TRUE
  /\ window' = 0
  /\ pc' = "idle"
  /\ UNCHANGED <<now, stopping, running, channel, batch, memory, pending, told,
                restarts>>

\* HistoryStore.Save: today's file is replaced by a rename.
Save ==
  /\ pc = "saving"
  /\ disk' = IF NothingToSave
             THEN disk
             ELSE [d \in DOMAIN disk \cup {Today} |->
                     IF d = Today THEN [c \in Known |-> StatusToday(c)] ELSE disk[d]]
  /\ saved' = TRUE
  /\ window' = 0
  /\ pc' = "idle"
  /\ UNCHANGED <<now, stopping, running, channel, batch, memory, pending, told,
                restarts>>

\* The write or the rename fails, which is logged; the file stays as it was.
SaveFails ==
  /\ pc = "saving"
  /\ saved' = FALSE
  /\ window' = 0
  /\ pc' = "idle"
  /\ UNCHANGED <<now, stopping, running, channel, batch, memory, pending, disk,
                told, restarts>>

Tick ==
  /\ now < MaxTime
  /\ now' = now + 1
  /\ UNCHANGED <<pc, stopping, running, channel, batch, memory, pending,
                window, stored, told, restarts>>

\* main receives a signal and cancels the context everything runs under.
Cancel ==
  /\ pc # "down"
  /\ ~stopping
  /\ stopping' = TRUE
  /\ UNCHANGED <<now, pc, running, channel, batch, memory, pending, window,
                stored, told, restarts>>

\* Start returns; the cycle under way when it was cancelled has run to its end.
Return ==
  /\ stopping
  /\ pc = "idle"
  /\ pc' = "returned"
  /\ UNCHANGED <<now, stopping, running, channel, batch, memory, pending,
                window, stored, told, restarts>>

\* The process ends, killed or because main returned, wherever it is.
Exit ==
  /\ pc # "down"
  /\ restarts < MaxRestarts
  /\ restarts' = restarts + 1
  /\ pc' = "down"
  /\ stopping' = FALSE
  /\ running' = {}
  /\ channel' = << >>
  /\ batch' = << >>
  /\ alerts' = << >>
  /\ logRecords' = << >>
  /\ results' = << >>
  /\ previousStatus' = [c \in Components |-> None]
  /\ criticalSince' = [c \in Components |-> Never]
  /\ history' = [c \in Components |-> << >>]
  /\ told' = [c \in Components |-> None]
  /\ window' = 0
  /\ UNCHANGED <<now, stored>>

\* The day files that hold a status of c, oldest first, by sort.Slice.
DaysOnDisk(files, c) ==
  {[date |-> d, status |-> files[d][c]] : d \in {x \in DOMAIN files : c \in DOMAIN files[x]}}

OldestFirst(days) ==
  {s \in [1 .. Cardinality(days) -> days] :
     \A i, j \in DOMAIN s : i < j => s[i].date < s[j].date}

Kept(files, days) == [d \in DOMAIN files \cap days |-> files[d]]

\* NewScheduler and HistoryStore.Load.  Older files are deleted.  Of the others,
\* those of the days in `read` count; one that cannot be read or parsed, or is of
\* another machine, is passed over and stays where it is, until it is replaced.
BootReading(read) ==
  /\ pc = "down"
  /\ pc' = "idle"
  /\ saved' = TRUE
  /\ disk' = Kept(disk, {d \in DOMAIN disk : d > Today - Retention})
  /\ LET files == Kept(disk', read)
     IN  history' \in
           {f \in [Components -> UNION {OldestFirst(DaysOnDisk(files, c)) : c \in Components}] :
              \A c \in Components : f[c] \in OldestFirst(DaysOnDisk(files, c))}
  /\ UNCHANGED <<now, stopping, running, channel, batch, results,
                previousStatus, criticalSince, pending, window, told,
                restarts>>

Boot == \E read \in SUBSET DOMAIN disk : BootReading(read)

Next ==
  \/ StartCycle
  \/ \E k \in Checkers : Finish(k)
  \/ Receive
  \/ Apply
  \/ Collected
  \/ SendAlert
  \/ Record
  \/ GetHistory
  \/ Save
  \/ SaveFails
  \/ Tick
  \/ Cancel
  \/ Return
  \/ Exit
  \/ Boot

Spec == Init /\ [][Next]_vars
-----------------------------------------------------------------------------
Days == Seq([date : Nat, status : Status])

\* Shapes of the maps and lists; results of unknown components are impossible.
TypeOK ==
  /\ now \in 0 .. MaxTime
  /\ pc \in {"down", "idle", "collecting", "alerting", "saving", "returned"}
  /\ stopping \in BOOLEAN
  /\ running \subseteq Checkers
  /\ channel \in Seq([name : Checkers, results : Seq(Result)])
  /\ batch \in Seq(Result)
  /\ DOMAIN results \subseteq Checkers
  /\ results \in [DOMAIN results -> Seq(Result)]
  /\ previousStatus \in [Components -> Status \cup {None}]
  /\ criticalSince \in [Components -> (0 .. MaxTime) \cup {Never}]
  /\ history \in [Components -> Days]
  /\ alerts \in Seq([component : Components, status : Status, previous : Status])
  /\ logRecords \in Seq(Result)
  /\ window \in Nat
  /\ DOMAIN disk \subseteq Nat
  /\ \A d \in DOMAIN disk : /\ DOMAIN disk[d] \subseteq Components
                            /\ disk[d] \in [DOMAIN disk[d] -> Status \ {"unknown"}]
  /\ saved \in BOOLEAN
  /\ told \in [Components -> Status \cup {None}]
  /\ restarts \in 0 .. MaxRestarts

\* An outage is timed while, and only while, its component is critical, from a
\* moment that is past: the start of one outage never serves for another.
OutageIsTimed ==
  \A c \in Components :
    /\ criticalSince[c] # Never <=> previousStatus[c] = "critical"
    /\ criticalSince[c] <= now

\* The places in a list of alerts or results that are about c.
About(list, c) == {i \in DOMAIN list : list[i].component = c}

\* Who reads the alerts, and counts the pending ones, knows the present status
\* of every component: the latest alert about it says it, and there is none
\* only while it has never been bad.  Each alert continues the one before.
AlertsTellStatus ==
  \A c \in Components :
    LET of == About(alerts, c) IN
    /\ of = {} =>
         \/ told[c] = previousStatus[c]
         \/ told[c] = None /\ previousStatus[c] \in {None, "ok", "unknown"}
    /\ \A i \in of :
         /\ (\A j \in of : j <= i) => alerts[i].status = previousStatus[c]
         /\ (\A j \in of : i <= j) =>
              \/ told[c] = alerts[i].previous
              \/ told[c] = None /\ alerts[i].previous \in {"ok", "unknown"}
    /\ \A h, i \in of :
         (h < i /\ \A j \in of : j <= h \/ i <= j) =>
           alerts[i].previous = alerts[h].status

\* The page and /healthz show of every component the status that was judged last,
\* which alerts and history are about, in the midst of a cycle too: a report takes
\* the place of the one before, the components that it leaves out included.
PageAgrees ==
  batch = << >> =>
    \A k \in DOMAIN results : \A i \in DOMAIN results[k] :
      LET c == results[k][i].component IN
        (\A j \in About(results[k], c) : j <= i) => results[k][i].status = previousStatus[c]

\* Days are recorded once each, in order and never ahead of the clock, across
\* midnights and restarts: updateHistory looks at the last one only.
HistoryInOrder ==
  \A c \in Components :
    /\ Len(history[c]) <= Retention
    /\ \A i \in DOMAIN history[c] : history[c][i].date <= Today
    /\ \A i, j \in DOMAIN history[c] : i < j => history[c][i].date < history[c][j].date

\* Between two cycles the file of the present day holds what memory holds of
\* it unless the last Save failed, so a crash then costs nothing of today, and
\* one good Save makes up for all the failed ones before it.
SavedBetweenCycles ==
  (pc \in {"idle", "returned"} /\ saved) =>
    \A c \in Components : \A i \in DOMAIN history[c] :
      (history[c][i].date = Today /\ history[c][i].status # "unknown") =>
        /\ Today \in DOMAIN disk
        /\ c \in DOMAIN disk[Today]
        /\ disk[Today][c] = history[c][i].status

\* Alerts are sent when statuses change: where every check returns the same at
\* every cycle, what was alerted once is not alerted again.
SteadyIsQuiet ==
  ((\A k \in Checkers : Cardinality(Reports[k]) = 1) /\ pc = "collecting") =>
    \A i \in DOMAIN alerts : told[alerts[i].component] = None
=============================================================================
