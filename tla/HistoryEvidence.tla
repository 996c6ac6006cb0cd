--------------------------- MODULE HistoryEvidence --------------------------
(***************************************************************************)
(* Scheduler with a record of what the checks really returned, to judge    *)
(* the seven-day history by: HistoryDay promises the worst status seen for *)
(* a component on a date, and migrationThreshold to forget that date when  *)
(* an outage ends within it.                                               *)
(***************************************************************************)
EXTENDS Scheduler

VARIABLES seen,    \* <<day, component, status>>: the worst status returned that day since
                   \* the last short outage ended on it
          durable, \* seen, of each day, when the file of that day was last written
          since    \* start of the critical results that go on, in this process, or Never

evidence == <<seen, durable, since>>

NoOutage == [c \in Components |-> Never]

EInit == Init /\ seen = {} /\ durable = {} /\ since = NoOutage

SeenOn(d, c) == {s \in Status : <<d, c, s>> \in seen}

Worst(statuses) ==
  CHOOSE s \in statuses : \A t \in statuses : Priority(t) <= Priority(s)

\* The result r ends an outage that lasted no longer than the threshold.
EndsShortOutage(r) ==
  r.status = "ok" /\ since[r.component] # Never /\ now - since[r.component] <= Threshold

\* A result counts for the day it is applied; unknown is no data.
Observe ==
  LET r == Head(batch)
      c == r.component
      before == IF EndsShortOutage(r) THEN {} ELSE SeenOn(Today, c)
  IN  /\ seen' = IF r.status = "unknown" THEN seen
                 ELSE {t \in seen : t[1] # Today \/ t[2] # c}
                        \cup {<<Today, c, Worst(before \cup {r.status})>>}
      /\ since' = [since EXCEPT ![c] = IF r.status # "critical" THEN Never
                                      ELSE IF @ = Never THEN now ELSE @]
      /\ UNCHANGED durable

Written ==
  /\ durable' = IF NothingToSave THEN durable
                ELSE {t \in durable : t[1] # Today} \cup {t \in seen : t[1] = Today}
  /\ UNCHANGED <<seen, since>>

\* What was in memory only is gone, and with it the claim to be remembered.
Lost ==
  /\ seen' = {}
  /\ since' = NoOutage
  /\ UNCHANGED durable

\* What is left of the files is durable, and what they had that were read is remembered.
Remembered(read) ==
  /\ durable' = {t \in durable : t[1] > Today - Retention}
  /\ seen' = {t \in durable' : t[1] \in read}
  /\ UNCHANGED since

Judged == Apply /\ Observe

Loaded == \E read \in SUBSET DOMAIN disk : BootReading(read) /\ Remembered(read)

Unjudged ==
  \/ Save /\ Written
  \/ Exit /\ Lost
  \/ /\ \/ StartCycle \/ Receive \/ Collected \/ SendAlert \/ Record
        \/ GetHistory \/ SaveFails \/ Tick \/ Cancel \/ Return
        \/ \E k \in Checkers : Finish(k)
     /\ UNCHANGED evidence

ENext == Judged \/ Loaded \/ Unjudged

ESpec == EInit /\ [][ENext]_<<vars, evidence>>
-----------------------------------------------------------------------------
\* Every day in the history has the worst status that the checks returned on that
\* day since the last short outage that ended on it, or of the whole day if none did;
\* no status is carried over from another day, and no day of the last Retention is
\* missing, after restarts as before, unless its file could not be read.
HistoryExplained ==
  pc # "down" =>
    \A c \in Components :
      /\ \A i \in DOMAIN history[c] : SeenOn(history[c][i].date, c) = {history[c][i].status}
      /\ \A t \in seen :
           (t[2] = c /\ t[1] > Today - Retention) => \E i \in DOMAIN history[c] : history[c][i].date = t[1]
=============================================================================
