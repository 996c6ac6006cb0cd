------------------------------- MODULE Syncer ------------------------------
(***************************************************************************)
(* The journal sync of sync.go.  Its callers are the initial and the       *)
(* hourly sync of main.go and the POST handlers; one of them at a time     *)
(* reads the journal from where the last sync completed up to the present, *)
(* in chunks, with two runs of journalctl for each.                        *)
(*                                                                         *)
(* Time is counted in seconds, as in the arguments given to journalctl:    *)
(* a chunk [from, to) reads the seconds t with from <= t < to.  (What was  *)
(* logged in the very first microsecond of to would be read with both.)    *)
(* Every second has one journal entry of warning or worse, from the kernel *)
(* or not: an entry that is not there can be neither missed nor read       *)
(* twice, and parseJournalLine skips those of a lower level.               *)
(***************************************************************************)
EXTENDS Integers, FiniteSets

CONSTANTS Callers,    \* goroutines that call Sync
          Kernel,     \* the seconds whose entry comes from the kernel
          Window,     \* syncDefaultWindow: 7 days in the code
          Chunk,      \* syncChunkHours: 24 hours in the code
          Day,        \* the seconds of a UTC day
          Clock,      \* the seconds at which the clock may stand
          MaxTime,    \* bound on them
          MaxRestarts \* bound on the restarts of the program

None == "none"
Never == -1

ASSUME NoneAssumption == None \notin Callers
ASSUME WindowAssumption == Window \in Nat \ {0}
ASSUME ChunkAssumption == Chunk \in Nat \ {0}
ASSUME DayAssumption == Day \in Nat \ {0}
ASSUME MaxRestartsAssumption == MaxRestarts \in Nat
ASSUME MaxTimeAssumption == MaxTime \in Nat /\ MaxTime >= Window
ASSUME ClockAssumption == Clock \subseteq Window .. MaxTime

VARIABLES
  now,       \* time.Now()
  runMu,     \* the caller that holds s.runMu, or None
  inFlight,  \* s.inFlight
  lastSync,  \* s.lastSync; Never for the zero time
  lastRes,   \* s.lastRes; its window and its end, without the counters
  pc,        \* where each caller is
  job,       \* the local variables of each caller
  done,      \* callers whose context has been cancelled or has timed out
  fed,       \* the count the buffer has for the entry of each second
  cut,       \* history: seconds of chunks that were not read to their end
  between,   \* history: seconds from the start of a sync to its completion
  stored,    \* the counts in the day files
  loaded,    \* history: the counts this process found there at its start
  restarts   \* history: restarts so far

files == <<stored, loaded, restarts>>
vars == <<now, runMu, inFlight, lastSync, lastRes, pc, job, done, fed, cut, between, files>>

Seconds == 0 .. MaxTime

Lesser(x, y) == IF x < y THEN x ELSE y

\* What a sync publishes of itself, and what it works with.
Outcome == [from : Seconds, to : Seconds, completed : Seconds \cup {Never}]
Job == [from : Seconds, to : Seconds, chunk : Seconds]

NoResult == [from |-> 0, to |-> 0, completed |-> Never]
NoJob == [from |-> 0, to |-> 0, chunk |-> 0]

\* The chunk a caller reads, and all it would read after it.
ChunkEnd(c) == Lesser(job[c].chunk + Chunk, job[c].to)
ThisChunk(c) == job[c].chunk .. ChunkEnd(c) - 1
LaterChunks(c) == ChunkEnd(c) .. job[c].to - 1

\* What the two runs of journalctl over the chunk print: with no selection but
\* the priority, whatever has it; and with -k, what comes from the kernel.
Warnings(c) == ThisChunk(c)
KernelEntries(c) == ThisChunk(c) \cap Kernel

-----------------------------------------------------------------------------
Init ==
  /\ now = Window
  /\ runMu = None
  /\ inFlight = FALSE
  /\ lastSync = Never
  /\ lastRes = NoResult
  /\ pc = [c \in Callers |-> "idle"]
  /\ job = [c \in Callers |-> NoJob]
  /\ done = {}
  /\ fed = [t \in Seconds |-> 0]
  /\ cut = {}
  /\ between = {}
  /\ stored = [t \in Seconds |-> 0]
  /\ loaded = [t \in Seconds |-> 0]
  /\ restarts = 0

EnterUnlocked(c) ==
  /\ pc[c] = "idle"
  /\ runMu' = c
  /\ pc' = [pc EXCEPT ![c] = "entered"]
  /\ UNCHANGED <<now, inFlight, lastSync, lastRes, job, done, fed, cut, between, files>>

\* TryLock.  A caller that finds the lock taken gets ErrSyncInProgress at once
\* and has changed nothing.
Enter(c) ==
  /\ pc[c] = "idle"
  /\ runMu = None
  /\ runMu' = c
  /\ pc' = [pc EXCEPT ![c] = "entered"]
  /\ UNCHANGED <<now, inFlight, lastSync, lastRes, job, done, fed, cut, between, files>>

Mark(c) ==
  /\ pc[c] = "entered"
  /\ inFlight' = TRUE
  /\ pc' = [pc EXCEPT ![c] = "marked"]
  /\ UNCHANGED <<now, runMu, lastSync, lastRes, job, done, fed, cut, between, files>>

LastSyncOnly == lastSync

WindowStart ==
  IF lastSync = Never \/ now - lastSync > Window THEN now - Window ELSE lastSync

\* The window, and its first chunk if it is not empty.
Begin(c) ==
  /\ pc[c] = "marked"
  /\ job' = [job EXCEPT ![c] = [from |-> WindowStart, to |-> now, chunk |-> WindowStart]]
  /\ pc' = [pc EXCEPT ![c] = IF WindowStart < now THEN "userspace" ELSE "completing"]
  /\ UNCHANGED <<now, runMu, inFlight, lastSync, lastRes, done, fed, cut, between, files>>

\* streamJournalctl reads some of the lines and fails or not.  A cancelled
\* context fails it before it starts.  Cancelled later, timed out or past a cap
\* on bytes or lines, it is cut short and does not fail.
Stream(c, lines, read, fails) ==
  /\ c \in done => read = {} /\ fails
  /\ fed' = [t \in Seconds |-> fed[t] + IF t \in read THEN 1 ELSE 0]
  /\ cut' = cut \cup IF fails \/ read # lines THEN ThisChunk(c) ELSE {}

\* syncChunk: the first run of journalctl, and the second if it did not fail.
ReadUserspace(c) ==
  /\ pc[c] = "userspace"
  /\ \E read \in SUBSET Warnings(c), fails \in BOOLEAN :
       /\ Stream(c, Warnings(c), read, fails)
       /\ pc' = [pc EXCEPT ![c] = IF fails THEN "next" ELSE "kernel"]
  /\ UNCHANGED <<now, runMu, inFlight, lastSync, lastRes, job, done, between, files>>

ReadKernel(c) ==
  /\ pc[c] = "kernel"
  /\ \E read \in SUBSET KernelEntries(c), fails \in BOOLEAN :
       Stream(c, KernelEntries(c), read, fails)
  /\ pc' = [pc EXCEPT ![c] = "next"]
  /\ UNCHANGED <<now, runMu, inFlight, lastSync, lastRes, job, done, between, files>>

ReturnLocked(c) ==
  /\ pc[c] = "next"
  /\ job' = [job EXCEPT ![c].chunk = ChunkEnd(c)]
  /\ pc' = [pc EXCEPT ![c] = IF c \in done THEN "idle"
                             ELSE IF ChunkEnd(c) = job[c].to THEN "completing" ELSE "userspace"]
  /\ cut' = cut \cup IF c \in done THEN LaterChunks(c) ELSE {}
  /\ UNCHANGED <<now, runMu, inFlight, lastSync, lastRes, done, fed, between, files>>

ChunkAfterASecond(c) ==
  /\ pc[c] = "next"
  /\ IF c \in done \/ ChunkEnd(c) = job[c].to
     THEN /\ pc' = [pc EXCEPT ![c] = "completing"]
          /\ cut' = cut \cup LaterChunks(c)
          /\ UNCHANGED job
     ELSE /\ pc' = [pc EXCEPT ![c] = "userspace"]
          /\ job' = [job EXCEPT ![c].chunk = ChunkEnd(c) + 1]
          /\ UNCHANGED cut
  /\ UNCHANGED <<now, runMu, inFlight, lastSync, lastRes, done, fed, between, files>>

\* A chunk that failed is passed over; a context that is done ends the loop.
NextChunk(c) ==
  /\ pc[c] = "next"
  /\ IF c \in done \/ ChunkEnd(c) = job[c].to
     THEN /\ pc' = [pc EXCEPT ![c] = "completing"]
          /\ cut' = cut \cup LaterChunks(c)
          /\ UNCHANGED job
     ELSE /\ pc' = [pc EXCEPT ![c] = "userspace"]
          /\ job' = [job EXCEPT ![c].chunk = ChunkEnd(c)]
          /\ UNCHANGED cut
  /\ UNCHANGED <<now, runMu, inFlight, lastSync, lastRes, done, fed, between, files>>

\* lastSync and lastRes change together, however the chunks went.
Complete(c) ==
  /\ pc[c] = "completing"
  /\ lastSync' = now
  /\ lastRes' = [from |-> job[c].from, to |-> job[c].to, completed |-> now]
  /\ between' = between \cup job[c].to .. now - 1
  /\ job' = [job EXCEPT ![c] = NoJob]
  /\ pc' = [pc EXCEPT ![c] = "leaving"]
  /\ UNCHANGED <<now, runMu, inFlight, done, fed, cut, files>>

LeaveMarked(c) ==
  /\ pc[c] = "leaving"
  /\ pc' = [pc EXCEPT ![c] = "unmarked"]
  /\ UNCHANGED <<now, runMu, inFlight, lastSync, lastRes, job, done, fed, cut, between, files>>

\* The deferred calls, the last one first.
Unmark(c) ==
  /\ pc[c] = "leaving"
  /\ inFlight' = FALSE
  /\ pc' = [pc EXCEPT ![c] = "unmarked"]
  /\ UNCHANGED <<now, runMu, lastSync, lastRes, job, done, fed, cut, between, files>>

Leave(c) ==
  /\ pc[c] = "unmarked"
  /\ runMu' = None
  /\ done' = done \ {c}
  /\ pc' = [pc EXCEPT ![c] = "idle"]
  /\ UNCHANGED <<now, inFlight, lastSync, lastRes, job, fed, cut, between, files>>

\* The two minutes of a sync of main.go are over, the client of a handler has
\* gone away, or the program shuts down.
Cancel(c) ==
  /\ pc[c] # "idle"
  /\ c \notin done
  /\ done' = done \cup {c}
  /\ UNCHANGED <<now, runMu, inFlight, lastSync, lastRes, pc, job, fed, cut, between, files>>

Tick ==
  /\ now' \in {t \in Clock : t > now}
  /\ UNCHANGED <<runMu, inFlight, lastSync, lastRes, pc, job, done, fed, cut, between, files>>

\* Whichever goroutine saves the log timeline writes the entries of today.
SaveLogs ==
  /\ stored' = [t \in Seconds |-> IF t \div Day = now \div Day THEN fed[t] ELSE stored[t]]
  /\ UNCHANGED <<now, runMu, inFlight, lastSync, lastRes, pc, job, done, fed, cut, between,
                 loaded, restarts>>

RestartOf(since) ==
  /\ restarts < MaxRestarts
  /\ restarts' = restarts + 1
  /\ runMu' = None
  /\ inFlight' = FALSE
  /\ lastSync' = since
  /\ lastRes' = NoResult
  /\ pc' = [c \in Callers |-> "idle"]
  /\ job' = [c \in Callers |-> NoJob]
  /\ done' = {}
  /\ fed' = stored
  /\ loaded' = stored
  /\ cut' = {}
  /\ between' = {}
  /\ UNCHANGED <<now, stored>>

RestartWhereItWas == RestartOf(lastSync)

\* The process ends at any point and starts again: loadLogs reads the counts back
\* from the day files, and NewSyncer knows nothing of an earlier sync.
Restart == RestartOf(Never)

Step(c) ==
  \/ Mark(c) \/ Begin(c)
  \/ ReadUserspace(c) \/ ReadKernel(c) \/ NextChunk(c)
  \/ Complete(c) \/ Unmark(c) \/ Leave(c)

Next ==
  \/ \E c \in Callers : Enter(c) \/ Step(c) \/ Cancel(c)
  \/ Tick
  \/ SaveLogs
  \/ Restart

Spec == Init /\ [][Next]_vars

\* The one caller that has the lock goes on: journalctl ends or is killed after
\* its 15 s, and no other lock is held for longer than a few assignments.
FairSpec == Spec /\ WF_vars(\E c \in Callers : Step(c))
-----------------------------------------------------------------------------
\* Windows lie in the past; counters count.
TypeOK ==
  /\ now \in Seconds
  /\ runMu \in Callers \cup {None}
  /\ inFlight \in BOOLEAN
  /\ lastSync \in Seconds \cup {Never}
  /\ lastRes \in Outcome
  /\ pc \in [Callers -> {"idle", "entered", "marked", "userspace", "kernel",
                         "next", "completing", "leaving", "unmarked"}]
  /\ job \in [Callers -> Job]
  /\ done \subseteq Callers
  /\ fed \in [Seconds -> Nat]
  /\ cut \subseteq Seconds
  /\ between \subseteq Seconds
  /\ stored \in [Seconds -> Nat]
  /\ loaded \in [Seconds -> Nat]
  /\ restarts \in Nat

\* GET /api/sync tells the truth: a sync is in flight for as long as one reads
\* the journal or publishes its result, and none is once the lock is free,
\* although the flag is set after it is taken and cleared before it is given up.
InFlightIsTrue ==
  /\ inFlight => runMu # None
  /\ \A c \in Callers : pc[c] \notin {"idle", "entered", "unmarked"} => inFlight

\* However syncs of several callers fail, time out, are cancelled or repeated,
\* no second of the journal is read by two of them, or twice by one, in one life
\* of the process: windows do not overlap, nor the chunks of one.  (A kernel entry
\* is printed by both runs.  What was loaded from the day files is read once more.)
CountedOnce ==
  \A t \in Seconds : fed[t] <= loaded[t] + IF t \in Kernel THEN 2 ELSE 1

\* Once a sync has completed, the buffer has every entry of the seconds before it
\* as far back as a window goes, whatever this process missed, its predecessor had
\* not saved when it was killed, or an earlier sync of another caller left over:
\* but for chunks that failed, were cut short or given up, and for what was logged
\* while a sync was under way.
WeekIsCovered ==
  lastSync # Never =>
    \A t \in (lastSync - Window .. lastSync - 1) \ (cut \cup between) : fed[t] > 0

\* A sync that begins ends and lets the next one in.
SyncEnds == runMu # None ~> runMu = None
=============================================================================
