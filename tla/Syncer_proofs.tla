---------------------------- MODULE Syncer_proofs ---------------------------
(***************************************************************************)
(* The theorems of Syncer.  One caller at a time has a window, the windows *)
(* lie one after another, and the caller's frontier moves through its own: *)
(* nothing at or past it has been read yet, and everything before it has,  *)
(* except in chunks that were cut.  A window either joins the last one or  *)
(* is as long as windows get, so each sync that completes hands on to the  *)
(* next what it and those before it have read.                             *)
(***************************************************************************)
EXTENDS Syncer, TLAPS

Reading == {"userspace", "kernel", "next"}
InWindow == Reading \cup {"completing"}
InSync == InWindow \cup {"marked", "leaving"}

LockHeld == \A c \in Callers : pc[c] # "idle" <=> runMu = c

Flagged == inFlight <=> \E c \in Callers : pc[c] \in InSync

Windows ==
  /\ Window <= now /\ lastSync <= now
  /\ \A c \in Callers :
       /\ pc[c] \in InWindow => job[c].from <= job[c].to /\ job[c].to <= now
       /\ pc[c] \in Reading => job[c].from <= job[c].chunk /\ job[c].chunk < job[c].to

\* Where the part of its window that a caller has read, or begun to read, ends.
Frontier(c) ==
  IF pc[c] = "userspace" THEN job[c].chunk
  ELSE IF pc[c] = "completing" THEN job[c].to ELSE ChunkEnd(c)

NothingPast ==
  /\ \A c \in Callers : pc[c] \in InWindow =>
       \A t \in Seconds : t >= Frontier(c) => fed[t] = loaded[t]
  /\ (\A c \in Callers : pc[c] \notin InWindow) =>
       \A t \in Seconds : t >= lastSync => fed[t] = loaded[t]

\* The chunk of the first run of journalctl has not been read by the second.
FirstRun ==
  \A c \in Callers : pc[c] = "kernel" => \A t \in ThisChunk(c) : fed[t] <= loaded[t] + 1

AllBefore ==
  \A c \in Callers : pc[c] \in InWindow =>
    \A t \in (job[c].from .. Frontier(c) - 1) \ cut : fed[t] > 0

\* A window takes up where the last sync ended, or goes back as far as windows go.
Joined ==
  /\ lastSync = Never \/ Window <= lastSync
  /\ \A c \in Callers : pc[c] \in InWindow =>
       \/ job[c].from + Window = job[c].to
       \/ lastSync # Never /\ job[c].from = lastSync

Inv ==
  /\ TypeOK
  /\ LockHeld
  /\ Flagged
  /\ Windows
  /\ NothingPast
  /\ FirstRun
  /\ CountedOnce
  /\ AllBefore
  /\ Joined
  /\ WeekIsCovered

USE NoneAssumption, WindowAssumption, ChunkAssumption, DayAssumption,
    MaxTimeAssumption, ClockAssumption, MaxRestartsAssumption

-----------------------------------------------------------------------------
\* NewSyncer has synced nothing.
LEMMA Initially == Init => Inv
<1> SUFFICES ASSUME Init PROVE Inv
  OBVIOUS
<1>1. TypeOK
  <2>1. now \in Seconds
    BY DEF Init, Seconds
  <2>2. /\ runMu \in Callers \cup {None} /\ inFlight \in BOOLEAN
        /\ lastSync \in Seconds \cup {Never} /\ done \subseteq Callers /\ cut \subseteq Seconds
    BY DEF Init
  <2>3. lastRes \in Outcome
    BY DEF Init, NoResult, Outcome, Seconds
  <2>4. pc \in [Callers -> {"idle", "entered", "marked", "userspace", "kernel",
                            "next", "completing", "leaving", "unmarked"}]
    BY DEF Init
  <2>5. NoJob \in Job
    BY DEF NoJob, Job, Seconds
  <2>6. job \in [Callers -> Job]
    BY <2>5 DEF Init
  <2>7. /\ fed \in [Seconds -> Nat] /\ between \subseteq Seconds
        /\ stored \in [Seconds -> Nat] /\ loaded \in [Seconds -> Nat] /\ restarts \in Nat
    BY DEF Init
  <2> QED
    BY <2>1, <2>2, <2>3, <2>4, <2>6, <2>7 DEF TypeOK
<1>2. LockHeld /\ Flagged
  BY DEF Init, LockHeld, Flagged, InSync, InWindow, Reading
<1>3. Windows /\ NothingPast /\ FirstRun /\ AllBefore
  BY DEF Init, Windows, NothingPast, FirstRun, AllBefore, InWindow, Reading, Never, Seconds
<1>4. CountedOnce
  BY DEF Init, CountedOnce
<1>5. Joined /\ WeekIsCovered
  BY DEF Init, Joined, WeekIsCovered, InWindow, Reading
<1> QED
  BY <1>1, <1>2, <1>3, <1>4, <1>5 DEF Inv

\* Where the chunk of a caller that reads lies, and how far it is in it.
LEMMA Chunks ==
  ASSUME TypeOK, Windows, NEW c \in Callers, pc[c] \in Reading
  PROVE  /\ job[c].from \in Nat /\ job[c].to \in Nat /\ job[c].chunk \in Nat
         /\ job[c].from <= job[c].chunk /\ job[c].chunk < job[c].to /\ job[c].to <= now
         /\ now \in Nat /\ now <= MaxTime
         /\ ChunkEnd(c) \in Nat
         /\ job[c].chunk < ChunkEnd(c) /\ ChunkEnd(c) <= job[c].to
         /\ ThisChunk(c) \subseteq Seconds
         /\ LaterChunks(c) \subseteq Seconds
<1>1. /\ job[c].from \in Nat /\ job[c].to \in Nat /\ job[c].chunk \in Nat
      /\ now \in Nat /\ now <= MaxTime
  <2>1. job[c] \in Job
    BY DEF TypeOK
  <2>2. now \in Seconds
    BY DEF TypeOK
  <2> QED
    BY <2>1, <2>2 DEF Job, Seconds
<1>2. job[c].from <= job[c].chunk /\ job[c].chunk < job[c].to /\ job[c].to <= now
  BY DEF Windows, InWindow
<1>3. /\ ChunkEnd(c) \in Nat
      /\ job[c].chunk < ChunkEnd(c) /\ ChunkEnd(c) <= job[c].to
  BY <1>1, <1>2 DEF ChunkEnd, Lesser
<1>4. ThisChunk(c) \subseteq Seconds /\ LaterChunks(c) \subseteq Seconds
  BY <1>1, <1>2, <1>3 DEF ThisChunk, LaterChunks, Seconds
<1> QED
  BY <1>1, <1>2, <1>3, <1>4

\* Whoever is in a sync has the lock, and everyone else is idle.
LEMMA Alone ==
  ASSUME LockHeld, NEW c \in Callers, pc[c] # "idle"
  PROVE  /\ runMu = c
         /\ \A b \in Callers : b # c => pc[b] = "idle"
BY DEF LockHeld

\* One run of journalctl reads inside its chunk, which counts as cut unless all
\* of the lines were read and it did not fail.
LEMMA Streams ==
  ASSUME TypeOK, Windows, NEW c \in Callers, pc[c] \in Reading,
         NEW lines \in SUBSET ThisChunk(c), NEW read \in SUBSET lines,
         NEW fails \in BOOLEAN, Stream(c, lines, read, fails)
  PROVE  /\ fed' \in [Seconds -> Nat]
         /\ \A t \in Seconds : fed'[t] = fed[t] + IF t \in read THEN 1 ELSE 0
         /\ cut \subseteq cut' /\ cut' \subseteq Seconds
         /\ (fails \/ read # lines) => ThisChunk(c) \subseteq cut'
<1>1. fed' \in [Seconds -> Nat] /\ \A t \in Seconds : fed'[t] = fed[t] + IF t \in read THEN 1 ELSE 0
  BY DEF Stream, TypeOK
<1>2. cut \subseteq cut' /\ ((fails \/ read # lines) => ThisChunk(c) \subseteq cut')
  BY DEF Stream
<1>3. cut' \subseteq Seconds
  BY Chunks DEF Stream, TypeOK
<1> QED
  BY <1>1, <1>2, <1>3

\* What the two runs of a chunk do to what is read and to where they stand.
LEMMA Runs ==
  ASSUME TypeOK, Windows, NEW c \in Callers, ReadUserspace(c) \/ ReadKernel(c)
  PROVE  /\ pc[c] \in Reading /\ pc' = [pc EXCEPT ![c] = pc'[c]]
         /\ pc[c] = "userspace" => pc'[c] \in {"kernel", "next"}
         /\ pc[c] = "kernel" => pc'[c] = "next"
         /\ pc[c] \in {"userspace", "kernel"}
         /\ UNCHANGED <<now, runMu, inFlight, lastSync, lastRes, job, done, between, files>>
         /\ fed' \in [Seconds -> Nat]
         /\ \A t \in Seconds : fed'[t] = fed[t] \/ fed'[t] = fed[t] + 1
         /\ \A t \in Seconds \ ThisChunk(c) : fed'[t] = fed[t]
         /\ pc[c] = "kernel" => \A t \in Seconds \ Kernel : fed'[t] = fed[t]
         /\ pc[c] = "userspace" => \A t \in ThisChunk(c) \ cut' : fed'[t] > 0
         /\ cut \subseteq cut' /\ cut' \subseteq Seconds
<1>1. CASE ReadUserspace(c)
  <2>1. pc[c] = "userspace" /\ pc[c] \in Reading
    BY <1>1 DEF ReadUserspace, Reading
  <2>2. PICK read \in SUBSET Warnings(c), fails \in BOOLEAN :
          /\ Stream(c, Warnings(c), read, fails)
          /\ pc' = [pc EXCEPT ![c] = IF fails THEN "next" ELSE "kernel"]
    BY <1>1 DEF ReadUserspace
  <2>3. Warnings(c) = ThisChunk(c)
    BY DEF Warnings
  <2>4. /\ fed' \in [Seconds -> Nat]
        /\ \A t \in Seconds : fed'[t] = fed[t] + IF t \in read THEN 1 ELSE 0
        /\ cut \subseteq cut' /\ cut' \subseteq Seconds
        /\ (fails \/ read # ThisChunk(c)) => ThisChunk(c) \subseteq cut'
    <3>1. Warnings(c) \in SUBSET ThisChunk(c) /\ read \in SUBSET Warnings(c)
      BY <2>2, <2>3
    <3>2. /\ fed' \in [Seconds -> Nat]
          /\ \A t \in Seconds : fed'[t] = fed[t] + IF t \in read THEN 1 ELSE 0
          /\ cut \subseteq cut' /\ cut' \subseteq Seconds
          /\ (fails \/ read # Warnings(c)) => ThisChunk(c) \subseteq cut'
      BY ONLY TypeOK, Windows, c \in Callers, <2>1, <2>2, fails \in BOOLEAN, <3>1, Streams
    <3> QED
      BY <2>3, <3>2
  <2>5. fed \in [Seconds -> Nat] /\ ThisChunk(c) \subseteq Seconds /\ c \in DOMAIN pc
    BY <2>1, Chunks DEF TypeOK
  <2>6. /\ \A t \in Seconds : fed'[t] = fed[t] \/ fed'[t] = fed[t] + 1
        /\ \A t \in Seconds \ ThisChunk(c) : fed'[t] = fed[t]
        /\ \A t \in ThisChunk(c) \ cut' : fed'[t] > 0
    BY <2>2, <2>3, <2>4, <2>5
  <2>7. pc' = [pc EXCEPT ![c] = pc'[c]] /\ pc'[c] \in {"kernel", "next"}
    BY <2>2, <2>5
  <2>8. UNCHANGED <<now, runMu, inFlight, lastSync, lastRes, job, done, between, files>>
    BY <1>1 DEF ReadUserspace
  <2> QED
    BY <2>1, <2>4, <2>6, <2>7, <2>8
<1>2. CASE ReadKernel(c)
  <2>1. pc[c] = "kernel" /\ pc[c] \in Reading
    BY <1>2 DEF ReadKernel, Reading
  <2>2. PICK read \in SUBSET KernelEntries(c), fails \in BOOLEAN :
          Stream(c, KernelEntries(c), read, fails)
    BY <1>2 DEF ReadKernel
  <2>3. KernelEntries(c) \subseteq ThisChunk(c) /\ KernelEntries(c) \subseteq Kernel
    BY DEF KernelEntries
  <2>4. /\ fed' \in [Seconds -> Nat]
        /\ \A t \in Seconds : fed'[t] = fed[t] + IF t \in read THEN 1 ELSE 0
        /\ cut \subseteq cut' /\ cut' \subseteq Seconds
    <3>1. KernelEntries(c) \in SUBSET ThisChunk(c) /\ read \in SUBSET KernelEntries(c)
      BY <2>3
    <3> QED
      BY ONLY TypeOK, Windows, c \in Callers, <2>1, <2>2, fails \in BOOLEAN, <3>1, Streams
  <2>5. fed \in [Seconds -> Nat] /\ c \in DOMAIN pc
    BY DEF TypeOK
  <2>6. /\ \A t \in Seconds : fed'[t] = fed[t] \/ fed'[t] = fed[t] + 1
        /\ \A t \in Seconds \ ThisChunk(c) : fed'[t] = fed[t]
        /\ \A t \in Seconds \ Kernel : fed'[t] = fed[t]
    BY <2>2, <2>3, <2>4, <2>5
  <2>7. pc' = [pc EXCEPT ![c] = "next"]
    BY <1>2 DEF ReadKernel
  <2>8. UNCHANGED <<now, runMu, inFlight, lastSync, lastRes, job, done, between, files>>
    BY <1>2 DEF ReadKernel
  <2> QED
    BY <2>1, <2>4, <2>5, <2>6, <2>7, <2>8
<1> QED
  BY <1>1, <1>2

\* A window begins no earlier than the last sync ended, and not in the future.
LEMMA Starts ==
  ASSUME TypeOK, Windows
  PROVE  /\ WindowStart \in Seconds /\ now \in Seconds
         /\ lastSync <= WindowStart /\ WindowStart <= now
BY DEF TypeOK, Windows, WindowStart, Seconds, Never

\* The places a caller can be in, for what the steps of Step(c) leave alone.
LEMMA Moves ==
  ASSUME NEW c \in Callers, Step(c), TypeOK
  PROVE  /\ pc' = [pc EXCEPT ![c] = pc'[c]]
         /\ pc[c] # "idle" /\ now' = now
         /\ pc'[c] \in {"idle", "entered", "marked", "userspace", "kernel",
                        "next", "completing", "leaving", "unmarked"}
<1>1. c \in DOMAIN pc
  BY DEF TypeOK
<1>2. CASE Mark(c)
  BY <1>1, <1>2 DEF Mark
<1>3. CASE Begin(c)
  BY <1>1, <1>3 DEF Begin
<1>4. CASE ReadUserspace(c)
  BY <1>1, <1>4 DEF ReadUserspace
<1>5. CASE ReadKernel(c)
  BY <1>1, <1>5 DEF ReadKernel
<1>6. CASE NextChunk(c)
  BY <1>1, <1>6 DEF NextChunk
<1>7. CASE Complete(c)
  BY <1>1, <1>7 DEF Complete
<1>8. CASE Unmark(c)
  BY <1>1, <1>8 DEF Unmark
<1>9. CASE Leave(c)
  BY <1>1, <1>9 DEF Leave
<1> QED
  BY <1>2, <1>3, <1>4, <1>5, <1>6, <1>7, <1>8, <1>9 DEF Step

\* Every step keeps the shapes.
LEMMA TypeStep ==
  ASSUME Inv, [Next]_vars
  PROVE  TypeOK'
<1> USE DEF Inv
<1>1. ASSUME NEW c \in Callers, Enter(c) PROVE TypeOK'
  BY <1>1 DEF Enter, TypeOK, files
<1>2. ASSUME NEW c \in Callers, Mark(c) \/ Unmark(c) \/ Leave(c) \/ Cancel(c) PROVE TypeOK'
  BY <1>2 DEF Mark, Unmark, Leave, Cancel, TypeOK, files
<1>3. ASSUME NEW c \in Callers, Begin(c) PROVE TypeOK'
  <2>1. /\ UNCHANGED <<now, runMu, inFlight, lastSync, lastRes, done, fed, cut, between, files>>
        /\ pc' \in [Callers -> {"idle", "entered", "marked", "userspace", "kernel",
                                "next", "completing", "leaving", "unmarked"}]
    BY <1>3 DEF Begin, TypeOK
  <2>2. [from |-> WindowStart, to |-> now, chunk |-> WindowStart] \in Job
    BY Starts DEF Job
  <2>3. job' \in [Callers -> Job]
    BY <1>3, <2>2 DEF Begin, TypeOK
  <2> QED
    BY <2>1, <2>3 DEF TypeOK, files
<1>4. ASSUME NEW c \in Callers, ReadUserspace(c) \/ ReadKernel(c) PROVE TypeOK'
  <2>1. /\ UNCHANGED <<now, runMu, inFlight, lastSync, lastRes, job, done, between, files>>
        /\ fed' \in [Seconds -> Nat] /\ cut' \subseteq Seconds
    BY <1>4, Runs
  <2>2. pc' \in [Callers -> {"idle", "entered", "marked", "userspace", "kernel",
                             "next", "completing", "leaving", "unmarked"}]
    BY <1>4, Moves DEF Step, TypeOK
  <2> QED
    BY <2>1, <2>2 DEF TypeOK, files
<1>5. ASSUME NEW c \in Callers, NextChunk(c) PROVE TypeOK'
  <2>1. pc[c] \in Reading
    BY <1>5 DEF NextChunk, Reading
  <2>2. /\ UNCHANGED <<now, runMu, inFlight, lastSync, lastRes, done, fed, between, files>>
        /\ pc' \in [Callers -> {"idle", "entered", "marked", "userspace", "kernel",
                                "next", "completing", "leaving", "unmarked"}]
    BY <1>5 DEF NextChunk, TypeOK
  <2>3. cut' \subseteq Seconds
    BY <1>5, <2>1, Chunks DEF NextChunk, TypeOK
  <2>4. job[c] \in Job /\ ChunkEnd(c) \in Seconds
    <3>1. ChunkEnd(c) \in Nat /\ ChunkEnd(c) <= job[c].to /\ job[c].to <= now /\ now <= MaxTime
          /\ job[c].to \in Nat /\ now \in Nat
      BY <2>1, Chunks
    <3> QED
      BY <3>1 DEF TypeOK, Seconds
  <2>5. [job[c] EXCEPT !.chunk = ChunkEnd(c)] \in Job
    BY <2>4 DEF Job
  <2>6. job' \in [Callers -> Job]
    BY <1>5, <2>5 DEF NextChunk, TypeOK
  <2> QED
    BY <2>2, <2>3, <2>6 DEF TypeOK, files
<1>6. ASSUME NEW c \in Callers, Complete(c) PROVE TypeOK'
  <2>1. /\ UNCHANGED <<now, runMu, inFlight, done, fed, cut, files>>
        /\ lastSync' \in Seconds
        /\ pc' \in [Callers -> {"idle", "entered", "marked", "userspace", "kernel",
                                "next", "completing", "leaving", "unmarked"}]
    BY <1>6 DEF Complete, TypeOK
  <2>2. job[c] \in Job /\ now \in Seconds
    BY DEF TypeOK
  <2>3. lastRes' \in Outcome
    BY <1>6, <2>2 DEF Complete, Outcome, Job
  <2>4. NoJob \in Job
    BY DEF NoJob, Job, Seconds
  <2>5. job' \in [Callers -> Job]
    BY <1>6, <2>4 DEF Complete, TypeOK
  <2>6. between' \subseteq Seconds
    <3>1. job[c].to \in Nat /\ now \in 0 .. MaxTime /\ MaxTime \in Nat
      BY <2>2 DEF Job, Seconds
    <3>2. job[c].to .. now - 1 \subseteq Seconds
      BY <3>1 DEF Seconds
    <3>3. between' = between \cup (job[c].to .. now - 1) /\ between \subseteq Seconds
      BY <1>6 DEF Complete, TypeOK
    <3> QED
      BY <3>2, <3>3
  <2>7. /\ stored' \in [Seconds -> Nat] /\ loaded' \in [Seconds -> Nat] /\ restarts' \in Nat
    BY <2>1 DEF files, TypeOK
  <2> QED
    BY <2>1, <2>3, <2>5, <2>6, <2>7 DEF TypeOK
<1>7. CASE Tick
  <2>1. now' \in Seconds
    BY <1>7 DEF Tick, Seconds
  <2>2. /\ UNCHANGED <<runMu, inFlight, lastSync, lastRes, pc, job, done, fed, cut, between>>
        /\ UNCHANGED <<stored, loaded, restarts>>
    BY <1>7 DEF Tick, files
  <2> QED
    BY <2>1, <2>2 DEF TypeOK
<1>8. CASE SaveLogs
  <2> DEFINE today(t) == t \div Day = now \div Day
  <2>1. stored' = [t \in Seconds |-> IF today(t) THEN fed[t] ELSE stored[t]]
    BY <1>8 DEF SaveLogs
  <2> HIDE DEF today
  <2>2. stored' \in [Seconds -> Nat]
    BY <2>1 DEF TypeOK
  <2>3. /\ UNCHANGED <<now, runMu, inFlight, lastSync, lastRes, pc, job, done, fed, cut, between>>
        /\ UNCHANGED <<loaded, restarts>>
    BY <1>8 DEF SaveLogs
  <2> QED
    BY <2>2, <2>3 DEF TypeOK
<1>9. CASE Restart
  <2>1. NoJob \in Job /\ NoResult \in Outcome
    BY DEF NoJob, NoResult, Job, Outcome, Seconds
  <2>2. /\ now' \in Seconds /\ runMu' \in Callers \cup {None} /\ inFlight' \in BOOLEAN
        /\ lastSync' \in Seconds \cup {Never} /\ lastRes' \in Outcome
        /\ done' \subseteq Callers /\ cut' \subseteq Seconds /\ between' \subseteq Seconds
    BY <1>9, <2>1 DEF Restart, RestartOf, TypeOK
  <2>3. /\ pc' \in [Callers -> {"idle", "entered", "marked", "userspace", "kernel",
                                "next", "completing", "leaving", "unmarked"}]
        /\ job' \in [Callers -> Job]
    BY <1>9, <2>1 DEF Restart, RestartOf
  <2>4. /\ fed' \in [Seconds -> Nat] /\ stored' \in [Seconds -> Nat]
        /\ loaded' \in [Seconds -> Nat] /\ restarts' \in Nat
    BY <1>9 DEF Restart, RestartOf, TypeOK
  <2> QED
    BY <2>2, <2>3, <2>4 DEF TypeOK
<1>10. CASE UNCHANGED vars
  BY <1>10 DEF vars, files, TypeOK
<1> QED
  BY <1>1, <1>2, <1>3, <1>4, <1>5, <1>6, <1>7, <1>8, <1>9, <1>10 DEF Next, Step

\* The lock has one holder, and the flag is up exactly while it is in its sync.
LEMMA LockStep ==
  ASSUME Inv, [Next]_vars
  PROVE  LockHeld' /\ Flagged'
<1> USE DEF Inv
<1>0. /\ pc \in [Callers -> {"idle", "entered", "marked", "userspace", "kernel",
                            "next", "completing", "leaving", "unmarked"}]
      /\ inFlight \in BOOLEAN
  BY DEF TypeOK
<1> USE DEF LockHeld, Flagged, InSync, InWindow, Reading
<1>1. ASSUME NEW c \in Callers, Enter(c) PROVE LockHeld' /\ Flagged'
  BY <1>0, <1>1 DEF Enter
<1>2. ASSUME NEW c \in Callers, Mark(c) \/ Unmark(c) PROVE LockHeld' /\ Flagged'
  BY <1>0, <1>2 DEF Mark, Unmark
<1>3. ASSUME NEW c \in Callers, Leave(c) PROVE LockHeld' /\ Flagged'
  BY <1>0, <1>3 DEF Leave
<1>4. ASSUME NEW c \in Callers, Cancel(c) PROVE LockHeld' /\ Flagged'
  BY <1>0, <1>4 DEF Cancel
<1>5. ASSUME NEW c \in Callers,
             Begin(c) \/ ReadUserspace(c) \/ ReadKernel(c) \/ NextChunk(c) \/ Complete(c)
      PROVE  LockHeld' /\ Flagged'
  <2>1. /\ pc[c] \in InSync /\ pc'[c] \in InSync /\ pc'[c] # "idle"
        /\ \A b \in Callers : b # c => pc'[b] = pc[b]
        /\ UNCHANGED <<runMu, inFlight>>
    BY <1>0, <1>5 DEF Begin, ReadUserspace, ReadKernel, NextChunk, Complete
  <2> QED
    BY <2>1
<1>6. CASE Tick \/ SaveLogs \/ UNCHANGED vars
  BY <1>6 DEF Tick, SaveLogs, vars
<1>7. CASE Restart
  BY <1>7 DEF Restart, RestartOf
<1> QED
  BY <1>1, <1>2, <1>3, <1>4, <1>5, <1>6, <1>7 DEF Next, Step

\* While one caller makes a step of its sync, the others are idle.
LEMMA Others ==
  ASSUME Inv, NEW c \in Callers, Step(c)
  PROVE  \A b \in Callers : b # c => pc[b] = "idle" /\ pc'[b] = "idle"
<1>1. pc[c] # "idle" /\ pc' = [pc EXCEPT ![c] = pc'[c]] /\ DOMAIN pc = Callers
  BY Moves DEF Inv, TypeOK
<1>2. \A b \in Callers : b # c => pc[b] = "idle"
  BY <1>1, Alone DEF Inv
<1> QED
  BY <1>1, <1>2

\* The steps before the window and after it.
LEMMA Aside ==
  ASSUME TypeOK, NEW c \in Callers,
         Enter(c) \/ Mark(c) \/ Unmark(c) \/ Leave(c) \/ Cancel(c)
  PROVE  /\ UNCHANGED <<now, lastSync, lastRes, job, fed, cut, between, loaded>>
         /\ \A b \in Callers : pc'[b] = pc[b] \/ (pc[b] \notin InWindow /\ pc'[b] \notin InWindow)
BY DEF TypeOK, Enter, Mark, Unmark, Leave, Cancel, InWindow, Reading, files

\* Windows lie in the past, and chunks in windows.
LEMMA WindowsStep ==
  ASSUME Inv, [Next]_vars
  PROVE  Windows'
<1> USE DEF Inv
<1>0. pc \in [Callers -> {"idle", "entered", "marked", "userspace", "kernel",
                         "next", "completing", "leaving", "unmarked"}]
  BY DEF TypeOK
<1>1. ASSUME NEW c \in Callers, Enter(c) \/ Mark(c) \/ Unmark(c) \/ Leave(c) \/ Cancel(c)
      PROVE  Windows'
  BY <1>1, Aside DEF Windows, InWindow
<1>2. ASSUME NEW c \in Callers, Begin(c) PROVE Windows'
  <2>1. \A b \in Callers : b # c => pc'[b] = "idle"
    BY <1>2, Others DEF Step
  <2>2. UNCHANGED <<now, lastSync>> /\ DOMAIN job = Callers
    BY <1>2 DEF Begin, TypeOK
  <2>3. /\ job'[c].from = WindowStart /\ job'[c].to = now /\ job'[c].chunk = WindowStart
        /\ pc'[c] = IF WindowStart < now THEN "userspace" ELSE "completing"
    BY <1>0, <1>2, <2>2 DEF Begin
  <2>4. WindowStart <= now /\ WindowStart \in Nat /\ now \in Nat
    BY Starts DEF Seconds
  <2> QED
    BY <2>1, <2>2, <2>3, <2>4 DEF Windows, InWindow, Reading
<1>3. ASSUME NEW c \in Callers, ReadUserspace(c) \/ ReadKernel(c) PROVE Windows'
  <2>1. \A b \in Callers : b # c => pc'[b] = "idle"
    BY <1>3, Others DEF Step
  <2>2. /\ UNCHANGED <<now, lastSync>> /\ pc[c] \in Reading
        /\ job'[c].from = job[c].from /\ job'[c].to = job[c].to /\ job'[c].chunk = job[c].chunk
    BY <1>3, Runs
  <2> QED
    BY <2>1, <2>2 DEF Windows, InWindow, Reading
<1>4. ASSUME NEW c \in Callers, NextChunk(c) PROVE Windows'
  <2>1. \A b \in Callers : b # c => pc'[b] = "idle"
    BY <1>4, Others DEF Step
  <2>2. UNCHANGED <<now, lastSync>> /\ pc[c] \in Reading /\ DOMAIN job = Callers
    BY <1>4 DEF NextChunk, TypeOK, Reading
  <2>3. CASE c \in done \/ ChunkEnd(c) = job[c].to
    <3>1. pc'[c] = "completing" /\ UNCHANGED job
      BY <1>0, <1>4, <2>3 DEF NextChunk
    <3> QED
      BY <2>1, <2>2, <3>1 DEF Windows, InWindow, Reading
  <2>4. CASE ~ (c \in done \/ ChunkEnd(c) = job[c].to)
    <3>1. /\ pc'[c] = "userspace" /\ job'[c].chunk = ChunkEnd(c)
          /\ job'[c].from = job[c].from /\ job'[c].to = job[c].to
      <4>1. job[c] \in Job
        BY DEF TypeOK
      <4> QED
        BY <1>0, <1>4, <2>2, <2>4, <4>1 DEF NextChunk, Job
    <3>2. /\ job[c].from \in Nat /\ job[c].chunk \in Nat /\ job[c].to \in Nat
          /\ ChunkEnd(c) \in Nat /\ ChunkEnd(c) < job[c].to /\ job[c].from <= ChunkEnd(c)
      BY <2>2, <2>4, Chunks
    <3> QED
      BY <2>1, <2>2, <3>1, <3>2 DEF Windows, InWindow, Reading
  <2> QED
    BY <2>3, <2>4
<1>5. ASSUME NEW c \in Callers, Complete(c) PROVE Windows'
  <2>1. \A b \in Callers : b # c => pc'[b] = "idle"
    BY <1>5, Others DEF Step
  <2>2. pc'[c] = "leaving" /\ now' = now /\ lastSync' = now /\ now \in Nat
    BY <1>0, <1>5 DEF Complete, TypeOK, Seconds
  <2> QED
    BY <2>1, <2>2 DEF Windows, InWindow, Reading
<1>6. CASE Tick
  <2>1. now' > now /\ now \in Nat /\ now' \in Nat /\ UNCHANGED <<lastSync, pc, job>>
    BY <1>6 DEF Tick, TypeOK, Seconds
  <2>2. \A c \in Callers : job[c].to \in Nat
    BY DEF TypeOK, Job, Seconds
  <2>3. lastSync \in Int
    BY DEF TypeOK, Seconds, Never
  <2> QED
    BY <2>1, <2>2, <2>3 DEF Windows
<1>7. CASE SaveLogs \/ UNCHANGED vars
  BY <1>7 DEF SaveLogs, vars, Windows
<1>8. CASE Restart
  <2>1. now' = now /\ now \in Nat /\ lastSync' = -1 /\ \A c \in Callers : pc'[c] = "idle"
    BY <1>8 DEF Restart, RestartOf, TypeOK, Seconds, Never
  <2> QED
    BY <2>1 DEF Windows, InWindow, Reading
<1> QED
  BY <1>1, <1>2, <1>3, <1>4, <1>5, <1>6, <1>7, <1>8 DEF Next, Step

\* Nothing past the frontier is read, so no second is read twice.
LEMMA CountStep ==
  ASSUME Inv, [Next]_vars
  PROVE  NothingPast' /\ FirstRun' /\ CountedOnce'
<1> USE DEF Inv
<1>0. /\ pc \in [Callers -> {"idle", "entered", "marked", "userspace", "kernel",
                            "next", "completing", "leaving", "unmarked"}]
      /\ fed \in [Seconds -> Nat] /\ Seconds \subseteq Nat
      /\ loaded \in [Seconds -> Nat]
      /\ lastSync \in Int
  BY DEF TypeOK, Seconds, Never
<1>1. ASSUME NEW c \in Callers, Enter(c) \/ Mark(c) \/ Unmark(c) \/ Leave(c) \/ Cancel(c)
      PROVE  NothingPast' /\ FirstRun' /\ CountedOnce'
  <2>1. /\ UNCHANGED <<now, lastSync, lastRes, job, fed, cut, between, loaded>>
        /\ \A b \in Callers : pc'[b] = pc[b] \/ (pc[b] \notin InWindow /\ pc'[b] \notin InWindow)
    BY <1>1, Aside
  <2>2. NothingPast'
    BY <2>1 DEF NothingPast, Frontier, ChunkEnd
  <2>3. FirstRun'
    BY <2>1 DEF FirstRun, ThisChunk, ChunkEnd, InWindow, Reading
  <2> QED
    BY <2>1, <2>2, <2>3 DEF CountedOnce
<1>2. ASSUME NEW c \in Callers, Begin(c) PROVE NothingPast' /\ FirstRun' /\ CountedOnce'
  <2>1. \A b \in Callers : b # c => pc[b] = "idle" /\ pc'[b] = "idle"
    BY <1>2, Others DEF Step
  <2>2. pc[c] = "marked" /\ UNCHANGED <<lastSync, fed, loaded>> /\ DOMAIN job = Callers
    BY <1>2 DEF Begin, TypeOK, files
  <2>3. /\ job'[c].to = now /\ job'[c].chunk = WindowStart
        /\ pc'[c] = IF WindowStart < now THEN "userspace" ELSE "completing"
    BY <1>0, <1>2, <2>2 DEF Begin
  <2>4. \A t \in Seconds : t >= lastSync => fed[t] = loaded[t]
    BY <2>1, <2>2 DEF NothingPast, InWindow, Reading
  <2>5. lastSync <= WindowStart /\ WindowStart <= now /\ WindowStart \in Nat /\ now \in Nat
    BY Starts DEF Seconds
  <2>6. \A t \in Seconds : t >= Frontier(c)' => fed[t] = loaded[t]
    BY <1>0, <2>3, <2>4, <2>5 DEF Frontier
  <2>7. NothingPast'
    BY <2>1, <2>2, <2>3, <2>6 DEF NothingPast, InWindow, Reading
  <2>8. FirstRun'
    BY <2>1, <2>3 DEF FirstRun
  <2> QED
    BY <2>2, <2>7, <2>8 DEF CountedOnce
<1>3. ASSUME NEW c \in Callers, ReadUserspace(c) PROVE NothingPast' /\ FirstRun' /\ CountedOnce'
  <2>1. \A b \in Callers : b # c => pc'[b] = "idle"
    BY <1>3, Others DEF Step
  <2>2. /\ pc[c] = "userspace" /\ pc[c] \in Reading /\ pc'[c] \in {"kernel", "next"}
        /\ \A t \in Seconds : fed'[t] = fed[t] \/ fed'[t] = fed[t] + 1
        /\ \A t \in Seconds \ ThisChunk(c) : fed'[t] = fed[t]
        /\ UNCHANGED <<job, loaded>>
    <3>1. pc[c] = "userspace"
      BY <1>3 DEF ReadUserspace
    <3> QED
      BY <1>3, <3>1, Runs DEF files
  <2>3. ChunkEnd(c)' = ChunkEnd(c) /\ ThisChunk(c)' = ThisChunk(c)
    BY <2>2 DEF ChunkEnd, ThisChunk
  <2>4. /\ job[c].chunk \in Nat /\ ChunkEnd(c) \in Nat /\ job[c].chunk < ChunkEnd(c)
        /\ ThisChunk(c) \subseteq Seconds
    BY <2>2, Chunks
  <2>5. \A t \in Seconds : t >= job[c].chunk => fed[t] = loaded[t]
    BY <2>2 DEF NothingPast, Frontier, InWindow
  <2>6. \A t \in ThisChunk(c) : fed[t] = loaded[t] /\ fed'[t] <= loaded[t] + 1
    BY <1>0, <2>2, <2>4, <2>5 DEF ThisChunk
  <2>7. \A t \in Seconds : t >= ChunkEnd(c) => fed'[t] = loaded[t]
    BY <1>0, <2>2, <2>4, <2>5 DEF ThisChunk
  <2>8. NothingPast'
    <3>1. Frontier(c)' = ChunkEnd(c)
      BY <2>2, <2>3 DEF Frontier
    <3> QED
      BY <2>1, <2>2, <2>7, <3>1 DEF NothingPast, InWindow, Reading
  <2>9. FirstRun'
    BY <2>1, <2>2, <2>3, <2>6 DEF FirstRun
  <2>10. CountedOnce'
    BY <1>0, <2>2, <2>6 DEF CountedOnce
  <2> QED
    BY <2>8, <2>9, <2>10
<1>4. ASSUME NEW c \in Callers, ReadKernel(c) PROVE NothingPast' /\ FirstRun' /\ CountedOnce'
  <2>1. \A b \in Callers : b # c => pc'[b] = "idle"
    BY <1>4, Others DEF Step
  <2>2. /\ pc[c] = "kernel" /\ pc[c] \in Reading /\ pc'[c] = "next"
        /\ \A t \in Seconds : fed'[t] = fed[t] \/ fed'[t] = fed[t] + 1
        /\ \A t \in Seconds \ ThisChunk(c) : fed'[t] = fed[t]
        /\ \A t \in Seconds \ Kernel : fed'[t] = fed[t]
        /\ UNCHANGED <<job, loaded>>
    <3>1. pc[c] = "kernel"
      BY <1>4 DEF ReadKernel
    <3> QED
      BY <1>4, <3>1, Runs DEF files
  <2>3. ChunkEnd(c)' = ChunkEnd(c)
    BY <2>2 DEF ChunkEnd
  <2>4. /\ ChunkEnd(c) \in Nat /\ job[c].chunk \in Nat
    BY <2>2, Chunks
  <2>5. \A t \in Seconds : t >= ChunkEnd(c) => fed[t] = loaded[t]
    BY <2>2 DEF NothingPast, Frontier, InWindow
  <2>6. \A t \in Seconds : t >= ChunkEnd(c) => fed'[t] = loaded[t]
    BY <1>0, <2>2, <2>4, <2>5 DEF ThisChunk
  <2>7. NothingPast'
    <3>1. Frontier(c)' = ChunkEnd(c)
      BY <2>2, <2>3 DEF Frontier
    <3> QED
      BY <2>1, <2>2, <2>6, <3>1 DEF NothingPast, InWindow, Reading
  <2>8. FirstRun'
    BY <2>1, <2>2 DEF FirstRun
  <2>9. CountedOnce'
    <3>1. ASSUME NEW t \in Seconds PROVE fed'[t] <= loaded[t] + IF t \in Kernel THEN 2 ELSE 1
      <4>1. CASE t \in ThisChunk(c) /\ t \in Kernel
        <5>1. fed[t] <= loaded[t] + 1 /\ fed[t] \in Nat /\ loaded[t] \in Nat
          BY <1>0, <2>2, <4>1 DEF FirstRun
        <5> QED
          BY <2>2, <4>1, <5>1
      <4>2. CASE t \notin ThisChunk(c) \/ t \notin Kernel
        BY <2>2, <4>2 DEF CountedOnce
      <4> QED
        BY <4>1, <4>2
    <3> QED
      BY <2>2, <3>1 DEF CountedOnce
  <2> QED
    BY <2>7, <2>8, <2>9
<1>5. ASSUME NEW c \in Callers, NextChunk(c) PROVE NothingPast' /\ FirstRun' /\ CountedOnce'
  <2>1. \A b \in Callers : b # c => pc'[b] = "idle"
    BY <1>5, Others DEF Step
  <2>2. pc[c] = "next" /\ pc[c] \in Reading /\ UNCHANGED <<fed, loaded>> /\ DOMAIN job = Callers
    BY <1>5 DEF NextChunk, TypeOK, Reading, files
  <2>3. /\ job[c].to \in Nat /\ ChunkEnd(c) \in Nat /\ ChunkEnd(c) <= job[c].to
    BY <2>2, Chunks
  <2>4. \A t \in Seconds : t >= ChunkEnd(c) => fed[t] = loaded[t]
    BY <2>2 DEF NothingPast, Frontier, InWindow
  <2>5. pc'[c] \in {"userspace", "completing"} /\ Frontier(c)' \in Nat /\ Frontier(c)' >= ChunkEnd(c)
    <3>1. CASE c \in done \/ ChunkEnd(c) = job[c].to
      <4>1. pc'[c] = "completing" /\ job' = job
        BY <1>0, <1>5, <3>1 DEF NextChunk
      <4> QED
        BY <2>3, <4>1 DEF Frontier
    <3>2. CASE ~ (c \in done \/ ChunkEnd(c) = job[c].to)
      <4>1. job[c] \in Job
        BY DEF TypeOK
      <4>2. pc'[c] = "userspace" /\ job'[c].chunk = ChunkEnd(c)
        BY <1>0, <1>5, <2>2, <3>2, <4>1 DEF NextChunk, Job
      <4> QED
        BY <2>3, <4>2 DEF Frontier
    <3> QED
      BY <3>1, <3>2
  <2>6. \A t \in Seconds : t >= Frontier(c)' => fed[t] = loaded[t]
    BY <1>0, <2>3, <2>4, <2>5
  <2>7. NothingPast'
    BY <2>1, <2>2, <2>5, <2>6 DEF NothingPast, InWindow, Reading
  <2>8. FirstRun'
    BY <2>1, <2>5 DEF FirstRun
  <2> QED
    BY <2>2, <2>7, <2>8 DEF CountedOnce
<1>6. ASSUME NEW c \in Callers, Complete(c) PROVE NothingPast' /\ FirstRun' /\ CountedOnce'
  <2>1. \A b \in Callers : b # c => pc'[b] = "idle"
    BY <1>6, Others DEF Step
  <2>2. pc[c] = "completing" /\ pc'[c] = "leaving" /\ lastSync' = now /\ UNCHANGED <<fed, loaded>>
    BY <1>0, <1>6 DEF Complete, files
  <2>3. job[c].to <= now
    BY <2>2 DEF Windows, InWindow
  <2>4. job[c].to \in Nat /\ now \in Nat
    <3>1. job[c] \in Job /\ now \in Seconds
      BY DEF TypeOK
    <3> QED
      BY <3>1 DEF Job, Seconds
  <2>5. \A t \in Seconds : t >= job[c].to => fed[t] = loaded[t]
    BY <2>2 DEF NothingPast, Frontier, InWindow
  <2>6. \A t \in Seconds : t >= lastSync' => fed'[t] = loaded[t]
    BY <1>0, <2>2, <2>3, <2>4, <2>5
  <2>7. NothingPast'
    BY <2>1, <2>2, <2>6 DEF NothingPast, InWindow, Reading
  <2>8. FirstRun'
    BY <2>1, <2>2 DEF FirstRun
  <2> QED
    BY <2>2, <2>7, <2>8 DEF CountedOnce
<1>7. CASE Tick \/ SaveLogs \/ UNCHANGED vars
  <2>1. UNCHANGED <<pc, job, lastSync, fed, loaded>>
    BY <1>7 DEF Tick, SaveLogs, vars, files
  <2> QED
    BY <2>1 DEF NothingPast, FirstRun, CountedOnce, Frontier, ChunkEnd, ThisChunk
<1>8. CASE Restart
  <2>1. /\ \A c \in Callers : pc'[c] = "idle"
        /\ \A t \in Seconds : fed'[t] = loaded'[t] /\ loaded'[t] \in Nat
    BY <1>8 DEF Restart, RestartOf, TypeOK
  <2> QED
    BY <2>1 DEF NothingPast, FirstRun, CountedOnce, InWindow, Reading
<1> QED
  BY <1>1, <1>2, <1>3, <1>4, <1>5, <1>6, <1>7, <1>8 DEF Next, Step

\* Everything before the frontier is read, but for the chunks that were cut.
LEMMA ReadStep ==
  ASSUME Inv, [Next]_vars
  PROVE  AllBefore'
<1> USE DEF Inv
<1>0. /\ pc \in [Callers -> {"idle", "entered", "marked", "userspace", "kernel",
                            "next", "completing", "leaving", "unmarked"}]
      /\ fed \in [Seconds -> Nat] /\ Seconds = 0 .. MaxTime /\ Seconds \subseteq Nat
      /\ \A c \in Callers : job[c].from \in Seconds /\ job[c].to \in Seconds
      /\ DOMAIN job = Callers
  <2>1. /\ job \in [Callers -> Job] /\ fed \in [Seconds -> Nat]
        /\ pc \in [Callers -> {"idle", "entered", "marked", "userspace", "kernel",
                               "next", "completing", "leaving", "unmarked"}]
    BY DEF TypeOK
  <2>3. ASSUME NEW c \in Callers PROVE job[c].from \in Seconds /\ job[c].to \in Seconds
    <3>1. job[c] \in Job
      BY <2>1
    <3> QED
      BY <3>1 DEF Job
  <2>4. Seconds = 0 .. MaxTime /\ Seconds \subseteq Nat
    BY DEF Seconds
  <2> QED
    BY <2>1, <2>3, <2>4
<1>1. ASSUME NEW c \in Callers, Enter(c) \/ Mark(c) \/ Unmark(c) \/ Leave(c) \/ Cancel(c)
      PROVE  AllBefore'
  <2>1. /\ UNCHANGED <<now, lastSync, lastRes, job, fed, cut, between, loaded>>
        /\ \A b \in Callers : pc'[b] = pc[b] \/ (pc[b] \notin InWindow /\ pc'[b] \notin InWindow)
    BY <1>1, Aside
  <2> QED
    BY <2>1 DEF AllBefore, Frontier, ChunkEnd
<1>2. ASSUME NEW c \in Callers, Begin(c) PROVE AllBefore'
  <2>1. \A b \in Callers : b # c => pc'[b] = "idle"
    BY <1>2, Others DEF Step
  <2>2. UNCHANGED <<fed, cut>>
    BY <1>2 DEF Begin
  <2>3. /\ job'[c].from = WindowStart /\ job'[c].to = now /\ job'[c].chunk = WindowStart
        /\ pc'[c] = IF WindowStart < now THEN "userspace" ELSE "completing"
    BY <1>0, <1>2 DEF Begin
  <2>4. WindowStart <= now /\ WindowStart \in Nat /\ now \in Nat
    BY Starts DEF Seconds
  <2>5. job'[c].from .. Frontier(c)' - 1 = {}
    BY <2>3, <2>4 DEF Frontier
  <2> QED
    BY <2>1, <2>2, <2>5 DEF AllBefore, InWindow, Reading
<1>3. ASSUME NEW c \in Callers, ReadUserspace(c) \/ ReadKernel(c) PROVE AllBefore'
  <2>1. \A b \in Callers : b # c => pc'[b] = "idle"
    BY <1>3, Others DEF Step
  <2>2. /\ pc[c] \in Reading /\ pc'[c] \in {"kernel", "next"}
        /\ pc[c] \in {"userspace", "kernel"}
        /\ \A t \in Seconds : fed'[t] = fed[t] \/ fed'[t] = fed[t] + 1
        /\ pc[c] = "userspace" => \A t \in ThisChunk(c) \ cut' : fed'[t] > 0
        /\ cut \subseteq cut'
        /\ job' = job
    BY <1>3, Runs
  <2>3. /\ job[c].from \in Nat /\ job[c].chunk \in Nat /\ ChunkEnd(c) \in Nat
        /\ ChunkEnd(c) <= job[c].to /\ job[c].from <= job[c].chunk /\ job[c].chunk < ChunkEnd(c)
        /\ job[c].to <= now /\ now <= MaxTime /\ now \in Nat /\ job[c].to \in Nat
    BY <2>2, Chunks
  <2>4. Frontier(c)' = ChunkEnd(c)
    BY <2>2 DEF Frontier, ChunkEnd
  <2>5. ASSUME NEW t \in Seconds, fed[t] > 0 PROVE fed'[t] > 0
    <3>1. fed[t] \in Nat /\ (fed'[t] = fed[t] \/ fed'[t] = fed[t] + 1)
      BY <1>0, <2>2
    <3> QED
      BY <2>5, <3>1
  <2>6. ASSUME NEW t \in (job[c].from .. ChunkEnd(c) - 1) \ cut' PROVE fed'[t] > 0
    <3>1. t \in Seconds /\ t \in Nat /\ t \notin cut /\ t \notin cut'
      <4>1. t \in Int /\ job[c].from <= t /\ t <= ChunkEnd(c) - 1 /\ t \notin cut'
        BY <2>3, <2>6
      <4>2. t \in 0 .. MaxTime
        BY <2>3, <4>1
      <4> QED
        BY <1>0, <2>2, <4>1, <4>2
    <3>2. CASE pc[c] = "userspace" /\ t >= job[c].chunk
      <4>1. t \in ThisChunk(c)
        BY <2>3, <2>6, <3>1, <3>2 DEF ThisChunk
      <4> QED
        BY <2>2, <3>1, <3>2, <4>1
    <3>3. CASE pc[c] = "kernel" \/ t < job[c].chunk
      <4>1. pc[c] \in InWindow /\ t \in (job[c].from .. Frontier(c) - 1) \ cut
        BY <2>2, <2>3, <2>6, <3>1, <3>3 DEF Frontier, InWindow
      <4>2. fed[t] > 0
        BY <4>1 DEF AllBefore
      <4> QED
        BY <2>5, <3>1, <4>2
    <3> QED
      BY <2>2, <2>3, <3>1, <3>2, <3>3
  <2>7. AllBefore'
    BY <2>1, <2>2, <2>4, <2>6 DEF AllBefore, InWindow, Reading
  <2> QED
    BY <2>7
<1>4. ASSUME NEW c \in Callers, NextChunk(c) PROVE AllBefore'
  <2>1. \A b \in Callers : b # c => pc'[b] = "idle"
    BY <1>4, Others DEF Step
  <2>2. pc[c] = "next" /\ pc[c] \in Reading /\ pc[c] \in InWindow /\ UNCHANGED fed
    BY <1>4 DEF NextChunk, Reading, InWindow
  <2>3. cut \subseteq cut'
    BY <1>4 DEF NextChunk
  <2>4. \A t \in (job[c].from .. ChunkEnd(c) - 1) \ cut : fed[t] > 0
    BY <2>2 DEF AllBefore, Frontier
  <2>5. /\ job[c].from \in Nat /\ job[c].to \in Nat /\ ChunkEnd(c) \in Nat
    BY <2>2, Chunks
  <2>6. AllBefore'
    <3>1. CASE c \in done \/ ChunkEnd(c) = job[c].to
      <4>1. pc'[c] = "completing" /\ job' = job /\ cut' = cut \cup LaterChunks(c)
        BY <1>0, <1>4, <3>1 DEF NextChunk
      <4>2. Frontier(c)' = job[c].to
        BY <4>1 DEF Frontier
      <4>3. \A t \in (job[c].from .. job[c].to - 1) \ cut' : fed[t] > 0
        BY <2>4, <2>5, <4>1 DEF LaterChunks
      <4> QED
        BY <2>1, <2>2, <4>1, <4>2, <4>3 DEF AllBefore, InWindow, Reading
    <3>2. CASE ~ (c \in done \/ ChunkEnd(c) = job[c].to)
      <4>1. job[c] \in Job
        BY DEF TypeOK
      <4>2. /\ pc'[c] = "userspace" /\ cut' = cut
            /\ job'[c].chunk = ChunkEnd(c) /\ job'[c].from = job[c].from
        BY <1>0, <1>4, <3>2, <4>1 DEF NextChunk, Job
      <4>3. Frontier(c)' = ChunkEnd(c)
        BY <4>2 DEF Frontier
      <4> QED
        BY <2>1, <2>2, <2>4, <4>2, <4>3 DEF AllBefore, InWindow, Reading
    <3> QED
      BY <3>1, <3>2
  <2> QED
    BY <2>6
<1>5. ASSUME NEW c \in Callers, Complete(c) PROVE AllBefore'
  <2>1. pc'[c] = "leaving" /\ \A b \in Callers : b # c => pc'[b] = "idle"
    BY <1>0, <1>5, Others DEF Step, Complete
  <2> QED
    BY <2>1 DEF AllBefore, InWindow, Reading
<1>6. CASE Tick \/ SaveLogs \/ UNCHANGED vars
  <2>1. UNCHANGED <<pc, job, fed, cut>>
    BY <1>6 DEF Tick, SaveLogs, vars
  <2> QED
    BY <2>1 DEF AllBefore, Frontier, ChunkEnd
<1>7. CASE Restart
  <2>1. \A c \in Callers : pc'[c] = "idle"
    BY <1>7 DEF Restart, RestartOf
  <2> QED
    BY <2>1 DEF AllBefore, InWindow, Reading
<1> QED
  BY <1>1, <1>2, <1>3, <1>4, <1>5, <1>6, <1>7 DEF Next, Step

\* A window is chosen once, and lastSync does not change while it is read.
LEMMA JoinedStep ==
  ASSUME Inv, [Next]_vars
  PROVE  Joined'
<1> USE DEF Inv
<1>0. pc \in [Callers -> {"idle", "entered", "marked", "userspace", "kernel",
                         "next", "completing", "leaving", "unmarked"}]
  BY DEF TypeOK
<1>1. ASSUME NEW c \in Callers, Enter(c) \/ Mark(c) \/ Unmark(c) \/ Leave(c) \/ Cancel(c)
      PROVE  Joined'
  BY <1>1, Aside DEF Joined
<1>2. ASSUME NEW c \in Callers, Begin(c) PROVE Joined'
  <2>1. \A b \in Callers : b # c => pc'[b] = "idle"
    BY <1>2, Others DEF Step
  <2>2. lastSync' = lastSync /\ DOMAIN job = Callers
    BY <1>2 DEF Begin, TypeOK
  <2>3. job'[c].from = WindowStart /\ job'[c].to = now
    BY <1>2, <2>2 DEF Begin
  <2>4. now \in Nat /\ Window \in Nat
    BY DEF TypeOK, Seconds
  <2>5. WindowStart + Window = now \/ (lastSync # Never /\ WindowStart = lastSync)
    BY <2>4 DEF WindowStart
  <2> QED
    BY <2>1, <2>2, <2>3, <2>5 DEF Joined, InWindow, Reading
<1>3. ASSUME NEW c \in Callers, ReadUserspace(c) \/ ReadKernel(c) \/ NextChunk(c) PROVE Joined'
  <2>1. \A b \in Callers : b # c => pc'[b] = "idle"
    BY <1>3, Others DEF Step
  <2>2. pc[c] \in Reading /\ lastSync' = lastSync
    BY <1>3 DEF ReadUserspace, ReadKernel, NextChunk, Reading
  <2>3. job'[c].from = job[c].from /\ job'[c].to = job[c].to
    <3>1. job[c] \in Job /\ DOMAIN job = Callers
      BY DEF TypeOK
    <3> QED
      BY <1>3, <3>1 DEF ReadUserspace, ReadKernel, NextChunk, Job
  <2> QED
    BY <2>1, <2>2, <2>3 DEF Joined, InWindow, Reading
<1>4. ASSUME NEW c \in Callers, Complete(c) PROVE Joined'
  <2>1. \A b \in Callers : b # c => pc'[b] = "idle"
    BY <1>4, Others DEF Step
  <2>2. pc'[c] = "leaving" /\ lastSync' = now /\ Window <= now
    BY <1>0, <1>4 DEF Complete, Windows
  <2> QED
    BY <2>1, <2>2 DEF Joined, InWindow, Reading
<1>5. CASE Tick \/ SaveLogs \/ UNCHANGED vars
  <2>1. UNCHANGED <<pc, job, lastSync>>
    BY <1>5 DEF Tick, SaveLogs, vars
  <2> QED
    BY <2>1 DEF Joined
<1>6. CASE Restart
  <2>1. lastSync' = Never /\ \A c \in Callers : pc'[c] = "idle"
    BY <1>6 DEF Restart, RestartOf
  <2> QED
    BY <2>1 DEF Joined, InWindow, Reading
<1> QED
  BY <1>1, <1>2, <1>3, <1>4, <1>5, <1>6 DEF Next, Step

\* What is read, cut or logged during a sync stays so until the process ends, and a
\* sync that completes adds its window to what the last one left.
LEMMA WeekStep ==
  ASSUME Inv, [Next]_vars
  PROVE  WeekIsCovered'
<1> USE DEF Inv
<1>0. /\ pc \in [Callers -> {"idle", "entered", "marked", "userspace", "kernel",
                            "next", "completing", "leaving", "unmarked"}]
      /\ fed \in [Seconds -> Nat] /\ now \in Nat /\ now <= MaxTime /\ MaxTime \in Nat
      /\ lastSync \in Int /\ (lastSync # Never => lastSync \in Nat)
      /\ Window \in Nat /\ Window <= now /\ lastSync <= now
  <2>1. lastSync \in Seconds \cup {Never} /\ now \in Seconds
    BY DEF TypeOK
  <2> QED
    BY <2>1 DEF TypeOK, Seconds, Never, Windows
<1>1. ASSUME UNCHANGED <<lastSync, between>>, cut \subseteq cut',
             \A t \in Seconds : fed[t] > 0 => fed'[t] > 0
      PROVE  WeekIsCovered'
  <2>1. ASSUME lastSync # Never, NEW t \in (lastSync - Window .. lastSync - 1) \ (cut \cup between)
        PROVE  t \in Seconds /\ fed[t] > 0
    <3>1. Window <= lastSync /\ lastSync \in Nat
      BY <1>0, <2>1 DEF Joined
    <3>2. t \in Seconds
      BY <1>0, <2>1, <3>1 DEF Seconds
    <3> QED
      BY <2>1, <3>2 DEF WeekIsCovered
  <2> QED
    BY <1>1, <2>1 DEF WeekIsCovered
<1>2. ASSUME NEW c \in Callers,
             Enter(c) \/ Mark(c) \/ Unmark(c) \/ Leave(c) \/ Cancel(c) \/ Begin(c)
      PROVE  WeekIsCovered'
  BY <1>1, <1>2 DEF Enter, Mark, Unmark, Leave, Cancel, Begin
<1>3. ASSUME NEW c \in Callers, ReadUserspace(c) \/ ReadKernel(c) PROVE WeekIsCovered'
  <2>1. /\ UNCHANGED <<lastSync, between>> /\ cut \subseteq cut'
        /\ \A t \in Seconds : fed'[t] = fed[t] \/ fed'[t] = fed[t] + 1
    BY <1>3, Runs
  <2>2. ASSUME NEW t \in Seconds, fed[t] > 0 PROVE fed'[t] > 0
    <3>1. fed[t] \in Nat /\ (fed'[t] = fed[t] \/ fed'[t] = fed[t] + 1)
      BY <1>0, <2>1
    <3> QED
      BY <2>2, <3>1
  <2> QED
    BY <1>1, <2>1, <2>2
<1>4. ASSUME NEW c \in Callers, NextChunk(c) PROVE WeekIsCovered'
  BY <1>1, <1>4 DEF NextChunk
<1>5. ASSUME NEW c \in Callers, Complete(c) PROVE WeekIsCovered'
  <2>1. /\ pc[c] = "completing" /\ pc[c] \in InWindow /\ lastSync' = now /\ UNCHANGED <<fed, cut>>
        /\ between' = between \cup (job[c].to .. now - 1)
    BY <1>5 DEF Complete, InWindow
  <2>2. job[c].from \in Nat /\ job[c].to \in Nat /\ job[c].to <= now
    <3>1. job[c] \in Job
      BY DEF TypeOK
    <3> QED
      BY <2>1, <3>1 DEF Job, Seconds, Windows
  <2>3. ASSUME NEW t \in (now - Window .. now - 1) \ (cut' \cup between') PROVE fed[t] > 0
    <3>1. /\ t \in Int /\ now - Window <= t /\ t < now
          /\ t \notin cut /\ t \notin between /\ t \notin job[c].to .. now - 1
      BY <1>0, <2>1, <2>3
    <3>2. t < job[c].to
      BY <1>0, <2>2, <3>1
    <3>3. CASE job[c].from <= t
      <4>1. t \in (job[c].from .. Frontier(c) - 1) \ cut
        BY <2>1, <2>2, <3>1, <3>2, <3>3 DEF Frontier
      <4> QED
        BY <2>1, <4>1 DEF AllBefore
    <3>4. CASE t < job[c].from
      <4>1. lastSync # Never /\ job[c].from = lastSync
        BY <1>0, <2>1, <2>2, <3>1, <3>4 DEF Joined
      <4>2. t \in (lastSync - Window .. lastSync - 1) \ (cut \cup between)
        BY <1>0, <3>1, <3>4, <4>1
      <4> QED
        BY <4>1, <4>2 DEF WeekIsCovered
    <3> QED
      BY <2>2, <3>1, <3>3, <3>4
  <2> QED
    BY <2>1, <2>3 DEF WeekIsCovered
<1>6. CASE Tick \/ SaveLogs \/ UNCHANGED vars
  <2>1. UNCHANGED <<lastSync, between, cut, fed>>
    BY <1>6 DEF Tick, SaveLogs, vars
  <2> QED
    BY <1>1, <2>1
<1>7. CASE Restart
  BY <1>7 DEF Restart, RestartOf, WeekIsCovered
<1> QED
  BY <1>2, <1>3, <1>4, <1>5, <1>6, <1>7 DEF Next, Step
-----------------------------------------------------------------------------
\* The invariant holds throughout.
THEOREM Invariance == Spec => []Inv
<1>1. Init => Inv
  BY Initially
<1>2. Inv /\ [Next]_vars => Inv'
  BY TypeStep, LockStep, WindowsStep, CountStep, ReadStep, JoinedStep,
     WeekStep DEF Inv
<1> QED
  BY <1>1, <1>2, PTL DEF Spec

\* The fields of a sync and of its result keep their types: windows never begin
\* before the journal does, nor end in the future.
THEOREM TypeCorrect == Spec => []TypeOK
<1>1. Inv => TypeOK
  BY DEF Inv
<1> QED
  BY <1>1, Invariance, PTL

\* What GET /api/sync says is true for any number of callers: a sync in flight
\* holds the lock, and a caller in its sync is in flight.
THEOREM InFlightTrue == Spec => []InFlightIsTrue
<1>1. Inv => InFlightIsTrue
  <2> SUFFICES ASSUME Inv PROVE InFlightIsTrue
    OBVIOUS
  <2>1. inFlight => runMu # None
    BY DEF Inv, Flagged, LockHeld, InSync, InWindow, Reading
  <2>2. ASSUME NEW c \in Callers, pc[c] \notin {"idle", "entered", "unmarked"} PROVE inFlight
    BY <2>2 DEF Inv, TypeOK, Flagged, InSync, InWindow, Reading
  <2> QED
    BY <2>1, <2>2 DEF InFlightIsTrue
<1> QED
  BY <1>1, Invariance, PTL

\* In one life of the process no second of the journal is counted by two syncs, nor
\* twice by one, but for a kernel entry that both of its runs print.
THEOREM CountsOnce == Spec => []CountedOnce
<1>1. Inv => CountedOnce
  BY DEF Inv
<1> QED
  BY <1>1, Invariance, PTL

\* After any crashes, missed hours and failed syncs, the buffer has every entry of the
\* window before the last sync that is in no cut chunk and was not logged during a sync.
THEOREM WeekCovered == Spec => []WeekIsCovered
<1>1. Inv => WeekIsCovered
  BY DEF Inv
<1> QED
  BY <1>1, Invariance, PTL
=============================================================================
