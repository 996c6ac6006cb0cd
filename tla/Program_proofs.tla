---------------------------- MODULE Program_proofs --------------------------
(***************************************************************************)
(* Proofs about Program: its types, that reports are true, that every      *)
(* alerter is told of every change, and that the domains found in nginx's  *)
(* files are those that nginx serves.                                      *)
(***************************************************************************)
EXTENDS Program, Ranks, SequenceTheorems

\* What is one or the other of two elements of a set is in the set.
LEMMA OneOfTwo ==
  ASSUME NEW S, NEW x \in S, NEW y \in S, NEW condition
  PROVE  (IF condition THEN x ELSE y) \in S
<1>1. CASE condition
  BY <1>1
<1>2. CASE ~condition
  BY <1>2
<1> QED
  BY <1>1, <1>2

\* buildAlerter gives a list of channels.
LEMMA AlertersAreChannels == ASSUME NEW file PROVE Alerters(file) \in Seq(Channels)
<1>1. << >> \in Seq(Channels) /\ <<"log">> \in Seq(Channels)
      /\ <<"webhook">> \in Seq(Channels) /\ <<"email">> \in Seq(Channels)
  BY DEF Channels
<1> DEFINE S == Seq(Channels)
           log == IF file.log THEN <<"log">> ELSE << >>
           webhook == IF file.webhook /\ file.webhookURL # "" THEN <<"webhook">> ELSE << >>
           email == IF file.email THEN <<"email">> ELSE << >>
<1>2. << >> \in S /\ <<"log">> \in S /\ <<"webhook">> \in S /\ <<"email">> \in S
  BY <1>1
<1>3. log \in S /\ webhook \in S /\ email \in S
  <2> HIDE DEF S
  <2> QED
    BY <1>2, OneOfTwo
<1>4. Alerters(file) = log \o webhook \o email
  BY DEF Alerters
<1> HIDE DEF log, webhook, email
<1> QED
  BY <1>3, <1>4, ConcatProperties

\* The length of that list, and each of its elements.
LEMMA AlertersTyped ==
  ASSUME NEW file
  PROVE  /\ Len(Alerters(file)) \in Nat
         /\ \A i \in 1 .. Len(Alerters(file)) : Alerters(file)[i] \in Channels
<1>1. Alerters(file) \in Seq(Channels)
  BY AlertersAreChannels
<1> HIDE DEF Channels
<1> QED
  BY <1>1, LenProperties, ElementOfSeq

\* The lock's two kinds of value, and the two kinds of item, cannot be taken for one another.
LEMMA NotTheSame ==
  /\ \A c \in Names : c # Free
  /\ \A x \in Components : x # NoItem
<1>1. \A c \in Names : c # Free
  BY NamesAssumption
<1>2. \A x \in Components : x # NoItem
  BY DEF Components, NoItem
<1> QED
  BY <1>1, <1>2

\* Only checkers that the configuration can lead to are built.
LEMMA BuiltAtFirst == Init => built \subseteq Names
<1> SUFFICES ASSUME Init PROVE built \subseteq Names
  OBVIOUS
<1>1. PICK file \in Files, host \in Hosts :
        cfg = LoadConfig(file) /\ built = Built(cfg, host)
  BY DEF Init
<1> QED
  BY <1>1, FilesAssumption
-----------------------------------------------------------------------------
\* What a check reports next has a status.
LEMMA ReportTyped ==
  ASSUME NEW r \in [Names -> Result], NEW c \in Names, NEW p \in Parts,
         NEW s \in Answer \cup {None}
  PROVE  [r EXCEPT ![c][p] = s] \in [Names -> Result]
BY DEF Result

\* Being told something changes what one channel has been told of one component.
LEMMA ToldTyped ==
  ASSUME NEW t \in [Channels -> [Components -> Answer \cup {None}]], NEW a \in Channels,
         NEW x \in Components, NEW s \in Answer \cup {None}
  PROVE  [t EXCEPT ![a][x] = s] \in [Channels -> [Components -> Answer \cup {None}]]
OBVIOUS

\* Types, at the start and over each action.
LEMMA InitTyped == Init => TypeOK
<1> SUFFICES ASSUME Init PROVE TypeOK
  OBVIOUS
<1>1. built \subseteq Names
  BY BuiltAtFirst
<1>2. up \in [Names -> BOOLEAN] /\ mail \in BOOLEAN
  BY DEF Init
<1>3. NoResult \in Result
  BY DEF NoResult, Result
<1>4. report \in [Names -> Result] /\ results \in [Names -> Result] /\ previous \in [Names -> Result]
  BY <1>3 DEF Init
<1>5. turn \in 1 .. Len(Alerters(cfg)) + 1
  BY AlertersTyped DEF Init
<1>6. told \in [Channels -> [Components -> Answer \cup {None}]]
  BY DEF Init
<1> QED
  BY <1>1, <1>2, <1>4, <1>5, <1>6 DEF Init, TypeOK

\* A step of a check leaves a result and the place where the check goes on.
LEMMA FoundTyped ==
  ASSUME TypeOK, NEW c \in Names, c \in built, NEW p \in Parts, NEW s \in Answer \cup {None},
         NEW next \in {"pinging", "querying", "done"}, Found(c, p, s, next),
         pool' \in [Names -> {"none", "open", "refused", "closed"}]
  PROVE  TypeOK'
<1>1. report' \in [Names -> Result]
  BY ReportTyped DEF Found, TypeOK
<1>2. /\ at' \in [Names -> {"idle", "begun", "pinging", "querying", "done"}]
      /\ \A d \in Names \ built : at'[d] = "idle"
  BY DEF Found, TypeOK
<1>3. UNCHANGED <<cfg, built, up, mail, main, cancelled, saw, sched>>
  BY DEF Found, world
<1>4. UNCHANGED <<mu, results, previous, news, item, turn, told, reader>>
  BY DEF Found, board, alerting
<1> QED
  BY <1>1, <1>2, <1>3, <1>4 DEF TypeOK

\* A check goes on only for a checker that was built.
LEMMA CheckTyped == ASSUME TypeOK, NEW c \in Names, Check(c) PROVE TypeOK'
<1>1. c \in built
  BY DEF TypeOK, Check, Probe, Open, Ping, Query
<1>2. CASE Probe(c)
  <2>1. pool' \in [Names -> {"none", "open", "refused", "closed"}]
    BY <1>2 DEF Probe, TypeOK
  <2>2. Found(c, "connection", "ok", "done") \/ Found(c, "connection", "critical", "done")
    BY <1>2 DEF Probe
  <2> QED
    BY <1>1, <2>1, <2>2, FoundTyped DEF Parts, Answer
<1>3. CASE Open(c)
  <2>1. pool[c] \in {"none", "open", "refused", "closed"}
    BY DEF TypeOK
  <2>2. Opened(c) \in {"open", "refused", "closed"}
    BY <2>1 DEF Opened
  <2>3. pool' \in [Names -> {"none", "open", "refused", "closed"}]
    BY <1>3, <2>2 DEF Open, TypeOK
  <2>4. Found(c, "connection", None, "pinging") \/ Found(c, "connection", "critical", "done")
    BY <1>3 DEF Open
  <2> QED
    BY <1>1, <2>3, <2>4, FoundTyped DEF Parts, Answer
<1>4. CASE Ping(c)
  <2>1. pool' \in [Names -> {"none", "open", "refused", "closed"}]
    BY <1>4 DEF Ping, TypeOK
  <2>2. Found(c, "connection", "ok", "querying") \/ Found(c, "connection", "critical", "done")
    BY <1>4 DEF Ping
  <2> QED
    BY <1>1, <2>1, <2>2, FoundTyped DEF Parts, Answer
<1>5. CASE Query(c)
  <2>1. pool' \in [Names -> {"none", "open", "refused", "closed"}]
    BY <1>5 DEF Query, TypeOK
  <2>2. Found(c, "query", "ok", "done") \/ Found(c, "query", "critical", "done")
    BY <1>5 DEF Query
  <2> QED
    BY <1>1, <2>1, <2>2, FoundTyped DEF Parts, Answer
<1> QED
  BY <1>2, <1>3, <1>4, <1>5 DEF Check

\* What changes in the world, and the start of a cycle.
LEMMA FlipTyped == ASSUME TypeOK, NEW c \in Names, Flip(c) PROVE TypeOK'
<1>1. up' \in [Names -> BOOLEAN]
  BY DEF Flip, TypeOK
<1>2. saw' \in [Names -> SUBSET BOOLEAN]
  <2>1. saw \in [Names -> SUBSET BOOLEAN] /\ (~up[c]) \in BOOLEAN
    BY DEF TypeOK
  <2> QED
    BY <2>1 DEF Flip
<1>3. UNCHANGED <<cfg, built, mail, main, cancelled, pool, at, report, sched>>
  BY DEF Flip
<1>4. UNCHANGED <<mu, results, previous, news, item, turn, told, reader>>
  BY DEF Flip, board, alerting
<1> QED
  BY <1>1, <1>2, <1>3, <1>4 DEF TypeOK

\* Only the checkers that were built begin.
LEMMA StartCycleTyped == ASSUME TypeOK, StartCycle PROVE TypeOK'
<1>1. at' = [c \in Names |-> IF c \in built THEN "begun" ELSE "idle"]
  BY DEF StartCycle
<1>2. /\ at' \in [Names -> {"idle", "begun", "pinging", "querying", "done"}]
      /\ \A d \in Names \ built : at'[d] = "idle"
  BY <1>1
<1>3. saw' \in [Names -> SUBSET BOOLEAN]
  <2>1. \A c \in Names : up[c] \in BOOLEAN
    BY DEF TypeOK
  <2> QED
    BY <2>1 DEF StartCycle
<1>4. UNCHANGED <<cfg, built, up, mail, main, cancelled, pool, report>> /\ sched' = "collecting"
  BY DEF StartCycle, world
<1>5. UNCHANGED <<mu, results, previous, news, item, turn, told, reader>>
  BY DEF StartCycle, board, alerting
<1> QED
  BY <1>2, <1>3, <1>4, <1>5 DEF TypeOK

\* The lock is taken for a checker that is done, so for one that was built.
LEMMA LockTyped == ASSUME TypeOK, NEW c \in Names, Lock(c) PROVE TypeOK'
<1>1. c \in built
  BY DEF TypeOK, Lock
<1>2. UNCHANGED <<cfg, built, up, mail, main, cancelled, pool, at, report, saw, sched>>
  BY DEF Lock, world, checks
<1>3. UNCHANGED <<results, previous, news, item, turn, told, reader>> /\ mu' = c
  BY DEF Lock, alerting
<1> QED
  BY <1>1, <1>2, <1>3 DEF TypeOK

\* What is applied is what was reported.
LEMMA ApplyTyped == ASSUME TypeOK, NEW c \in Names, Apply(c) PROVE TypeOK'
<1>1. report \in [Names -> Result] /\ results \in [Names -> Result] /\ previous \in [Names -> Result]
  BY DEF TypeOK
<1>2. report[c] \in Result /\ NoResult \in Result
  BY <1>1 DEF Result, NoResult
<1>3. results' \in [Names -> Result] /\ report' \in [Names -> Result]
  BY <1>1, <1>2 DEF Apply
<1>4. previous' \in [Names -> Result]
  <2> DEFINE after == [p \in Parts |-> IF report[c][p] = None THEN previous[c][p] ELSE report[c][p]]
  <2>1. after \in Result
    BY <1>1, <1>2 DEF Result
  <2>2. previous' = [previous EXCEPT ![c] = after]
    BY DEF Apply
  <2> HIDE DEF after
  <2> QED
    BY <1>1, <2>1, <2>2
<1>5. news' \subseteq Components
  BY DEF Apply, TypeOK, Components
<1>6. /\ at' \in [Names -> {"idle", "begun", "pinging", "querying", "done"}]
      /\ \A d \in Names \ built : at'[d] = "idle"
  BY DEF Apply, TypeOK
<1>7. saw' \in [Names -> SUBSET BOOLEAN]
  BY DEF Apply, TypeOK
<1>8. UNCHANGED <<cfg, built, up, mail, main, cancelled, pool, sched, item, turn, told, reader>>
  BY DEF Apply, world
<1>9. mu' = Free
  BY DEF Apply
<1> QED
  BY <1>3, <1>4, <1>5, <1>6, <1>7, <1>8, <1>9 DEF TypeOK

\* Alerting changes what is announced and what has been told.
LEMMA AlertTyped == ASSUME TypeOK, Alert PROVE TypeOK'
<1>1. UNCHANGED <<cfg, built, up, mail, main, cancelled>>
  BY DEF Alert, Announce, Call, Announced, EndCycle, world
<1>2. UNCHANGED <<pool, at, report, saw, mu, results, previous, reader>>
  BY DEF Alert, Announce, Call, Announced, EndCycle, checks, board
<1>3. sched' \in {"waiting", "collecting", "alerting", "returned"}
  BY DEF Alert, Announce, Call, Announced, EndCycle, TypeOK
<1>4. news' \subseteq Components /\ item' \in Components \cup {NoItem}
  BY DEF Alert, Announce, Call, Announced, EndCycle, alerting, TypeOK
<1>5. Len(Alerters(cfg)) \in Nat
  BY AlertersTyped
<1>6. turn' \in 1 .. Len(Alerters(cfg)) + 1
  <2>1. turn \in 1 .. Len(Alerters(cfg)) + 1
    BY DEF TypeOK
  <2>2. turn' = turn \/ turn' = 1 \/ (turn' = turn + 1 /\ turn <= Len(Alerters(cfg)))
    BY DEF Alert, Announce, Call, Announced, EndCycle, alerting
  <2> QED
    BY ONLY <1>5, <2>1, <2>2, SMT
<1>7. told' \in [Channels -> [Components -> Answer \cup {None}]]
  <2>1. CASE Call
    <3>1. item \in Components /\ turn \in 1 .. Len(Alerters(cfg))
      <4>1. turn \in 1 .. Len(Alerters(cfg)) + 1 /\ turn <= Len(Alerters(cfg))
        BY <2>1 DEF Call, TypeOK
      <4>2. item \in Components
        BY <2>1 DEF Call, TypeOK
      <4> QED
        BY ONLY <1>5, <4>1, <4>2, SMT
    <3>2. Alerters(cfg)[turn] \in Channels
      BY <3>1, AlertersTyped
    <3>3. item[1] \in Names /\ item[2] \in Parts
      BY <3>1 DEF Components
    <3>4. previous[item[1]][item[2]] \in Answer \cup {None}
      <4>1. previous[item[1]] \in Result
        BY <3>3 DEF TypeOK
      <4> QED
        BY <3>3, <4>1 DEF Result
    <3> QED
      BY <2>1, <3>1, <3>2, <3>4, ToldTyped DEF Call, TypeOK
  <2>2. CASE ~Call
    BY <2>2 DEF Alert, Announce, Announced, EndCycle, alerting, TypeOK
  <2> QED
    BY <2>1, <2>2
<1> QED
  BY <1>1, <1>2, <1>3, <1>4, <1>6, <1>7 DEF TypeOK

\* The steps of main change where it is, and the connections.
LEMMA StopTyped == ASSUME TypeOK, Signal \/ Stop PROVE TypeOK'
<1>1. UNCHANGED <<cfg, built, up, mail, at, report, saw, sched>>
  BY DEF Signal, Stop, Flush, Close, Exit, Step, world
<1>2. UNCHANGED <<mu, results, previous, news, item, turn, told, reader>>
  BY DEF Signal, Stop, Flush, Close, Exit, Step, board, alerting
<1>3. main' \in {"serving", "flushing", "closing mariadb", "closing postgresql",
                 "draining", "ended"}
  BY DEF Signal, Stop, Flush, Close, Exit, Step, MariaDBNext, PostgreSQLNext
<1>4. cancelled' \in BOOLEAN
  BY DEF Signal, Stop, Flush, Close, Exit, TypeOK
<1>5. pool' \in [Names -> {"none", "open", "refused", "closed"}]
  BY DEF Signal, Stop, Flush, Close, Exit, TypeOK
<1> QED
  BY <1>1, <1>2, <1>3, <1>4, <1>5 DEF TypeOK

\* The steps that change one thing only.
LEMMA SmallTyped == ASSUME TypeOK, FlipMail \/ Collected \/ Return \/ Ask \/ Reply PROVE TypeOK'
<1>1. UNCHANGED <<cfg, built, up, main, cancelled, pool, at, report, saw>>
  BY DEF FlipMail, Collected, Return, Ask, Reply, checks, world
<1>2. UNCHANGED <<mu, results, previous, news, item, turn, told>>
  BY DEF FlipMail, Collected, Return, Ask, Reply, board, alerting
<1>3. mail' \in BOOLEAN
  BY DEF FlipMail, Collected, Return, Ask, Reply, world, TypeOK
<1>4. sched' \in {"waiting", "collecting", "alerting", "returned"}
  BY DEF FlipMail, Collected, Return, Ask, Reply, TypeOK
<1>5. reader' \in {"idle", "asking"}
  BY DEF FlipMail, Collected, Return, Ask, Reply, TypeOK
<1> QED
  BY <1>1, <1>2, <1>3, <1>4, <1>5 DEF TypeOK

\* A step that changes nothing.
LEMMA NoStepTyped == ASSUME TypeOK, UNCHANGED vars PROVE TypeOK'
BY DEF TypeOK, vars, world, checks, board, alerting

\* Next, as the proofs take it apart.
LEMMA Cases ==
  ASSUME Next
  PROVE  \/ \E c \in Names : Flip(c) \/ Check(c) \/ Lock(c) \/ Apply(c)
         \/ FlipMail \/ Collected \/ Return \/ Ask \/ Reply
         \/ StartCycle \/ Alert \/ Signal \/ Stop
BY DEF Next, Collect

\* All steps together.
LEMMA StepTyped == TypeOK /\ [Next]_vars => TypeOK'
<1> SUFFICES ASSUME TypeOK, [Next]_vars PROVE TypeOK'
  OBVIOUS
<1>1. ASSUME NEW c \in Names, Flip(c) \/ Check(c) \/ Lock(c) \/ Apply(c) PROVE TypeOK'
  BY <1>1, FlipTyped, CheckTyped, LockTyped, ApplyTyped
<1>2. CASE FlipMail \/ Collected \/ Return \/ Ask \/ Reply
  BY <1>2, SmallTyped
<1>3. CASE StartCycle \/ Alert \/ Signal \/ Stop
  BY <1>3, StartCycleTyped, AlertTyped, StopTyped
<1>4. CASE UNCHANGED vars
  BY <1>4, NoStepTyped
<1> QED
  BY <1>1, <1>2, <1>3, <1>4, Cases

\* Whatever is configured, only checkers that were built report, alerts are about
\* components, and the lock is held for a checker that was built or for none.
THEOREM TypeCorrect == Spec => []TypeOK
<1>1. Init => TypeOK
  BY InitTyped
<1>2. TypeOK /\ [Next]_vars => TypeOK'
  BY StepTyped
<1> QED
  BY <1>1, <1>2, PTL DEF Spec
-----------------------------------------------------------------------------
(* Reports are true.  A report is made of calls that were answered, or not, *)
(* while saw was told of every change of the service; and connections are   *)
(* only closed after the checks have been cancelled.                        *)

Connected ==
  \A c \in Names :
    /\ at[c] \in {"pinging", "querying"} => pool[c] \in {"open", "closed"}
    /\ pool[c] = "closed" => cancelled

Cancelling == main # "serving" => cancelled

Between ==
  /\ sched # "collecting" => \A c \in Names : at[c] = "idle"
  /\ \A c \in Names : at[c] = "idle" => report[c] = NoResult

Watched == \A c \in Names : Checking(c) => up[c] \in saw[c]

True(c, p) ==
  /\ report[c][p] = "critical" => FALSE \in saw[c] \/ pool[c] = "refused" \/ cancelled
  /\ report[c][p] = "ok" => TRUE \in saw[c]

Reported == \A c \in Names, p \in Parts : True(c, p)

HonestInv == TypeOK /\ Connected /\ Cancelling /\ Between /\ Watched /\ Reported

\* A checker with no results yet reports nothing that is not true.
LEMMA NothingIsTrue ==
  ASSUME NEW c \in Names, report[c] = NoResult
  PROVE  \A p \in Parts : True(c, p)
BY DEF NoResult, True, None

\* Before the first cycle nothing is reported.
LEMMA HonestAtFirst == Init => HonestInv
<1> SUFFICES ASSUME Init PROVE HonestInv
  OBVIOUS
<1>1. TypeOK
  BY InitTyped
<1>2. \A c \in Names : at[c] = "idle" /\ pool[c] = "none" /\ report[c] = NoResult
  BY DEF Init
<1>3. Reported
  BY <1>2, NothingIsTrue DEF Reported
<1> QED
  BY <1>1, <1>2, <1>3 DEF Init, HonestInv, Connected, Cancelling, Between, Watched, Checking

\* A step of a check that leaves a true result, and goes on where it may, is honest.
LEMMA FoundHonest ==
  ASSUME HonestInv, TypeOK', NEW c \in Names, NEW p \in Parts, NEW s \in Answer \cup {None},
         NEW next \in {"pinging", "querying", "done"}, Found(c, p, s, next), Checking(c),
         \A d \in Names : pool'[d] = pool[d] \/ (d = c /\ pool[c] = "none"),
         next # "done" => pool'[c] \in {"open", "closed"},
         pool'[c] = "closed" => pool[c] = "closed",
         s = "critical" => FALSE \in saw[c] \/ pool'[c] = "refused" \/ cancelled,
         s = "ok" => TRUE \in saw[c],
         sched = "collecting"
  PROVE  HonestInv'
<1>1. /\ report' = [report EXCEPT ![c][p] = s] /\ at' = [at EXCEPT ![c] = next]
      /\ UNCHANGED <<saw, cancelled, main, up, sched>>
  BY DEF Found, world
<1>2. report \in [Names -> Result] /\ at \in [Names -> {"idle", "begun", "pinging", "querying", "done"}]
  BY DEF HonestInv, TypeOK
<1>3. Connected'
  BY <1>1, <1>2 DEF HonestInv, Connected
<1>4. Cancelling' /\ Watched'
  BY <1>1, <1>2 DEF HonestInv, Cancelling, Watched, Checking
<1>5. Between'
  BY <1>1, <1>2 DEF HonestInv, Between
<1>6. Reported'
  <2> SUFFICES ASSUME NEW d \in Names, NEW q \in Parts PROVE True(d, q)'
    BY DEF Reported
  <2>1. True(d, q)
    BY DEF HonestInv, Reported
  <2>2. CASE d = c /\ q = p
    <3>1. report'[d][q] = s
      BY <1>1, <1>2, <2>2 DEF Result
    <3> QED
      BY <1>1, <2>2, <3>1 DEF True
  <2>3. CASE ~(d = c /\ q = p)
    <3>1. report'[d][q] = report[d][q]
      BY <1>1, <1>2, <2>3 DEF Result
    <3>2. pool[d] = "refused" => pool'[d] = "refused"
      OBVIOUS
    <3> QED
      BY <1>1, <2>1, <3>1, <3>2 DEF True
  <2> QED
    BY <2>2, <2>3
<1> QED
  BY <1>3, <1>4, <1>5, <1>6 DEF HonestInv

\* What a call finds is what the service was like while the check ran.
LEMMA CallsTell ==
  ASSUME HonestInv, NEW c \in Names, Checking(c)
  PROVE  /\ Succeeds(c) => TRUE \in saw[c]
         /\ Fails(c) /\ (at[c] \in {"pinging", "querying"} \/ c \notin Databases)
              => FALSE \in saw[c] \/ cancelled
<1>1. up[c] \in saw[c]
  BY DEF HonestInv, Watched
<1>2. up[c] = TRUE \/ up[c] = FALSE
  BY DEF HonestInv, TypeOK
<1>3. Succeeds(c) => TRUE \in saw[c]
  BY <1>1, <1>2 DEF Succeeds
<1>4. ASSUME Fails(c), at[c] \in {"pinging", "querying"} \/ c \notin Databases
      PROVE  FALSE \in saw[c] \/ cancelled
  <2>1. CASE ~up[c]
    BY <1>1, <1>2, <2>1
  <2>2. CASE c \in Databases /\ pool[c] # "open"
    BY <1>4, <2>2 DEF HonestInv, Connected
  <2> QED
    BY <1>4, <2>1, <2>2 DEF Fails
<1> QED
  BY <1>3, <1>4

\* A check reports what it sees at this moment, which is in what was seen since it began.
LEMMA CheckHonest ==
  ASSUME HonestInv, TypeOK', NEW c \in Names, Check(c)
  PROVE  HonestInv'
<1>1. Checking(c)
  BY DEF Check, Probe, Open, Ping, Query, Checking
<1>2. sched = "collecting"
  <2>1. at[c] # "idle"
    BY <1>1 DEF Checking
  <2> QED
    BY <2>1 DEF HonestInv, Between
<1>3. CASE Probe(c)
  <2>1. pool' = pool /\ c \notin Databases
    BY <1>3 DEF Probe
  <2>2. CASE Succeeds(c) /\ Found(c, "connection", "ok", "done")
    BY <1>1, <1>2, <2>1, <2>2, CallsTell, FoundHonest DEF Parts, Answer
  <2>3. CASE Fails(c) /\ Found(c, "connection", "critical", "done")
    BY <1>1, <1>2, <2>1, <2>3, CallsTell, FoundHonest DEF Parts, Answer
  <2> QED
    BY <1>3, <2>2, <2>3 DEF Probe
<1>4. CASE Open(c)
  <2>1. pool[c] \in {"none", "open", "refused", "closed"}
    BY DEF HonestInv, TypeOK
  <2>2. pool \in [Names -> {"none", "open", "refused", "closed"}]
    BY DEF HonestInv, TypeOK
  <2>3. pool' = [pool EXCEPT ![c] = Opened(c)]
    BY <1>4 DEF Open
  <2>4. /\ pool'[c] = Opened(c)
        /\ \A d \in Names : pool'[d] = pool[d] \/ (d = c /\ pool[c] = "none")
    BY <2>2, <2>3 DEF Opened
  <2>5. /\ Opened(c) \in {"refused", "open", "closed"}
        /\ Opened(c) = "closed" => pool[c] = "closed"
    BY <2>1 DEF Opened
  <2>6. CASE Opened(c) = "refused"
    <3>1. Found(c, "connection", "critical", "done")
      BY <1>4, <2>6 DEF Open
    <3> QED
      BY <1>1, <1>2, <2>4, <2>6, <3>1, FoundHonest DEF Parts, Answer
  <2>7. CASE Opened(c) # "refused"
    <3>1. Found(c, "connection", None, "pinging")
      BY <1>4, <2>7 DEF Open
    <3> QED
      BY <1>1, <1>2, <2>4, <2>5, <2>7, <3>1, FoundHonest DEF Parts, Answer, None
  <2> QED
    BY <2>6, <2>7
<1>5. CASE Ping(c)
  <2>1. pool' = pool /\ at[c] = "pinging" /\ pool[c] \in {"open", "closed"}
    BY <1>5 DEF Ping, HonestInv, Connected
  <2>2. CASE Succeeds(c) /\ Found(c, "connection", "ok", "querying")
    BY <1>1, <1>2, <2>1, <2>2, CallsTell, FoundHonest DEF Parts, Answer
  <2>3. CASE Fails(c) /\ Found(c, "connection", "critical", "done")
    BY <1>1, <1>2, <2>1, <2>3, CallsTell, FoundHonest DEF Parts, Answer
  <2> QED
    BY <1>5, <2>2, <2>3 DEF Ping
<1>6. CASE Query(c)
  <2>1. pool' = pool /\ at[c] = "querying"
    BY <1>6 DEF Query
  <2>2. CASE Succeeds(c) /\ Found(c, "query", "ok", "done")
    BY <1>1, <1>2, <2>1, <2>2, CallsTell, FoundHonest DEF Parts, Answer
  <2>3. CASE Fails(c) /\ Found(c, "query", "critical", "done")
    BY <1>1, <1>2, <2>1, <2>3, CallsTell, FoundHonest DEF Parts, Answer
  <2> QED
    BY <1>6, <2>2, <2>3 DEF Query
<1> QED
  BY <1>3, <1>4, <1>5, <1>6 DEF Check

\* A service that goes away or comes back is seen by the check that is under way.
LEMMA FlipHonest == ASSUME HonestInv, TypeOK', NEW c \in Names, Flip(c) PROVE HonestInv'
<1>1. UNCHANGED <<main, cancelled, pool, at, report, sched>>
  BY DEF Flip
<1>2. /\ up' = [up EXCEPT ![c] = ~up[c]]
      /\ saw' = [saw EXCEPT ![c] = IF Checking(c) THEN saw[c] \cup {~up[c]} ELSE saw[c]]
  BY DEF Flip
<1>3. up \in [Names -> BOOLEAN] /\ saw \in [Names -> SUBSET BOOLEAN]
  BY DEF HonestInv, TypeOK
<1>4. \A d \in Names : saw[d] \subseteq saw'[d]
  BY <1>2, <1>3
<1>5. Connected' /\ Cancelling' /\ Between'
  BY <1>1 DEF HonestInv, Connected, Cancelling, Between
<1>6. Watched'
  <2> SUFFICES ASSUME NEW d \in Names, Checking(d)' PROVE up'[d] \in saw'[d]
    BY DEF Watched
  <2>1. Checking(d)
    BY <1>1 DEF Checking
  <2>2. CASE d = c
    <3>1. up'[c] = ~up[c] /\ saw'[c] = saw[c] \cup {~up[c]}
      BY <1>2, <1>3, <2>1, <2>2
    <3> QED
      BY <2>2, <3>1
  <2>3. CASE d # c
    <3>1. up'[d] = up[d]
      BY <1>2, <1>3, <2>3
    <3>2. up[d] \in saw[d]
      BY <2>1 DEF HonestInv, Watched
    <3> QED
      BY <1>4, <3>1, <3>2
  <2> QED
    BY <2>2, <2>3
<1>7. Reported'
  BY <1>1, <1>4 DEF HonestInv, Reported, True
<1> QED
  BY <1>5, <1>6, <1>7 DEF HonestInv

\* A check begins with what is so then, and with no report.
LEMMA StartCycleHonest == ASSUME HonestInv, TypeOK', StartCycle PROVE HonestInv'
<1>1. /\ UNCHANGED <<main, cancelled, pool, report, up>>
      /\ sched' = "collecting"
      /\ at' = [d \in Names |-> IF d \in built THEN "begun" ELSE "idle"]
      /\ saw' = [d \in Names |-> IF d \in built THEN {up[d]} ELSE {}]
  BY DEF StartCycle, world
<1>2. \A d \in Names : at[d] = "idle" /\ report[d] = NoResult
  BY DEF StartCycle, HonestInv, Between
<1>3. \A d \in Names : report'[d] = NoResult' /\ at'[d] \in {"begun", "idle"}
  BY <1>1, <1>2 DEF NoResult
<1>4. \A d \in Names, p \in Parts : True(d, p)'
  BY <1>3 DEF NoResult, True, None
<1>5. Connected' /\ Cancelling'
  BY <1>1, <1>3 DEF HonestInv, Connected, Cancelling
<1>6. Between'
  BY <1>1, <1>3 DEF Between
<1>7. Watched'
  BY <1>1 DEF Watched, Checking
<1> QED
  BY <1>4, <1>5, <1>6, <1>7 DEF HonestInv, Reported

\* The report that was applied is forgotten.
LEMMA ApplyHonest == ASSUME HonestInv, TypeOK', NEW c \in Names, Apply(c) PROVE HonestInv'
<1>1. /\ UNCHANGED <<main, cancelled, pool, up, sched>> /\ sched = "collecting"
      /\ at' = [at EXCEPT ![c] = "idle"]
      /\ report' = [report EXCEPT ![c] = NoResult]
      /\ saw' = [saw EXCEPT ![c] = {}]
  BY DEF Apply, world
<1>2. /\ at \in [Names -> {"idle", "begun", "pinging", "querying", "done"}]
      /\ report \in [Names -> Result] /\ saw \in [Names -> SUBSET BOOLEAN]
  BY DEF HonestInv, TypeOK
<1>3. /\ at'[c] = "idle" /\ report'[c] = NoResult
      /\ \A d \in Names \ {c} : at'[d] = at[d] /\ report'[d] = report[d] /\ saw'[d] = saw[d]
  BY <1>1, <1>2
<1>4. Connected' /\ Cancelling'
  BY <1>1, <1>3 DEF HonestInv, Connected, Cancelling
<1>5. Between'
  BY <1>1, <1>3 DEF HonestInv, Between, NoResult
<1>6. Watched'
  BY <1>1, <1>3 DEF HonestInv, Watched, Checking
<1>7. Reported'
  <2>1. \A p \in Parts : True(c, p)'
    BY <1>3 DEF True, NoResult, None
  <2>2. \A d \in Names \ {c}, p \in Parts : True(d, p)'
    BY <1>1, <1>3 DEF HonestInv, Reported, True
  <2> QED
    BY <2>1, <2>2 DEF Reported
<1> QED
  BY <1>4, <1>5, <1>6, <1>7 DEF HonestInv

\* Every other step leaves the checks alone, but for the connections that main closes.
LEMMA RestHonest ==
  ASSUME HonestInv, TypeOK',
         \/ \E c \in Names : Lock(c)
         \/ FlipMail \/ Collected \/ Return \/ Ask \/ Reply \/ Alert \/ UNCHANGED vars
  PROVE  HonestInv'
<1>1. UNCHANGED <<main, cancelled, pool, at, report, saw, up>>
  BY DEF Lock, FlipMail, Collected, Return, Ask, Reply, Alert, Announce, Call, Announced, EndCycle,
         vars, world, checks
<1>2. sched' # "collecting" => \A c \in Names : at[c] = "idle"
  BY DEF Lock, FlipMail, Collected, Return, Ask, Reply, Alert, Announce, Call, Announced, EndCycle,
         vars, HonestInv, Between
<1>3. Connected' /\ Cancelling' /\ Watched' /\ Reported'
  BY <1>1 DEF HonestInv, Connected, Cancelling, Watched, Checking, Reported, True
<1>4. Between'
  BY <1>1, <1>2 DEF HonestInv, Between, NoResult
<1> QED
  BY <1>3, <1>4 DEF HonestInv

\* The shutdown cancels before it closes connections.
LEMMA StopHonest == ASSUME HonestInv, TypeOK', Signal \/ Stop PROVE HonestInv'
<1>1. UNCHANGED <<up, at, report, saw, sched>>
  BY DEF Signal, Stop, Flush, Close, Exit, Step, world
<1>2. /\ main' # "serving" => cancelled'
      /\ cancelled => cancelled'
  BY DEF Signal, Stop, Flush, Close, Exit, Step, HonestInv, Cancelling
<1>3. \A c \in Names : pool'[c] = pool[c] \/ (pool[c] = "open" /\ pool'[c] = "closed" /\ cancelled)
  BY DEF Signal, Stop, Flush, Close, Exit, Step, HonestInv, TypeOK, Cancelling
<1>4. Connected'
  BY <1>1, <1>2, <1>3 DEF HonestInv, Connected
<1>5. Between' /\ Watched'
  BY <1>1 DEF HonestInv, Between, NoResult, Watched, Checking
<1>6. Reported'
  BY <1>1, <1>2, <1>3 DEF HonestInv, Reported, True
<1> QED
  BY <1>2, <1>4, <1>5, <1>6 DEF HonestInv, Cancelling

\* All steps together.
LEMMA StepHonest == HonestInv /\ [Next]_vars => HonestInv'
<1> SUFFICES ASSUME HonestInv, [Next]_vars PROVE HonestInv'
  OBVIOUS
<1>1. TypeOK'
  BY StepTyped DEF HonestInv
<1>2. ASSUME NEW c \in Names, Flip(c) \/ Check(c) \/ Lock(c) \/ Apply(c) PROVE HonestInv'
  BY <1>1, <1>2, FlipHonest, CheckHonest, RestHonest, ApplyHonest
<1>3. CASE FlipMail \/ Collected \/ Return \/ Ask \/ Reply \/ Alert \/ UNCHANGED vars
  BY <1>1, <1>3, RestHonest
<1>4. CASE StartCycle \/ Signal \/ Stop
  BY <1>1, <1>4, StartCycleHonest, StopHonest
<1> QED
  BY <1>2, <1>3, <1>4, Cases

\* Whatever the services do while they are checked, and whenever the program is told to
\* stop, no component is reported to be down that was up all the time, nor the reverse,
\* before the checks are cancelled; a DSN that cannot be parsed is the exception.
THEOREM ReportsTrue == Spec => []ReportsAreTrue
<1>1. Init => HonestInv
  BY HonestAtFirst
<1>2. HonestInv /\ [Next]_vars => HonestInv'
  BY StepHonest
<1>3. HonestInv => ReportsAreTrue
  BY DEF HonestInv, TypeOK, Reported, True, ReportsAreTrue
<1> QED
  BY <1>1, <1>2, <1>3, PTL DEF Spec
-----------------------------------------------------------------------------
(* Everyone is told.  A component of which nothing is to be announced has    *)
(* been announced as it is, or never; and the alerters before the one whose  *)
(* turn it is have been told of the component that is being announced.       *)

Present(x) == previous[x[1]][x[2]]

Settled(a, x) == told[a][x] = Present(x) \/ (told[a][x] = None /\ Present(x) = "ok")

Orderly ==
  /\ item # NoItem => item \in news /\ sched = "alerting"
  /\ item = NoItem => turn = 1
  /\ sched \in {"waiting", "returned"} => news = {}

AllSettled ==
  \A i \in 1 .. Len(Alerters(cfg)), x \in Components \ news : Settled(Alerters(cfg)[i], x)

ItemTold ==
  item # NoItem =>
    \A i \in 1 .. Len(Alerters(cfg)) : i < turn => told[Alerters(cfg)[i]][item] = Present(item)

ToldInv == TypeOK /\ Orderly /\ AllSettled /\ ItemTold

\* At first there is nothing to tell.
LEMMA ToldAtFirst == Init => ToldInv
<1> SUFFICES ASSUME Init PROVE ToldInv
  OBVIOUS
<1>1. TypeOK
  BY InitTyped
<1>2. AllSettled
  <2> SUFFICES ASSUME NEW i \in 1 .. Len(Alerters(cfg)), NEW x \in Components
               PROVE  Settled(Alerters(cfg)[i], x)
    BY DEF AllSettled
  <2>1. Alerters(cfg)[i] \in Channels
    BY AlertersTyped
  <2>2. told[Alerters(cfg)[i]][x] = None
    BY <2>1 DEF Init
  <2>3. x[1] \in Names /\ x[2] \in Parts
    BY DEF Components
  <2>4. Present(x) = None
    BY <2>3 DEF Init, Present, NoResult
  <2> QED
    BY <2>2, <2>4 DEF Settled
<1> QED
  BY <1>1, <1>2 DEF Init, ToldInv, Orderly, ItemTold

\* Steps that change no alert and no result.
LEMMA OthersToldSame ==
  ASSUME ToldInv, TypeOK', UNCHANGED <<cfg, previous, news, item, turn, told>>,
         sched' = sched \/ (item = NoItem /\ (sched' \in {"waiting", "returned"} => news = {}))
  PROVE  ToldInv'
<1>1. Orderly'
  BY DEF ToldInv, Orderly, NoItem
<1>2. AllSettled'
  BY DEF ToldInv, AllSettled, Settled, Present
<1>3. ItemTold'
  BY DEF ToldInv, ItemTold, Present, NoItem
<1> QED
  BY <1>1, <1>2, <1>3 DEF ToldInv

\* Most steps change nothing of what was told, or is to be told.
LEMMA RestToldSame ==
  ASSUME ToldInv, TypeOK',
         \/ \E c \in Names : Flip(c) \/ Check(c) \/ Lock(c)
         \/ FlipMail \/ Collected \/ Return \/ Ask \/ Reply
         \/ StartCycle \/ EndCycle \/ Signal \/ Stop \/ UNCHANGED vars
  PROVE  ToldInv'
<1>1. CASE \E c \in Names : Flip(c) \/ Check(c) \/ Lock(c)
  BY <1>1, OthersToldSame
     DEF Flip, Check, Probe, Open, Ping, Query, Found, Lock, board, alerting
<1>2. CASE FlipMail \/ Ask \/ Reply \/ Signal \/ Stop \/ UNCHANGED vars
  BY <1>2, OthersToldSame
     DEF FlipMail, Ask, Reply, Signal, Stop, Flush, Close, Exit, Step, vars, board, alerting
<1>3. CASE Collected \/ Return \/ StartCycle \/ EndCycle
  <2>1. item = NoItem
    BY <1>3 DEF Collected, Return, StartCycle, EndCycle, ToldInv, Orderly
  <2>2. sched' \in {"waiting", "returned"} => news = {}
    BY <1>3 DEF Collected, Return, StartCycle, EndCycle, ToldInv, Orderly
  <2> QED
    BY <1>3, <2>1, <2>2, OthersToldSame
       DEF Collected, Return, StartCycle, EndCycle, board, alerting
<1> QED
  BY <1>1, <1>2, <1>3

\* A report that is applied makes news of every component whose status it changes.
LEMMA ApplyTold == ASSUME ToldInv, TypeOK', NEW c \in Names, Apply(c) PROVE ToldInv'
<1>1. /\ UNCHANGED <<cfg, item, turn, told, sched>> /\ sched = "collecting"
      /\ news' = news \cup {x \in {c} \X Parts : IsNews(c, x[2])}
      /\ previous' = [previous EXCEPT ![c] =
                       [p \in Parts |-> IF report[c][p] = None THEN previous[c][p] ELSE report[c][p]]]
  BY DEF Apply
<1>2. item = NoItem /\ turn = 1
  BY <1>1 DEF ToldInv, Orderly
<1>3. previous \in [Names -> Result] /\ report \in [Names -> Result]
  BY DEF ToldInv, TypeOK
<1>4. Orderly' /\ ItemTold'
  BY <1>1, <1>2 DEF Orderly, ItemTold, NoItem
<1>5. ASSUME NEW i \in 1 .. Len(Alerters(cfg)), NEW x \in Components \ news'
      PROVE  Settled(Alerters(cfg)[i], x)'
  <2>1. x[1] \in Names /\ x[2] \in Parts /\ x = <<x[1], x[2]>>
    BY DEF Components
  <2>2. Settled(Alerters(cfg)[i], x)
    BY <1>1 DEF ToldInv, AllSettled
  <2>3. CASE x[1] # c
    <3>1. previous'[x[1]] = previous[x[1]]
      BY <1>1, <1>3, <2>1, <2>3
    <3> QED
      BY <1>1, <2>2, <3>1 DEF Settled, Present
  <2>4. CASE x[1] = c
    <3>1. x \in {c} \X Parts
      BY <2>1, <2>4
    <3>2. ~IsNews(c, x[2])
      BY <1>1, <3>1
    <3>3. previous'[c][x[2]] = IF report[c][x[2]] = None THEN previous[c][x[2]] ELSE report[c][x[2]]
      BY <1>1, <1>3, <2>1
    <3>4. report[c][x[2]] \in Answer \cup {None}
      BY <1>3, <2>1 DEF Result
    <3>5. \/ previous'[c][x[2]] = previous[c][x[2]]
          \/ previous[c][x[2]] = None /\ previous'[c][x[2]] = "ok"
      BY <3>2, <3>3, <3>4 DEF IsNews, Answer
    <3> QED
      BY <1>1, <2>2, <2>4, <3>5 DEF Settled, Present, None
  <2> QED
    BY <2>3, <2>4
<1>6. AllSettled'
  BY <1>1, <1>5 DEF AllSettled
<1> QED
  BY <1>4, <1>6 DEF ToldInv

\* An alerter is called with the present status of the component that is announced.
LEMMA CallTold == ASSUME ToldInv, TypeOK', Call PROVE ToldInv'
<1>1. /\ UNCHANGED <<cfg, previous, news, item, sched>>
      /\ item # NoItem /\ turn <= Len(Alerters(cfg))
      /\ told' = [told EXCEPT ![Alerters(cfg)[turn]][item] = Present(item)]
      /\ turn' = turn + 1
  BY DEF Call, board, Present
<1>2. item \in Components /\ item \in news /\ sched = "alerting"
  BY <1>1 DEF ToldInv, TypeOK, Orderly
<1>3. told \in [Channels -> [Components -> Answer \cup {None}]]
  BY DEF ToldInv, TypeOK
<1>4. Len(Alerters(cfg)) \in Nat /\ turn \in Nat
  <2>1. Len(Alerters(cfg)) \in Nat
    BY AlertersTyped
  <2>2. turn \in 1 .. Len(Alerters(cfg)) + 1
    BY DEF ToldInv, TypeOK
  <2> QED
    BY ONLY <2>1, <2>2, SMT
<1>5. turn \in 1 .. Len(Alerters(cfg))
  <2>1. turn \in 1 .. Len(Alerters(cfg)) + 1
    BY DEF ToldInv, TypeOK
  <2> QED
    BY ONLY <1>1, <1>4, <2>1, SMT
<1>6. \A i \in 1 .. Len(Alerters(cfg)) : Alerters(cfg)[i] \in Channels
  BY AlertersTyped
<1>7. Orderly'
  BY <1>1, <1>2 DEF Orderly, NoItem
<1>8. AllSettled'
  <2> SUFFICES ASSUME NEW i \in 1 .. Len(Alerters(cfg)), NEW x \in Components \ news
               PROVE  Settled(Alerters(cfg)[i], x)'
    BY <1>1 DEF AllSettled
  <2>1. x # item
    BY <1>2
  <2>2. told'[Alerters(cfg)[i]][x] = told[Alerters(cfg)[i]][x]
    BY <1>1, <1>3, <1>5, <1>6, <2>1
  <2>3. Settled(Alerters(cfg)[i], x)
    BY DEF ToldInv, AllSettled
  <2> QED
    BY <1>1, <2>2, <2>3 DEF Settled, Present
<1>9. ItemTold'
  <2> SUFFICES ASSUME NEW i \in 1 .. Len(Alerters(cfg)), i < turn + 1
               PROVE  told'[Alerters(cfg)[i]][item] = Present(item)
    BY <1>1 DEF ItemTold, Present
  <2>1. CASE Alerters(cfg)[i] = Alerters(cfg)[turn]
    BY <1>1, <1>2, <1>3, <1>5, <1>6, <2>1
  <2>2. CASE Alerters(cfg)[i] # Alerters(cfg)[turn]
    <3>1. i < turn
      BY <1>4, <2>2
    <3>2. told[Alerters(cfg)[i]][item] = Present(item)
      BY <1>1, <3>1 DEF ToldInv, ItemTold
    <3>3. told'[Alerters(cfg)[i]] = told[Alerters(cfg)[i]]
      BY <1>1, <1>3, <1>5, <1>6, <2>2
    <3> QED
      BY <3>2, <3>3
  <2> QED
    BY <2>1, <2>2
<1> QED
  BY <1>7, <1>8, <1>9 DEF ToldInv

\* When every alerter has been called, the component is settled.
LEMMA AnnouncedTold == ASSUME ToldInv, TypeOK', Announced PROVE ToldInv'
<1>1. /\ UNCHANGED <<cfg, previous, told, sched>>
      /\ item # NoItem /\ turn > Len(Alerters(cfg))
      /\ news' = news \ {item} /\ item' = NoItem /\ turn' = 1
  BY DEF Announced, board
<1>2. sched = "alerting"
  BY <1>1 DEF ToldInv, Orderly
<1>3. Len(Alerters(cfg)) \in Nat /\ turn \in Nat
  <2>1. Len(Alerters(cfg)) \in Nat
    BY AlertersTyped
  <2>2. turn \in 1 .. Len(Alerters(cfg)) + 1
    BY DEF ToldInv, TypeOK
  <2> QED
    BY ONLY <2>1, <2>2, SMT
<1>4. Orderly' /\ ItemTold'
  BY <1>1, <1>2 DEF Orderly, ItemTold, NoItem
<1>5. ASSUME NEW i \in 1 .. Len(Alerters(cfg)), NEW x \in Components \ news'
      PROVE  Settled(Alerters(cfg)[i], x)
  <2>1. CASE x = item
    <3>1. i < turn
      BY <1>1, <1>3
    <3> QED
      BY <1>1, <2>1, <3>1 DEF ToldInv, ItemTold, Settled
  <2>2. CASE x # item
    BY <1>1, <2>2 DEF ToldInv, AllSettled
  <2> QED
    BY <2>1, <2>2
<1>6. AllSettled'
  BY <1>1, <1>5 DEF AllSettled, Settled, Present
<1> QED
  BY <1>4, <1>6 DEF ToldInv

\* When an announcement begins, no alerter has been called for it.
LEMMA AnnounceTold == ASSUME ToldInv, TypeOK', Announce PROVE ToldInv'
<1>1. /\ UNCHANGED <<cfg, previous, told, sched, news, turn>> /\ sched = "alerting"
      /\ item = NoItem /\ item' \in news
  BY DEF Announce, board
<1>2. turn = 1 /\ item' # NoItem
  BY <1>1, NotTheSame DEF ToldInv, Orderly, TypeOK
<1>3. Orderly'
  BY <1>1, <1>2 DEF Orderly, NoItem
<1>4. ItemTold'
  BY <1>1, <1>2 DEF ItemTold
<1>5. AllSettled'
  BY <1>1 DEF ToldInv, AllSettled, Settled, Present
<1> QED
  BY <1>3, <1>4, <1>5 DEF ToldInv

\* All steps together.
LEMMA StepTold == ToldInv /\ [Next]_vars => ToldInv'
<1> SUFFICES ASSUME ToldInv, [Next]_vars PROVE ToldInv'
  OBVIOUS
<1>1. TypeOK'
  BY StepTyped DEF ToldInv
<1>2. ASSUME NEW c \in Names, Flip(c) \/ Check(c) \/ Lock(c) \/ Apply(c) PROVE ToldInv'
  BY <1>1, <1>2, RestToldSame, ApplyTold
<1>3. CASE FlipMail \/ Collected \/ Return \/ Ask \/ Reply \/ StartCycle \/ Signal \/ Stop
           \/ UNCHANGED vars
  BY <1>1, <1>3, RestToldSame
<1>4. CASE Alert
  BY <1>1, <1>4, RestToldSame, AnnounceTold, CallTold, AnnouncedTold DEF Alert
<1> QED
  BY <1>2, <1>3, <1>4, Cases

\* With whatever alerters and however many of them fail, when a cycle is over every one
\* of them has been called with the present status of every component.
THEOREM AllAreTold == Spec => []EveryoneIsTold
<1>1. Init => ToldInv
  BY ToldAtFirst
<1>2. ToldInv /\ [Next]_vars => ToldInv'
  BY StepTold
<1>3. ToldInv => EveryoneIsTold
  BY DEF ToldInv, Orderly, AllSettled, Settled, Present, EveryoneIsTold
<1> QED
  BY <1>1, <1>2, <1>3, PTL DEF Spec
-----------------------------------------------------------------------------
(* The domains of nginx.  Reading lines takes the scanner from one state   *)
(* to another; what it makes of lines that are put together follows from   *)
(* what it makes of each part.                                             *)

\* The scanner's states while it reads the lines, the first and the last of them.
Traces(f, s, lines, t) ==
  /\ f[0] = s
  /\ f[Len(lines)] = t
  /\ \A n \in 1 .. Len(lines) : f[n] = Scanned(f[n - 1], lines[n])

Leads(s, lines, t) == \E f : Traces(f, s, lines, t)

\* One line after another, and lines after lines.
LEMMA LeadsByOne == ASSUME NEW s, NEW x PROVE Leads(s, <<x>>, Scanned(s, x))
<1> DEFINE f == [n \in 0 .. 1 |-> IF n = 0 THEN s ELSE Scanned(s, x)]
<1>1. Traces(f, s, <<x>>, Scanned(s, x))
  BY DEF Traces
<1> QED
  BY <1>1 DEF Leads

\* Three lines in a row.
LEMMA LeadsByThree ==
  ASSUME NEW s, NEW x, NEW y, NEW z
  PROVE  Leads(s, <<x, y, z>>, Scanned(Scanned(Scanned(s, x), y), z))
<1> DEFINE t == Scanned(s, x)
           u == Scanned(t, y)
           v == Scanned(u, z)
           f == [n \in 0 .. 3 |-> IF n = 0 THEN s ELSE IF n = 1 THEN t ELSE IF n = 2 THEN u ELSE v]
           lines == <<x, y, z>>
<1>1. f[0] = s /\ f[1] = t /\ f[2] = u /\ f[3] = v
  BY SMT
<1>2. Len(lines) = 3 /\ lines[1] = x /\ lines[2] = y /\ lines[3] = z
  OBVIOUS
<1>3. ASSUME NEW n \in 1 .. 3 PROVE f[n] = Scanned(f[n - 1], lines[n])
  <2>1. n = 1 \/ n = 2 \/ n = 3
    OBVIOUS
  <2>2. (1 - 1) = 0 /\ (2 - 1) = 1 /\ (3 - 1) = 2
    OBVIOUS
  <2> HIDE DEF f, lines
  <2> QED
    BY <1>1, <1>2, <2>1, <2>2
<1> HIDE DEF f, lines
<1>4. Traces(f, s, lines, v)
  BY <1>1, <1>2, <1>3 DEF Traces
<1> QED
  BY <1>4 DEF Leads, lines

\* The lines of one sequence after those of another.
LEMMA LeadsOn ==
  ASSUME NEW S, NEW a \in Seq(S), NEW b \in Seq(S), NEW s, NEW t, NEW u,
         Leads(s, a, t), Leads(t, b, u)
  PROVE  Leads(s, a \o b, u)
<1>1. PICK f : Traces(f, s, a, t)
  BY DEF Leads
<1>2. PICK g : Traces(g, t, b, u)
  BY DEF Leads
<1> DEFINE k == Len(a)
           m == Len(b)
           h == [n \in 0 .. k + m |-> IF n <= k THEN f[n] ELSE g[n - k]]
           ab == a \o b
<1>3. k \in Nat /\ m \in Nat
  OBVIOUS
<1>4. Len(ab) = k + m /\ \A n \in 1 .. k + m : ab[n] = IF n <= k THEN a[n] ELSE b[n - k]
  BY ConcatProperties
<1>5. f[0] = s /\ f[k] = t /\ \A n \in 1 .. k : f[n] = Scanned(f[n - 1], a[n])
  BY <1>1 DEF Traces
<1>6. g[0] = t /\ g[m] = u /\ \A n \in 1 .. m : g[n] = Scanned(g[n - 1], b[n])
  BY <1>2 DEF Traces
<1> HIDE DEF k, m, ab
<1>7. \A n \in 0 .. k : h[n] = f[n]
  BY <1>3
<1>8. \A n \in 0 .. m : h[k + n] = g[n]
  <2> SUFFICES ASSUME NEW n \in 0 .. m PROVE h[k + n] = g[n]
    OBVIOUS
  <2>1. CASE n = 0
    BY <1>3, <1>5, <1>6, <2>1
  <2>2. CASE n # 0
    <3>1. k + n \in 0 .. k + m /\ ~ (k + n <= k) /\ (k + n) - k = n
      BY <1>3, <2>2
    <3> QED
      BY <3>1
  <2> QED
    BY <2>1, <2>2
<1> HIDE DEF h
<1>9. ASSUME NEW n \in 1 .. k + m PROVE h[n] = Scanned(h[n - 1], ab[n])
  <2>1. CASE n <= k
    <3>1. n \in 1 .. k /\ n \in 0 .. k /\ n - 1 \in 0 .. k
      BY <1>3, <2>1
    <3>2. ab[n] = a[n]
      BY <1>4, <2>1
    <3> QED
      BY <1>5, <1>7, <3>1, <3>2
  <2>2. CASE ~ (n <= k)
    <3> DEFINE i == n - k
    <3>1. i \in 1 .. m /\ i \in 0 .. m /\ i - 1 \in 0 .. m /\ k + i = n /\ k + (i - 1) = n - 1
      BY <1>3, <2>2
    <3>2. ab[n] = b[i]
      BY <1>4, <2>2
    <3> HIDE DEF i
    <3>3. h[n] = g[i] /\ h[n - 1] = g[i - 1]
      BY <1>8, <3>1
    <3> QED
      BY <1>6, <3>1, <3>2, <3>3
  <2> QED
    BY <2>1, <2>2
<1>10. h[0] = s /\ h[Len(ab)] = u
  BY <1>3, <1>4, <1>5, <1>6, <1>7, <1>8
<1>11. Traces(h, s, ab, u)
  BY <1>4, <1>9, <1>10 DEF Traces
<1> QED
  BY <1>11 DEF Leads, ab

\* Where the scanner ends gives what is parsed: the function that goes through the lines
\* is the only one that does.
LEMMA ParsedAtTheEnd ==
  ASSUME NEW S, NEW lines \in Seq(S), NEW t, Leads(Outside, lines, t)
  PROVE  ParseNginxDomains(lines) = SSLDomainsOf(t.blocks)
<1> DEFINE l == Len(lines)
           Is(g) == g = [n \in 0 .. l |-> IF n = 0 THEN Outside ELSE Scanned(g[n - 1], lines[n])]
           after == CHOOSE g : Is(g)
<1>1. ParseNginxDomains(lines) = SSLDomainsOf(after[l].blocks)
  BY DEF ParseNginxDomains
<1>2. PICK f : Traces(f, Outside, lines, t)
  BY DEF Leads
<1> DEFINE h == [n \in 0 .. l |-> f[n]]
<1>3. l \in Nat
  OBVIOUS
<1>4. f[0] = Outside /\ f[l] = t /\ \A n \in 1 .. l : f[n] = Scanned(f[n - 1], lines[n])
  BY <1>2 DEF Traces
<1> HIDE DEF l
<1>5. Is(h)
  <2> DEFINE e == [n \in 0 .. l |-> IF n = 0 THEN Outside ELSE Scanned(h[n - 1], lines[n])]
  <2>1. ASSUME NEW n \in 0 .. l PROVE h[n] = e[n]
    <3>1. CASE n = 0
      BY <1>4, <3>1
    <3>2. CASE n # 0
      <4>1. n \in 1 .. l /\ n - 1 \in 0 .. l
        BY <1>3, <3>2
      <4>2. h[n] = f[n] /\ h[n - 1] = f[n - 1]
        BY <4>1
      <4> QED
        BY <1>4, <3>2, <4>1, <4>2
    <3> QED
      BY <3>1, <3>2
  <2>2. h = [n \in 0 .. l |-> h[n]] /\ e = [n \in 0 .. l |-> e[n]]
    OBVIOUS
  <2> HIDE DEF h, e
  <2>3. h = e
    BY <2>1, <2>2
  <2> QED
    BY <2>3 DEF e
<1>6. Is(after)
  <2> HIDE DEF Is
  <2> QED
    BY <1>5
<1> HIDE DEF after
<1>7. after[0] = Outside /\ \A n \in 1 .. l : after[n] = Scanned(after[n - 1], lines[n])
  <2>1. \A n \in 0 .. l : after[n] = IF n = 0 THEN Outside ELSE Scanned(after[n - 1], lines[n])
    BY <1>6
  <2> QED
    BY <1>3, <2>1
<1> DEFINE T == {n \in Nat : n <= l => after[n] = f[n]}
<1>8. T = Nat
  <2>1. 0 \in T
    BY <1>4, <1>7
  <2>2. ASSUME NEW n \in T PROVE n + 1 \in T
    <3> SUFFICES ASSUME n + 1 <= l PROVE after[n + 1] = f[n + 1]
      OBVIOUS
    <3>1. n \in Nat /\ n <= l /\ n + 1 \in 1 .. l /\ (n + 1) - 1 = n
      BY <1>3
    <3>2. after[n] = f[n]
      BY <3>1
    <3> QED
      BY <1>4, <1>7, <3>1, <3>2
  <2> HIDE DEF T
  <2>3. T \in SUBSET Nat
    BY DEF T
  <2> QED
    BY <2>1, <2>2, <2>3, CountingUp
<1>9. after[l] = t
  BY <1>3, <1>4, <1>8
<1> QED
  BY <1>1, <1>9
-----------------------------------------------------------------------------
\* The scanner, field by field, and how its fields are changed.
Scanner(depth, inside, startDepth, current, blocks) ==
  [depth |-> depth, inside |-> inside, startDepth |-> startDepth, current |-> current,
   blocks |-> blocks]

Ended(s, depth, blocks) == [s EXCEPT !.depth = depth, !.blocks = blocks]

Went(s, depth, inside, start, block) ==
  [s EXCEPT !.depth = depth, !.inside = inside, !.startDepth = start, !.current = block]

\* The fields of the scanner after a block has ended.
LEMMA EndedFields ==
  ASSUME NEW d, NEW i, NEW s, NEW c, NEW b, NEW depth, NEW blocks
  PROVE  Ended(Scanner(d, i, s, c, b), depth, blocks) = Scanner(depth, i, s, c, blocks)
<1> DEFINE e == Scanner(d, i, s, c, b)
<1>1. Ended(e, depth, blocks) = [[e EXCEPT !.depth = depth] EXCEPT !.blocks = blocks]
  BY DEF Ended
<1>2. [e EXCEPT !.depth = depth] = Scanner(depth, i, s, c, b)
  BY DEF Scanner
<1>3. [Scanner(depth, i, s, c, b) EXCEPT !.blocks = blocks] = Scanner(depth, i, s, c, blocks)
  BY DEF Scanner
<1> QED
  BY <1>1, <1>2, <1>3

\* The fields of the scanner after a line of a block.
LEMMA WentFields ==
  ASSUME NEW d, NEW i, NEW s, NEW c, NEW b, NEW depth, NEW inside, NEW start, NEW block
  PROVE  Went(Scanner(d, i, s, c, b), depth, inside, start, block)
           = Scanner(depth, inside, start, block, b)
<1> DEFINE e0 == Scanner(d, i, s, c, b)
           e1 == [e0 EXCEPT !.depth = depth]
           e2 == [e1 EXCEPT !.inside = inside]
           e3 == [e2 EXCEPT !.startDepth = start]
<1>1. Went(e0, depth, inside, start, block) = [e3 EXCEPT !.current = block]
  BY DEF Scanner, Went
<1>2. e1 = Scanner(depth, i, s, c, b)
  BY DEF Scanner
<1>3. [Scanner(depth, i, s, c, b) EXCEPT !.inside = inside] = Scanner(depth, inside, s, c, b)
  BY DEF Scanner
<1>4. [Scanner(depth, inside, s, c, b) EXCEPT !.startDepth = start]
        = Scanner(depth, inside, start, c, b)
  BY DEF Scanner
<1>5. [Scanner(depth, inside, start, c, b) EXCEPT !.current = block]
        = Scanner(depth, inside, start, block, b)
  BY DEF Scanner
<1> QED
  BY <1>1, <1>2, <1>3, <1>4, <1>5

\* The scanner between two blocks, and in one.  (The truth values have names because the
\* provers keep formulas and the values of fields apart.)
Yes == TRUE
No == FALSE

OutOfBlock(depth, blocks) == Scanner(depth, No, -1, NoBlock, blocks)

InBlock(depth, startDepth, block, blocks) == Scanner(depth, Yes, startDepth, block, blocks)

\* What a line does between two blocks, if none begins in it.
LEMMA PassesOut ==
  ASSUME NEW depth \in Int, NEW blocks, NEW line, NEW after \in Int,
         after = depth + line.opens - line.closes,
         line.word # "comment", line.word # "server" \/ ~ (line.opens > 0)
  PROVE  Scanned(OutOfBlock(depth, blocks), line) = OutOfBlock(after, blocks)
<1> DEFINE s == OutOfBlock(depth, blocks)
<1>1. s.depth = depth /\ s.inside = No
  BY DEF OutOfBlock, Scanner, No
<1>2. Scanned(s, line) = [s EXCEPT !.depth = after]
  <2> HIDE DEF s
  <2> QED
    BY <1>1, Zenon DEF Scanned, No
<1>3. [s EXCEPT !.depth = after] = OutOfBlock(after, blocks)
  BY DEF OutOfBlock, Scanner
<1> QED
  BY <1>2, <1>3

\* A server block begins.
LEMMA Begins ==
  ASSUME NEW depth \in Int, NEW blocks
  PROVE  Scanned(OutOfBlock(depth, blocks), Line("server", 1, 0, {}))
           = InBlock(depth + 1, depth, NoBlock, blocks)
<1> DEFINE line == Line("server", 1, 0, {})
           s == OutOfBlock(depth, blocks)
<1>1. line.word = "server" /\ line.opens = 1 /\ line.closes = 0
  BY DEF Line
<1>2. s.depth = depth /\ s.blocks = blocks
  BY DEF OutOfBlock, Scanner
<1>3. Went(s, depth + 1, Yes, depth, NoBlock) = InBlock(depth + 1, depth, NoBlock, blocks)
  BY WentFields DEF OutOfBlock, InBlock
<1>4. Parsed(NoBlock, line) = NoBlock /\ line.opens > 0 /\ s.depth + line.opens - line.closes = depth + 1
      /\ ~ (depth + 1 <= depth)
  BY <1>1, <1>2 DEF Parsed
<1> HIDE DEF s, line
<1>5. Scanned(s, line) = Went(s, depth + 1, Yes, depth, NoBlock)
  BY <1>1, <1>2, <1>4, Zenon DEF Scanned, Ends, Went, Yes
<1> QED
  BY <1>3, <1>5 DEF s, line

\* A line in a server block that leaves it open.
LEMMA PassesIn ==
  ASSUME NEW depth \in Int, NEW start \in Int, NEW block, NEW blocks, NEW line, NEW after \in Int,
         line.word # "comment", line.word # "server", after = depth + line.opens - line.closes,
         after > start
  PROVE  Scanned(InBlock(depth, start, block, blocks), line)
           = InBlock(after, start, Parsed(block, line), blocks)
<1> DEFINE s == InBlock(depth, start, block, blocks)
           parsed == Parsed(block, line)
<1>1. s.depth = depth /\ s.startDepth = start /\ s.inside = Yes /\ s.current = block
      /\ s.blocks = blocks
  BY DEF InBlock, Scanner, Yes
<1>2. Scanned(s, line) = Went(s, after, Yes, start, parsed)
  <2>1. ~ (after <= start)
    OBVIOUS
  <2> HIDE DEF s
  <2> QED
    BY <1>1, <2>1, Zenon DEF Scanned, Ends, Went, Yes
<1>3. Went(s, after, Yes, start, parsed) = InBlock(after, start, parsed, blocks)
  BY WentFields DEF InBlock
<1> QED
  BY <1>2, <1>3

\* A line that ends it.
LEMMA EndsBlock ==
  ASSUME NEW depth \in Int, NEW start \in Int, NEW block, NEW blocks, NEW line, NEW after \in Int,
         line.word # "comment", line.word # "server", after = depth + line.opens - line.closes,
         after <= start
  PROVE  Scanned(InBlock(depth, start, block, blocks), line)
           = OutOfBlock(after, blocks \cup {Parsed(block, line)})
<1> DEFINE s == InBlock(depth, start, block, blocks)
           parsed == Parsed(block, line)
<1>1. s.depth = depth /\ s.startDepth = start /\ s.inside = Yes /\ s.current = block
      /\ s.blocks = blocks
  BY DEF InBlock, Scanner, Yes
<1>2. Scanned(s, line) = Ended(Outside, after, blocks \cup {parsed})
  <2> HIDE DEF s
  <2> QED
    BY <1>1, Zenon DEF Scanned, Ends, Ended, Yes
<1>3. Outside = OutOfBlock(0, {})
  BY DEF Outside, OutOfBlock, Scanner, No
<1>4. Ended(OutOfBlock(0, {}), after, blocks \cup {parsed}) = OutOfBlock(after, blocks \cup {parsed})
  BY EndedFields DEF OutOfBlock
<1> QED
  BY <1>2, <1>3, <1>4

\* A comment is passed over, whatever its braces.
LEMMA PassesComment ==
  ASSUME NEW s, NEW opens, NEW closes, NEW args
  PROVE  Scanned(s, Line("comment", opens, closes, args)) = s
BY DEF Scanned, Line
-----------------------------------------------------------------------------
\* A location leaves the scanner in the server block that it was in.
LEMMA LocationLeads ==
  ASSUME NEW depth \in Int, NEW start \in Int, depth > start, NEW block, NEW blocks
  PROVE  Leads(InBlock(depth, start, block, blocks), Location, InBlock(depth, start, block, blocks))
<1> DEFINE s == InBlock(depth, start, block, blocks)
           t == InBlock(depth + 1, start, block, blocks)
           x == Line("location", 1, 0, {})
           y == Line("proxy_pass", 0, 0, {})
           z == Line("}", 0, 1, {})
<1>1. x.word = "location" /\ x.opens = 1 /\ x.closes = 0 /\ Parsed(block, x) = block
  BY DEF Line, Parsed
<1>2. y.word = "proxy_pass" /\ y.opens = 0 /\ y.closes = 0 /\ Parsed(block, y) = block
  BY DEF Line, Parsed
<1>3. z.word = "}" /\ z.opens = 0 /\ z.closes = 1 /\ Parsed(block, z) = block
  BY DEF Line, Parsed
<1>4. Leads(s, <<x, y, z>>, Scanned(Scanned(Scanned(s, x), y), z))
  BY LeadsByThree
<1>5. Location = <<x, y, z>>
  BY DEF Location
<1> DEFINE d == depth + 1
<1>6. d \in Int /\ d > start /\ d = depth + 1 - 0 /\ d = d + 0 - 0 /\ depth = d + 0 - 1
  OBVIOUS
<1> HIDE DEF x, y, z, d
<1>7. Scanned(s, x) = InBlock(d, start, block, blocks)
  BY <1>1, <1>6, PassesIn
<1>8. Scanned(InBlock(d, start, block, blocks), y) = InBlock(d, start, block, blocks)
  BY <1>2, <1>6, PassesIn
<1>9. Scanned(InBlock(d, start, block, blocks), z) = s
  <2>1. depth = d + z.opens - z.closes
    BY <1>3, <1>6
  <2>2. z.word # "comment" /\ z.word # "server" /\ d \in Int
    BY <1>3, <1>6
  <2>3. Scanned(InBlock(d, start, block, blocks), z) = InBlock(depth, start, Parsed(block, z), blocks)
    BY <2>1, <2>2, PassesIn
  <2> QED
    BY <1>3, <2>3
<1> QED
  BY <1>4, <1>5, <1>7, <1>8, <1>9

\* Pieces of files whose lines name some of the names, and where they lead.
Words == {"http", "upstream", "server", "listen", "server_name", "location", "proxy_pass",
          "comment", "}"}

LinesOn(names) == [word : Words, opens : Int, closes : Int, args : SUBSET names]

Piece(names, s, lines, t) == lines \in Seq(LinesOn(names)) /\ Leads(s, lines, t)

\* Pieces are put together where one leads to the state in which the other begins.
LEMMA PiecesJoin ==
  ASSUME NEW names, NEW a, NEW b, NEW s, NEW t, NEW u, Piece(names, s, a, t), Piece(names, t, b, u)
  PROVE  Piece(names, s, a \o b, u)
<1> DEFINE S == LinesOn(names)
<1>1. a \in Seq(S) /\ b \in Seq(S) /\ Leads(s, a, t) /\ Leads(t, b, u)
  BY DEF Piece
<1> HIDE DEF S
<1>2. a \o b \in Seq(S)
  BY <1>1, ConcatProperties
<1>3. Leads(s, a \o b, u)
  BY <1>1, LeadsOn
<1> QED
  BY <1>2, <1>3 DEF Piece, S

\* A line is a piece.
LEMMA PieceOfOne ==
  ASSUME NEW names, NEW s, NEW x \in LinesOn(names), NEW t, Scanned(s, x) = t
  PROVE  Piece(names, s, <<x>>, t)
<1>1. Leads(s, <<x>>, t)
  BY LeadsByOne
<1> HIDE DEF LinesOn
<1>2. <<x>> \in Seq(LinesOn(names))
  OBVIOUS
<1> QED
  BY <1>1, <1>2 DEF Piece

\* No lines are a piece too.
LEMMA PieceOfNone == ASSUME NEW names, NEW s PROVE Piece(names, s, << >>, s)
<1> DEFINE f == [n \in {0} |-> s]
           lines == << >>
<1>1. f[0] = s /\ Len(lines) = 0 /\ lines \in Seq(LinesOn(names))
  OBVIOUS
<1>2. Traces(f, s, lines, s)
  BY <1>1 DEF Traces
<1> QED
  BY <1>1, <1>2 DEF Piece, Leads

\* A location, or none, leaves the scanner in its block.
LEMMA LocationPiece ==
  ASSUME NEW names, NEW depth \in Int, NEW start \in Int, depth > start, NEW block, NEW blocks,
         NEW condition
  PROVE  Piece(names, InBlock(depth, start, block, blocks), IF condition THEN Location ELSE << >>,
               InBlock(depth, start, block, blocks))
<1> DEFINE s == InBlock(depth, start, block, blocks)
<1>1. Leads(s, Location, s)
  BY LocationLeads
<1>2. Location \in Seq(LinesOn(names))
  <2> DEFINE x == Line("location", 1, 0, {})
             y == Line("proxy_pass", 0, 0, {})
             z == Line("}", 0, 1, {})
             S == LinesOn(names)
  <2>1. x \in S /\ y \in S /\ z \in S
    BY DEF Line, LinesOn, Words
  <2>2. Location = <<x, y, z>>
    BY DEF Location
  <2> HIDE DEF x, y, z, S
  <2>3. <<x, y, z>> \in Seq(S)
    BY <2>1
  <2> QED
    BY <2>2, <2>3 DEF S
<1>3. Piece(names, s, Location, s)
  BY <1>1, <1>2 DEF Piece
<1>4. Piece(names, s, << >>, s)
  BY PieceOfNone
<1>5. CASE condition
  BY <1>3, <1>5
<1>6. CASE ~condition
  BY <1>4, <1>6
<1> QED
  BY <1>5, <1>6

\* The first and the last line of a server block, and those it is told apart by.
LEMMA FirstPiece ==
  ASSUME NEW names, NEW depth \in Int, NEW blocks
  PROVE  Piece(names, OutOfBlock(depth, blocks), <<Line("server", 1, 0, {})>>,
               InBlock(depth + 1, depth, NoBlock, blocks))
<1> DEFINE line == Line("server", 1, 0, {})
           t == InBlock(depth + 1, depth, NoBlock, blocks)
<1>1. line \in LinesOn(names)
  BY DEF Line, LinesOn, Words
<1>2. Scanned(OutOfBlock(depth, blocks), line) = t
  BY Begins
<1> HIDE DEF line, t
<1>3. Piece(names, OutOfBlock(depth, blocks), <<line>>, t)
  BY <1>1, <1>2, PieceOfOne
<1> QED
  BY <1>3 DEF line, t

\* The last line of a server block adds it to those that were seen.
LEMMA LastPiece ==
  ASSUME NEW names, NEW depth \in Int, NEW block, NEW blocks
  PROVE  Piece(names, InBlock(depth + 1, depth, block, blocks), <<Line("}", 0, 1, {})>>,
               OutOfBlock(depth, blocks \cup {block}))
<1> DEFINE line == Line("}", 0, 1, {})
           d == depth + 1
<1>1. line \in LinesOn(names)
  BY DEF Line, LinesOn, Words
<1>2. line.word # "comment" /\ line.word # "server" /\ Parsed(block, line) = block
      /\ d \in Int /\ depth = d + line.opens - line.closes /\ depth <= depth
  BY DEF Line, Parsed
<1> HIDE DEF line, d
<1>3. Scanned(InBlock(d, depth, block, blocks), line)
        = OutOfBlock(depth, blocks \cup {Parsed(block, line)})
  BY <1>2, EndsBlock
<1>4. Piece(names, InBlock(d, depth, block, blocks), <<line>>, OutOfBlock(depth, blocks \cup {block}))
  BY <1>1, <1>2, <1>3, PieceOfOne
<1> QED
  BY <1>4 DEF line, d

\* A directive of a server block.
LEMMA DirectivePiece ==
  ASSUME NEW names, NEW depth \in Int, NEW start \in Int, depth > start, NEW block, NEW blocks,
         NEW word \in {"listen", "server_name"}, NEW args \in SUBSET names
  PROVE  Piece(names, InBlock(depth, start, block, blocks), <<Line(word, 0, 0, args)>>,
               InBlock(depth, start, Parsed(block, Line(word, 0, 0, args)), blocks))
<1> DEFINE line == Line(word, 0, 0, args)
<1>1. line \in LinesOn(names)
  <2>1. word \in Words
    BY DEF Words
  <2> HIDE DEF Words
  <2> QED
    BY <2>1 DEF Line, LinesOn
<1>2. line.word # "comment" /\ line.word # "server" /\ depth = depth + line.opens - line.closes
  BY DEF Line
<1> HIDE DEF line
<1>3. Scanned(InBlock(depth, start, block, blocks), line)
        = InBlock(depth, start, Parsed(block, line), blocks)
  BY <1>2, PassesIn
<1>4. Piece(names, InBlock(depth, start, block, blocks), <<line>>,
            InBlock(depth, start, Parsed(block, line), blocks))
  BY <1>1, <1>3, PieceOfOne
<1> QED
  BY <1>4 DEF line

\* All names of a server; and a server block as a record, with and without its names.
NamesOf(s) == s.domains \cup s.others

Block(tls, names) == [hasSSL |-> tls, serverNames |-> names]

\* To listen on port 80 says nothing of TLS.
LEMMA ParsedNothing == Parsed(NoBlock, Line("listen", 0, 0, {"80"})) = NoBlock
BY DEF Parsed, Line, NoBlock, IsTLS

\* To listen on port 443 does.
LEMMA ParsedTLS == Parsed(NoBlock, Line("listen", 0, 0, {"443", "ssl"})) = Block(TRUE, {})
BY DEF Parsed, Line, NoBlock, IsTLS, Block

\* The names are added to the block's, of which there were none.
LEMMA ParsedNames ==
  ASSUME NEW tls, NEW names
  PROVE  Parsed(Block(tls, {}), Line("server_name", 0, 0, names)) = Block(tls, names)
BY DEF Parsed, Line, Block

\* The comment that stands in for a TLS directive changes nothing.
LEMMA CommentPiece ==
  ASSUME NEW names, "443" \in names, NEW s
  PROVE  Piece(names, s, Comment, s)
<1> DEFINE x == Line("comment", 1, 0, {})
           y == Line("comment", 0, 0, {"443"})
<1>1. x \in LinesOn(names) /\ y \in LinesOn(names)
  BY DEF Line, LinesOn, Words
<1>2. Scanned(s, x) = s /\ Scanned(s, y) = s
  BY PassesComment
<1>3. Comment = <<x>> \o <<y>>
  BY DEF Comment
<1> HIDE DEF x, y
<1>4. Piece(names, s, <<x>>, s) /\ Piece(names, s, <<y>>, s)
  BY <1>1, <1>2, PieceOfOne
<1> QED
  BY <1>3, <1>4, PiecesJoin

\* The lines of a server block, from its first brace to its last, add what they say of it
\* to the blocks that the scanner has seen, and leave it between two blocks again.
LEMMA ServerPiece ==
  ASSUME NEW names, {"80", "443", "ssl"} \subseteq names, NEW depth \in Int, NEW blocks,
         NEW s, s.tls \in BOOLEAN, NamesOf(s) \subseteq names
  PROVE  Piece(names, OutOfBlock(depth, blocks), ServerLines(s),
               OutOfBlock(depth, blocks \cup {Block(s.tls, NamesOf(s))}))
<1> DEFINE In(block) == InBlock(depth + 1, depth, block, blocks)
           p0 == <<Line("server", 1, 0, {})>>
           p1 == IF s.location = "before" THEN Location ELSE << >>
           p2 == <<Line("listen", 0, 0, {"80"})>>
           p3 == IF s.tls THEN <<Line("listen", 0, 0, {"443", "ssl"})>> ELSE Comment
           p4 == <<Line("server_name", 0, 0, NamesOf(s))>>
           p5 == IF s.location = "after" THEN Location ELSE << >>
           p6 == <<Line("}", 0, 1, {})>>
           d == depth + 1
           block == Block(s.tls, NamesOf(s))
           half == Block(s.tls, {})
<1>0. d \in Int /\ d > depth
  OBVIOUS
<1>1. Piece(names, OutOfBlock(depth, blocks), p0, In(NoBlock))
  BY FirstPiece
<1>2. Piece(names, In(NoBlock), p1, In(NoBlock))
  <2> HIDE DEF d
  <2>1. Piece(names, InBlock(d, depth, NoBlock, blocks), p1, InBlock(d, depth, NoBlock, blocks))
    BY <1>0, LocationPiece
  <2> QED
    BY <2>1 DEF d
<1>3. Piece(names, In(NoBlock), p2, In(NoBlock))
  <2> DEFINE args == {"80"}
  <2>1. args \in SUBSET names
    OBVIOUS
  <2> HIDE DEF d, args
  <2>2. Piece(names, InBlock(d, depth, NoBlock, blocks), <<Line("listen", 0, 0, args)>>,
              InBlock(d, depth, Parsed(NoBlock, Line("listen", 0, 0, args)), blocks))
    BY <1>0, <2>1, DirectivePiece
  <2> QED
    BY <2>2, ParsedNothing DEF d, args
<1>4. Piece(names, In(NoBlock), p3, In(half))
  <2>1. CASE s.tls
    <3> DEFINE args == {"443", "ssl"}
    <3>1. args \in SUBSET names
      OBVIOUS
    <3> HIDE DEF d, args
    <3>2. Piece(names, InBlock(d, depth, NoBlock, blocks), <<Line("listen", 0, 0, args)>>,
                InBlock(d, depth, Parsed(NoBlock, Line("listen", 0, 0, args)), blocks))
      BY <1>0, <3>1, DirectivePiece
    <3>3. Piece(names, In(NoBlock), p3, In(Block(TRUE, {})))
      BY <2>1, <3>2, ParsedTLS DEF d, args
    <3>4. s.tls = TRUE
      BY <2>1
    <3> QED
      BY <3>3, <3>4
  <2>2. CASE ~s.tls
    <3>1. half = NoBlock
      BY <2>2 DEF Block, NoBlock
    <3>2. p3 = Comment
      BY <2>2
    <3> HIDE DEF half, p3
    <3> QED
      BY <3>1, <3>2, CommentPiece
  <2> QED
    BY <2>1, <2>2
<1>5. Piece(names, In(half), p4, In(block))
  <2> DEFINE args == NamesOf(s)
  <2>1. args \in SUBSET names
    OBVIOUS
  <2>2. Parsed(half, Line("server_name", 0, 0, args)) = block
    BY ParsedNames
  <2> HIDE DEF d, args, half, block
  <2>3. Piece(names, InBlock(d, depth, half, blocks), <<Line("server_name", 0, 0, args)>>,
              InBlock(d, depth, Parsed(half, Line("server_name", 0, 0, args)), blocks))
    BY <1>0, <2>1, DirectivePiece
  <2> QED
    BY <2>2, <2>3 DEF d, args
<1>6. Piece(names, In(block), p5, In(block))
  <2> HIDE DEF d, block
  <2>1. Piece(names, InBlock(d, depth, block, blocks), p5, InBlock(d, depth, block, blocks))
    BY <1>0, LocationPiece
  <2> QED
    BY <2>1 DEF d
<1>7. Piece(names, In(block), p6, OutOfBlock(depth, blocks \cup {block}))
  <2> HIDE DEF block
  <2> QED
    BY LastPiece
<1>8. ServerLines(s) = p0 \o p1 \o p2 \o p3 \o p4 \o p5 \o p6
  BY DEF ServerLines, NamesOf
<1> HIDE DEF In, p0, p1, p2, p3, p4, p5, p6, block, half
<1>9. Piece(names, OutOfBlock(depth, blocks), p0 \o p1 \o p2 \o p3, In(half))
  BY <1>1, <1>2, <1>3, <1>4, PiecesJoin
<1>10. Piece(names, OutOfBlock(depth, blocks), p0 \o p1 \o p2 \o p3 \o p4 \o p5 \o p6,
             OutOfBlock(depth, blocks \cup {block}))
  BY <1>5, <1>6, <1>7, <1>9, PiecesJoin
<1> QED
  BY <1>8, <1>10 DEF block

\* An upstream adds nothing, and neither does what holds the blocks together.
LEMMA UpstreamPiece ==
  ASSUME NEW names, "192.0.2.1" \in names, NEW depth \in Int, NEW blocks
  PROVE  Piece(names, OutOfBlock(depth, blocks), Upstream, OutOfBlock(depth, blocks))
<1> DEFINE x == Line("upstream", 1, 0, {})
           y == Line("server", 0, 0, {"192.0.2.1"})
           z == Line("}", 0, 1, {})
           d == depth + 1
           s == OutOfBlock(depth, blocks)
           t == OutOfBlock(d, blocks)
<1>1. x \in LinesOn(names) /\ y \in LinesOn(names) /\ z \in LinesOn(names)
  BY DEF Line, LinesOn, Words
<1>2. x.word # "comment" /\ x.word # "server" /\ d = depth + x.opens - x.closes
  BY DEF Line
<1>3. y.word # "comment" /\ ~ (y.opens > 0) /\ d = d + y.opens - y.closes
  BY DEF Line
<1>4. z.word # "comment" /\ z.word # "server" /\ depth = d + z.opens - z.closes
  BY DEF Line
<1>5. d \in Int
  OBVIOUS
<1>6. Upstream = <<x, y, z>>
  BY DEF Upstream
<1>7. Leads(s, <<x, y, z>>, Scanned(Scanned(Scanned(s, x), y), z))
  BY LeadsByThree
<1> DEFINE S == LinesOn(names)
<1> HIDE DEF x, y, z, d, S
<1>8. Scanned(s, x) = t
  BY <1>2, <1>5, PassesOut
<1>9. Scanned(t, y) = t
  BY <1>3, <1>5, PassesOut
<1>10. Scanned(t, z) = s
  BY <1>4, <1>5, PassesOut
<1>11. <<x, y, z>> \in Seq(S)
  BY <1>1 DEF S
<1> HIDE DEF s, t
<1>12. Leads(s, <<x, y, z>>, s)
  BY <1>7, <1>8, <1>9, <1>10
<1> QED
  BY <1>6, <1>11, <1>12 DEF Piece, s, S

\* An http block around a piece: it is read one brace deeper.
LEMMA InHTTPPiece ==
  ASSUME NEW names, NEW depth \in Int, NEW blocks, NEW lines, NEW more,
         Piece(names, OutOfBlock(depth + 1, blocks), lines, OutOfBlock(depth + 1, more))
  PROVE  Piece(names, OutOfBlock(depth, blocks), InHTTP(lines), OutOfBlock(depth, more))
<1> DEFINE x == Line("http", 1, 0, {})
           z == Line("}", 0, 1, {})
           d == depth + 1
<1>1. x \in LinesOn(names) /\ z \in LinesOn(names)
  BY DEF Line, LinesOn, Words
<1>2. x.word # "comment" /\ x.word # "server" /\ d = depth + x.opens - x.closes
  BY DEF Line
<1>3. z.word # "comment" /\ z.word # "server" /\ depth = d + z.opens - z.closes
  BY DEF Line
<1>4. d \in Int
  OBVIOUS
<1>5. InHTTP(lines) = <<x>> \o lines \o <<z>>
  BY DEF InHTTP
<1> HIDE DEF x, z, d
<1>6. Scanned(OutOfBlock(depth, blocks), x) = OutOfBlock(d, blocks)
  BY <1>2, <1>4, PassesOut
<1>7. Scanned(OutOfBlock(d, more), z) = OutOfBlock(depth, more)
  BY <1>3, <1>4, PassesOut
<1>8. Piece(names, OutOfBlock(depth, blocks), <<x>>, OutOfBlock(d, blocks))
  BY <1>1, <1>6, PieceOfOne
<1>9. Piece(names, OutOfBlock(d, more), <<z>>, OutOfBlock(depth, more))
  BY <1>1, <1>7, PieceOfOne
<1>10. Piece(names, OutOfBlock(d, blocks), lines, OutOfBlock(d, more))
  BY DEF d
<1> QED
  BY <1>5, <1>8, <1>9, <1>10, PiecesJoin
-----------------------------------------------------------------------------
\* A server as it is assumed to be.
Proper(s) == s.tls \in BOOLEAN /\ s.domains \cap NotDomains = {} /\ s.others \subseteq NotDomains

\* What is found in a file that leads to the blocks of two servers: the names that are left
\* out of it are the others.
LEMMA FoundAreServed ==
  ASSUME NEW names, NEW lines, NEW s1, NEW s2, Proper(s1), Proper(s2),
         Piece(names, OutOfBlock(0, {}), lines,
               OutOfBlock(0, {} \cup {Block(s1.tls, NamesOf(s1))} \cup {Block(s2.tls, NamesOf(s2))}))
  PROVE  ParseNginxDomains(lines) = Served({s1, s2})
<1> DEFINE b1 == Block(s1.tls, NamesOf(s1))
           b2 == Block(s2.tls, NamesOf(s2))
           blocks == {} \cup {b1} \cup {b2}
           t == OutOfBlock(0, blocks)
<1>1. lines \in Seq(LinesOn(names)) /\ Leads(Outside, lines, t)
  BY DEF Piece, OutOfBlock, Outside, Scanner, No
<1>2. t.blocks = blocks
  BY DEF OutOfBlock, Scanner
<1> HIDE DEF t, blocks
<1>3. ParseNginxDomains(lines) = SSLDomainsOf(blocks)
  BY <1>1, <1>2, ParsedAtTheEnd
<1>4. b1.hasSSL = s1.tls /\ b1.serverNames = NamesOf(s1)
      /\ b2.hasSSL = s2.tls /\ b2.serverNames = NamesOf(s2)
  BY DEF Block
<1> HIDE DEF b1, b2
<1>5. SSLDomainsOf(blocks) = Served({s1, s2})
  <2> DEFINE found == UNION {b.serverNames : b \in {x \in blocks : x.hasSSL}}
  <2>1. ASSUME NEW n PROVE n \in found <=> \E s \in {s1, s2} : s.tls /\ n \in NamesOf(s)
    BY <1>4 DEF blocks
  <2>2. ASSUME NEW n, NEW s \in {s1, s2}
        PROVE  n \in NamesOf(s) /\ n \notin NotDomains <=> n \in s.domains
    BY DEF Proper, NamesOf
  <2>3. ASSUME NEW n PROVE n \in Served({s1, s2}) <=> \E s \in {s1, s2} : s.tls /\ n \in s.domains
    BY DEF Served
  <2>4. SSLDomainsOf(blocks) = found \ NotDomains
    BY DEF SSLDomainsOf
  <2> HIDE DEF found
  <2>5. ASSUME NEW n PROVE n \in found \ NotDomains <=> n \in Served({s1, s2})
    BY <2>1, <2>2, <2>3
  <2> QED
    BY <2>4, <2>5
<1> QED
  BY <1>3, <1>5

\* However two server blocks are written, what is found is what they serve with TLS.
LEMMA WrittenAreFound ==
  ASSUME NEW s1, NEW s2, Proper(s1), Proper(s2), NEW lines \in Written(s1, s2)
  PROVE  ParseNginxDomains(lines) = Served({s1, s2})
<1> DEFINE names == NamesOf(s1) \cup NamesOf(s2) \cup {"80", "443", "ssl", "192.0.2.1"}
           b1 == Block(s1.tls, NamesOf(s1))
           b2 == Block(s2.tls, NamesOf(s2))
           l1 == ServerLines(s1)
           l2 == ServerLines(s2)
           Adds(ls, b) == \A depth \in {0, 1} : \A blocks :
             Piece(names, OutOfBlock(depth, blocks), ls, OutOfBlock(depth, blocks \cup {b}))
<1>1. {"80", "443", "ssl"} \subseteq names /\ "192.0.2.1" \in names
      /\ NamesOf(s1) \subseteq names /\ NamesOf(s2) \subseteq names
  OBVIOUS
<1> HIDE DEF names
<1>2. Adds(l1, b1) /\ Adds(l2, b2)
  <2>1. ASSUME NEW depth \in {0, 1}, NEW blocks
        PROVE  Piece(names, OutOfBlock(depth, blocks), l1, OutOfBlock(depth, blocks \cup {b1}))
    BY <1>1, ServerPiece DEF Proper
  <2>2. ASSUME NEW depth \in {0, 1}, NEW blocks
        PROVE  Piece(names, OutOfBlock(depth, blocks), l2, OutOfBlock(depth, blocks \cup {b2}))
    BY <1>1, ServerPiece DEF Proper
  <2> QED
    BY <2>1, <2>2
<1>3. \A depth \in {0, 1} : \A blocks :
        Piece(names, OutOfBlock(depth, blocks), Upstream, OutOfBlock(depth, blocks))
  BY <1>1, UpstreamPiece
<1> HIDE DEF b1, b2, l1, l2
<1> DEFINE B0 == {}
           B1 == {} \cup {b1}
           B2 == {} \cup {b1} \cup {b2}
<1>4. /\ Piece(names, OutOfBlock(1, B0), l1, OutOfBlock(1, B1))
      /\ Piece(names, OutOfBlock(0, B0), l1, OutOfBlock(0, B1))
      /\ Piece(names, OutOfBlock(1, B1), l2, OutOfBlock(1, B2))
      /\ Piece(names, OutOfBlock(0, B1), l2, OutOfBlock(0, B2))
  BY <1>2
<1>5. \A depth \in {0, 1} : Piece(names, OutOfBlock(depth, B0), Upstream, OutOfBlock(depth, B0))
                           /\ Piece(names, OutOfBlock(depth, B1), Upstream, OutOfBlock(depth, B1))
  BY <1>3
<1> HIDE DEF B0, B1, B2
<1>6. \A ls, blocks, more : Piece(names, OutOfBlock(1, blocks), ls, OutOfBlock(1, more))
                           => Piece(names, OutOfBlock(0, blocks), InHTTP(ls), OutOfBlock(0, more))
  BY InHTTPPiece
<1>7. Piece(names, OutOfBlock(0, B0), InHTTP(Upstream \o l1 \o l2), OutOfBlock(0, B2))
  BY <1>4, <1>5, <1>6, PiecesJoin
<1>8. Piece(names, OutOfBlock(0, B0), InHTTP(l1) \o Upstream \o l2, OutOfBlock(0, B2))
  BY <1>4, <1>5, <1>6, PiecesJoin
<1>9. Piece(names, OutOfBlock(0, B0), l1 \o InHTTP(Upstream \o l2), OutOfBlock(0, B2))
  BY <1>4, <1>5, <1>6, PiecesJoin
<1>10. Piece(names, OutOfBlock(0, B0), l1 \o l2, OutOfBlock(0, B2))
  BY <1>4, PiecesJoin
<1>11. lines \in {InHTTP(Upstream \o l1 \o l2), InHTTP(l1) \o Upstream \o l2,
                  l1 \o InHTTP(Upstream \o l2), l1 \o l2}
  BY DEF Written, l1, l2
<1>12. Piece(names, OutOfBlock(0, B0), lines, OutOfBlock(0, B2))
  BY <1>7, <1>8, <1>9, <1>10, <1>11
<1> QED
  BY <1>12, FoundAreServed DEF B0, B2, b1, b2

\* Whatever the server blocks of nginx, however many names they have and whichever of the
\* layouts they are written in, the domains whose certificates are checked are those that
\* are served with TLS.
THEOREM DomainsAreFound == Spec => []DomainsFound
<1>1. ServedAreFound
  BY ServersAssumption, WrittenAreFound DEF Proper, ServedAreFound, DomainsAreServed
<1>2. Init => DomainsFound
  BY <1>1 DEF DomainsFound
<1>3. DomainsFound /\ [Next]_vars => DomainsFound'
  BY <1>1 DEF DomainsFound
<1> QED
  BY <1>2, <1>3, PTL DEF Spec
=============================================================================
