------------------------------- MODULE Program ------------------------------
(***************************************************************************)
(* The program as main.go puts it together: the checkers it was configured *)
(* with and the services they watch, the scheduler that collects their     *)
(* reports and calls the alerters, the handlers that read the results, and *)
(* the shutdown, which runs beside all of them and waits for none.         *)
(*                                                                         *)
(* Two databases are checked over connections that are opened once; for    *)
(* every other checker one probe stands for all of its results.  What a    *)
(* cycle records besides (history, log timeline, metrics) is in Scheduler, *)
(* LogPersist and Metrics.                                                 *)
(***************************************************************************)
EXTENDS Wiring, FiniteSets

CONSTANTS Files,      \* the configuration files it may be started with
          Hosts,      \* the HTTP servers that may be installed, and the lines of nginx's files
          Servers,    \* server blocks that nginx's files may hold
          Names       \* the names of the checkers that can come of them

None == "none"
Free == "free"
NoItem == << >>

Databases == {"mariadb", "postgresql"}
Channels == {"log", "webhook", "email"}

VARIABLES
  cfg,        \* the configuration
  built,      \* the checkers built from it
  up,         \* whether each service answers within the timeouts
  mail,       \* whether the mail server answers
  main,       \* where main is
  cancelled,  \* main has called cancel()
  pool,       \* the connections of each database checker
  at,         \* where each Check is
  report,     \* the results it has so far
  saw,        \* history: whether its service was up or down since it began
  sched,      \* where the scheduler's goroutine is
  mu,         \* s.mu: free, or held to apply the report of a checker
  results,    \* s.results
  previous,   \* s.previousStatus
  news,       \* components whose change is still to be announced
  item,       \* the one that is being announced, or NoItem
  turn,       \* the alerter that is called for it
  told,       \* history: what each alerter was last called with, per component
  reader      \* a page or a load balancer that reads the results

world == <<up, mail>>
checks == <<pool, at, report, saw>>
board == <<mu, results, previous>>
alerting == <<news, item, turn, told>>
vars == <<cfg, built, world, main, cancelled, checks, sched, board, alerting, reader>>

\* A database has a connection and a query to report on, any other service only
\* what takes the place of the former.  (The number of threads or of connections,
\* asked for last, is reported as ok or not at all: it is left out.)
Parts == {"connection", "query"}
Components == Names \X Parts
Answer == {"ok", "critical"}
NoResult == [p \in Parts |-> None]

Built(c, host) == Checkers(c, host.installed, ParseNginxDomains(host.nginx))

ASSUME NamesAssumption == Names \subseteq STRING /\ Free \notin Names
ASSUME FilesAssumption ==
  \A file \in Files :
    /\ Acceptable(file) /\ OneOfAName(LoadConfig(file).endpoints)
    /\ \A host \in Hosts : Built(LoadConfig(file), host) \subseteq Names
ASSUME ServersAssumption ==
  \A s \in Servers :
    s.tls \in BOOLEAN /\ s.domains \cap NotDomains = {} /\ s.others \subseteq NotDomains

DSN(c) == IF c = "mariadb" THEN cfg.mariadbDSN ELSE cfg.postgresqlDSN

Running == main # "ended"
Checking(c) == at[c] \notin {"idle", "done"}
-----------------------------------------------------------------------------
Init ==
  /\ \E file \in Files, host \in Hosts :
       /\ cfg = LoadConfig(file)
       /\ built = Built(cfg, host)
  /\ up \in {u \in [Names -> BOOLEAN] : \A c \in Names \ built : u[c]}
  /\ mail \in IF cfg.email THEN BOOLEAN ELSE {TRUE}
  /\ main = "serving"
  /\ cancelled = FALSE
  /\ pool = [c \in Names |-> "none"]
  /\ at = [c \in Names |-> "idle"]
  /\ report = [c \in Names |-> NoResult]
  /\ saw = [c \in Names |-> {}]
  /\ sched = "waiting"
  /\ mu = Free
  /\ results = [c \in Names |-> NoResult]
  /\ previous = [c \in Names |-> NoResult]
  /\ news = {}
  /\ item = NoItem
  /\ turn = 1
  /\ told = [a \in Channels |-> [x \in Components |-> None]]
  /\ reader = "idle"

\* A service that is checked, or the mail server if it is used, goes away or comes back.
Flip(c) ==
  /\ Running /\ c \in built
  /\ up' = [up EXCEPT ![c] = ~@]
  /\ saw' = [saw EXCEPT ![c] = IF Checking(c) THEN @ \cup {~up[c]} ELSE @]
  /\ UNCHANGED <<cfg, built, mail, main, cancelled, pool, at, report, sched, board,
                 alerting, reader>>

FlipMail ==
  /\ Running /\ cfg.email
  /\ mail' = ~mail
  /\ UNCHANGED <<cfg, built, up, main, cancelled, checks, sched, board, alerting, reader>>
-----------------------------------------------------------------------------
(* A cycle: every checker in a goroutine of its own.                       *)

StartCycleOfAll ==
  /\ Running
  /\ sched = "waiting"
  /\ sched' = "collecting"
  /\ at' = [c \in Names |-> "begun"]
  /\ saw' = [c \in Names |-> {up[c]}]
  /\ UNCHANGED <<cfg, built, world, main, cancelled, pool, report, board, alerting, reader>>

StartCycle ==
  /\ Running
  /\ sched = "waiting"
  /\ sched' = "collecting"
  /\ at' = [c \in Names |-> IF c \in built THEN "begun" ELSE "idle"]
  /\ saw' = [c \in Names |-> IF c \in built THEN {up[c]} ELSE {}]
  /\ UNCHANGED <<cfg, built, world, main, cancelled, pool, report, board, alerting, reader>>

\* How a call over the network may end: a connection that was closed, or a context
\* that was cancelled, makes it fail as a silent service does.
Succeeds(c) == up[c] /\ (c \in Databases => pool[c] = "open")
Fails(c) == ~up[c] \/ cancelled \/ (c \in Databases /\ pool[c] # "open")

\* The check of c goes on after a call, or ends, with the result of the call.
Found(c, part, status, next) ==
  /\ report' = [report EXCEPT ![c][part] = status]
  /\ at' = [at EXCEPT ![c] = next]
  /\ UNCHANGED <<cfg, built, world, main, cancelled, saw, sched, board, alerting, reader>>

Probe(c) ==
  /\ Running
  /\ at[c] = "begun" /\ c \notin Databases
  /\ \/ Succeeds(c) /\ Found(c, "connection", "ok", "done")
     \/ Fails(c) /\ Found(c, "connection", "critical", "done")
  /\ UNCHANGED pool

OpenedAndTried(c) ==
  IF pool[c] # "none" THEN pool[c] ELSE IF DSN(c) = "bad" \/ ~up[c] THEN "refused" ELSE "open"

\* initDB with once: a DSN that cannot be parsed is remembered as an error, anything
\* else makes a pool of connections, none of which is tried yet.
Opened(c) ==
  IF pool[c] # "none" THEN pool[c] ELSE IF DSN(c) = "bad" THEN "refused" ELSE "open"

Open(c) ==
  /\ Running
  /\ at[c] = "begun" /\ c \in Databases
  /\ pool' = [pool EXCEPT ![c] = Opened(c)]
  /\ IF Opened(c) = "refused"
     THEN Found(c, "connection", "critical", "done")
     ELSE Found(c, "connection", None, "pinging")

PingOnce(c) ==
  /\ Running
  /\ at[c] = "pinging"
  /\ \/ (Succeeds(c) \/ results[c].connection = "ok") /\ Found(c, "connection", "ok", "querying")
     \/ Fails(c) /\ results[c].connection # "ok" /\ Found(c, "connection", "critical", "done")
  /\ UNCHANGED pool

PingUntilAnswered(c) ==
  /\ Running
  /\ at[c] = "pinging"
  /\ \/ Succeeds(c) /\ Found(c, "connection", "ok", "querying")
     \/ pool[c] # "open" /\ Found(c, "connection", "critical", "done")
  /\ UNCHANGED pool

\* The connection is tried in every cycle, for 5 s at most.
Ping(c) ==
  /\ Running
  /\ at[c] = "pinging"
  /\ \/ Succeeds(c) /\ Found(c, "connection", "ok", "querying")
     \/ Fails(c) /\ Found(c, "connection", "critical", "done")
  /\ UNCHANGED pool

Query(c) ==
  /\ Running
  /\ at[c] = "querying"
  /\ \/ Succeeds(c) /\ Found(c, "query", "ok", "done")
     \/ Fails(c) /\ Found(c, "query", "critical", "done")
  /\ UNCHANGED pool
-----------------------------------------------------------------------------
(* The collector, under s.mu for the time of one report.                   *)

Lock(c) ==
  /\ Running
  /\ sched = "collecting" /\ mu = Free
  /\ at[c] = "done"
  /\ mu' = c
  /\ UNCHANGED <<cfg, built, world, main, cancelled, checks, sched, results, previous,
                 alerting, reader>>

\* processResult: a first result that is bad, and every change.
IsNews(c, p) ==
  /\ report[c][p] # None
  /\ IF previous[c][p] = None THEN report[c][p] = "critical" ELSE report[c][p] # previous[c][p]

Apply(c) ==
  /\ Running
  /\ sched = "collecting" /\ mu = c
  /\ results' = [results EXCEPT ![c] = report[c]]
  /\ previous' = [previous EXCEPT ![c] =
                    [p \in Parts |-> IF report[c][p] = None THEN @[p] ELSE report[c][p]]]
  /\ news' = news \cup {x \in {c} \X Parts : IsNews(c, x[2])}
  /\ at' = [at EXCEPT ![c] = "idle"]
  /\ report' = [report EXCEPT ![c] = NoResult]
  /\ saw' = [saw EXCEPT ![c] = {}]
  /\ mu' = Free
  /\ UNCHANGED <<cfg, built, world, main, cancelled, pool, sched, item, turn, told, reader>>

CollectedLocked ==
  /\ Running
  /\ sched = "collecting" /\ mu = Free
  /\ \A c \in Names : at[c] = "idle"
  /\ sched' = "alerting"
  /\ mu' = IF news # {} THEN CHOOSE c \in built : TRUE ELSE Free
  /\ UNCHANGED <<cfg, built, world, main, cancelled, checks, results, previous, alerting, reader>>

\* The channel is closed when every checker has reported.
Collected ==
  /\ Running
  /\ sched = "collecting" /\ mu = Free
  /\ \A c \in Names : at[c] = "idle"
  /\ sched' = "alerting"
  /\ UNCHANGED <<cfg, built, world, main, cancelled, checks, board, alerting, reader>>

\* The next alert.  (The code's order is that in which the reports came.)
Announce ==
  /\ Running
  /\ sched = "alerting" /\ item = NoItem
  /\ item' \in news
  /\ UNCHANGED <<cfg, built, world, main, cancelled, checks, sched, board, news, turn, told,
                 reader>>

\* The webhook gives up after 10 s or on a cancelled context; SendMail has no timeout
\* and no context, and returns when the mail server has answered.
Returns(alerter) == alerter = "email" => mail

CallUntilError ==
  /\ Running
  /\ item # NoItem /\ turn <= Len(Alerters(cfg))
  /\ Returns(Alerters(cfg)[turn])
  /\ told' = [told EXCEPT ![Alerters(cfg)[turn]][item] = previous[item[1]][item[2]]]
  /\ \E fails \in IF Alerters(cfg)[turn] = "log" THEN {FALSE} ELSE BOOLEAN :
       turn' = IF fails THEN Len(Alerters(cfg)) + 1 ELSE turn + 1
  /\ UNCHANGED <<cfg, built, world, main, cancelled, checks, sched, board, news, item, reader>>

\* MultiAlerter: whether an alerter succeeds or not, the next one is called.
Call ==
  /\ Running
  /\ item # NoItem /\ turn <= Len(Alerters(cfg))
  /\ Returns(Alerters(cfg)[turn])
  /\ told' = [told EXCEPT ![Alerters(cfg)[turn]][item] = previous[item[1]][item[2]]]
  /\ turn' = turn + 1
  /\ UNCHANGED <<cfg, built, world, main, cancelled, checks, sched, board, news, item, reader>>

Announced ==
  /\ Running
  /\ item # NoItem /\ turn > Len(Alerters(cfg))
  /\ news' = news \ {item}
  /\ item' = NoItem
  /\ turn' = 1
  /\ UNCHANGED <<cfg, built, world, main, cancelled, checks, sched, board, told, reader>>

EndCycle ==
  /\ Running
  /\ sched = "alerting" /\ item = NoItem /\ news = {}
  /\ sched' = "waiting"
  /\ UNCHANGED <<cfg, built, world, main, cancelled, checks, board, alerting, reader>>

\* Start returns, unless its select prefers a tick that is due as well.
Return ==
  /\ Running
  /\ sched = "waiting" /\ cancelled
  /\ sched' = "returned"
  /\ UNCHANGED <<cfg, built, world, main, cancelled, checks, board, alerting, reader>>
-----------------------------------------------------------------------------
(* The handlers, which take s.mu for reading.                              *)

Ask ==
  /\ main \notin {"draining", "ended"}
  /\ reader = "idle"
  /\ reader' = "asking"
  /\ UNCHANGED <<cfg, built, world, main, cancelled, checks, sched, board, alerting>>

Reply ==
  /\ Running
  /\ reader = "asking" /\ mu = Free
  /\ reader' = "idle"
  /\ UNCHANGED <<cfg, built, world, main, cancelled, checks, sched, board, alerting>>

\* handleHealthz: every name that is listed as critical has reported nothing critical.
Healthy(c) == c \in Names /\ results[c].connection = "ok" /\ results[c].query # "critical"
Passing == \A c \in cfg.criticalChecks : Healthy(c)
-----------------------------------------------------------------------------
(* The shutdown.                                                           *)

Step(from, to) ==
  /\ main = from
  /\ main' = to
  /\ UNCHANGED <<cfg, built, world, at, report, saw, sched, board, alerting, reader>>

SignalUncancelled == Step("serving", "flushing") /\ UNCHANGED <<cancelled, pool>>

Signal == Step("serving", "flushing") /\ cancelled' = TRUE /\ UNCHANGED pool

\* What is closed last, and what is closed if there is a checker that uses it.
PostgreSQLNext == IF "postgresql" \in built THEN "closing postgresql" ELSE "draining"
MariaDBNext == IF "mariadb" \in built THEN "closing mariadb" ELSE PostgreSQLNext

FlushWhenReturned ==
  sched = "returned" /\ Step("flushing", MariaDBNext) /\ UNCHANGED <<cancelled, pool>>

\* saveLogs; nothing waits for the scheduler.
Flush == Step("flushing", MariaDBNext) /\ UNCHANGED <<cancelled, pool>>

\* Close reads the field that initDB sets, without going through its Once, so it may
\* not see a pool that there is.  A check under way finds its connections closed.
Close(c) ==
  /\ IF c = "mariadb" THEN Step("closing mariadb", PostgreSQLNext)
                     ELSE Step("closing postgresql", "draining")
  /\ pool' \in {pool, [pool EXCEPT ![c] = IF @ = "open" THEN "closed" ELSE @]}
  /\ UNCHANGED cancelled

\* Shutdown waits for requests for 5 s at most; then main returns.
Exit == Step("draining", "ended") /\ UNCHANGED <<cancelled, pool>>
-----------------------------------------------------------------------------
Check(c) == Probe(c) \/ Open(c) \/ Ping(c) \/ Query(c)
Collect == Collected \/ \E c \in Names : Lock(c) \/ Apply(c)
Alert == Announce \/ Call \/ Announced \/ EndCycle
Stop == Flush \/ Close("mariadb") \/ Close("postgresql") \/ Exit

Next ==
  \/ \E c \in Names : Flip(c) \/ Check(c)
  \/ FlipMail
  \/ StartCycle \/ Collect \/ Alert \/ Return
  \/ Ask \/ Reply
  \/ Signal \/ Stop

Spec == Init /\ [][Next]_vars

\* Ticks come; every call of a check ends within its timeout, and so does the
\* webhook's; mail is sent if the mail server goes on answering; main goes on; and a
\* reader gets the lock at last, which a sync.RWMutex gives to the readers that wait
\* when a writer leaves.
Fairness ==
  /\ WF_vars(StartCycle) /\ WF_vars(Collect) /\ WF_vars(Alert)
  /\ \A c \in Names : WF_vars(Check(c))
  /\ SF_vars(Reply)
  /\ WF_vars(Stop)

FairSpec == Spec /\ Fairness
-----------------------------------------------------------------------------
Result == [Parts -> Answer \cup {None}]

\* Only checkers that were built report, alerts are about what they reported, and
\* the lock is held for one of them.
TypeOK ==
  /\ built \subseteq Names
  /\ up \in [Names -> BOOLEAN] /\ mail \in BOOLEAN
  /\ main \in {"serving", "flushing", "closing mariadb", "closing postgresql",
               "draining", "ended"}
  /\ cancelled \in BOOLEAN
  /\ pool \in [Names -> {"none", "open", "refused", "closed"}]
  /\ at \in [Names -> {"idle", "begun", "pinging", "querying", "done"}]
  /\ \A c \in Names \ built : at[c] = "idle"
  /\ report \in [Names -> Result]
  /\ saw \in [Names -> SUBSET BOOLEAN]
  /\ sched \in {"waiting", "collecting", "alerting", "returned"}
  /\ mu \in built \cup {Free}
  /\ results \in [Names -> Result]
  /\ previous \in [Names -> Result]
  /\ news \subseteq Components
  /\ item \in Components \cup {NoItem}
  /\ turn \in 1 .. Len(Alerters(cfg)) + 1
  /\ told \in [Channels -> [Components -> Answer \cup {None}]]
  /\ reader \in {"idle", "asking"}

\* What a check reports was so at some time while it ran, unless the DSN cannot be
\* parsed: closing the connections of a check that is under way is never taken for an
\* outage, except once the checks have been cancelled.
ReportsAreTrue ==
  \A c \in built, p \in Parts :
    /\ report[c][p] = "critical" => FALSE \in saw[c] \/ pool[c] = "refused" \/ cancelled
    /\ report[c][p] = "ok" => TRUE \in saw[c]

\* Between two cycles every alerter has been called with the present status of each
\* component, whichever of them failed, or never if it has only been ok.
EveryoneIsTold ==
  sched \in {"waiting", "returned"} =>
    \A i \in 1 .. Len(Alerters(cfg)), x \in Components :
      LET heard == told[Alerters(cfg)[i]][x] IN
        \/ heard = previous[x[1]][x[2]]
        \/ heard = None /\ previous[x[1]][x[2]] = "ok"

ServedAreFound == DomainsAreServed(Servers)

\* A program that checks certificates looks for them where nginx serves them: whether two
\* server blocks are in one http block, in two, in files of their own or in an included
\* one, the domains found are those that a server with TLS serves, and no domain of a
\* server without it.  (Of braces and directives that share a line this is not so.)
DomainsFound == cfg.ssl => ServedAreFound

\* A page or a load balancer gets its answer, even while an alert waits for a mail
\* server that never says anything.
ReadsAnswered == reader = "asking" ~> (reader = "idle" \/ main = "ended")

\* A signal ends the program, whatever the checks, the alerters or the services do.
ShutdownEnds == main # "serving" ~> main = "ended"

\* Every critical check is built and has a usable DSN.
Attainable == \A c \in cfg.criticalChecks : c \in built /\ (c \in Databases => DSN(c) # "bad")

\* If the mail server answers, /healthz comes to tell and goes on telling what is the
\* case: that all services are up, however often they were not before, or that one of
\* them is down.
HealthzFollows ==
  /\ (<>[](main = "serving" /\ mail /\ Attainable /\ \A c \in built : up[c])) => <>[]Passing
  /\ \A c \in Names :
       (<>[](main = "serving" /\ mail /\ c \in cfg.criticalChecks \cap built /\ ~up[c]))
         => <>[]~Passing

\* The checks go on for as long as the program serves: there is always another cycle,
\* and it ends.
ChecksGoOn == ([]<>(sched = "collecting") /\ []<>(sched = "waiting")) \/ <>(main # "serving")

\* They do if the mail server answers in the end: no service that is silent, and no alerter
\* that fails, keeps the cycle from its end and the next one from its beginning.
ChecksGoOnWithMail == (<>[]mail) => ChecksGoOn
=============================================================================
