# A TLA+ model of asmt

asmt watches one server: it runs a set of health checks every 30 seconds or so,
alerts on status transitions, keeps seven days of status history and of log
incidents in memory and in day files, and serves a dashboard, a `/healthz` for
load balancers and a button that re-reads the systemd journal.  It is one Go
process with one goroutine per concern; the interesting behaviour lies between
them: reports that arrive in any order, state read under one lock and written
under another, midnights, crashes and restarts, and files that are replaced
while memory moves on.

## The system

| component | state it keeps | operations | who calls it |
|---|---|---|---|
| scheduler (`scheduler.go`) | results per checker, previous status and start of the outage per component, history, all under `s.mu` | `Start`, `runAll`, `processResult`, `updateHistory`, `downgradeHistory`, `GetHistory`, `OverallStatus`, `CriticalChecksPassing` | its own goroutine; HTTP handlers read |
| checkers (`check_*.go`) | lazily opened DB connections | `Check(ctx)` | one goroutine per checker and cycle |
| alerters (`alert.go`) | none | `Alert` | the scheduler, one alert at a time, without the lock |
| history store (`history.go`) | day files per machine | `Load` (deletes old files), `Save` (write and rename) | scheduler at start, end of each cycle |
| log buffer (`logwatch.go`, `logBuffer`) | slice of entries, map from bucket and kind to the same entries, pruning counter, under `lb.mu` | `AddEvent`, `AddAggregated`, `pruneLocked`, range queries | tails, scheduler, syncer, HTTP handlers |
| log persistence (`logwatch.go`) | day file of entries, counter `saveN`, lock `saveMu` | `saveLogs`, `loadLogs`, `scanRecent` | whichever goroutine makes the tenth event, shutdown |
| log tail (`logwatch.go`) | open file, offset, partial line | `tailFile`, `tailOnce`, `matchLine` | one goroutine per log file |
| journal sync (`sync.go`) | `runMu`, `inFlight`, `lastSync`, last result | `Sync`, `syncChunk`, `streamJournalctl` | initial and hourly goroutines, `POST` handler |
| metrics (`metrics.go`) | seven days of points, day file | `Push`, `Get`, `Since` | scheduler, HTTP handlers |
| HTTP server (`server.go`) | none of its own | handlers | the network |
| nginx domains (`nginx_domains.go`) | none | `detectNginxSSLDomains` reads nginx's files and scans them for server blocks | the wiring, once |
| start and shutdown (`main.go`) | the root context | wiring, `cancel()`, final save, closing the databases, `Shutdown` with a timeout | signals |
| configuration, translations, dashboard, scripts | fixed after start | parsing, formatting | |

Interactions: the scheduler hands every bad result to the log buffer and every
cycle's three gauges to the metrics; tails and the syncer feed the same buffer;
the handlers read the scheduler, the buffer and the metrics concurrently; and
`main`, which has built them all from the configuration, ends them without
waiting for any.

What is hard, and what makes each part correct:

- *scheduler*: a cycle's reports interleave with cancellation, with the clock
  and with readers; one status per component must yield one chain of alerts,
  one timed outage, one ordered history that survives restarts, and a page that
  agrees with all three.
- *log buffer*: slice and map share entries by pointer, events come out of
  order, pruning happens at some insertions only; the queries are binary
  searches that trust the order.
- *log persistence*: several savers, snapshots, a re-scan at start that must
  neither lose nor double what was saved, midnights.
- *journal sync*: one run at a time, windows that must join, failures per chunk.
- *tail*: rotation and reopening between two polls, lines split over reads.
- *start and shutdown*: connections are made once, used by every cycle and closed
  under checks that are still running; slow alerters must hold up neither readers nor
  the end of the program.
- *nginx domains*: blocks are told by counting braces over many files.
- *metrics*: retention, sampling, a save that computes the day twice.

## Modules

| module | models | status |
|---|---|---|
| `LogEntries` | events, entries, buckets and merging in `logwatch.go`; the vocabulary of the log modules | done |
| `IncidentLog` | the promise of the buffer to its readers, as an abstract specification | done |
| `LogBuffer` | `logBuffer`, with a heap for the shared pointers | done |
| `MCLogBuffer` | its instance for TLC | done |
| `LogBuffer_proofs` | its invariants and the refinement of `IncidentLog`, proved | done |
| `Scheduler` | the check cycle, alerts, history in memory and on disk, crash and restart | done |
| `HistoryEvidence` | `Scheduler` with a record of what checks returned, to judge the history by | done |
| `LongOutages` | the same with a record of long outages | done |
| `MCScheduler`, `MCLongOutage` | their instances | done |
| `Scheduler_proofs` | the invariants of `Scheduler`, and that the history is explained by what `HistoryEvidence` records, proved | done |
| `Checks` | what every checker reports, as a function of what its probes find | done |
| `Syncer` | the journal sync: single flight, windows, chunks and their failures | done |
| `Syncer_proofs` | its safety properties, proved | done |
| `LogPersist` | savers, day files, crash, restart and re-scan of the log timeline | done |
| `LogPersist_proofs` | its safety properties, proved | done |
| `Metrics` | the buffer of readings, its day files, ranges and sampling | done |
| `Tail` | one log file under rotation, read by polling | done |
| `MCSyncer`, `MCLogPersist`, `MCMetrics`, `MCTail` | their instances | done |
| `Ranks` | lemmas about the rank of an element in an ordered finite set, by which sorted and filtered sequences are defined, and one for counting up, proved | done |
| `Metrics_proofs` | the safety properties of `Metrics`, proved | done |
| `Tail_proofs` | its safety properties, proved | done |
| `NginxDomains` | the scanner of nginx's files, and what nginx serves as its reference | done |
| `Wiring` | what `main.go` builds from a configuration: checkers and alerters; extends `NginxDomains` | done |
| `Program` | the composition: checks, their connections, collector, alerters, readers, shutdown; extends `Wiring` | done |
| `MCProgram` | its instance: configuration files, hosts, server blocks | done |
| `MCMariaDBRetry` | the same with a memory of how the first connection ended | done |
| `Program_proofs` | its safety properties, proved | done |
| `SyncedLog` | the syncer with the aggregating buffer and the savers of `LogPersist`: how counts loaded from disk grow at each start | planned |

The modules came in this order because the buffer, the scheduler's history and
the day files are what everything else reads; `Program` composes what runs at
the same time, each part reduced to what the others see of it.  Planned
besides: the machine id that falls back to another source.

## How the state corresponds to the code

### LogBuffer

`heap`, `entries` and `keyed` are the entries by address, `lb.entries` and
`lb.keyed`; `addN` is the counter of insertions.  A method holds `lb.mu` from
its first line to its last, so each is one action: `AddEvent` (whose two
branches are `Aggregate` and the insertion that ends in `Tally`, hence, every
`PruneEvery`-th time, in `Prune`), `AddAggregated` while `loadLogs` runs, then
`Loaded`.  `sort.Search` is modelled by its contract, any index at which its
test turns true, not by what it returns on a sorted slice: that the slice is
sorted is what `RangeQueriesExact` has to show, and not an assumption of it.
An address that neither the slice nor the map reaches is collected and may be
given out again.

`IncidentLog` forgets the slice, the map, the counter and both bounds.  It
keeps what the pages rely on: at most one incident per bucket and kind, events
counted in it, forgetting oldest first and only when an incident is opened.

### Scheduler

`pc` is the position of the scheduler's goroutine: `idle` in the select of
`Start`, `collecting` while it ranges over the channel, `alerting`, `saving`,
`returned`; `down` is a process that does not run.  `StartCycle` starts one
goroutine per checker (`running`), `Finish` is one of them sending its report,
`Receive` takes `s.mu` and replaces the checker's results, `Apply` handles one
result of the report under the same lock, `Collected` is the closed channel.
Then `SendAlert`, `Record` and `GetHistory`, each alone because other
goroutines and midnight may come in between, and `Save`, in which today is
computed again and the file replaced by a rename, or `SaveFails`.  `Exit` may
happen anywhere and loses memory; `Boot` is `NewScheduler` with
`HistoryStore.Load`, which deletes files outside the retention.
The clock ticks between any two steps, inside a report too: `processResult`
calls `time.Now` for each result.

Checkers are, here, the constant `Reports`: every list of results a checker may
return, and `Cancelled` for those it may return once its context is cancelled.
The theorems hold for any; the instances take theirs from `Checks`, which has
one operator per checker, from what its probes find to the results in their
order, with the thresholds and the early returns that leave components out.
`MCScheduler` evaluates all of them over small sets of findings
(`ComponentsNamedOnce`): `checkDisk` is the only one that names a component
twice.

A file that cannot be read or parsed at a start, or has another machine's id, is
passed over and stays where it is until it is replaced: `Boot` chooses the files
that are read.

`HistoryEvidence` adds three history variables: `seen`, the worst status that was
returned of a component on a day since the last outage within the threshold
ended on it; `durable`, what `seen` was of each day when its file was written;
and `since`, the start of an outage that goes on.  It takes them from the results
alone, not from what `processResult` keeps.  A crash takes back the claim of what
was never written, a start that of a file that it did not read.  `LongOutages`
adds the outages that were longer than the threshold when a check found them.

### Syncer

`pc` is the position of each caller of `Sync`, `job` its local variables
(window, start of the present chunk, counters), `done` the callers whose
context is cancelled.  `Enter` is `TryLock`, `Mark` and `Unmark` the two
critical sections that set and clear `inFlight`, `Begin` the window,
`ReadUserspace` and `ReadKernel` the two runs of journalctl of a chunk,
`NextChunk` the head of the loop, `Complete` the publication of the result,
`Leave` the deferred unlock.  `Stream` is one run of journalctl: it feeds any
part of the lines of its chunk to the buffer and fails or not, for of the ways
to read less than everything (cancellation, the timeout of 15 s, the caps on
bytes and lines) most return no error.

Every second has one journal entry, so `fed`, how often the entry of a second
was given to the buffer, and `cut`, the seconds of chunks that were not read to
their end, tell what was missed and what was read twice.  journalctl itself is
its contract: it prints the entries from `--since` to `--until`.

`SaveLogs` is whichever goroutine writes the entries of today, `Restart` the end
of the process at any point and the start of the next: `loadLogs` reads the
counts of the day files (`stored`) back into the buffer, `NewSyncer` starts from
no `lastSync`, so the whole window is read again into them.  `loaded` remembers
what was there at the start, which `CountedOnce` allows for, and `between` the
seconds that passed while a sync ran: they are after its window and before the
next one, which begins at its completion.

### LogPersist

Four goroutines touch the day files: the tail and the scheduler count their
events and save at every tenth (`ReadLine`, `RecordCheck`, then `Count` and
`Reset`, the two atomic operations on `saveN`), `Start` saves after its scan
and once more, `main` at a signal.  `Snapshot` is `saveLogs` up to the entries
of today, under `saveMu`; `WriteFile` the rename, or its failure.  `Cutoff` and
`Scan` are `scanRecent`, `OpenTail` the seek to the end of the log file.
`Exit` and `Boot` are the end of a process, at any point, and `NewLogWatcher`
with `loadLogs`.

An event is the line it came from, its time stamp and the life of the process
that saw it, so two events with one line are a line counted twice.  Times are
whole seconds; where the code adds a second to a time with a fraction, `Cutoff`
may round either way.  `Zone` is what the stamps in the log file are ahead of
UTC, as which `parseLogTimestamp` reads them, and `Yearless` says that they are
those of syslog, to which it adds the present year, whenever they were written
(`Stamp`).  `Boot` chooses the files it can read; `skipped` remembers the days of
the others until they are written again.

### Metrics

A reading is its time stamp and a number.  `Measure` is `extractMetricPoint`,
which takes the stamp before the lock; `Push` is the critical section of
`Push`, with the cut to `MaxPoints` and, at every `SaveEvery`-th reading, the
choice of today's points; `SaveToday` computes the day again and writes, or
fails to, which nobody is told.  `Boot` is `load`: the files within the
retention, the readings past the cutoff, sorted and cut.  `sort.Slice` is not
stable; readings of one second are taken in the order of the files.  `Since`,
`Shown` and `SampleIndex` are what `handleMetrics` makes of the buffer; the
index of a sampled point comes from floating-point arithmetic, which may put a
whole number just below itself, so `SampleIndex` is the set of both.

### Tail

`content` is the pieces in each file by inode, a piece being the head or the
end of a line; `path` is the inode at the log's path, `handle` the one the
service has open.  `Log`, `Rename`, `Create`, `Reopen` and `Truncate` are the
service and logrotate, in any order with the tail, whose state is `fd`,
`offset` and `partial`, as in `tailOnce`.  `Open` is the seek to the end,
`Poll` the ticker with its comparison of sizes, `Read` one block of `ReadSize`
pieces with the lines in it, `Done` and `Retry` the two ways `tailFile` opens
the file again.  `start`, `since` and `cut` remember where the file was opened
and whether it was truncated since; `reported` is what `matchLine` was given.

### NginxDomains

A line is the word it begins with, the braces it opens and closes and its
arguments, or a comment; the fields of the scanner's state are the local
variables of `parseNginxDomains`.  `ServerLines` and `Written` are how two
server blocks are written, in one file or two, alone or in an `http` block, with
a `location` before or after their directives and a commented-out listen, and
every directive and closing brace on a line of its own.  A server has `domains`
and `others`, names of which there is no certificate to check; `Served` is the
domains of the servers with TLS.  That an upstream's lines begin with
`server` too is why the scanner wants a brace.

### Wiring

`LoadConfig` fills what a file leaves out from `Defaults`; `Checkers`,
`SSLDomains` and `Alerters` are `buildCheckers`, `sslDomains` and `buildAlerter`.
Endpoints of one configuration have different names (`OneOfAName`): of two
with one name the program would keep one result.  The host is the HTTP
servers installed on it and the lines of nginx's files.  `Servers`, of
`Program`, is the server blocks that such files may be made of.

### Program

`main` is where the main goroutine is (serving, and then the steps of the
shutdown in their order), `sched` where the scheduler's is, `at` where the
goroutine of each check is.  A check of a database is `Open` (`initDB` under its
`sync.Once`, whose pool or error `pool` keeps for good), `Ping` and `Query`, and
between any two of them the service may go or come (`Flip`), the context be
cancelled or the pool closed; another check is one `Probe`.  `report` is what it
has so far and `saw` a history variable: whether its service has been up and has
been down since it began.  `Lock` and `Apply` are the critical section of the
collector for one report; `reader` is a page or load balancer that needs the
same lock.  `Announce`, `Call` and `Announced` are `MultiAlerter.Alert` for one
change, alerter after alerter (`turn`), and `told` is what each was last called
with.  `Call` waits for `Returns`: the mail alerter's call ends when the mail
server answers, the webhook's within its timeout.

`Signal` cancels and `Flush`, `Close` and `Exit` follow without waiting for the
scheduler.  `Close` reads the field `db` without the `Once` that guards its
making, a data race if a first check is under way: it may see the pool or not,
and so leaves it open or closes it.

Abstracted: the number of threads or connections, asked for last and never
critical; own names for Redis and PostgreSQL; the order in which the alerts of
one cycle are sent, which is any; and what a cycle records (`Scheduler`,
`Metrics`, `LogPersist`).

## The runs

| run | asks | bounds |
|---|---|---|
| `log_buffer` | do slice and map agree, are queries exact, does an entry stay inside its bucket, is the buffer bounded, does it implement `IncidentLog` | 2 kinds, 2 severities, time 1..4 in buckets of 2, 5 insertions, `MaxAge` = `MaxSize` = `PruneEvery` = 2: each bucket is filled twice, the age and the size bound both bite, pruning happens twice, an old-format file entry and two files of one key are loaded |
| `scheduler` | are outages timed, do alerts chain, does the page agree with them, are days ordered, on disk between cycles, and the worst of what was returned | a Redis that is up, loading or down, beside a machine that does not tell its memory: every status there is, reports in either order; three days of one time unit with a retention of two, a threshold of one, one restart: cancellation in the middle of a cycle, an outage on each side of the threshold, midnight between any two steps, days that fall out of memory and off the disk, saves that fail, files that are not read |
| `syncer` | is the journal read by one caller at a time, no second twice, the week covered after every sync also after a restart, and does every sync end | two callers, windows of 2 seconds in chunks of one, three instants: the first window, one that may join it, and one after a gap longer than a window; days of 3 seconds, so a midnight between two of them; saves at any moment and one restart; each chunk fails, is cut or cancelled |
| `log_persist` | does the counter lose events, does a save undo another, is a line counted twice | a save at every second event, three days of a second each with a retention of one and entries forgotten after one, years of two seconds and stamps without them, one line, any number of checks, two crashes and starts: files are deleted or not read, memory is pruned, a start in the new year scans a line of the last, two counters, the start and the shutdown race for the lock |
| `metrics` | does a range show its readings, are graphs in order, the newest readings kept, files left whole | six readings in a buffer of 5, a save at every second one, days of 2 seconds over 6 seconds, a retention of one day, ranges of 1 and 3 seconds, graphs of 2 and 3 points, two restarts: the buffer overflows, files hold readings of the day before |
| `tail` | are lines reported whole, once and in order, is a shrunken file noticed | four lines, reads of three pieces, two rotations of either kind at any moment: lines are split over reads, files are truncated in the middle of a line |
| `program` | do reports tell the truth, is every alerter told, are the domains of nginx those it serves, are readers answered, does a signal end the program, does `/healthz` follow the services, does cycle follow cycle if mail is answered | five configuration files of at most two checkers, covering both databases with a good, a bad and no DSN, every set of alerters and a critical check that nothing builds; two hosts; every service and the mail server flip at any moment.  `DomainsFound` evaluates 2916 pairs of server blocks in four layouts, once: it depends on the constants only |
| `silent_mail` | do checks go on | violated, see below |
| `disk_mounts` | are steady statuses quiet | violated |
| `long_outage` | does a long outage stay on record | violated |
| `tail_rotation` | is a rotation noticed | violated |
| `mariadb_retry` | is a first connection that failed final | violated |

More checkers add no behaviour: components are independent except for the order
of reports, which two show, and for sharing a component, which `disk_mounts`
shows with one; the theorems of `Program` hold for any number.  A second restart
of the scheduler or the syncer starts from the same
states as the first; where files hold more after two (`log_persist`, `metrics`), two
are made.
Deadlock is not checked because every instance stops at its bounds (`MaxTime`,
`MaxRestarts`, `MaxFed`, the last instant of `Clock`, `MaxLines`,
`MaxRotations`, `MaxPushes`), and a scheduler that has returned does nothing
more.  `Program` stops when it has ended, as it should.

### Fairness

`Scheduler` states no liveness: that cycles end depends on the alerters, which
`Program` has step by step.

`FairSpec` of `Syncer` is weakly fair to the steps of the caller that has the
lock: journalctl is killed after 15 seconds, and the other locks are held for a
few assignments.  `FairSpec` of `Tail` is weakly fair to `Open`, `Poll`, `Read`
and `Retry`: the ticker ticks and a read of a file ends.  It is not fair to the
service or to logrotate, which may stop at any point.  `LogPersist` and
`Metrics` state no liveness: nothing obliges a tenth event to come.

`FairSpec` of `Program` is weakly fair to `StartCycle`, to the collector, to
each check (its calls have timeouts, and its context one of 15 seconds,
`scheduler.go` 193-215), to the steps of alerting and to those of
the shutdown; a mail that waits for a silent server is not enabled, so fairness
to alerting promises nothing then.  It is strongly fair to `Reply`, the reader's
turn: the collector locks and unlocks `s.mu` at each report, and a
`sync.RWMutex` lets the readers that wait in when a writer leaves.  It is not
fair to services, which may flip for ever, nor to `Signal` or `Return`.
`HealthzFollows` supposes that from some point on the mail server answers and
the services stay as they are, `ChecksGoOnWithMail` that it answers; neither that
they always did.  Both have the mail server in the formula and not in the
fairness, because `smtp.SendMail` has no timeout: without it they are false, as
`silent_mail` shows.

### What the violated runs show

- `silent_mail`: `smtp.SendMail` is called by the goroutine that starts the
  cycles, without a timeout or context.  One mail server that accepts a
  connection and says nothing ends all checks, although pages and `/healthz` are
  answered, from results that no longer change, and a signal still ends the
  program (`ReadsAnswered` and `ShutdownEnds` pass).
- `disk_mounts`: `processResult` keeps one previous status per component, and
  every mount reports as `linux-disk`; two mounts of different status are two
  transitions, and two alerts, at every cycle.
- `long_outage`: the migration reset sets the whole day to ok, whatever made
  it critical: a longer outage earlier that day, or the same outage before a
  restart that lost its start.
- `mariadb_retry`: `README.md` 180 says that MariaDB is not tried again once the
  first connection has failed.  The code tries at every cycle (`check_mariadb.go`
  66-70); only a DSN that cannot be parsed is final.  Under the documented
  behaviour, which is the mutant of `HealthzFollows`, a MariaDB that was down at
  the start would keep `/healthz` from ever recovering.
- `tail_rotation`: a poll compares the size of the file at the path with the
  offset in the file it has open (`logwatch.go` 631), and no inode.  When the
  successor of a renamed file has that many bytes by the next poll, the tail
  reads the old file for ever.

Seen in the code on the way, and left without a run of their own:

- `OverallStatus` "returns the worst status" (`scheduler.go` 388) by
  declaration order, so one unreadable gauge, unknown, hides a critical check.
- A journalctl that is killed by its timeout ends the context that its error is
  tested against (`sync.go` 364): the chunk counts as read.  `lastSync` moves
  forward even when every chunk failed (254).
- What is logged while a sync runs is in no window (254): the next one begins
  at the completion.  `WeekIsCovered` excepts it with `between`.
- `scanRecent` says that its cutoff "prevents double-counting events that were
  already persisted" (`logwatch.go` 405-407).  It does not where the stamps are
  ahead of what counted the line before: log stamps are in local time and parsed
  as UTC (486), so east of Greenwich a restart counts the last hours again; and
  those of syslog get the present year (503), so that a start in January takes
  last December's lines for ones of the coming December and counts them again,
  in any zone.  `LinesCountedOnce` excepts just that (`DatedAhead`).
- A day file that cannot be read at a start is passed over (`logwatch.go` 768,
  `history.go` 109), and today's is replaced by the first save without what was
  in it.  `DayFilesGrow` and `HistoryExplained` except it.
- A tail whose context is cancelled while it waits opens its file again, and
  again (`logwatch.go` 589).
- `handleMetrics` "filters to the last N seconds" (`server.go` 241), but a range
  without readings shows the whole buffer (248).  `RangeExact` says both.
- Points saved under the next day are loaded from two files, so one reading may
  be twice in the buffer, and in a graph: `GraphInOrder` compares places and times.
- `config.yaml` 56 lists both nginx and Apache as critical, the defaults of
  `config.go` 206 MariaDB, which is built only with a DSN; `/healthz` waits for
  a result of every name, so with a name that nothing builds it never answers
  200.  `scripts/install.sh` 154 lists MariaDB whenever it is installed.
- `filterFirewallPorts` leaves a port out whenever its checker is built, also if
  the DSN names another host or port (`main.go` 306).  It is not modelled: what it
  should ask of the host and port is not said anywhere.
- "www." is stripped from the WordPress URL only (`main.go` 164), so one site may
  be checked under two names.
- `Close` of both database checkers reads `c.db` in a data race with `initDB`.
- Checks that are cancelled by a shutdown report critical, and the scheduler may
  still alert: the mail alerter does not look at the context.
- The scanner of nginx's files wants directives on lines of their own: it
  misreads a server block on one line, a `server` whose brace is on the next, and
  braces in a comment at the end of a line; and it takes any listen directive in
  which "443" occurs, as in 8443, for TLS.

## What is proved

All theorems are `Spec => []...` (or a refinement) for every value of the
constants that satisfies the modules' named assumptions.

*LogBuffer* (`LogBuffer_proofs`).  Assumed: buckets, bounds and the pruning
period are positive, and saved entries are what `saveLogs` wrote
(`SavedAssumption`).  The inductive invariant joins the types, the agreement
of slice and map, and two facts the code never states: the slice is sorted by
opening time, because aggregation never changes it, and every entry's span lies
in its bucket.  Sortedness is preserved by insertion at any point the search
may return, and by cutting a prefix.  From it follow `TypeCorrect`,
`IndexStaysInSync`, `QueriesExact` (a search that meets its contract on a
sorted slice returns exactly the window), `SpansStayInBucket`,
`SizeStaysBounded` and `Implements`: each insertion maps to `Open` or `Count`,
a load to `Restore`, the clock to a stutter.

*Scheduler* (`Scheduler_proofs`).  Assumed: what `Reports` may contain, and
positive day length and retention.  The inductive invariant joins the types (`Control`,
`Alerting`), that outages are timed (`Timed`), that days in memory are in order
and inside the retention (`Recorded`), that files hold statuses of days not
ahead of the clock (`FilesTyped`), that the window `GetHistory` padded covers
every recorded day until the save (`Padded`), and what `SavedBetweenCycles` says
of the files; these need each other, because a restart loads what was saved.
From it follow `TypeCorrect`, `OutagesAreTimed`, `HistoryStaysInOrder` and
`TodayIsOnDisk`.  `AlertsTell` has an invariant of its own (`Linked`): the alerts
about a component are a chain from what was told of it to its status.

`AgreeingIsQuiet` bounds what the run `disk_mounts` shows.  `SteadyIsQuiet` is
false where two mounts disagree; it is true, for any checkers, restarts and
interleavings, where all results that can be returned about a component have one
status (`Agreeing`).  The invariant (`Quiet`): whatever has a status has the one
it is always reported with, and what was told has a status, so that a result is
news only of a component never told of.

*HistoryEvidence* (also in `Scheduler_proofs`; the assumptions are the same).
`HistoryExplained` speaks of memory while the process runs, and is not
inductive: after a crash memory is what the files say, and what a reset does
depends on how the outage was timed.  `EInv` has, besides the types
(`RecordTyped`), that the record times outages as `criticalSince` does
(`SinceAgrees`), that what is critical now is critical in today's record
(`CriticalToday`), that memory is explained by `seen` (`MemoryExplained`) and the
files by `durable` (`FilesExplained`).  Three facts carry it over a cycle: a
further result changes a day's status just when it is worse than what the day
had; the migration reset happens just when the record forgets, on a day that is
critical then; and `Save` writes today's file from memory just when it makes
today's results durable.  `EvidenceRefines` (every behaviour with the record is
one of `Scheduler`) lends it the invariant above, for the order of the days and
the window of the retention (`Recorded`).  From it follows `HistoryIsExplained`.

*Syncer* (`Syncer_proofs`).  Assumed: a positive window and chunk, and a clock
that stands inside the bounds.  The invariant: the lock is held by exactly the
caller that is not idle (`LockHeld`), the flag is up in the part of its way
that `Flagged` says, its window and `lastSync` are in the past (`Windows`),
nothing past the frontier of the present chunk has been fed (`NothingPast`,
`FirstRun`), and everything of the window before it has been, unless a chunk
was cut (`AllBefore`).  Everything is counted from what the process loaded at
its start (`loaded`), and a window either joins the last one or is as long as
windows get, so a sync that completes hands on what it and those before it have
read.  From it follow `CountsOnce`, `WeekCovered`, `InFlightTrue` and
`TypeCorrect`.

*LogPersist* (`LogPersist_proofs`).  Assumed: what the module says of its
constants; a zone may be on either side of UTC, and stamps have years or not.
The invariant: what is in a file is in memory unless it is too old or the file was
not read (`InMemory`), so a snapshot has all that it will replace
(`Replaces`), which gives `FilesGrow`; the counters bound what is unsaved
(`Counters`), which gives `UnsavedStaysBounded`.  For `LinesCountOnce` two more
say that days are written in their order (`Dated`); that no kept event is of a
line still to be read by the tail; that what the tail counts is no older than its
line, and what a scan counts no older than the line's stamp; that while a start
scans its cutoff is past all lines counted before, except in files that it did
not read (`Past`); and that of two events of one line in memory or in files one is
dated ahead, or a file that was not read will be replaced first (`Lines`).

*Metrics* (`Metrics_proofs`).  Assumed: a positive limit, save period, day and
retention, and the ranges and limits are numbers.  The invariant (`KeepInv`):
the buffer is in the order of time and in the past, what waits for the lock is
as young as all of it, what waits to be written begins no later than today, and
every reading in a day file is in the buffer, or past the retention, or older
than a buffer that is full.  With the last (`FilesKept`), a file that is
replaced loses nothing that a page could still show: `DayFilesKept`.  From it
follow `TypeCorrect`, `KeepsNewest`, `RangesExact` and, by arithmetic about
floors of multiples, `GraphsInOrder`.  What a load sorts it sorts by rank;
`Ranks` has the lemmas.

*Tail* (`Tail_proofs`).  Assumed: reads return something and rotations are of
the two kinds.  The invariant (`LineInv`): the ends of lines in every file, and
those reported, are in the order of the lines and of lines begun, and what the
tail has yet to read of its file ends only later ones; a block that is read is
cut at its ends, and its remainder has none.  From it follow `TypeCorrect` and
`ReportedOnce`.  For `ReadsWhole`, which says that the lines reported since the
file was opened and the rest, put together, are what was read of it, a second
invariant (`WholeInv`) is about places instead of concatenations: there are
places in the file, from that at which it was opened to the offset, between
which lie the lines, and after the last of them the rest.  A read adds the
places at which its block has ends.  That pieces between such places make up the whole
is an induction over their number, done with `CountingUp` of `Ranks`: a set of
numbers that has 0 and with each number the next has them all.  `LinesWhole` is
the theorem.

*Program* (`Program_proofs`).  Assumed: `NamesAssumption` and
`FilesAssumption`, that the names are strings and those of all checkers that the
configuration files and hosts give; for any number of either.  `HonestInv` says
that a check that runs has seen its service as it is now (`Watched`), that a
pool is closed only after the checks were cancelled (`Connected`, `Cancelling`)
and that reports are made of calls that were answered so; it gives
`ReportsTrue`.  `ToldInv` says that whatever has no news was announced as it is
(`AllSettled`), and the alerters before the one whose turn it is know the
present item (`ItemTold`), which the lock-free alerting keeps because nothing is
applied meanwhile; it gives `AllAreTold`.

`DomainsAreFound` is about the scanner of nginx's files, for any server blocks
with any names (`ServersAssumption` says that they have TLS or not, and which of
their names have a certificate) in the four layouts.  `Leads` says that lines take the scanner from one state to
another, through states that it names; it holds of lines put together if it
holds of the parts (`LeadsOn`), and the function that `ParseNginxDomains` is
made of is the only one that goes through such states (`ParsedAtTheEnd`, by
counting up).  What is left is one lemma per kind of line and of fragment: a
server's lines, at any depth, add one block with its names and its TLS and
leave the scanner at that depth (`ServerPiece`), an upstream adds nothing
(`UpstreamPiece`), an `http` block adds what is in it (`InHTTPPiece`).

Every invariant and every action property of a passing run is proved, but
`PageAgrees`.  Model-checked only: `PageAgrees`, and all liveness (`SyncEnds`,
`ShrinkNoticed`, `ReadsAnswered`, `ShutdownEnds`, `HealthzFollows`,
`ChecksGoOnWithMail`), which is out of the prover's reach.
No module has a `RECURSIVE` operator.

## What is not modelled

- Formats, messages, HTML, HTTP parsing: no property is about them.
- The probes inside checkers and the alerters' transport are I/O: `Checks` is
  a function of what a probe finds, `Program` knows whether a call is answered.
- The cap of the buffer at its maximal size is in `LogBuffer`, not in
  `LogPersist`, where entries are forgotten by age only.
- `Tail` has no reads or seeks that fail, `Metrics` no unreadable files.
- `filterFirewallPorts`, with the ports of the firewall checker (see above).
- The machine id is the same at every start; with a slow metadata server
  `readMachineID` falls back to another id and the day files are not found.
- The levels of journal entries: `parseJournalLine` drops those below warning,
  of the kernel too, so a second either has an entry that counts or has none.
- In `Program`: the exit of the process when it cannot listen at its address
  (`main.go` 103-108), the memory limit, the log watcher and the hourly sync,
  which have modules of their own.  The restart of the program is in
  `Scheduler`, `Syncer`, `LogPersist` and `Metrics`.
- In `Wiring`: YAML and the environment, numeric thresholds, the paths that
  `detect.go` tries, the names of log sources (`guessLogSource`) and the address
  served at (`isLoopbackBind`).
- In `NginxDomains`: which files are read, and the substrings by which a line is
  told.
- Translations, the dashboard and the scripts, which keep no state.
- What is listed as planned above.
