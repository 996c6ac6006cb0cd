-------------------------------- MODULE Checks ------------------------------
(***************************************************************************)
(* What the checkers report (check_*.go), as a function of what their      *)
(* probes find: the rules that turn answers, gauges and failures into one  *)
(* status per component, and the places where a Check returns early and    *)
(* leaves components out.  A check whose context is done sees its network  *)
(* calls fail.  The names of components are those of the code.             *)
(***************************************************************************)
EXTENDS Integers, Sequences

Says(component, status) == [component |-> component, status |-> status]
OkIf(condition) == IF condition THEN "ok" ELSE "critical"

\* Of an optional component there may be no result at all.
Optional(condition, result) == IF condition THEN <<result>> ELSE << >>

\* A gauge against the two thresholds that are configured for it.
Level(x, warn, critical) ==
  IF x >= critical THEN "critical" ELSE IF x >= warn THEN "warn" ELSE "ok"

NoAnswer == -1
-----------------------------------------------------------------------------
(* Databases: how far the check came before a call failed.                 *)

\* MariaDB: an unusable DSN or a failed ping ends the check; after a query
\* that fails the threads are counted all the same.
MariaDB(opens, pings, queries, counts) ==
  IF opens /\ pings
  THEN <<Says("mariadb-connection", "ok"), Says("mariadb-query", OkIf(queries))>>
       \o Optional(counts, Says("mariadb-threads", "ok"))
  ELSE <<Says("mariadb-connection", "critical")>>

\* PostgreSQL: a query that fails ends the check too.
PostgreSQL(opens, pings, queries, counts) ==
  IF opens /\ pings
  THEN <<Says("postgresql-connection", "ok"), Says("postgresql-query", OkIf(queries))>>
       \o Optional(queries /\ counts, Says("postgresql-connections", "ok"))
  ELSE <<Says("postgresql-connection", "critical")>>

\* readRedisInfo: the fields it finds, none unless the whole answer arrives.
RedisInfo(info) ==
  Optional("used_memory_human" \in info, Says("redis-memory", "ok"))
  \o Optional("connected_clients" \in info, Says("redis-clients", "ok"))

\* Redis: the answer to PING is a failure, +PONG or something else.
Redis(dials, authenticates, pong, info) ==
  IF ~ dials \/ ~ authenticates \/ pong = "none"
  THEN <<Says("redis-connection", "critical")>>
  ELSE IF pong # "+PONG"
  THEN <<Says("redis-connection", "warn")>>
  ELSE <<Says("redis-connection", "ok")>> \o RedisInfo(info)
-----------------------------------------------------------------------------
(* Gauges of the machine.                                                  *)

\* The percentage of a file system that users cannot use any more.
DiskUsage(mount) ==
  LET used == mount.blocks - mount.bfree
      usable == used + mount.bavail
  IN  IF usable > 0 THEN (used * 100) \div usable ELSE 0

\* One result per mount, all of the same component.  The mounts are those of a
\* disk, once each; one that has no blocks or gives no answer is passed over.
Disk(readable, mounts, warn, critical) ==
  LET sized == SelectSeq(mounts, LAMBDA m : m.answers /\ m.blocks # 0)
  IN  IF ~ readable
      THEN <<Says("linux-disk", "critical")>>
      ELSE IF sized = << >>
      THEN <<Says("linux-disk", "ok")>>
      ELSE [i \in DOMAIN sized |-> Says("linux-disk", Level(DiskUsage(sized[i]), warn, critical))]

\* More may be available than there is, for a moment.
MemoryUsage(total, available) ==
  ((total - (IF available > total THEN total ELSE available)) * 100) \div total

Memory(readable, total, available, warn, critical) ==
  Says("linux-memory",
       IF ~ readable THEN "critical"
       ELSE IF total = 0 THEN "unknown"
       ELSE Level(MemoryUsage(total, available), warn, critical))

\* The load of the last minute, against the number of processors.
Load(readable, parses, load1, cpus) ==
  Says("linux-load",
       IF ~ readable THEN "critical"
       ELSE IF ~ parses THEN "unknown"
       ELSE IF load1 > 2 * cpus THEN "critical"
       ELSE IF load1 > cpus THEN "warn" ELSE "ok")
-----------------------------------------------------------------------------
(* Web servers and what they serve.  An answer is a status code.           *)

\* checkHTTP of nginx and Apache.
Answer(code) ==
  IF code = NoAnswer THEN "critical" ELSE Level(code, 400, 500)

\* nginx -t may fail with a valid configuration, for a file it cannot open.
NginxConfig(test) ==
  OkIf(test.passes \/ (test.syntaxOK /\ test.fsError))

Nginx(process, test, code) ==
  <<Says("nginx-process", OkIf(process)), Says("nginx-config", NginxConfig(test)),
    Says("nginx-http-80", Answer(code))>>

Apache(process, passes, code) ==
  <<Says("apache-process", OkIf(process)), Says("apache-config", OkIf(passes)),
    Says("apache-http-80", Answer(code))>>

\* Neither looks at the context.
PHPFPM(process, listens) ==
  <<Says("phpfpm-process", OkIf(process)), Says("phpfpm-socket", OkIf(listens))>>

Firewall(ports, open) ==
  [i \in DOMAIN ports |-> Says(ports[i], OkIf(ports[i] \in open))]

\* Whether the body has what it is expected to have is asked last.
Site(code, body) ==
  Says("wordpress-site", IF Answer(code) = "ok" /\ ~ body THEN "warn" ELSE Answer(code))

\* wp-cron.php and the REST API may be blocked: no answer is only a warning.
Backstage(component, code) ==
  Says(component, IF code = NoAnswer THEN "warn" ELSE OkIf(code < 500))

\* A URL no request can be made of is critical for all three.
WordPress(usable, site, body, cron, api) ==
  IF usable
  THEN <<Site(site, body), Backstage("wordpress-cron", cron), Backstage("wordpress-api", api)>>
  ELSE <<Says("wordpress-site", "critical"), Says("wordpress-cron", "critical"),
         Says("wordpress-api", "critical")>>

\* The metadata server answers on Google's machines only; the path is checked
\* where an address is configured.
LoadBalancer(metadata, configured, code) ==
  <<Says("lb-gcp-metadata", IF metadata THEN "ok" ELSE "warn")>>
  \o Optional(configured, Says("lb-path", OkIf(code # NoAnswer /\ code < 500)))

\* An endpoint says which codes it may return; [200] unless configured.
Endpoint(name, usable, code, expected, body) ==
  <<Says(name, IF ~ usable \/ code = NoAnswer THEN "critical"
               ELSE IF code \notin expected
               THEN IF code \in 400 .. 499 THEN "warn" ELSE "critical"
               ELSE IF body THEN "ok" ELSE "warn")>>

\* int() cuts towards zero: on its last day a certificate has no day left.
DaysLeft(hours) == IF hours < 0 THEN -((-hours) \div 24) ELSE hours \div 24

Certificate(handshake, hours, warnDays, criticalDays) ==
  IF ~ handshake \/ DaysLeft(hours) <= 0 \/ DaysLeft(hours) <= criticalDays
  THEN "critical"
  ELSE IF DaysLeft(hours) <= warnDays THEN "warn" ELSE "ok"

SSL(domains, handshake, hours, warnDays, criticalDays) ==
  [i \in DOMAIN domains |->
     Says(domains[i], Certificate(handshake[domains[i]], hours[domains[i]], warnDays, criticalDays))]
=============================================================================
