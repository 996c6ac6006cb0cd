----------------------------- MODULE MCScheduler ----------------------------
(***************************************************************************)
(* Small instances of Scheduler and HistoryEvidence for TLC, with the      *)
(* reports of Checks.                                                      *)
(***************************************************************************)
EXTENDS HistoryEvidence, Checks

\* A Redis that is up, loading its data or down, beside a machine that does not say
\* how much memory it has: every status there is.
RedisAndMemory == {"redis", "linux"}
TheirComponents == {"redis-connection", "linux-memory"}
Ping(answer) == Redis(TRUE, TRUE, answer, {})
TheirReports ==
  [k \in RedisAndMemory |->
     IF k = "redis"
     THEN {Ping(answer) : answer \in {"+PONG", "-LOADING", "none"}}
     ELSE {<<Memory(TRUE, 0, 0, 80, 90)>>}]
\* A check that is cancelled cannot dial; the memory is read in any case.
TheirCancelled ==
  [k \in RedisAndMemory |-> IF k = "redis" THEN {Redis(FALSE, TRUE, "none", {})} ELSE {}]

\* checkDisk returns one result per mount, all about the component linux-disk:
\* a full disk beside one that is not, at every cycle.
Linux == {"linux"}
LinuxDisk == {"linux-disk"}
Mount(blocks, free) == [answers |-> TRUE, blocks |-> blocks, bfree |-> free, bavail |-> free]
TwoMounts == [k \in Linux |-> {Disk(TRUE, <<Mount(10, 0), Mount(10, 8)>>, 80, 90)}]
NoneCancelled == [k \in Linux |-> {}]

\* What the other checkers may report.  checkDisk is the only one that names a
\* component twice: where no disk is checked, one status of a component never
\* stands for two things.
Codes == {NoAnswer, 200, 301, 399, 400, 404, 499, 500, 503}
Tests == [passes : BOOLEAN, syntaxOK : BOOLEAN, fsError : BOOLEAN]
Ports == <<"firewall-port-80", "firewall-port-443">>
Domains == <<"ssl-a", "ssl-b">>
DomainNames == {"ssl-a", "ssl-b"}

OfDatabases ==
  UNION {{MariaDB(o, p, q, c), PostgreSQL(o, p, q, c)} : o, p, q, c \in BOOLEAN}
  \cup {Redis(d, a, pong, info) : d, a \in BOOLEAN, pong \in {"none", "+PONG", "-LOADING"},
                                  info \in SUBSET {"used_memory_human", "connected_clients"}}

OfServers ==
  {Nginx(p, t, c) : p \in BOOLEAN, t \in Tests, c \in Codes}
  \cup {Apache(p, t, c) : p, t \in BOOLEAN, c \in Codes}
  \cup {PHPFPM(p, l) : p, l \in BOOLEAN}
  \cup {Firewall(Ports, open) : open \in SUBSET {"firewall-port-80", "firewall-port-443"}}
  \cup {LoadBalancer(m, b, c) : m, b \in BOOLEAN, c \in Codes}

OfSites ==
  {WordPress(u, s, b, c, a) : u, b \in BOOLEAN, s, c, a \in Codes}
  \cup {Endpoint("http-shop", u, c, e, b) : u, b \in BOOLEAN, c \in Codes, e \in {{200}, {200, 301}}}
  \cup {SSL(Domains, h, [d \in DomainNames |-> hours], 30, 7) :
          h \in [DomainNames -> BOOLEAN], hours \in {-25, -1, 0, 23, 24, 191, 192, 743, 744}}

OfGauges ==
  {<<Memory(r, total, available, 80, 90), Load(r, p, load, 2)>> :
     r, p \in BOOLEAN, total \in {0, 10}, available \in 0 .. 11, load \in 0 .. 5}

ASSUME ComponentsNamedOnce ==
  \A report \in OfDatabases \cup OfServers \cup OfSites \cup OfGauges :
    \A i, j \in DOMAIN report :
      /\ report[i].status \in Status
      /\ report[i].component = report[j].component => i = j
=============================================================================
