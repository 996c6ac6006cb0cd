-------------------------------- MODULE Wiring ------------------------------
(***************************************************************************)
(* What main.go builds from the configuration before anything runs: the    *)
(* checkers and the alerters.                                              *)
(* A configuration file sets some of the fields of config.go, written here *)
(* without their nesting; LoadConfig fills in the others.  A DSN, URL or   *)
(* name is "" if it is not set, as a ${VARIABLE} without a value is.       *)
(***************************************************************************)
EXTENDS NginxDomains

Defaults ==
  [loadbalancer |-> TRUE, lbIP |-> "", linux |-> TRUE,
   firewall |-> TRUE, httpServer |-> TRUE, httpType |-> "auto", phpfpm |-> TRUE,
   mariadb |-> TRUE, mariadbDSN |-> "", wordpress |-> TRUE, wordpressHTTPS |-> "",
   redis |-> FALSE, postgresql |-> FALSE, postgresqlDSN |-> "",
   endpoints |-> {}, ssl |-> FALSE, domains |-> {},
   log |-> TRUE, webhook |-> FALSE, webhookURL |-> "", email |-> FALSE,
   criticalChecks |-> {"nginx", "phpfpm", "mariadb"}]

\* An address of the load balancer that is a URL makes the program exit at once.
Acceptable(file) == "lbIP" \in DOMAIN file => file.lbIP # "URL"

LoadConfig(file) ==
  [f \in DOMAIN Defaults |-> IF f \in DOMAIN file THEN file[f] ELSE Defaults[f]]

If(condition, name) == IF condition THEN {name} ELSE {}

OneOfAName(endpoints) == \A e1, e2 \in endpoints : e1.name = e2.name => e1 = e2

\* nginx is preferred to Apache.
DetectHTTPServer(installed) ==
  IF "nginx" \in installed THEN "nginx" ELSE IF "apache" \in installed THEN "apache" ELSE ""

HTTPServer(cfg, installed) ==
  IF cfg.httpType \in {"", "auto"} THEN DetectHTTPServer(installed) ELSE cfg.httpType

\* The endpoints that are checked, each known by its name.
Endpoints(cfg) == {e \in cfg.endpoints : e.enabled /\ e.url # "" /\ e.name # ""}

\* sslDomains, without what nginx is configured to serve: that is in found.  The
\* host of an endpoint or site is "" unless its URL begins with https://.
SSLDomains(cfg, found) ==
  (cfg.domains \cup If(cfg.wordpress, cfg.wordpressHTTPS)
     \cup {e.https : e \in {x \in cfg.endpoints : x.enabled}} \cup found) \ {""}

\* buildCheckers: the names under which the checkers report.  (The two databases
\* that may have a name of their own, Redis and PostgreSQL, have the default one.)
\* MariaDB and PostgreSQL are checked only if they have a DSN.
Checkers(cfg, installed, found) ==
  If(cfg.loadbalancer, "loadbalancer")
  \cup If(cfg.linux, "linux")
  \cup If(cfg.firewall, "firewall")
  \cup If(cfg.httpServer /\ HTTPServer(cfg, installed) \in {"nginx", "apache"},
          HTTPServer(cfg, installed))
  \cup If(cfg.phpfpm, "phpfpm")
  \cup If(cfg.mariadb /\ cfg.mariadbDSN # "", "mariadb")
  \cup If(cfg.wordpress, "wordpress")
  \cup If(cfg.redis, "redis")
  \cup If(cfg.postgresql /\ cfg.postgresqlDSN # "", "postgresql")
  \cup {"http-" \o e.name : e \in Endpoints(cfg)}
  \cup If(cfg.ssl /\ SSLDomains(cfg, found) # {}, "ssl")

\* buildAlerter: in the order in which MultiAlerter calls them.
Alerters(cfg) ==
  (IF cfg.log THEN <<"log">> ELSE << >>)
  \o (IF cfg.webhook /\ cfg.webhookURL # "" THEN <<"webhook">> ELSE << >>)
  \o (IF cfg.email THEN <<"email">> ELSE << >>)
=============================================================================
