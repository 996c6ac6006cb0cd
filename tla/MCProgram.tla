------------------------------ MODULE MCProgram -----------------------------
(***************************************************************************)
(* Small instances of Program for TLC: configuration files that leave two  *)
(* checkers at most.                                                       *)
(***************************************************************************)
EXTENDS Program, TLC

\* Everything that is on by default, switched off.
Bare == [loadbalancer |-> FALSE, linux |-> FALSE, firewall |-> FALSE, httpServer |-> FALSE,
         phpfpm |-> FALSE, wordpress |-> FALSE, mariadb |-> FALSE]

\* Two checkers that report side by side.
Proxy == [httpServer |-> TRUE, redis |-> TRUE, webhook |-> TRUE, webhookURL |-> "set",
          criticalChecks |-> {"nginx", "redis"}] @@ Bare

Site == [mariadb |-> TRUE, mariadbDSN |-> "good", email |-> TRUE,
         criticalChecks |-> {"mariadb"}] @@ Bare

\* MARIADB_DSN is not set.
NoDSN == [mariadb |-> TRUE, postgresql |-> TRUE, postgresqlDSN |-> "good", webhook |-> TRUE,
          webhookURL |-> "set", email |-> TRUE, criticalChecks |-> {"postgresql"}] @@ Bare

\* An endpoint, and one without a URL.
Gateway == [endpoints |-> {[enabled |-> TRUE, name |-> "api", url |-> "set", https |-> ""],
                           [enabled |-> TRUE, name |-> "app", url |-> "", https |-> ""]},
            criticalChecks |-> {"http-api"}] @@ Bare

\* The domains whose certificates to check are those nginx serves, if any.
Unparsable == [ssl |-> TRUE, endpoints |-> {[enabled |-> FALSE, name |-> "api", url |-> "set",
                                             https |-> "api.example.com"]},
               postgresql |-> TRUE, postgresqlDSN |-> "bad", log |-> FALSE, webhook |-> TRUE,
               webhookURL |-> "set",
               criticalChecks |-> {"postgresql", "apache"}] @@ Bare

AllFiles == {Proxy, Site, NoDSN, Gateway, Unparsable}
MailFiles == {Site}

\* Server blocks of nginx, and a host that serves one of them.
AllServers == [tls : BOOLEAN, location : {"none", "before", "after"},
               domains : {{}, {"example.com"}, {"www.example.com", "example.com"}},
               others : {{}, {"_"}, {"localhost", "192.0.2.1", "*.example.org", "intranet"}}]

Host(server) == [installed |-> {"nginx", "apache"}, nginx |-> InHTTP(ServerLines(server))]

FewHosts == {Host([tls |-> tls, location |-> "none", domains |-> {"example.com"}, others |-> {}])
               : tls \in BOOLEAN}
=============================================================================
