---------------------------- MODULE MCMariaDBRetry ---------------------------
(***************************************************************************)
(* Program with a memory of how the first connection to MariaDB ended.     *)
(***************************************************************************)
EXTENDS MCProgram

VARIABLE tried    \* history: the result of the first connection, or None

TInit == Init /\ tried = None

TNext ==
  /\ Next
  /\ tried' = IF tried = None THEN report'["mariadb"].connection ELSE tried

TSpec == TInit /\ [][TNext]_<<vars, tried>>

\* README.md:180, "MariaDB monitoring setup": "If `MARIADB_DSN` is not set (or the first
\* connection fails), ASMT shows "not configured" on the dashboard and stops checking.  It
\* will not retry until you restart the service."  So after a first connection that failed
\* no page shows that MariaDB is connected.
NotRetried == tried = "critical" => results["mariadb"].connection # "ok"
=============================================================================
