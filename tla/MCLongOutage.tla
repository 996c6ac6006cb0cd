---------------------------- MODULE MCLongOutage ----------------------------
(***************************************************************************)
(* One service watched through several outages of a day.                   *)
(***************************************************************************)
EXTENDS LongOutages, Checks

\* A Redis that is up or down; a check that is cancelled cannot dial.
OneRedis == {"redis"}
RedisConnection == {"redis-connection"}
UpOrDown == [k \in OneRedis |-> {Redis(dials, TRUE, "+PONG", {}) : dials \in BOOLEAN}]
CannotDial == [k \in OneRedis |-> {Redis(FALSE, TRUE, "none", {})}]
=============================================================================
