----------------------------- MODULE LongOutages ----------------------------
(***************************************************************************)
(* The record of HistoryEvidence, and with it the days on which a check    *)
(* found an outage that was longer than the migration threshold by then.   *)
(***************************************************************************)
EXTENDS HistoryEvidence

VARIABLE long    \* <<day, component>> of outages longer than Threshold

Lasting ==
  LET r == Head(batch)
      c == r.component
  IN  IF r.status = "critical" /\ since[c] # Never /\ now - since[c] > Threshold
      THEN {<<Today, c>>} ELSE {}

LInit == EInit /\ long = {}

LNext ==
  \/ Judged /\ long' = long \cup Lasting
  \/ Loaded /\ long' = {x \in long : <<x[1], x[2], "critical">> \in seen'}
  \/ Unjudged /\ UNCHANGED long

LSpec == LInit /\ [][LNext]_<<vars, evidence, long>>
-----------------------------------------------------------------------------
\* An outage longer than the migration threshold is a real incident and stays
\* on the record of its day.
LongOutageStaysOnRecord ==
  \A x \in long : \A i \in DOMAIN history[x[2]] :
    history[x[2]][i].date = x[1] => history[x[2]][i].status = "critical"
=============================================================================
