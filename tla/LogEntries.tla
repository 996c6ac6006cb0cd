----------------------------- MODULE LogEntries -----------------------------
(***************************************************************************)
(* The data of the log timeline: events matched in a log file, reported by *)
(* a check or read from the journal, and the entries they are aggregated   *)
(* into (LogEntry and bucketKeyFor in logwatch.go).  Shared by the buffer, *)
(* its abstract specification and the modules that feed it.                *)
(***************************************************************************)
EXTENDS Integers

CONSTANTS Kinds,       \* the pairs (title, source) an event can carry
          Severities,  \* severities in use, among those severityRank knows
          Saved,       \* entries the day files may hold
          BucketSize,  \* logBucketSeconds: 900 in the code
          MaxTime      \* bound on time stamps

ASSUME BucketSizeAssumption == BucketSize \in Nat \ {0}
ASSUME MaxTimeAssumption == MaxTime \in Nat \ {0}
ASSUME SeveritiesAssumption == Severities \subseteq {"error", "warn", "info"}

Zero == 0                \* the zero time.Time
Times == 1 .. MaxTime

SeverityRank(s) ==
  CASE s = "error" -> 3 [] s = "warn" -> 2 [] s = "info" -> 1 [] OTHER -> 0

Worse(s, t) == IF SeverityRank(s) > SeverityRank(t) THEN s ELSE t
Later(s, t) == IF s > t THEN s ELSE t

Event == [ts : Times, kind : Kinds, sev : Severities]

\* An aggregated LogEntry; Line and Mitigation follow the severity.
Entry == [ts : Times, kind : Kinds, sev : Severities,
          count : Nat \ {0}, lastSeen : Times]

\* What a day file may hold: files older than the aggregated format have
\* neither a count nor a lastSeen.
DiskEntry == [ts : Times, kind : Kinds, sev : Severities,
              count : Nat, lastSeen : Times \cup {Zero}]

Bucket(ts) == ts - (ts % BucketSize)

\* Saved entries were written by saveLogs, by this version or an older one.
ASSUME SavedAssumption ==
  \A d \in Saved :
    /\ d \in DiskEntry
    /\ d.lastSeen # Zero => /\ d.ts <= d.lastSeen
                           /\ Bucket(d.lastSeen) = Bucket(d.ts)

\* aggKey: the 15-minute bucket and what happened, by whom it was reported.
KeyOf(x) == <<Bucket(x.ts), x.kind>>

FirstOf(e) ==
  [ts |-> e.ts, kind |-> e.kind, sev |-> e.sev, count |-> 1, lastSeen |-> e.ts]

\* One more event of an entry's bucket: the worse severity wins.
Absorb(x, e) ==
  [x EXCEPT !.count = @ + 1,
            !.lastSeen = Later(e.ts, @),
            !.sev = Worse(e.sev, @)]

\* The defaults AddAggregated gives an entry of the older format.
Normalised(d) ==
  [d EXCEPT !.count = IF @ = 0 THEN 1 ELSE @,
            !.lastSeen = IF @ = Zero THEN d.ts ELSE @]

\* A second disk entry of the same key: only counts and lastSeen are merged.
Combine(x, d) ==
  [x EXCEPT !.count = @ + d.count, !.lastSeen = Later(d.lastSeen, @)]
=============================================================================
