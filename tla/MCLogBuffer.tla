----------------------------- MODULE MCLogBuffer ----------------------------
(***************************************************************************)
(* Small instance of LogBuffer for TLC.                                    *)
(***************************************************************************)
EXTENDS LogBuffer, TLC

\* Two files of one day that share a key, and an entry of the older format.
MCSaved ==
  { [ts |-> 1, kind |-> k, sev |-> "warn", count |-> 2, lastSeen |-> 1] : k \in Kinds }
    \cup
  { [ts |-> 2, kind |-> k, sev |-> "error", count |-> 0, lastSeen |-> 0] : k \in Kinds }

Symmetry == Permutations(Ptr) \cup Permutations(Kinds)
=============================================================================
