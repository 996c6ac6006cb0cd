----------------------------- MODULE IncidentLog ----------------------------
(***************************************************************************)
(* What the log buffer promises the pages that read it, whatever its       *)
(* slice, map and pruning counter do: at most one incident per bucket and  *)
(* kind, which counts its events, keeps the time stamp it was opened with  *)
(* and the worst severity seen; and forgetting is oldest first, never in   *)
(* the middle of the timeline, and never while an event is merely counted. *)
(***************************************************************************)
EXTENDS LogEntries

VARIABLE incidents

Same(x) == {y \in incidents : KeyOf(y) = KeyOf(x)}

Init == incidents = {}

\* An event of a known incident is counted in it.
Count(e) ==
  \E x \in Same(e) : incidents' = (incidents \ {x}) \cup {Absorb(x, e)}

\* An event of an unknown incident opens it; the oldest may be forgotten.
Open(e) ==
  /\ Same(e) = {}
  /\ \E kept \in SUBSET (incidents \cup {FirstOf(e)}) :
       /\ \A x \in kept, y \in (incidents \cup {FirstOf(e)}) \ kept : y.ts <= x.ts
       /\ incidents' = kept

\* An incident saved by an earlier run of the program.
Restore(d) ==
  \/ /\ Same(d) = {}
     /\ incidents' = incidents \cup {Normalised(d)}
  \/ \E x \in Same(d) :
       incidents' = (incidents \ {x}) \cup {Combine(x, Normalised(d))}

Next ==
  \/ \E e \in Event : Count(e) \/ Open(e)
  \/ \E d \in Saved : Restore(d)

Spec == Init /\ [][Next]_incidents
=============================================================================
