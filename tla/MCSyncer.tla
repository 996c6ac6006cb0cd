------------------------------ MODULE MCSyncer -----------------------------
(***************************************************************************)
(* Small instances of Syncer for TLC.                                      *)
(***************************************************************************)
EXTENDS Syncer

\* The second window may begin where the first ended, the third after a gap longer
\* than a window; midnight comes between two of the instants.
FewInstants == {2, 3, 6}
=============================================================================
