---------------------------- MODULE MCLogPersist ---------------------------
(***************************************************************************)
(* Small instances of LogPersist for TLC.                                  *)
(***************************************************************************)
EXTENDS LogPersist
=============================================================================
