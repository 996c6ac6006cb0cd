------------------------------- MODULE MCTail ------------------------------
(***************************************************************************)
(* Small instances of Tail for TLC.                                        *)
(***************************************************************************)
EXTENDS Tail
=============================================================================
