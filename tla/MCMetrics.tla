------------------------------ MODULE MCMetrics ----------------------------
(***************************************************************************)
(* A small instance of Metrics for TLC.                                    *)
(***************************************************************************)
EXTENDS Metrics
=============================================================================
