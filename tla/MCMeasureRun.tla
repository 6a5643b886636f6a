---------------------------- MODULE MCMeasureRun ----------------------------
(***************************************************************************)
(* MeasureRun for TLC, its times scaled down: a grace period of one or two *)
(* seconds, a tolerance of none, and a recovery bound of one second.       *)
(***************************************************************************)
EXTENDS MeasureRun

CONSTANT p1

OnePod == {p1}
=============================================================================
