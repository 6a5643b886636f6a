----------------------------- MODULE MCHeldConn -----------------------------
(***************************************************************************)
(* A load pod for TLC: two long-lived workers, sessions bounded by the     *)
(* hold.  The connections of one end and come back while the other may be  *)
(* slow to connect; the probe is the same worker alone, without a hold.    *)
(***************************************************************************)
EXTENDS HeldConn

CONSTANTS w1, w2

OnlyFirst == {w1}
TwoWorkers == {w1, w2}
=============================================================================
