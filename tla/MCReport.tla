------------------------------ MODULE MCReport -------------------------------
(***************************************************************************)
(* One measurement for TLC: one worker, the grace period scaled to three   *)
(* seconds and the jitter tolerance to one.                                *)
(***************************************************************************)
EXTENDS Report

CONSTANT w1

OneWorker == {w1}

Roll(n, t, r) == [node |-> n, drainingAt |-> t, graceExpiresAt |-> t + 3, readyAt |-> r]

\* No roll, one, a half-open one, and two nodes: at once, overlapping, one
\* after the other within the tolerance, and apart.
SomeRolls ==
  {<<>>, <<Roll(1, 2, 1)>>, <<Roll(1, 2, 0)>>}
  \cup {<<Roll(1, 2, 1), Roll(2, t, 1)>> : t \in {2, 3, 4}}
  \cup {<<Roll(2, 5, 1), Roll(1, 2, 1)>>}
=============================================================================
