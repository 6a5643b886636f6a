--------------------------- MODULE MCRollWatcher ----------------------------
(***************************************************************************)
(* RollWatcher on one node for TLC: the handler keys everything by node,   *)
(* so what can go wrong, it does within one.                               *)
(***************************************************************************)
EXTENDS RollWatcher

CONSTANT n1

OneNode == {n1}
=============================================================================
