----------------------------- MODULE Observation ------------------------------
(***************************************************************************)
(* What a measurement observes besides the logs, while time passes: the    *)
(* roll windows of the watcher, and whether the trigger fired.  With the   *)
(* events it is the input of Analyze.                                      *)
(***************************************************************************)
EXTENDS Analyze

CONSTANT MaxTime   \* bound: the last second

ASSUME MaxTimeAssumption == MaxTime \in Nat

VARIABLES clock,    \* seconds
          windows,  \* what the watcher has observed
          prereq    \* the trigger did not fire
=============================================================================
