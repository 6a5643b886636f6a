----------------------------- MODULE MCAppPool ------------------------------
(* DrainTiming and AppPool with two requests to /hold. *)
EXTENDS AppPool

TwoCallers == {"r1", "r2"}
=============================================================================
