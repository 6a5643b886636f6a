-------------------------- MODULE MCDrainScenario ---------------------------
(* The drain scenario with the two Applications it names. *)
EXTENDS DrainScenario

MCApps == <<"probe", "load">>
=============================================================================
