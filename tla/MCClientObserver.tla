-------------------------- MODULE MCClientObserver ---------------------------
(***************************************************************************)
(* ClientObserver for TLC: the clients are interchangeable, and so are the *)
(* nodes.                                                                  *)
(***************************************************************************)
EXTENDS ClientObserver, TLC

CONSTANTS app_a, app_b, n1, n2

TwoClients == {app_a, app_b}
TwoNodes == {n1, n2}

Symmetry == Permutations(Client) \cup Permutations(Node)
=============================================================================
