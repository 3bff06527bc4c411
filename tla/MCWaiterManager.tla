-------------------------- MODULE MCWaiterManager --------------------------
(***************************************************************************)
(* WaiterManager for TLC.                                                  *)
(***************************************************************************)
EXTENDS WaiterManager, TLC

CONSTANTS c1, c2, c3, h1, h2, h3, h4

Symmetry == Permutations(Clients) \cup Permutations(Channels)
=============================================================================
