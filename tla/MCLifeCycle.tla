---------------------------- MODULE MCLifeCycle ----------------------------
(***************************************************************************)
(* LifeCycle for TLC.                                                      *)
(***************************************************************************)
EXTENDS LifeCycle

CONSTANTS m1, b1, b2
=============================================================================
