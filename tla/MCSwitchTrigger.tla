-------------------------- MODULE MCSwitchTrigger --------------------------
(***************************************************************************)
(* SwitchTrigger for TLC: thresholds on both sides of what validate        *)
(* accepts, a threshold of zero included.                                  *)
(***************************************************************************)
EXTENDS SwitchTrigger

CONSTANTS d1, d2, u1, u2

MCTimes    == {-1, 0, 2}
MCPercents == {-1, 50, 101}
=============================================================================
