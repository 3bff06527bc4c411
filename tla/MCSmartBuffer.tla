--------------------------- MODULE MCSmartBuffer ---------------------------
(***************************************************************************)
(* SmartBuffer for TLC.  The indexes are narrowed to 2 * (MaxIndex + 1)    *)
(* values, a multiple of Capacity as 2^32 is of every power of two, so     *)
(* that the runs pass through the wrap-around.                             *)
(***************************************************************************)
EXTENDS SmartBuffer

CONSTANTS w1, w2, r1, r2

ASSUME WrapKeepsSlots == (2 * (MaxIndex + 1)) % Capacity = 0
=============================================================================
