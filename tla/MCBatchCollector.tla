-------------------------- MODULE MCBatchCollector --------------------------
(***************************************************************************)
(* BatchCollector for TLC.                                                 *)
(***************************************************************************)
EXTENDS BatchCollector

CONSTANTS c1, c2
=============================================================================
