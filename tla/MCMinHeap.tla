----------------------------- MODULE MCMinHeap -----------------------------
(***************************************************************************)
(* MinHeap for TLC: seven items fill a heap of three levels.               *)
(***************************************************************************)
EXTENDS MinHeap
=============================================================================
