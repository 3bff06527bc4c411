--------------------------- MODULE MCDoubleBuffer ---------------------------
(***************************************************************************)
(* DoubleBuffer for TLC.                                                   *)
(***************************************************************************)
EXTENDS DoubleBuffer, TLC

CONSTANTS w1, w2, r1, r2, c1, c2

(* Threads of a kind are interchangeable. *)
ThreadSymmetry == Permutations(Writers) \cup Permutations(Readers)
=============================================================================
