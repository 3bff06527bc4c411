--------------------------- MODULE PriorityQueue ---------------------------
(***************************************************************************)
(* What pendingHeap promises to DoubleBuffer: a set of sequence numbers    *)
(* from which Pick takes the least.                                        *)
(***************************************************************************)
EXTENDS Naturals

CONSTANTS Items   \* sequence numbers

VARIABLES pending,   \* pushed and not picked
          picked     \* the last one picked, 0 for none

queueVars == <<pending, picked>>

Init == pending = {} /\ picked = 0

Add(x) == x \in Items \ pending /\ pending' = pending \cup {x}

RemoveLeast(x) ==
  /\ x \in pending /\ \A y \in pending : x <= y
  /\ pending' = pending \ {x}

Put == \E x \in Items : Add(x) /\ picked' = 0

TakeLeast == \E x \in pending : RemoveLeast(x) /\ picked' = x

Next == Put \/ TakeLeast

Spec == Init /\ [][Next]_queueVars
=============================================================================
