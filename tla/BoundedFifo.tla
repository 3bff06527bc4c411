---------------------------- MODULE BoundedFifo ----------------------------
(***************************************************************************)
(* What a SmartBuffer promises to one writer and one reader: a queue of at *)
(* most Capacity items that hands every item over once, whole, in the      *)
(* order it was put.                                                       *)
(***************************************************************************)
EXTENDS Naturals, Sequences

CONSTANTS Capacity, Items

VARIABLES q,     \* items put and not yet taken
          out    \* items taken, in order

fifoVars == <<q, out>>

Init == q = <<>> /\ out = <<>>

Put == /\ Len(q) < Capacity
       /\ \E i \in Items : q' = Append(q, i)
       /\ UNCHANGED out

Take == /\ q # <<>>
        /\ out' = Append(out, Head(q))
        /\ q' = Tail(q)

Next == Put \/ Take

Spec == Init /\ [][Next]_fifoVars
=============================================================================
