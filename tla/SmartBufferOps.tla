--------------------------- MODULE SmartBufferOps ---------------------------
(***************************************************************************)
(* The data structure of core/component/smart_buffer.go, as operators on a *)
(* ring record: the atomic loads, stores and compare-and-swaps its methods *)
(* are made of.  SmartBuffer interleaves them thread by thread; DoubleBuffer*)
(* uses them on every buffer it owns.                                      *)
(*                                                                         *)
(* A message is a positive natural number; 0 stands for the nil pointer    *)
(* and for the size 0.  A non-zero size names the message it is the size   *)
(* of, so that an item whose two words come from different stores shows.   *)
(***************************************************************************)
EXTENDS Integers

CONSTANTS Capacity,   \* slots of the ring (NewSmartBuffer's argument)
          MaxIndex    \* the largest int32 (2147483647 in the code)

ASSUME CapacityAssumption == Capacity \in Nat \ {0}
ASSUME MaxIndexAssumption == MaxIndex \in Nat

WriteOnly == "WriteOnly"
ReadOnly  == "ReadOnly"
Switching == "Switching"     \* numerically equal to ClosedState
BufferStates == {WriteOnly, ReadOnly, Switching}

(* BufferItem{}: two machine words, stored and loaded without any atomic.  *)
EmptyItem == [ptr |-> 0, size |-> 0]
Item(m)   == [ptr |-> m, size |-> m]
Fields    == {"ptr", "size"}

Positions == 0 .. Capacity - 1
Indexes   == (0 - MaxIndex - 1) .. MaxIndex

NewSmartBuffer ==
  [ buf   |-> [p \in Positions |-> EmptyItem],
    head  |-> -1,
    tail  |-> -1,
    count |-> 0,
    state |-> WriteOnly ]

(* index % capacity, moved into 0..capacity-1 when negative: the % of TLA+. *)
calcPos(index) == index % Capacity

(* Mutant: the wrap-around of the index is forgotten. *)
NextIndex_NoWrap(index) == index + 1

(* index + 1 on an int32. *)
NextIndex(index) == IF index = MaxIndex THEN 0 - MaxIndex - 1 ELSE index + 1

SetState(b, s) == [b EXCEPT !.state = s]

(* CompareAndSwap(&state, WriteOnly, ReadOnly), by a writer that found the *)
(* ring full.                                                              *)
SealFull(b) == [b EXCEPT !.state = IF @ = WriteOnly THEN ReadOnly ELSE @]

ClaimHead(b)         == [b EXCEPT !.head = NextIndex(@)]
ClaimTail(b)         == [b EXCEPT !.tail = NextIndex(@)]
StoreField(b, p, f, m) == [b EXCEPT !.buf[p][f] = m]
StoreItem(b, p, i)   == [b EXCEPT !.buf[p] = i]
AddCount(b, d)       == [b EXCEPT !.count = @ + d]

(* Reset: state, then count, then both indexes, by plain stores; the slots *)
(* keep whatever they hold.                                                *)
ZeroCount(b)     == [b EXCEPT !.count = 0]
RewindIndexes(b) == [b EXCEPT !.head = -1, !.tail = -1]
Reset(b)         == RewindIndexes(ZeroCount(SetState(b, WriteOnly)))
=============================================================================
