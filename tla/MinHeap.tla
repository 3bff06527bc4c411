------------------------------ MODULE MinHeap ------------------------------
(***************************************************************************)
(* core/min_heap.go: WrapHeap, a binary heap under a lock, built from      *)
(* container/heap and the Less, Swap, Push and Pop of MinHeap.  An item is *)
(* its sequence number (each is given out once); the heap is the slice,    *)
(* and index the field every item keeps of its own place in it.  Push and  *)
(* Pick hold mu from their first step to their last; an iteration of the   *)
(* loops of container/heap is a step of its own.                           *)
(***************************************************************************)
EXTENDS Integers, Sequences, FiniteSets, Functions

CONSTANTS Items    \* the sequence numbers pushed

ASSUME ItemsAssumption == Items \subseteq Nat \ {0} /\ IsFiniteSet(Items)

VARIABLES heap, index,  \* the slice; the index of each item, -1 outside it
          picked,       \* the item of the last Pick, 0 after a Push
          mu,           \* free, or the loop its holder is in: up or down
          at            \* the position the loop has reached

vars == <<heap, index, picked, mu, at>>

Init ==
  /\ heap = <<>>
  /\ index = [x \in Items |-> -1]
  /\ picked = 0
  /\ mu = "free"
  /\ at = 0

-----------------------------------------------------------------------------
(* heap.Interface; positions are those of Go, from 0. *)

Less(i, j) == heap[i + 1] < heap[j + 1]

(* Mutant: only one of the two indexes is kept. *)
Swap_OneIndex(i, j) ==
  /\ heap' = [heap EXCEPT ![i + 1] = heap[j + 1], ![j + 1] = heap[i + 1]]
  /\ index' = [index EXCEPT ![heap[j + 1]] = i]

Swap(i, j) ==
  /\ heap' = [heap EXCEPT ![i + 1] = heap[j + 1], ![j + 1] = heap[i + 1]]
  /\ index' = [index EXCEPT ![heap[j + 1]] = i, ![heap[i + 1]] = j]

PushBack(x) ==
  /\ heap' = Append(heap, x)
  /\ index' = [index EXCEPT ![x] = Len(heap)]

PopBack ==
  /\ heap' = SubSeq(heap, 1, Len(heap) - 1)
  /\ index' = [index EXCEPT ![heap[Len(heap)]] = -1]

-----------------------------------------------------------------------------
(* The loops of container/heap *)

Parent(j) == (j - 1) \div 2

(* The condition under which up goes on from position at. *)
Rises == at > 0 /\ Less(at, Parent(at))

(* The lesser child of i among the first n, or n if it has none. *)
LesserChild(i, n) ==
  LET l == 2 * i + 1 IN
  IF l >= n THEN n
  ELSE IF l + 1 < n /\ Less(l + 1, l) THEN l + 1 ELSE l

(* The condition under which down, called among all but the last, goes on. *)
Sinks ==
  LET n == Len(heap) - 1
      c == LesserChild(at, n) IN
  c < n /\ Less(c, at)

UpStep ==
  /\ mu = "up" /\ Rises
  /\ Swap(Parent(at), at)
  /\ at' = Parent(at)
  /\ UNCHANGED <<picked, mu>>

DownStep ==
  /\ mu = "down" /\ Sinks
  /\ LET c == LesserChild(at, Len(heap) - 1) IN
       Swap(at, c) /\ at' = c
  /\ UNCHANGED <<picked, mu>>

-----------------------------------------------------------------------------
(* WrapHeap: Push and Pick take mu and start a loop of container/heap; the *)
(* end of the loop is the rest of the call, which gives mu back.           *)

Push(x) ==
  /\ mu = "free" /\ x \notin Range(heap)
  /\ PushBack(x)
  /\ picked' = 0
  /\ mu' = "up" /\ at' = Len(heap)

PushEnds ==
  /\ mu = "up" /\ ~Rises
  /\ mu' = "free"
  /\ UNCHANGED <<heap, index, picked, at>>

(* Mutant: the last item is taken without the exchange. *)
Pick_Last ==
  /\ mu = "free" /\ heap # <<>>
  /\ mu' = "down" /\ at' = 0
  /\ UNCHANGED <<heap, index, picked>>

(* The root changes places with the last item and sinks among the others. *)
(* Pick of an empty heap returns nil and changes nothing.                 *)
Pick ==
  /\ mu = "free" /\ heap # <<>>
  /\ Swap(0, Len(heap) - 1)
  /\ mu' = "down" /\ at' = 0
  /\ UNCHANGED picked

(* The last item, which was the root, is cut off and returned. *)
PickEnds ==
  /\ mu = "down" /\ ~Sinks
  /\ PopBack
  /\ picked' = heap[Len(heap)]
  /\ mu' = "free"
  /\ UNCHANGED at

Next ==
  \/ \E x \in Items : Push(x)
  \/ UpStep \/ PushEnds
  \/ Pick \/ DownStep \/ PickEnds

Spec == Init /\ [][Next]_vars

-----------------------------------------------------------------------------
(* The parent of position i holds a lesser item. *)
Ordered(i) == heap[Parent(i) + 1] < heap[i + 1]

(* After any sequence of pushes, picks and push-backs of picked items,     *)
(* whoever takes the lock finds no child less than its parent; and before  *)
(* and after every exchange of the two loops the index field of every item *)
(* tells its place in the slice; an item outside has -1.                   *)
HeapOrdered ==
  /\ mu = "free" => \A i \in 1 .. Len(heap) - 1 : Ordered(i)
  /\ \A i \in DOMAIN heap : index[heap[i]] = i - 1
  /\ \A x \in Items \ Range(heap) : index[x] = -1

(* The heap implements the priority queue that DoubleBuffer takes it for:  *)
(* an item is in it from the step that appends it to the step that cuts it *)
(* off, and Pick returns the least of the items pushed and not picked.     *)
Queue == INSTANCE PriorityQueue WITH pending <- Range(heap)

ImplementsPriorityQueue == Queue!Spec
=============================================================================
