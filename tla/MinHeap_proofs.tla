--------------------------- MODULE MinHeap_proofs ---------------------------
(***************************************************************************)
(* Proofs about WrapHeap, for any finite set of sequence numbers: it is a  *)
(* heap whenever its lock is free, and it implements PriorityQueue.        *)
(***************************************************************************)
EXTENDS MinHeap, WellFoundedInduction, TLAPS

TypeOK ==
  /\ heap \in Seq(Items)
  /\ index \in [Items -> Int]
  /\ picked \in Items \cup {0}
  /\ mu \in {"free", "up", "down"}
  /\ at \in Nat

(* Every item knows its place, so no item is twice in the slice. *)
Indexed ==
  /\ \A i \in DOMAIN heap : index[heap[i]] = i - 1
  /\ \A x \in Items \ Range(heap) : index[x] = -1

(* The first n positions are a heap but for the children of position at,   *)
(* which are ordered below the parent of at.                               *)
OrderedUnder(n) ==
  /\ \A i \in 1 .. n - 1 : Parent(i) # at => Ordered(i)
  /\ \A i \in 1 .. n - 1 :
       Parent(i) = at /\ at > 0 => heap[Parent(at) + 1] < heap[i + 1]

(* While up runs, only the item at position at may be out of order, and    *)
(* its children are ordered below its parent.                              *)
RisingInv ==
  mu = "up" =>
    /\ at < Len(heap)
    /\ \A i \in 1 .. Len(heap) - 1 : i # at => Ordered(i)
    /\ \A i \in 1 .. Len(heap) - 1 :
         Parent(i) = at /\ at > 0 => heap[Parent(at) + 1] < heap[i + 1]

(* While down runs, the last item is the least of all, and of the others   *)
(* only the children of position at may be out of order.                   *)
SinkingInv ==
  mu = "down" =>
    /\ Len(heap) > 0 /\ at < Len(heap)
    /\ OrderedUnder(Len(heap) - 1)
    /\ \A i \in 1 .. Len(heap) : heap[Len(heap)] <= heap[i]

IInv == TypeOK /\ HeapOrdered /\ RisingInv /\ SinkingInv

-----------------------------------------------------------------------------
(* What the operators on the slice do *)

LEMMA ParentBounds ==
  ASSUME NEW j \in Nat, j > 0
  PROVE  /\ Parent(j) \in Nat /\ Parent(j) < j
         /\ j = 2 * Parent(j) + 1 \/ j = 2 * Parent(j) + 2
BY DEF Parent

(* A nonempty set of naturals has a least member. *)
LEMMA NatHasLeast ==
  ASSUME NEW S, S \subseteq Nat, S # {}
  PROVE  \E x \in S : \A y \in S : x <= y
<1>1. PICK x \in S : \A y \in S : ~ (<<y, x>> \in OpToRel(<, Nat))
  BY WFMin, NatLessThanWellFounded, Zenon
<1>2. ASSUME NEW y \in S PROVE x <= y
  <2>1. ~ (<<y, x>> \in OpToRel(<, Nat))
    BY <1>1
  <2>2. <<y, x>> \in Nat \X Nat
    OBVIOUS
  <2>3. ~ (y < x)
    BY <2>1, <2>2, Zenon DEF OpToRel
  <2> QED BY <2>3
<1> QED BY <1>2

LEMMA RangeOfSlice ==
  ASSUME NEW s \in Seq(Items)
  PROVE  /\ \A k \in 1 .. Len(s) : s[k] \in Range(s)
         /\ \A x \in Range(s) : \E k \in 1 .. Len(s) : s[k] = x
         /\ Range(s) \subseteq Items
<1>1. DOMAIN s = 1 .. Len(s) /\ \A k \in 1 .. Len(s) : s[k] \in Items
  OBVIOUS
<1> QED BY <1>1, Zenon DEF Range

LEMMA SameItems ==
  ASSUME NEW s \in Seq(Items), NEW t \in Seq(Items),
         \A k \in 1 .. Len(s) : \E l \in 1 .. Len(t) : s[k] = t[l],
         \A k \in 1 .. Len(t) : \E l \in 1 .. Len(s) : t[k] = s[l]
  PROVE  Range(s) = Range(t)
<1>1. ASSUME NEW x \in Range(s) PROVE x \in Range(t)
  <2>1. PICK k \in 1 .. Len(s) : s[k] = x
    BY RangeOfSlice
  <2>2. PICK l \in 1 .. Len(t) : t[l] = x
    BY <2>1
  <2> QED BY <2>2, RangeOfSlice
<1>2. ASSUME NEW x \in Range(t) PROVE x \in Range(s)
  <2>1. PICK k \in 1 .. Len(t) : t[k] = x
    BY RangeOfSlice
  <2>2. PICK l \in 1 .. Len(s) : s[l] = x
    BY <2>1
  <2> QED BY <2>2, RangeOfSlice
<1> QED BY <1>1, <1>2

(* Of a slice in heap order the first item is the least: the least item's  *)
(* parent would be lesser still.                                           *)
LEMMA RootIsLeast ==
  ASSUME NEW s \in Seq(Items), s # <<>>,
         \A i \in 1 .. Len(s) - 1 : s[Parent(i) + 1] < s[i + 1]
  PROVE  \A k \in 1 .. Len(s) : s[1] <= s[k]
<1>1. Range(s) \subseteq Nat /\ Range(s) # {}
  <2>1. 1 \in 1 .. Len(s)
    OBVIOUS
  <2> QED BY ItemsAssumption, RangeOfSlice, <2>1
<1>2. PICK x \in Range(s) : \A y \in Range(s) : x <= y
  BY <1>1, NatHasLeast
<1>3. PICK k \in 1 .. Len(s) : s[k] = x
  BY RangeOfSlice
<1>4. k = 1
  <2> SUFFICES ASSUME k # 1 PROVE FALSE
    OBVIOUS
  <2>1. /\ k - 1 \in 1 .. Len(s) - 1
        /\ Parent(k - 1) + 1 \in 1 .. Len(s)
    BY ParentBounds
  <2>2. s[Parent(k - 1) + 1] < s[k]
    BY <2>1
  <2>3. s[Parent(k - 1) + 1] \in Range(s)
    BY <2>1, RangeOfSlice
  <2> QED BY <1>1, <1>2, <1>3, <2>2, <2>3
<1>5. \A i \in 1 .. Len(s) : s[i] \in Range(s)
  BY RangeOfSlice
<1> QED BY <1>2, <1>3, <1>4, <1>5

(* No item is twice in the slice. *)
LEMMA Distinct ==
  ASSUME TypeOK, Indexed
  PROVE  \A i, j \in 1 .. Len(heap) : heap[i] = heap[j] => i = j
<1>1. \A i \in 1 .. Len(heap) : index[heap[i]] = i - 1
  BY DEF TypeOK, Indexed
<1> QED BY <1>1

(* An exchange moves two items and their indexes, and nothing else. *)
LEMMA SwapMoves ==
  ASSUME NEW i \in 0 .. Len(heap) - 1, NEW j \in 0 .. Len(heap) - 1,
         TypeOK, Indexed, Swap(i, j)
  PROVE  /\ heap' \in Seq(Items) /\ Len(heap') = Len(heap)
         /\ heap'[i + 1] = heap[j + 1] /\ heap'[j + 1] = heap[i + 1]
         /\ \A k \in 0 .. Len(heap) - 1 : k # i /\ k # j => heap'[k + 1] = heap[k + 1]
         /\ Range(heap') = Range(heap)
         /\ index' \in [Items -> Int]
         /\ Indexed'
<1> USE DEF TypeOK
<1>1. heap' = [heap EXCEPT ![i + 1] = heap[j + 1], ![j + 1] = heap[i + 1]]
  BY DEF Swap
<1>2. /\ i + 1 \in 1 .. Len(heap) /\ j + 1 \in 1 .. Len(heap)
      /\ heap[i + 1] \in Items /\ heap[j + 1] \in Items
  OBVIOUS
<1>3. heap' \in Seq(Items) /\ Len(heap') = Len(heap)
  BY <1>1, <1>2
<1>4. /\ heap'[i + 1] = heap[j + 1] /\ heap'[j + 1] = heap[i + 1]
      /\ \A k \in 1 .. Len(heap) : k # i + 1 /\ k # j + 1 => heap'[k] = heap[k]
  <2>1. DOMAIN heap = 1 .. Len(heap)
    OBVIOUS
  <2>2. \A k \in 1 .. Len(heap) :
          heap'[k] = IF k = j + 1 THEN heap[i + 1]
                     ELSE IF k = i + 1 THEN heap[j + 1] ELSE heap[k]
    BY <1>1, <2>1, Zenon
  <2> QED BY <1>2, <2>2
<1>5. Range(heap') = Range(heap)
  <2>1. \A k \in 1 .. Len(heap) : \E l \in 1 .. Len(heap) : heap'[k] = heap[l]
    BY <1>2, <1>4
  <2>2. \A k \in 1 .. Len(heap) : \E l \in 1 .. Len(heap) : heap[k] = heap'[l]
    BY <1>2, <1>4
  <2> QED BY <1>3, <2>1, <2>2, SameItems
<1>6. index' = [index EXCEPT ![heap[j + 1]] = i, ![heap[i + 1]] = j]
  BY DEF Swap
<1>7. index' \in [Items -> Int]
  BY <1>2, <1>6
<1>8. ASSUME NEW k \in 1 .. Len(heap) PROVE index'[heap'[k]] = k - 1
  <2>1. heap[k] \in Items /\ index[heap[k]] = k - 1
    BY DEF Indexed
  <2>a. \A l, m \in 1 .. Len(heap) : heap[l] = heap[m] => l = m
    BY Distinct
  <2>2. CASE k = j + 1
    BY <1>2, <1>4, <1>6, <2>2
  <2>3. CASE k = i + 1 /\ i # j
    <3>1. heap[j + 1] # heap[i + 1]
      BY <1>2, <2>3, <2>a
    <3> QED BY <1>2, <1>4, <1>6, <2>3, <3>1
  <2>4. CASE k # i + 1 /\ k # j + 1
    <3>1. heap[k] # heap[i + 1] /\ heap[k] # heap[j + 1]
      BY <1>2, <2>4, <2>a
    <3> QED BY <1>2, <1>4, <1>6, <2>1, <2>4, <3>1
  <2> QED BY <2>2, <2>3, <2>4
<1>9. ASSUME NEW x \in Items \ Range(heap) PROVE index'[x] = -1
  <2>1. x # heap[i + 1] /\ x # heap[j + 1]
    BY <1>2, RangeOfSlice
  <2> QED BY <1>2, <1>6, <2>1 DEF Indexed
<1>10. Indexed'
  <2>1. DOMAIN heap' = 1 .. Len(heap)
    BY <1>3
  <2> QED BY <1>5, <1>8, <1>9, <2>1, Zenon DEF Indexed
<1>11. ASSUME NEW k \in 0 .. Len(heap) - 1, k # i, k # j
       PROVE  heap'[k + 1] = heap[k + 1]
  <2>1. k + 1 \in 1 .. Len(heap) /\ k + 1 # i + 1 /\ k + 1 # j + 1
    BY <1>11 DEF TypeOK
  <2> QED BY <1>4, <2>1
<1> QED BY <1>3, <1>4, <1>5, <1>7, <1>10, <1>11

-----------------------------------------------------------------------------
(* The inductive invariant is kept by every step *)

LEMMA IInvInit == Init => IInv
<1> SUFFICES ASSUME Init PROVE IInv
  OBVIOUS
<1>1. TypeOK
  BY DEF Init, TypeOK
<1>2. HeapOrdered
  BY DEF Init, HeapOrdered
<1>3. RisingInv /\ SinkingInv
  BY DEF Init, RisingInv, SinkingInv
<1> QED BY <1>1, <1>2, <1>3 DEF IInv

(* The items of the slice are naturals, all different. *)
LEMMA SliceOfNaturals ==
  ASSUME IInv
  PROVE  /\ Len(heap) \in Nat /\ at \in Nat /\ Indexed
         /\ \A k \in 1 .. Len(heap) : heap[k] \in Nat
         /\ \A k, l \in 1 .. Len(heap) : heap[k] = heap[l] => k = l
<1>1. Len(heap) \in Nat /\ at \in Nat /\ DOMAIN heap = 1 .. Len(heap)
  BY DEF IInv, TypeOK
<1>2. Indexed
  BY DEF IInv, HeapOrdered, Indexed
<1>3. \A k \in 1 .. Len(heap) : heap[k] \in Items
  BY DEF IInv, TypeOK
<1>4. \A k \in 1 .. Len(heap) : heap[k] \in Nat
  BY <1>3, ItemsAssumption
<1>5. \A k, l \in 1 .. Len(heap) : heap[k] = heap[l] => k = l
  BY <1>2, Distinct DEF IInv
<1> QED BY <1>1, <1>2, <1>4, <1>5

LEMMA PushKeeps ==
  ASSUME IInv, NEW x \in Items, Push(x)
  PROVE  IInv'
<1> USE DEF IInv
<1>1. /\ heap' = Append(heap, x) /\ at' = Len(heap) /\ mu' = "up" /\ mu = "free"
      /\ index' = [index EXCEPT ![x] = Len(heap)]
      /\ picked' = 0 /\ x \notin Range(heap)
  BY DEF Push, PushBack
<1>2. /\ heap' \in Seq(Items) /\ Len(heap') = Len(heap) + 1
      /\ \A k \in 1 .. Len(heap) : heap'[k] = heap[k]
      /\ heap'[Len(heap) + 1] = x
      /\ Len(heap) \in Nat
  BY <1>1 DEF TypeOK
<1>3. TypeOK'
  BY <1>1, <1>2 DEF TypeOK
<1>4. Indexed'
  <2>1. ASSUME NEW k \in 1 .. Len(heap) + 1 PROVE index'[heap'[k]] = k - 1
    <3>1. CASE k = Len(heap) + 1
      BY <1>1, <1>2, <3>1 DEF TypeOK
    <3>2. CASE k \in 1 .. Len(heap)
      <4>1. heap[k] \in Range(heap) /\ heap[k] \in Items /\ index[heap[k]] = k - 1
        BY <3>2, RangeOfSlice DEF TypeOK, HeapOrdered
      <4> QED BY <1>1, <1>2, <3>2, <4>1 DEF TypeOK
    <3> QED BY <1>2, <3>1, <3>2
  <2>2. ASSUME NEW y \in Items, y \notin Range(heap') PROVE index'[y] = -1
    <3>1. x \in Range(heap') /\ \A k \in 1 .. Len(heap) : heap[k] \in Range(heap')
      BY <1>2, RangeOfSlice
    <3>2. y # x /\ y \notin Range(heap)
      BY <2>2, <3>1, RangeOfSlice DEF TypeOK
    <3> QED BY <1>1, <3>2 DEF TypeOK, HeapOrdered
  <2>3. DOMAIN heap' = 1 .. Len(heap) + 1
    BY <1>2
  <2> QED BY <2>1, <2>2, <2>3, Zenon DEF Indexed
<1>5. HeapOrdered'
  BY <1>1, <1>4 DEF HeapOrdered, Indexed
<1>6. RisingInv'
  <2>1. ASSUME NEW i \in 1 .. Len(heap'), i < Len(heap), i > 0 PROVE Ordered(i)'
    <3>1. Parent(i) + 1 \in 1 .. Len(heap) /\ i + 1 \in 1 .. Len(heap)
      BY <1>2, <2>1, ParentBounds
    <3>2. Ordered(i)
      <4>1. i \in 1 .. Len(heap) - 1
        BY <1>2, <2>1
      <4> QED BY <1>1, <4>1 DEF HeapOrdered
    <3> QED BY <1>2, <3>1, <3>2 DEF Ordered
  <2>2. \A i \in 1 .. Len(heap') - 1 : Parent(i) < Len(heap)
    BY <1>2, ParentBounds
  <2>3. at' < Len(heap') /\ \A i \in 1 .. Len(heap') - 1 : i # at' => Ordered(i)'
    BY <1>1, <1>2, <2>1
  <2>4. \A i \in 1 .. Len(heap') - 1 : Parent(i) # at'
    BY <1>1, <1>2, <2>2, ParentBounds
  <2> QED BY <2>3, <2>4 DEF RisingInv, Ordered
<1>7. SinkingInv'
  BY <1>1 DEF SinkingInv
<1> QED BY <1>3, <1>5, <1>6, <1>7

LEMMA UpStepKeeps ==
  ASSUME IInv, UpStep
  PROVE  IInv'
<1> DEFINE p == Parent(at)
<1>1. /\ mu = "up" /\ mu' = "up" /\ picked' = picked
      /\ at > 0 /\ heap[at + 1] < heap[p + 1]
      /\ Swap(p, at) /\ at' = p
  BY DEF UpStep, Rises, Less
<1>2. /\ at < Len(heap)
      /\ \A i \in 1 .. Len(heap) - 1 : i # at => Ordered(i)
      /\ \A i \in 1 .. Len(heap) - 1 : Parent(i) = at => heap[p + 1] < heap[i + 1]
  BY <1>1 DEF IInv, RisingInv
<1>3. /\ Len(heap) \in Nat /\ at \in Nat /\ Indexed /\ TypeOK
      /\ \A k \in 1 .. Len(heap) : heap[k] \in Nat
  BY SliceOfNaturals DEF IInv
<1>4. p \in Nat /\ p < at /\ p < Len(heap)
  BY <1>1, <1>2, <1>3, ParentBounds
<1>5. p \in 0 .. Len(heap) - 1 /\ at \in 0 .. Len(heap) - 1
  BY <1>2, <1>3, <1>4
<1>6. /\ heap' \in Seq(Items) /\ Len(heap') = Len(heap)
      /\ heap'[p + 1] = heap[at + 1] /\ heap'[at + 1] = heap[p + 1]
      /\ \A k \in 0 .. Len(heap) - 1 : k # p /\ k # at => heap'[k + 1] = heap[k + 1]
      /\ index' \in [Items -> Int]
      /\ Indexed'
  BY <1>1, <1>3, <1>5, SwapMoves
<1> HIDE DEF p
<1>7. TypeOK'
  BY <1>1, <1>3, <1>4, <1>6 DEF TypeOK
<1>8. HeapOrdered' /\ SinkingInv'
  BY <1>1, <1>6 DEF HeapOrdered, Indexed, SinkingInv
<1>9. ASSUME NEW i \in 1 .. Len(heap) - 1
      PROVE  /\ i # p => heap'[Parent(i) + 1] < heap'[i + 1]
             /\ Parent(i) = p /\ p > 0 => heap'[Parent(p) + 1] < heap'[i + 1]
  <2>1. Parent(i) \in Nat /\ Parent(i) < i
    BY <1>3, ParentBounds
  <2>2. i # at => heap[Parent(i) + 1] < heap[i + 1]
    BY <1>2 DEF Ordered
  <2>3. i # p => heap'[Parent(i) + 1] < heap'[i + 1]
    <3> SUFFICES ASSUME i # p PROVE heap'[Parent(i) + 1] < heap'[i + 1]
      OBVIOUS
    <3>1. CASE i = at
      BY <1>1, <1>6, <3>1 DEF p
    <3>a. i # at => heap'[i + 1] = heap[i + 1]
      BY <1>6
    <3>2. CASE i # at /\ Parent(i) = p
      <4>1. heap[p + 1] < heap[i + 1]
        BY <2>2, <3>2
      <4>2. heap[at + 1] \in Nat /\ heap[p + 1] \in Nat /\ heap[i + 1] \in Nat
        BY <1>3, <1>5
      <4>3. heap[at + 1] < heap[i + 1]
        BY <1>1, <4>1, <4>2 DEF p
      <4> QED BY <1>6, <3>2, <3>a, <4>3
    <3>3. CASE i # at /\ Parent(i) = at
      BY <1>2, <1>6, <3>3, <3>a
    <3>4. CASE i # at /\ Parent(i) # at /\ Parent(i) # p
      <4>1. Parent(i) \in 0 .. Len(heap) - 1
        BY <1>3, <2>1
      <4> QED BY <1>6, <2>2, <3>4, <3>a, <4>1
    <3> QED BY <3>1, <3>2, <3>3, <3>4
  <2>4. ASSUME Parent(i) = p, p > 0 PROVE heap'[Parent(p) + 1] < heap'[i + 1]
    <3>1. Parent(p) \in Nat /\ Parent(p) < p
      BY <1>4, <2>4, ParentBounds
    <3>2. heap[Parent(p) + 1] < heap[p + 1]
      BY <1>2, <1>4, <1>5, <2>4 DEF Ordered
    <3>3. heap'[Parent(p) + 1] = heap[Parent(p) + 1]
      <4>1. Parent(p) \in 0 .. Len(heap) - 1 /\ Parent(p) # p /\ Parent(p) # at
        BY <1>3, <1>4, <3>1
      <4> QED BY <1>6, <4>1
    <3>4. CASE i = at
      BY <1>6, <3>2, <3>3, <3>4
    <3>5. CASE i # at
      <4>1. heap[p + 1] < heap[i + 1] /\ heap'[i + 1] = heap[i + 1]
        <5>1. i # p
          BY <2>1, <2>4
        <5> QED BY <1>6, <2>2, <2>4, <3>5, <5>1
      <4> QED BY <1>3, <1>4, <3>1, <3>2, <3>3, <4>1
    <3> QED BY <3>4, <3>5
  <2> QED BY <2>3, <2>4
<1>10. RisingInv'
  BY <1>1, <1>4, <1>6, <1>9 DEF RisingInv, Ordered
<1> QED BY <1>7, <1>8, <1>10 DEF IInv

LEMMA PushEndsKeeps ==
  ASSUME IInv, PushEnds
  PROVE  IInv'
<1>1. /\ mu = "up" /\ mu' = "free" /\ ~Rises
      /\ UNCHANGED <<heap, index, picked, at>>
  BY DEF PushEnds
<1>2. /\ at < Len(heap)
      /\ \A i \in 1 .. Len(heap) - 1 : i # at => Ordered(i)
  BY <1>1 DEF IInv, RisingInv
<1>3. at \in 1 .. Len(heap) - 1 => Ordered(at)
  <2> SUFFICES ASSUME at \in 1 .. Len(heap) - 1 PROVE Ordered(at)
    OBVIOUS
  <2>1. ~ (heap[at + 1] < heap[Parent(at) + 1])
    BY <1>1, SliceOfNaturals DEF Rises, Less
  <2>2. /\ at + 1 \in 1 .. Len(heap) /\ Parent(at) + 1 \in 1 .. Len(heap)
        /\ at + 1 # Parent(at) + 1
    BY ParentBounds, SliceOfNaturals
  <2>3. heap[at + 1] # heap[Parent(at) + 1]
    BY <2>2, SliceOfNaturals
  <2> QED BY <2>1, <2>2, <2>3, SliceOfNaturals DEF Ordered
<1>4. \A i \in 1 .. Len(heap) - 1 : Ordered(i)
  BY <1>2, <1>3
<1>5. HeapOrdered'
  BY <1>1, <1>4 DEF IInv, HeapOrdered, Ordered
<1> QED BY <1>1, <1>5 DEF IInv, TypeOK, RisingInv, SinkingInv

LEMMA PickKeeps ==
  ASSUME IInv, Pick
  PROVE  IInv'
<1> DEFINE n == Len(heap) - 1
<1>1. /\ mu = "free" /\ mu' = "down" /\ picked' = picked
      /\ heap # <<>> /\ Swap(0, n) /\ at' = 0
  BY DEF Pick
<1>2. \A i \in 1 .. Len(heap) - 1 : Ordered(i)
  BY <1>1 DEF IInv, HeapOrdered
<1>3. /\ Len(heap) \in Nat /\ Indexed /\ TypeOK /\ heap \in Seq(Items)
      /\ \A k \in 1 .. Len(heap) : heap[k] \in Nat
  BY SliceOfNaturals DEF IInv, TypeOK
<1>4. n \in Nat /\ n \in 0 .. Len(heap) - 1 /\ 0 \in 0 .. Len(heap) - 1
  BY <1>1, <1>3
<1>5. /\ heap' \in Seq(Items) /\ Len(heap') = Len(heap)
      /\ heap'[0 + 1] = heap[n + 1] /\ heap'[n + 1] = heap[0 + 1]
      /\ \A k \in 0 .. Len(heap) - 1 : k # 0 /\ k # n => heap'[k + 1] = heap[k + 1]
      /\ Range(heap') = Range(heap)
      /\ index' \in [Items -> Int]
      /\ Indexed'
  BY <1>1, <1>3, <1>4, SwapMoves
<1> HIDE DEF n
<1>6. TypeOK'
  BY <1>1, <1>3, <1>5 DEF TypeOK
<1>7. HeapOrdered' /\ RisingInv'
  BY <1>1, <1>5 DEF HeapOrdered, Indexed, RisingInv
<1>8. ASSUME NEW i \in 1 .. n - 1, Parent(i) # 0
      PROVE  heap'[Parent(i) + 1] < heap'[i + 1]
  <2>1. Parent(i) \in Nat /\ Parent(i) < i
    BY <1>4, ParentBounds
  <2>2. i \in 1 .. Len(heap) - 1
    BY <1>3, <1>4 DEF n
  <2>3. heap[Parent(i) + 1] < heap[i + 1]
    BY <1>2, <2>2 DEF Ordered
  <2>4. /\ i \in 0 .. Len(heap) - 1 /\ i # 0 /\ i # n
        /\ Parent(i) \in 0 .. Len(heap) - 1 /\ Parent(i) # n
    BY <1>3, <1>4, <2>1, <2>2
  <2> QED BY <1>5, <1>8, <2>3, <2>4
<1>9. \A k \in 1 .. Len(heap) : heap[1] <= heap[k]
  BY <1>1, <1>2, <1>3, RootIsLeast DEF Ordered
<1>10. ASSUME NEW k \in 1 .. Len(heap') PROVE heap'[Len(heap')] <= heap'[k]
  <2>1. heap'[k] \in Range(heap)
    BY <1>5, RangeOfSlice
  <2>2. PICK l \in 1 .. Len(heap) : heap[l] = heap'[k]
    BY <1>3, <2>1, RangeOfSlice
  <2>3. heap'[Len(heap')] = heap[1]
    BY <1>3, <1>5 DEF n
  <2> QED BY <1>9, <2>2, <2>3
<1>11. OrderedUnder(n)'
  <2>1. n' = n
    BY <1>5 DEF n
  <2> QED BY <1>1, <1>8, <2>1 DEF OrderedUnder, Ordered
<1>12. SinkingInv'
  <2>1. Len(heap') > 0 /\ at' < Len(heap')
    BY <1>1, <1>4, <1>5 DEF n
  <2>2. OrderedUnder(Len(heap) - 1)'
    BY <1>11 DEF n
  <2> QED BY <1>10, <2>1, <2>2 DEF SinkingInv
<1> QED BY <1>6, <1>7, <1>12 DEF IInv

(* The lesser child is a child within the bound and not above its sibling. *)
LEMMA LesserChildIs ==
  ASSUME IInv, NEW n \in Nat, n < Len(heap), LesserChild(at, n) < n
  PROVE  /\ LesserChild(at, n) \in 1 .. n - 1
         /\ Parent(LesserChild(at, n)) = at
         /\ \A i \in 1 .. n - 1 : Parent(i) = at =>
              heap[LesserChild(at, n) + 1] <= heap[i + 1]
<1> DEFINE l == 2 * at + 1
<1>1. /\ Len(heap) \in Nat /\ at \in Nat
      /\ \A k \in 1 .. Len(heap) : heap[k] \in Nat
  BY SliceOfNaturals
<1>2. l < n
  BY <1>1 DEF LesserChild
<1>3. ASSUME NEW i \in 1 .. n - 1, Parent(i) = at PROVE i = l \/ i = l + 1
  <2>1. i \in Nat /\ i > 0
    OBVIOUS
  <2>2. i = 2 * Parent(i) + 1 \/ i = 2 * Parent(i) + 2
    BY <2>1, ParentBounds
  <2> QED BY <1>1, <1>3, <2>2
<1>4. Parent(l) = at /\ Parent(l + 1) = at
  BY <1>1 DEF Parent
<1>5. CASE l + 1 < n /\ heap[l + 1 + 1] < heap[l + 1]
  <2>1. LesserChild(at, n) = l + 1
    BY <1>1, <1>2, <1>5 DEF LesserChild, Less
  <2>2. heap[l + 1 + 1] \in Nat /\ heap[l + 1] \in Nat
    BY <1>1, <1>2, <1>5
  <2>3. \A i \in 1 .. n - 1 : Parent(i) = at => heap[l + 1 + 1] <= heap[i + 1]
    BY <1>3, <1>5, <2>2
  <2>4. l + 1 \in 1 .. n - 1
    BY <1>1, <1>5
  <2> HIDE DEF l
  <2> QED BY <1>4, <2>1, <2>3, <2>4
<1>6. CASE ~(l + 1 < n /\ heap[l + 1 + 1] < heap[l + 1])
  <2>1. LesserChild(at, n) = l
    BY <1>1, <1>2, <1>6 DEF LesserChild, Less
  <2>2. heap[l + 1] \in Nat
    BY <1>1, <1>2
  <2>3. ASSUME NEW i \in 1 .. n - 1, Parent(i) = at PROVE heap[l + 1] <= heap[i + 1]
    <3>1. CASE i = l
      BY <2>2, <3>1
    <3>2. CASE i = l + 1
      <4>1. heap[i + 1] \in Nat /\ l + 1 < n
        BY <1>1, <3>2
      <4> QED BY <1>6, <2>2, <3>2, <4>1
    <3> QED BY <1>3, <2>3, <3>1, <3>2
  <2>4. l \in 1 .. n - 1
    BY <1>1, <1>2
  <2> HIDE DEF l
  <2> QED BY <1>4, <2>1, <2>3, <2>4
<1> QED BY <1>5, <1>6

LEMMA DownStepKeeps ==
  ASSUME IInv, DownStep
  PROVE  IInv'
<1>1. PICK n : n = Len(heap) - 1
  OBVIOUS
<1>2. PICK c : c = LesserChild(at, n)
  OBVIOUS
<1>3. /\ mu = "down" /\ mu' = "down" /\ picked' = picked
      /\ c < n /\ heap[c + 1] < heap[at + 1]
      /\ Swap(at, c) /\ at' = c
  BY <1>1, <1>2 DEF DownStep, Sinks, Less
<1>4. /\ Len(heap) > 0 /\ at < Len(heap)
      /\ OrderedUnder(n)
      /\ \A i \in 1 .. Len(heap) : heap[n + 1] <= heap[i]
  <2>1. Len(heap) > 0 /\ n + 1 = Len(heap)
    BY <1>1, <1>3, SliceOfNaturals DEF IInv, SinkingInv
  <2> QED BY <1>1, <1>3, <2>1 DEF IInv, SinkingInv
<1>5. /\ Len(heap) \in Nat /\ at \in Nat /\ Indexed /\ TypeOK /\ heap \in Seq(Items)
      /\ \A k \in 1 .. Len(heap) : heap[k] \in Nat
      /\ \A k, l \in 1 .. Len(heap) : heap[k] = heap[l] => k = l
  BY SliceOfNaturals DEF IInv, TypeOK
<1>6. n \in Nat /\ n < Len(heap)
  BY <1>1, <1>4, <1>5
<1>7. /\ c \in 1 .. n - 1 /\ Parent(c) = at
      /\ \A i \in 1 .. n - 1 : Parent(i) = at => heap[c + 1] <= heap[i + 1]
  BY <1>2, <1>3, <1>6, LesserChildIs
<1>8. /\ at \in 0 .. Len(heap) - 1 /\ c \in 0 .. Len(heap) - 1
      /\ c \in Nat /\ at < c /\ c < n
  BY <1>3, <1>5, <1>6, <1>7, ParentBounds
<1>9. /\ heap' \in Seq(Items) /\ Len(heap') = Len(heap)
      /\ heap'[at + 1] = heap[c + 1] /\ heap'[c + 1] = heap[at + 1]
      /\ \A k \in 0 .. Len(heap) - 1 : k # at /\ k # c => heap'[k + 1] = heap[k + 1]
      /\ Range(heap') = Range(heap)
      /\ index' \in [Items -> Int]
      /\ Indexed'
  BY <1>3, <1>5, <1>8, SwapMoves
<1>10. TypeOK'
  BY <1>3, <1>5, <1>8, <1>9 DEF TypeOK
<1>11. HeapOrdered' /\ RisingInv'
  BY <1>3, <1>9 DEF HeapOrdered, Indexed, RisingInv
<1>12. ASSUME NEW i \in 1 .. n - 1, Parent(i) # c
       PROVE  heap'[Parent(i) + 1] < heap'[i + 1]
  <2>1. /\ Parent(i) \in 0 .. Len(heap) - 1 /\ i \in 0 .. Len(heap) - 1
        /\ Parent(i) < i
    BY <1>5, <1>6, ParentBounds
  <2>2. CASE i = c
    BY <1>3, <1>7, <1>9, <2>2
  <2>3. CASE i # c /\ Parent(i) = at
    <3>1. heap[c + 1] <= heap[i + 1] /\ heap[c + 1] # heap[i + 1]
      BY <1>5, <1>7, <1>8, <2>1, <2>3
    <3>2. heap'[i + 1] = heap[i + 1]
      <4>1. i # at /\ i # c
        BY <2>1, <2>3
      <4> QED BY <1>9, <2>1, <4>1
    <3>3. heap[c + 1] \in Nat /\ heap[i + 1] \in Nat
      BY <1>5, <1>8, <2>1
    <3> QED BY <1>9, <2>3, <3>1, <3>2, <3>3
  <2>4. CASE i # c /\ Parent(i) # at /\ i = at
    <3>1. heap[Parent(at) + 1] < heap[c + 1]
      BY <1>4, <1>7, <2>4 DEF OrderedUnder
    <3> QED BY <1>9, <1>12, <2>1, <2>4, <3>1
  <2>5. CASE i # c /\ Parent(i) # at /\ i # at
    <3>1. heap[Parent(i) + 1] < heap[i + 1]
      BY <1>4, <2>5 DEF OrderedUnder, Ordered
    <3> QED BY <1>9, <1>12, <2>1, <2>5, <3>1
  <2> QED BY <2>2, <2>3, <2>4, <2>5
<1>13. ASSUME NEW i \in 1 .. n - 1, Parent(i) = c
       PROVE  heap'[Parent(c) + 1] < heap'[i + 1]
  <2>1. i \in 0 .. Len(heap) - 1 /\ c < i /\ i # at /\ i # c /\ c # at
    BY <1>5, <1>6, <1>8, <1>13, ParentBounds
  <2>2. heap[c + 1] < heap[i + 1]
    BY <1>4, <1>13, <2>1 DEF OrderedUnder, Ordered
  <2> QED BY <1>7, <1>9, <2>1, <2>2
<1>14. OrderedUnder(n)'
  BY <1>3, <1>12, <1>13 DEF OrderedUnder, Ordered
<1>15. ASSUME NEW k \in 1 .. Len(heap') PROVE heap'[Len(heap')] <= heap'[k]
  <2>1. heap'[k] \in Range(heap)
    BY <1>9, RangeOfSlice
  <2>2. PICK l \in 1 .. Len(heap) : heap[l] = heap'[k]
    BY <1>5, <2>1, RangeOfSlice
  <2>3. heap'[n + 1] = heap[n + 1]
    <3>1. n \in 0 .. Len(heap) - 1 /\ n # at /\ n # c
      BY <1>1, <1>6, <1>8
    <3> QED BY <1>9, <3>1
  <2>4. n + 1 = Len(heap')
    BY <1>1, <1>5, <1>9
  <2> QED BY <1>4, <2>2, <2>3, <2>4
<1>16. SinkingInv'
  <2>1. Len(heap') > 0 /\ at' < Len(heap')
    BY <1>3, <1>6, <1>8, <1>9
  <2>2. OrderedUnder(Len(heap) - 1)'
    BY <1>1, <1>9, <1>14
  <2> QED BY <1>15, <2>1, <2>2 DEF SinkingInv
<1> QED BY <1>10, <1>11, <1>16 DEF IInv

LEMMA PickEndsKeeps ==
  ASSUME IInv, PickEnds
  PROVE  IInv'
<1>1. PICK n : n = Len(heap) - 1
  OBVIOUS
<1>2. /\ mu = "down" /\ mu' = "free" /\ ~Sinks /\ at' = at
      /\ heap' = SubSeq(heap, 1, n)
      /\ index' = [index EXCEPT ![heap[Len(heap)]] = -1]
      /\ picked' = heap[Len(heap)]
  BY <1>1 DEF PickEnds, PopBack
<1>3. Len(heap) > 0 /\ at < Len(heap) /\ OrderedUnder(n)
  BY <1>1, <1>2 DEF IInv, SinkingInv
<1>4. /\ Len(heap) \in Nat /\ at \in Nat /\ Indexed /\ TypeOK /\ heap \in Seq(Items)
      /\ \A k \in 1 .. Len(heap) : heap[k] \in Nat
      /\ \A k, l \in 1 .. Len(heap) : heap[k] = heap[l] => k = l
  BY SliceOfNaturals DEF IInv, TypeOK
<1>5. n \in Nat /\ n < Len(heap) /\ Len(heap) = n + 1
  BY <1>1, <1>3, <1>4
<1>6. /\ heap' \in Seq(Items) /\ Len(heap') = n
      /\ \A k \in 1 .. n : heap'[k] = heap[k]
  BY <1>2, <1>4, <1>5
<1>7. heap[Len(heap)] \in Items
  BY <1>4, <1>5
<1>8. TypeOK'
  BY <1>2, <1>4, <1>6, <1>7 DEF TypeOK
<1>9. Indexed'
  <2>1. ASSUME NEW k \in 1 .. n PROVE index'[heap'[k]] = k - 1
    <3>1. heap[k] \in Items /\ heap[k] # heap[Len(heap)] /\ index[heap[k]] = k - 1
      <4>1. k \in 1 .. Len(heap) /\ Len(heap) \in 1 .. Len(heap) /\ k # Len(heap)
        BY <1>5
      <4>2. heap[k] \in Items /\ index[heap[k]] = k - 1
        BY <1>4, <4>1 DEF Indexed
      <4> QED BY <1>4, <4>1, <4>2
    <3> QED BY <1>2, <1>4, <1>6, <3>1 DEF TypeOK
  <2>2. ASSUME NEW x \in Items, x \notin Range(heap') PROVE index'[x] = -1
    <3>1. CASE x = heap[Len(heap)]
      BY <1>2, <1>4, <3>1 DEF TypeOK
    <3>2. CASE x # heap[Len(heap)]
      <4>1. \A k \in 1 .. n : heap[k] # x
        BY <1>6, <2>2, RangeOfSlice
      <4>2. \A k \in 1 .. Len(heap) : heap[k] # x
        BY <1>5, <3>2, <4>1
      <4>3. x \notin Range(heap)
        BY <1>4, <4>2, RangeOfSlice
      <4> QED BY <1>2, <1>4, <1>7, <3>2, <4>3 DEF Indexed, TypeOK
    <3> QED BY <3>1, <3>2
  <2>3. DOMAIN heap' = 1 .. n
    BY <1>6
  <2> QED BY <2>1, <2>2, <2>3, Zenon DEF Indexed
<1>10. ASSUME NEW i \in 1 .. n - 1 PROVE heap'[Parent(i) + 1] < heap'[i + 1]
  <2>1. /\ Parent(i) + 1 \in 1 .. n /\ i + 1 \in 1 .. n /\ Parent(i) < i
    BY <1>5, ParentBounds
  <2>2. heap[Parent(i) + 1] < heap[i + 1]
    <3>1. CASE Parent(i) # at
      BY <1>3, <3>1 DEF OrderedUnder, Ordered
    <3>2. CASE Parent(i) = at
      <4>1. PICK c : c = LesserChild(at, n)
        OBVIOUS
      <4>2. c < n
        <5>1. 2 * at + 1 < n
          <6>1. i = 2 * at + 1 \/ i = 2 * at + 2
            BY <3>2, ParentBounds
          <6> QED BY <1>4, <1>5, <6>1
        <5> QED BY <1>4, <1>5, <4>1, <5>1 DEF LesserChild
      <4>3. ~ (heap[c + 1] < heap[at + 1])
        BY <1>1, <1>2, <4>1, <4>2 DEF Sinks, Less
      <4>4. /\ c \in 1 .. n - 1 /\ heap[c + 1] <= heap[i + 1] /\ Parent(c) = at
        BY <1>5, <3>2, <4>1, <4>2, LesserChildIs
      <4>5. /\ heap[c + 1] \in Nat /\ heap[at + 1] \in Nat /\ heap[i + 1] \in Nat
            /\ heap[at + 1] # heap[i + 1]
        <5>1. /\ c + 1 \in 1 .. Len(heap) /\ at + 1 \in 1 .. Len(heap)
              /\ i + 1 \in 1 .. Len(heap) /\ at + 1 # i + 1
          BY <1>4, <1>5, <2>1, <3>2, <4>4
        <5> QED BY <1>4, <5>1
      <4> QED BY <3>2, <4>3, <4>4, <4>5
    <3> QED BY <3>1, <3>2
  <2> QED BY <1>6, <2>1, <2>2
<1>11. HeapOrdered'
  BY <1>6, <1>9, <1>10 DEF HeapOrdered, Indexed, Ordered
<1> QED BY <1>2, <1>8, <1>11 DEF IInv, RisingInv, SinkingInv

LEMMA IInvNext == IInv /\ [Next]_vars => IInv'
<1> SUFFICES ASSUME IInv, [Next]_vars PROVE IInv'
  OBVIOUS
<1>1. ASSUME NEW x \in Items, Push(x) PROVE IInv'
  BY <1>1, PushKeeps
<1>2. CASE UpStep
  BY <1>2, UpStepKeeps
<1>3. CASE PushEnds
  BY <1>3, PushEndsKeeps
<1>4. CASE Pick
  BY <1>4, PickKeeps
<1>5. CASE DownStep
  BY <1>5, DownStepKeeps
<1>6. CASE PickEnds
  BY <1>6, PickEndsKeeps
<1>7. CASE UNCHANGED vars
  BY <1>7 DEF vars, IInv, TypeOK, HeapOrdered, RisingInv, SinkingInv,
              OrderedUnder, Ordered
<1> QED BY <1>1, <1>2, <1>3, <1>4, <1>5, <1>6, <1>7 DEF Next

LEMMA Inductive == Spec => []IInv
BY IInvInit, IInvNext, PTL DEF Spec

(* Whoever takes the lock of WrapHeap finds a heap, and the indexes are    *)
(* right before and after every exchange, however the pushes and picks of  *)
(* any finite set of sequence numbers follow one another.                  *)
THEOREM HeapStaysOrdered == Spec => []HeapOrdered
<1>1. IInv => HeapOrdered
  BY DEF IInv
<1> QED BY <1>1, Inductive, PTL

-----------------------------------------------------------------------------
(* The refinement of PriorityQueue *)

LEMMA QueueInit == Init => Queue!Init
<1>1. Range(<< >>) = {}
  BY DEF Range
<1> QED BY <1>1 DEF Init, Queue!Init

(* Every step of the heap is a Put, a TakeLeast or none at all. *)
LEMMA QueueNext ==
  ASSUME IInv, [Next]_vars
  PROVE  [Queue!Next]_(Queue!queueVars)
<1>1. ASSUME NEW x \in Items, Push(x) PROVE Queue!Put
  <2>1. heap' = Append(heap, x) /\ picked' = 0 /\ x \notin Range(heap)
    BY <1>1 DEF Push, PushBack
  <2>2. /\ heap \in Seq(Items) /\ heap' \in Seq(Items) /\ Len(heap) \in Nat
        /\ Len(heap') = Len(heap) + 1 /\ heap'[Len(heap) + 1] = x
        /\ \A k \in 1 .. Len(heap) : heap'[k] = heap[k]
    BY <2>1 DEF IInv, TypeOK
  <2>3. ASSUME NEW y \in Range(heap') PROVE y \in Range(heap) \cup {x}
    <3>1. PICK k \in 1 .. Len(heap') : heap'[k] = y
      BY <2>2, RangeOfSlice
    <3>2. CASE k = Len(heap) + 1
      BY <2>2, <3>1, <3>2
    <3>3. CASE k \in 1 .. Len(heap)
      BY <2>2, <3>1, <3>3, RangeOfSlice
    <3> QED BY <2>2, <3>1, <3>2, <3>3
  <2>4. x \in Range(heap')
    BY <2>2, RangeOfSlice
  <2>5. ASSUME NEW y \in Range(heap) PROVE y \in Range(heap')
    <3>1. PICK k \in 1 .. Len(heap) : heap[k] = y
      BY <2>2, RangeOfSlice
    <3>2. k \in 1 .. Len(heap') /\ heap'[k] = y
      BY <2>2, <3>1
    <3> QED BY <2>2, <3>2, RangeOfSlice
  <2>6. Range(heap') = Range(heap) \cup {x}
    BY <2>3, <2>4, <2>5
  <2> QED BY <2>1, <2>6 DEF Queue!Put, Queue!Add
<1>2. ASSUME UpStep \/ Pick \/ DownStep PROVE UNCHANGED <<Range(heap), picked>>
  <2>1. Range(heap') = Range(heap)
    <3>1. TypeOK /\ Indexed /\ at \in Nat /\ Len(heap) \in Nat
      BY SliceOfNaturals DEF IInv
    <3>2. CASE UpStep
      <4>1. at \in 0 .. Len(heap) - 1 /\ at > 0 /\ Swap(Parent(at), at)
        BY <3>1, <3>2 DEF UpStep, Rises, IInv, RisingInv
      <4>2. Parent(at) \in 0 .. Len(heap) - 1
        BY <3>1, <4>1, ParentBounds
      <4> QED BY <3>1, <4>1, <4>2, SwapMoves
    <3>3. CASE Pick
      <4>1. /\ 0 \in 0 .. Len(heap) - 1 /\ Len(heap) - 1 \in 0 .. Len(heap) - 1
            /\ Swap(0, Len(heap) - 1)
        BY <3>1, <3>3 DEF Pick, TypeOK
      <4> QED BY <3>1, <4>1, SwapMoves
    <3>4. CASE DownStep
      <4>1. PICK n : n = Len(heap) - 1
        OBVIOUS
      <4>2. PICK c : c = LesserChild(at, n)
        OBVIOUS
      <4>3. mu = "down" /\ c < n /\ Swap(at, c)
        BY <3>4, <4>1, <4>2 DEF DownStep, Sinks
      <4>4. /\ n \in Nat /\ n < Len(heap) /\ at \in 0 .. Len(heap) - 1
        BY <3>1, <4>1, <4>3 DEF IInv, SinkingInv
      <4>5. c \in 1 .. n - 1
        BY <4>2, <4>3, <4>4, LesserChildIs
      <4>6. c \in 0 .. Len(heap) - 1
        BY <3>1, <4>4, <4>5
      <4> QED BY <3>1, <4>3, <4>4, <4>6, SwapMoves
    <3> QED BY <1>2, <3>2, <3>3, <3>4
  <2>2. picked' = picked
    BY <1>2 DEF UpStep, Pick, DownStep
  <2> QED BY <2>1, <2>2
<1>3. CASE PickEnds
  <2>1. PICK z : z = heap[Len(heap)]
    OBVIOUS
  <2>2. PICK n : n = Len(heap) - 1
    OBVIOUS
  <2>3. /\ heap' = SubSeq(heap, 1, n) /\ picked' = z
        /\ Len(heap) > 0 /\ \A k \in 1 .. Len(heap) : z <= heap[k]
    BY <1>3, <2>1, <2>2 DEF PickEnds, PopBack, IInv, SinkingInv
  <2>4. /\ heap \in Seq(Items) /\ n \in Nat /\ Len(heap) = n + 1
        /\ \A k, l \in 1 .. Len(heap) : heap[k] = heap[l] => k = l
    BY <2>2, <2>3, SliceOfNaturals DEF IInv, TypeOK
  <2>5. /\ heap' \in Seq(Items) /\ Len(heap') = n
        /\ \A k \in 1 .. n : heap'[k] = heap[k]
    BY <2>3, <2>4
  <2>6. z \in Range(heap) /\ \A y \in Range(heap) : z <= y
    BY <2>1, <2>3, <2>4, RangeOfSlice
  <2>7. ASSUME NEW y \in Range(heap') PROVE y \in Range(heap) \ {z}
    <3>1. PICK k \in 1 .. n : heap'[k] = y
      BY <2>5, RangeOfSlice
    <3>2. /\ k \in 1 .. Len(heap) /\ Len(heap) \in 1 .. Len(heap) /\ k # Len(heap)
          /\ heap[k] = y
      BY <2>4, <2>5, <3>1
    <3> QED BY <2>1, <2>4, <3>2, RangeOfSlice
  <2>8. ASSUME NEW y \in Range(heap), y # z PROVE y \in Range(heap')
    <3>1. PICK k \in 1 .. Len(heap) : heap[k] = y
      BY <2>4, RangeOfSlice
    <3>2. k \in 1 .. n /\ heap'[k] = y
      BY <2>1, <2>4, <2>5, <2>8, <3>1
    <3> QED BY <2>5, <3>2, RangeOfSlice
  <2>9. Range(heap') = Range(heap) \ {z}
    BY <2>7, <2>8
  <2> QED BY <2>3, <2>6, <2>9 DEF Queue!Next, Queue!TakeLeast, Queue!RemoveLeast
<1>4. CASE PushEnds \/ UNCHANGED vars
  BY <1>4 DEF PushEnds, vars, Queue!queueVars
<1> QED BY <1>1, <1>2, <1>3, <1>4 DEF Next, Queue!Next, Queue!queueVars

(* WrapHeap is a priority queue: Pick returns the least of the sequence    *)
(* numbers pushed and not picked, for any finite set of them.              *)
THEOREM HeapIsPriorityQueue == Spec => ImplementsPriorityQueue
<1>1. Init => Queue!Init
  BY QueueInit
<1>2. IInv /\ [Next]_vars => [Queue!Next]_(Queue!queueVars)
  BY QueueNext
<1> QED BY <1>1, <1>2, Inductive, PTL DEF Spec, ImplementsPriorityQueue, Queue!Spec

-----------------------------------------------------------------------------
(* How long the lock is held *)

(* Each iteration of up at least halves the position and each of down at   *)
(* least doubles it, within a slice whose length does not change: a Push   *)
(* or a Pick gives the lock back after as many exchanges as the tree has   *)
(* levels.                                                                 *)
LoopsAdvance ==
  [][ /\ mu = "up" /\ mu' = "up" =>
           2 * at' + 1 <= at /\ Len(heap') = Len(heap)
      /\ mu = "down" /\ mu' = "down" =>
           /\ 2 * at + 1 <= at' /\ at' < Len(heap) - 1
           /\ Len(heap') = Len(heap) ]_vars

LEMMA SwapKeepsLength ==
  ASSUME TypeOK, NEW i, NEW j, Swap(i, j)
  PROVE  Len(heap') = Len(heap)
BY DEF Swap, TypeOK

(* The loops under the lock of WrapHeap always end, for any number of items. *)
THEOREM LoopsEnd == Spec => LoopsAdvance
<1>1. ASSUME IInv, Next
      PROVE  /\ mu = "up" /\ mu' = "up" =>
                  2 * at' + 1 <= at /\ Len(heap') = Len(heap)
             /\ mu = "down" /\ mu' = "down" =>
                  /\ 2 * at + 1 <= at' /\ at' < Len(heap) - 1
                  /\ Len(heap') = Len(heap)
  <2>1. TypeOK /\ at \in Nat /\ Len(heap) \in Nat
    BY <1>1 DEF IInv, TypeOK
  <2>2. CASE mu = "up" /\ mu' = "up"
    <3>1. UpStep
      BY <1>1, <2>2 DEF Next, Push, PushEnds, Pick, DownStep, PickEnds
    <3>2. at > 0 /\ at' = Parent(at) /\ Swap(Parent(at), at)
      BY <3>1 DEF UpStep, Rises
    <3>3. Len(heap') = Len(heap)
      BY <2>1, <3>2, SwapKeepsLength
    <3>4. 2 * at' + 1 <= at
      <4>1. PICK k : k = Parent(at)
        OBVIOUS
      <4>2. k \in Nat /\ (at = 2 * k + 1 \/ at = 2 * k + 2)
        BY <2>1, <3>2, <4>1, ParentBounds
      <4> QED BY <2>1, <3>2, <4>1, <4>2
    <3> QED BY <2>2, <3>3, <3>4
  <2>3. CASE mu = "down" /\ mu' = "down"
    <3>1. DownStep
      BY <1>1, <2>3 DEF Next, Push, PushEnds, Pick, UpStep, PickEnds
    <3>2. PICK n : n = Len(heap) - 1
      OBVIOUS
    <3>3. PICK c : c = LesserChild(at, n)
      OBVIOUS
    <3>4. at' = c /\ c < n /\ Swap(at, c)
      BY <3>1, <3>2, <3>3 DEF DownStep, Sinks
    <3>5. n \in Nat /\ n < Len(heap)
      BY <1>1, <2>1, <2>3, <3>2 DEF IInv, SinkingInv
    <3>6. 2 * at + 1 <= c
      <4>1. ~ (2 * at + 1 >= n)
        BY <3>3, <3>4, <3>5 DEF LesserChild
      <4>2. c = 2 * at + 1 \/ c = 2 * at + 1 + 1
        BY <3>3, <4>1 DEF LesserChild
      <4> QED BY <2>1, <4>2
    <3>7. Len(heap') = Len(heap)
      BY <2>1, <3>4, SwapKeepsLength
    <3> QED BY <2>3, <3>2, <3>4, <3>6, <3>7
  <2> QED BY <2>2, <2>3
<1> QED BY <1>1, Inductive, PTL DEF Spec, LoopsAdvance
=============================================================================
