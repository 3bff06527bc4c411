------------------------- MODULE SmartBuffer_proofs -------------------------
(***************************************************************************)
(* Theorems about SmartBuffer, for every capacity, every width of the      *)
(* indexes and every set of writers and readers.                           *)
(***************************************************************************)
EXTENDS SmartBuffer, FiniteSetTheorems, TLAPS

-----------------------------------------------------------------------------
(* The operations of the ring keep its type *)

LEMMA calcPosType ==
  ASSUME NEW i \in Int
  PROVE  calcPos(i) \in Positions
  BY CapacityAssumption DEF calcPos, Positions

LEMMA NextIndexType ==
  ASSUME NEW i \in Indexes
  PROVE  NextIndex(i) \in Indexes
  BY MaxIndexAssumption DEF NextIndex, Indexes

LEMMA StoreFieldType ==
  ASSUME NEW b \in Rings, NEW p \in Positions, NEW f \in Fields,
         NEW m \in Payloads
  PROVE  StoreField(b, p, f, m) \in Rings
<1>1. CASE f = "ptr"
  BY <1>1 DEF StoreField, Rings, Items
<1>2. CASE f = "size"
  BY <1>2 DEF StoreField, Rings, Items
<1> QED
  BY <1>1, <1>2 DEF Fields

LEMMA RingTypes ==
  ASSUME NEW b \in Rings
  PROVE  /\ \A s \in BufferStates : SetState(b, s) \in Rings
         /\ SealFull(b) \in Rings
         /\ ClaimHead(b) \in Rings /\ ClaimTail(b) \in Rings
         /\ \A p \in Positions : StoreItem(b, p, EmptyItem) \in Rings
         /\ \A d \in Int : AddCount(b, d) \in Rings
         /\ ZeroCount(b) \in Rings /\ RewindIndexes(b) \in Rings
<1>1. \A s \in BufferStates : SetState(b, s) \in Rings
  BY DEF Rings, SetState
<1>2. SealFull(b) \in Rings
  BY DEF Rings, SealFull, BufferStates, WriteOnly, ReadOnly
<1>3. ClaimHead(b) \in Rings /\ ClaimTail(b) \in Rings
  <2>1. NextIndex(b.head) \in Indexes /\ NextIndex(b.tail) \in Indexes
    BY NextIndexType DEF Rings
  <2> QED
    BY <2>1 DEF Rings, ClaimHead, ClaimTail
<1>4. \A p \in Positions : StoreItem(b, p, EmptyItem) \in Rings
  BY MaxMsgsAssumption DEF Rings, StoreItem, EmptyItem, Items, Payloads
<1>5. \A d \in Int : AddCount(b, d) \in Rings
  BY DEF Rings, AddCount
<1>6. ZeroCount(b) \in Rings /\ RewindIndexes(b) \in Rings
  <2>1. ZeroCount(b) \in Rings
    BY DEF Rings, ZeroCount
  <2>2. -1 \in Indexes
    BY MaxIndexAssumption DEF Indexes
  <2>3. RewindIndexes(b) \in Rings
    BY <2>2 DEF Rings, RewindIndexes
  <2> QED
    BY <2>1, <2>3
<1> QED
  BY <1>1, <1>2, <1>3, <1>4, <1>5, <1>6

-----------------------------------------------------------------------------
(* Type correctness *)

LEMMA TypeInit == Init => TypeOK
<1> SUFFICES ASSUME Init PROVE TypeOK
  OBVIOUS
<1>1. ring \in Rings
  BY CapacityAssumption, MaxIndexAssumption, MaxMsgsAssumption
  DEF Init, NewSmartBuffer, Rings, Items, EmptyItem, Payloads, Indexes,
      BufferStates
<1>2. idx \in [Threads -> Indexes]
  BY MaxIndexAssumption DEF Init, Indexes
<1> QED
  BY <1>1, <1>2, MaxMsgsAssumption, ThreadsAssumption
  DEF Init, TypeOK, WriterPcs, ReaderPcs, Threads, Payloads

LEMMA TypeWriter ==
  ASSUME TypeOK, NEW w \in Writers, WriterStep(w)
  PROVE  TypeOK'
<1> USE ThreadsAssumption DEF Threads
<1>t. w \in Threads /\ w \notin Readers
  OBVIOUS
<1>1. CASE Write(w)
  BY <1>1, <1>t, MaxMsgsAssumption
  DEF Write, Goto, TypeOK, WriterPcs, ReaderPcs, Payloads
<1>2. CASE PushState(w)
  BY <1>2, <1>t DEF PushState, Goto, TypeOK, WriterPcs, ReaderPcs
<1>3. CASE PushCount(w)
  BY <1>3, <1>t DEF PushCount, Goto, TypeOK, WriterPcs, ReaderPcs
<1>4. CASE PushSeal(w)
  BY <1>4, <1>t, RingTypes DEF PushSeal, Goto, TypeOK, WriterPcs, ReaderPcs
<1>5. CASE PushClaim(w)
  <2>1. ring.head \in Indexes
    BY DEF TypeOK, Rings
  <2>2. ring' \in Rings
    BY <1>5, RingTypes DEF PushClaim, TypeOK
  <2>3. idx' \in [Threads -> Indexes] /\ unstored' \in [Writers -> SUBSET Fields]
    BY <1>5, <1>t, <2>1 DEF PushClaim, TypeOK
  <2>4. pc' = [pc EXCEPT ![w] = "store"] /\ UNCHANGED <<msg, calls, committed, popped>>
    BY <1>5 DEF PushClaim, Goto
  <2> QED
    BY <1>t, <2>2, <2>3, <2>4 DEF TypeOK, WriterPcs, ReaderPcs
<1>6. CASE PushStore(w)
  <2>1. PICK f \in unstored[w] :
          /\ Goto(w, "store", IF unstored[w] = {f} THEN "inc" ELSE "store")
          /\ ring' = StoreField(ring, calcPos(idx[w]), f, msg[w])
          /\ unstored' = [unstored EXCEPT ![w] = unstored[w] \ {f}]
          /\ UNCHANGED <<idx, msg, calls, committed, popped>>
    BY <1>6 DEF PushStore
  <2>2. ring' \in Rings
    <3>1. idx[w] \in Int
      BY <1>t, MaxIndexAssumption DEF TypeOK, Indexes
    <3> QED
      BY <2>1, <3>1, calcPosType, StoreFieldType DEF TypeOK
  <2> QED
    BY <2>1, <2>2, <1>t DEF Goto, TypeOK, WriterPcs, ReaderPcs
<1>7. CASE PushInc(w)
  <2>1. ring' \in Rings
    <3>1. 1 \in Int
      OBVIOUS
    <3> QED
      BY <1>7, <3>1, RingTypes DEF PushInc, TypeOK
  <2>2. committed' \in Seq(Payloads)
    BY <1>7 DEF PushInc, TypeOK
  <2> QED
    BY <1>7, <1>t, <2>1, <2>2 DEF PushInc, Goto, TypeOK, WriterPcs, ReaderPcs
<1> QED
  BY <1>1, <1>2, <1>3, <1>4, <1>5, <1>6, <1>7 DEF WriterStep

LEMMA TypeReader ==
  ASSUME TypeOK, NEW r \in Readers, ReaderStep(r)
  PROVE  TypeOK'
<1> USE ThreadsAssumption DEF Threads
<1>t. r \in Threads /\ r \notin Writers
  OBVIOUS
<1>i. idx[r] \in Int
  BY <1>t, MaxIndexAssumption DEF TypeOK, Indexes
<1>1. CASE Pop(r)
  BY <1>1, <1>t DEF Pop, Goto, TypeOK, WriterPcs, ReaderPcs
<1>2. CASE PopCount(r)
  BY <1>2, <1>t DEF PopCount, Goto, TypeOK, WriterPcs, ReaderPcs
<1>3. CASE PopClaim(r)
  <2>1. ring.tail \in Indexes
    BY DEF TypeOK, Rings
  <2> QED
    BY <1>3, <1>t, <2>1, RingTypes DEF PopClaim, Goto, TypeOK, WriterPcs, ReaderPcs
<1>4. CASE PopRead(r)
  <2> DEFINE i == ring.buf[calcPos(idx[r])]
  <2>1. i \in Items
    BY <1>i, calcPosType DEF TypeOK, Rings
  <2>2. popped' \in Seq(Items)
    BY <1>4, <2>1 DEF PopRead, TypeOK
  <2> QED
    BY <1>4, <1>t, <2>2 DEF PopRead, Goto, TypeOK, WriterPcs, ReaderPcs
<1>5. CASE PopClear(r)
  <2>1. ring' \in Rings
    BY <1>5, <1>i, calcPosType, RingTypes DEF PopClear, TypeOK
  <2> QED
    BY <1>5, <1>t, <2>1 DEF PopClear, Goto, TypeOK, WriterPcs, ReaderPcs
<1>6. CASE PopDec(r)
  <2>1. ring' \in Rings
    <3>1. -1 \in Int
      OBVIOUS
    <3> QED
      BY <1>6, <3>1, RingTypes DEF PopDec, TypeOK
  <2> QED
    BY <1>6, <1>t, <2>1 DEF PopDec, Goto, TypeOK, WriterPcs, ReaderPcs
<1>7. CASE ResetState(r)
  BY <1>7, <1>t, RingTypes
  DEF ResetState, Goto, TypeOK, WriterPcs, ReaderPcs, BufferStates, WriteOnly
<1>8. CASE ResetCount(r)
  BY <1>8, <1>t, RingTypes DEF ResetCount, Goto, TypeOK, WriterPcs, ReaderPcs
<1>9. CASE ResetIndexes(r)
  BY <1>9, <1>t, RingTypes DEF ResetIndexes, Goto, TypeOK, WriterPcs, ReaderPcs
<1> QED
  BY <1>1, <1>2, <1>3, <1>4, <1>5, <1>6, <1>7, <1>8, <1>9 DEF ReaderStep

LEMMA TypeStep == TypeOK /\ [Next]_vars => TypeOK'
<1> SUFFICES ASSUME TypeOK, [Next]_vars PROVE TypeOK'
  OBVIOUS
<1>1. CASE \E w \in Writers : WriterStep(w)
  BY <1>1, TypeWriter
<1>2. CASE \E r \in Readers : ReaderStep(r)
  BY <1>2, TypeReader
<1>3. CASE OwnerSetState
  <2>1. ring' \in Rings
    BY <1>3, RingTypes, OwnerAssumption DEF OwnerSetState, TypeOK
  <2> QED
    BY <1>3, <2>1 DEF OwnerSetState, TypeOK
<1>4. CASE UNCHANGED vars
  BY <1>4 DEF vars, TypeOK
<1> QED
  BY <1>1, <1>2, <1>3, <1>4 DEF Next

(* The type invariant, through every interleaving and wrap-around. *)
THEOREM RingTypeOK == Spec => []TypeOK
  BY TypeInit, TypeStep, PTL DEF Spec

-----------------------------------------------------------------------------
(* CountBounded is inductive: a writer joins InFlight only when count is    *)
(* below Capacity, and there are never more of them than writers; after     *)
(* that the sum falls, or a unit moves from InFlight to count.              *)

LEMMA WriterSets ==
  ASSUME NEW S \in SUBSET Writers
  PROVE  /\ IsFiniteSet(S) /\ Cardinality(S) \in Nat
         /\ Cardinality(Writers) \in Nat
         /\ Cardinality(S) <= Cardinality(Writers)
  BY ThreadsAssumption, FS_Subset, FS_CardinalityType

LEMMA NotMore ==
  ASSUME TypeOK, TypeOK', CountBounded,
         InFlight' \subseteq InFlight, ring'.count <= ring.count
  PROVE  CountBounded'
<1>1. InFlight \in SUBSET Writers
  BY DEF InFlight
<1>2. /\ Cardinality(InFlight) \in Nat /\ Cardinality(InFlight') \in Nat
      /\ Cardinality(InFlight') <= Cardinality(InFlight)
      /\ Cardinality(Writers) \in Nat
  BY <1>1, WriterSets, FS_Subset
<1>3. ring.count \in Int /\ ring'.count \in Int
  BY DEF TypeOK, Rings
<1> QED
  BY <1>2, <1>3, CapacityAssumption DEF CountBounded

LEMMA BoundInit == Init => CountBounded
<1> SUFFICES ASSUME Init PROVE CountBounded
  OBVIOUS
<1>1. InFlight = {}
  BY DEF Init, InFlight, Threads
<1>2. Cardinality(InFlight) = 0 /\ Cardinality(Writers) \in Nat
  BY <1>1, FS_EmptySet, WriterSets
<1>3. ring.count = 0
  BY DEF Init, NewSmartBuffer
<1> QED
  BY <1>2, <1>3, CapacityAssumption DEF CountBounded

LEMMA BoundWriter ==
  ASSUME TypeOK, TypeOK', CountBounded, NEW w \in Writers, WriterStep(w)
  PROVE  CountBounded'
<1>t. w \in Threads
  BY DEF Threads
<1>p. pc \in [Threads -> WriterPcs \cup ReaderPcs] /\ Writers \subseteq Threads
  BY DEF TypeOK, Threads
<1>c. /\ ring.count \in Int /\ ring'.count \in Int
      /\ Cardinality(InFlight) \in Nat /\ Cardinality(InFlight') \in Nat
      /\ Cardinality(InFlight') <= Cardinality(Writers)
      /\ Cardinality(Writers) \in Nat
  <2>1. InFlight \in SUBSET Writers /\ InFlight' \in SUBSET Writers
    BY DEF InFlight
  <2> QED
    BY <2>1, WriterSets DEF TypeOK, Rings
<1>1. CASE Write(w) \/ PushState(w)
  <2>1. ring' = ring
    BY <1>1 DEF Write, PushState
  <2>2. InFlight' \subseteq InFlight
    BY <1>1, <1>t, <1>p DEF Write, PushState, Goto, InFlight
  <2> QED
    BY <2>1, <2>2, <1>c, NotMore
<1>2. CASE PushCount(w) /\ ring.count >= Capacity
  <2>1. ring' = ring
    BY <1>2 DEF PushCount
  <2>2. InFlight' \subseteq InFlight
    BY <1>2, <1>t, <1>p DEF PushCount, Goto, InFlight
  <2> QED
    BY <2>1, <2>2, <1>c, NotMore
<1>3. CASE PushCount(w) /\ ~(ring.count >= Capacity)
  <2>1. ring' = ring
    BY <1>3 DEF PushCount
  <2> QED
    BY <1>3, <2>1, <1>c, CapacityAssumption DEF CountBounded
<1>4. CASE PushSeal(w)
  <2>1. ring'.count = ring.count
    BY <1>4 DEF PushSeal, SealFull, TypeOK, Rings
  <2>2. InFlight' \subseteq InFlight
    BY <1>4, <1>t, <1>p DEF PushSeal, Goto, InFlight
  <2> QED
    BY <2>1, <2>2, <1>c, NotMore
<1>5. CASE PushClaim(w)
  <2>1. ring'.count = ring.count
    BY <1>5 DEF PushClaim, ClaimHead, TypeOK, Rings
  <2>2. InFlight' \subseteq InFlight
    BY <1>5, <1>t, <1>p DEF PushClaim, Goto, InFlight
  <2> QED
    BY <2>1, <2>2, <1>c, NotMore
<1>6. CASE PushStore(w)
  <2>1. ring'.count = ring.count
    BY <1>6 DEF PushStore, StoreField, TypeOK, Rings
  <2>2. InFlight' \subseteq InFlight
    BY <1>6, <1>t, <1>p DEF PushStore, Goto, InFlight
  <2> QED
    BY <2>1, <2>2, <1>c, NotMore
<1>7. CASE PushInc(w)
  <2>1. ring'.count = ring.count + 1
    BY <1>7 DEF PushInc, AddCount, TypeOK, Rings
  <2>2. w \in InFlight /\ InFlight' = InFlight \ {w}
    BY <1>7, <1>t, <1>p DEF PushInc, Goto, InFlight
  <2>3. Cardinality(InFlight') = Cardinality(InFlight) - 1
    BY <2>2, WriterSets, FS_RemoveElement DEF InFlight
  <2> QED
    BY <2>1, <2>3, <1>c, CapacityAssumption DEF CountBounded
<1> QED
  BY <1>1, <1>2, <1>3, <1>4, <1>5, <1>6, <1>7 DEF WriterStep

LEMMA BoundReader ==
  ASSUME TypeOK, TypeOK', CountBounded, NEW r \in Readers, ReaderStep(r)
  PROVE  CountBounded'
<1>t. r \in Threads /\ r \notin Writers
  BY ThreadsAssumption DEF Threads
<1>f. InFlight' = InFlight
  BY <1>t DEF ReaderStep, Pop, PopCount, PopClaim, PopRead, PopClear,
              PopDec, ResetState, ResetCount, ResetIndexes, Goto, InFlight,
              TypeOK, Threads
<1>c. /\ ring.count \in Int /\ ring'.count \in Int
      /\ Cardinality(InFlight) <= Cardinality(Writers)
      /\ Cardinality(InFlight) \in Nat /\ Cardinality(Writers) \in Nat
  <2>1. InFlight \in SUBSET Writers
    BY DEF InFlight
  <2> QED
    BY <2>1, WriterSets DEF TypeOK, Rings
<1>1. CASE ResetCount(r)
  <2>1. ring'.count = 0
    BY <1>1 DEF ResetCount, ZeroCount, TypeOK, Rings
  <2> QED
    BY <2>1, <1>f, <1>c, CapacityAssumption DEF CountBounded
<1>2. CASE PopDec(r)
  <2>1. ring'.count = ring.count - 1
    BY <1>2 DEF PopDec, AddCount, TypeOK, Rings
  <2> QED
    BY <2>1, <1>f, <1>c, NotMore
<1>3. CASE ~ResetCount(r) /\ ~PopDec(r)
  <2>1. ring'.count = ring.count
    BY <1>3 DEF ReaderStep, Pop, PopCount, PopClaim, PopRead, PopClear,
                ResetState, ResetIndexes, ClaimTail, StoreItem, SetState,
                RewindIndexes, TypeOK, Rings
  <2> QED
    BY <2>1, <1>f, <1>c, NotMore
<1> QED
  BY <1>1, <1>2, <1>3

LEMMA BoundStep == TypeOK /\ TypeOK' /\ CountBounded /\ [Next]_vars => CountBounded'
<1> SUFFICES ASSUME TypeOK, TypeOK', CountBounded, [Next]_vars PROVE CountBounded'
  OBVIOUS
<1>1. CASE \E w \in Writers : WriterStep(w)
  BY <1>1, BoundWriter
<1>2. CASE \E r \in Readers : ReaderStep(r)
  BY <1>2, BoundReader
<1>3. CASE OwnerSetState \/ UNCHANGED vars
  <2>1. ring'.count = ring.count
    BY <1>3 DEF OwnerSetState, SetState, vars, TypeOK, Rings
  <2>2. InFlight' = InFlight
    BY <1>3 DEF OwnerSetState, vars, InFlight
  <2>3. ring.count \in Int
    BY DEF TypeOK, Rings
  <2> QED
    BY <2>1, <2>2, <2>3, NotMore
<1> QED
  BY <1>1, <1>2, <1>3 DEF Next

(* The overrun of the ring by racing writers is bounded, whatever the      *)
(* capacity, the number of writers and readers, and the calls of Reset and *)
(* SetState.                                                               *)
THEOREM OverrunBounded == Spec => []CountBounded
  BY RingTypeOK, BoundInit, BoundStep, PTL DEF Spec

-----------------------------------------------------------------------------
(* CountNeverNegative needs to know that a reader between its test of count *)
(* and its decrement still has what it saw: nobody else decrements.         *)

Popping(r) == pc[r] \in {"claim", "read", "clear", "dec"}

NonNegInv ==
  /\ ring.count >= 0
  /\ \A r \in Readers : Popping(r) => ring.count >= 1

LEMMA NonNegInit == Init => NonNegInv
  BY DEF Init, NonNegInv, NewSmartBuffer, Popping, Threads

LEMMA NonNegWriter ==
  ASSUME TypeOK, NonNegInv, NEW w \in Writers, WriterStep(w)
  PROVE  NonNegInv'
<1>1. \A r \in Readers : pc'[r] = pc[r]
  BY ThreadsAssumption
  DEF WriterStep, Write, PushState, PushCount, PushSeal, PushClaim,
      PushStore, PushInc, Goto, TypeOK, Threads
<1>2. ring'.count \in {ring.count, ring.count + 1}
  BY DEF WriterStep, Write, PushState, PushCount, PushSeal, PushClaim,
         PushStore, PushInc, SealFull, ClaimHead, StoreField, AddCount, TypeOK,
         Rings
<1>3. ring.count \in Int
  BY DEF TypeOK, Rings
<1> QED
  BY <1>1, <1>2, <1>3 DEF NonNegInv, Popping

LEMMA NonNegReader ==
  ASSUME TypeOK, NonNegInv, NEW r \in Readers, ReaderStep(r),
         \A s \in Readers : s = r
  PROVE  NonNegInv'
<1>t. r \in Threads
  BY DEF Threads
<1>p. pc \in [Threads -> WriterPcs \cup ReaderPcs] /\ ring.count \in Int
  BY DEF TypeOK, Rings
<1>g. SUFFICES ring'.count >= 0 /\ (Popping(r)' => ring'.count >= 1)
  BY DEF NonNegInv
<1>1. CASE Pop(r) \/ PopCount(r) \/ PopRead(r)
  <2>1. ring' = ring
    BY <1>1 DEF Pop, PopCount, PopRead
  <2>2. Popping(r)' => Popping(r) \/ ring.count # 0
    BY <1>1, <1>t, <1>p DEF Pop, PopCount, PopRead, Goto, Popping
  <2> QED
    BY <2>1, <2>2, <1>p DEF NonNegInv
<1>2. CASE PopClaim(r) \/ PopClear(r)
  <2>1. ring'.count = ring.count
    BY <1>2 DEF PopClaim, PopClear, ClaimTail, StoreItem, TypeOK, Rings
  <2>2. Popping(r)
    BY <1>2 DEF PopClaim, PopClear, Goto, Popping
  <2> QED
    BY <2>1, <2>2, <1>p DEF NonNegInv
<1>3. CASE PopDec(r)
  <2>1. ring'.count = ring.count - 1
    BY <1>3 DEF PopDec, AddCount, TypeOK, Rings
  <2>2. Popping(r) /\ ~Popping(r)'
    BY <1>3, <1>t, <1>p DEF PopDec, Goto, Popping
  <2> QED
    BY <2>1, <2>2, <1>p DEF NonNegInv
<1>4. CASE ResetState(r) \/ ResetCount(r) \/ ResetIndexes(r)
  <2>1. ring'.count \in {ring.count, 0}
    BY <1>4 DEF ResetState, ResetCount, ResetIndexes, SetState, ZeroCount,
                RewindIndexes, TypeOK, Rings
  <2>2. ~Popping(r)'
    BY <1>4, <1>t, <1>p DEF ResetState, ResetCount, ResetIndexes, Goto, Popping
  <2> QED
    BY <2>1, <2>2, <1>p DEF NonNegInv
<1> QED
  BY <1>1, <1>2, <1>3, <1>4 DEF ReaderStep

LEMMA NonNegStep ==
  ASSUME \A r, s \in Readers : r = s
  PROVE  TypeOK /\ NonNegInv /\ [Next]_vars => NonNegInv'
<1> SUFFICES ASSUME TypeOK, NonNegInv, [Next]_vars PROVE NonNegInv'
  OBVIOUS
<1>1. CASE \E w \in Writers : WriterStep(w)
  BY <1>1, NonNegWriter
<1>2. CASE \E r \in Readers : ReaderStep(r)
  <2>1. PICK r \in Readers : ReaderStep(r)
    BY <1>2
  <2>2. \A s \in Readers : s = r
    OBVIOUS
  <2> QED
    BY <2>1, <2>2, NonNegReader
<1>3. CASE OwnerSetState \/ UNCHANGED vars
  <2>1. ring'.count = ring.count /\ pc' = pc
    BY <1>3 DEF OwnerSetState, SetState, vars, TypeOK, Rings
  <2> QED
    BY <2>1 DEF NonNegInv, Popping
<1> QED
  BY <1>1, <1>2, <1>3 DEF Next

(* With one reader, and any number of writers, count never goes below      *)
(* zero, so Pop's test for zero is enough.                                 *)
THEOREM SingleReaderCount ==
  ASSUME \A r, s \in Readers : r = s
  PROVE  Spec => []CountNeverNegative
<1>1. NonNegInv => CountNeverNegative
  BY DEF NonNegInv, CountNeverNegative
<1>2. TypeOK /\ NonNegInv /\ [Next]_vars => NonNegInv'
  BY NonNegStep
<1> QED
  BY <1>1, <1>2, RingTypeOK, NonNegInit, PTL DEF Spec

-----------------------------------------------------------------------------
(* NoDuplicate: a message is stored by one writer, once, in one slot; once *)
(* popped it is nowhere, but for the slot the reader is about to clear.    *)

Slot(p) == ring.buf[p].ptr

(* The writer has yet to store the pointer to its message. *)
ToStore(w) == \/ pc[w] \in {"state", "count", "claim"}
              \/ pc[w] = "store" /\ "ptr" \in unstored[w]

(* The reader has read the slot and not yet cleared it. *)
Clearing(p) == \E r \in Readers : pc[r] = "clear" /\ calcPos(idx[r]) = p

MsgInv ==
  /\ \A w \in Writers : msg[w] <= calls /\ (ToStore(w) => msg[w] # 0)
  /\ \A w, v \in Writers : msg[w] # 0 /\ msg[w] = msg[v] => w = v

SlotInv ==
  /\ \A p \in Positions : Slot(p) <= calls
  /\ \A p \in Positions, w \in Writers : ToStore(w) => Slot(p) # msg[w]
  /\ \A p, q \in Positions : Slot(p) # 0 /\ Slot(p) = Slot(q) => p = q

PoppedInv ==
  \A i \in 1 .. Len(popped) :
    /\ popped[i].ptr # 0 /\ popped[i].ptr <= calls
    /\ \A w \in Writers : ToStore(w) => popped[i].ptr # msg[w]
    /\ \A p \in Positions : Slot(p) = popped[i].ptr => Clearing(p)

OnceInv == MsgInv /\ SlotInv /\ PoppedInv /\ NoDuplicate

LEMMA OnceTypes ==
  ASSUME TypeOK
  PROVE  /\ calls \in Nat /\ popped \in Seq(Items) /\ Len(popped) \in Nat
         /\ \A w \in Writers : msg[w] \in Nat /\ w \in Threads /\ w \notin Readers
         /\ \A r \in Readers : r \in Threads
         /\ \A p \in Positions : Slot(p) \in Nat
         /\ \A i \in 1 .. Len(popped) : popped[i].ptr \in Nat
         /\ pc \in [Threads -> WriterPcs \cup ReaderPcs]
         /\ \A t \in Threads : idx[t] \in Int /\ calcPos(idx[t]) \in Positions
<1>1. \A i \in Items : i.ptr \in Nat
  BY MaxMsgsAssumption DEF Items, Payloads
<1>2. \A p \in Positions : Slot(p) \in Nat
  BY <1>1 DEF Slot, TypeOK, Rings
<1>3. \A t \in Threads : idx[t] \in Int /\ calcPos(idx[t]) \in Positions
  BY MaxIndexAssumption, calcPosType DEF TypeOK, Indexes
<1>4. popped \in Seq(Items) /\ \A i \in 1 .. Len(popped) : popped[i] \in Items
  BY DEF TypeOK
<1> QED
  BY <1>1, <1>2, <1>3, <1>4, MaxMsgsAssumption, ThreadsAssumption DEF TypeOK, Payloads, Threads

(* A step that stores, reads and clears no slot and begins no Write. *)
LEMMA OnceQuiet ==
  ASSUME OnceInv, UNCHANGED <<msg, calls, popped>>,
         \A p \in Positions : Slot(p)' = Slot(p),
         \A w \in Writers : ToStore(w)' => ToStore(w),
         \A r \in Readers : pc[r] = "clear" => pc'[r] = "clear" /\ idx'[r] = idx[r]
  PROVE  OnceInv'
<1>1. MsgInv'
  BY DEF OnceInv, MsgInv
<1>2. SlotInv'
  BY DEF OnceInv, SlotInv
<1>3. \A p \in Positions : Clearing(p) => Clearing(p)'
  BY DEF Clearing
<1>4. PoppedInv'
  BY <1>3 DEF OnceInv, PoppedInv
<1>5. NoDuplicate'
  BY DEF OnceInv, NoDuplicate
<1> QED
  BY <1>1, <1>2, <1>4, <1>5 DEF OnceInv

(* One word of a slot is stored. *)
LEMMA StoredSlot ==
  ASSUME NEW b \in Rings, NEW p \in Positions, NEW m \in Payloads
  PROVE  /\ \A q \in Positions : StoreField(b, p, "size", m).buf[q].ptr = b.buf[q].ptr
         /\ \A q \in Positions :
              StoreField(b, p, "ptr", m).buf[q].ptr = IF q = p THEN m ELSE b.buf[q].ptr
         /\ \A q \in Positions :
              StoreItem(b, p, EmptyItem).buf[q].ptr = IF q = p THEN 0 ELSE b.buf[q].ptr
<1>1. \A q \in Positions : StoreField(b, p, "size", m).buf[q].ptr = b.buf[q].ptr
  BY DEF StoreField, Rings, Items
<1>2. \A q \in Positions :
        StoreField(b, p, "ptr", m).buf[q].ptr = IF q = p THEN m ELSE b.buf[q].ptr
  BY DEF StoreField, Rings, Items
<1>3. \A q \in Positions :
        StoreItem(b, p, EmptyItem).buf[q].ptr = IF q = p THEN 0 ELSE b.buf[q].ptr
  BY DEF StoreItem, EmptyItem, Rings
<1> QED
  BY <1>1, <1>2, <1>3

LEMMA OnceWriter ==
  ASSUME TypeOK, OnceInv, NEW w \in Writers, WriterStep(w)
  PROVE  OnceInv'
<1>1. /\ calls \in Nat /\ \A v \in Writers : msg[v] \in Nat /\ v \in Threads /\ v \notin Readers
      /\ pc \in [Threads -> WriterPcs \cup ReaderPcs] /\ w \in Threads
      /\ \A r \in Readers : r \in Threads /\ r # w
      /\ \A p \in Positions : Slot(p) \in Nat
      /\ \A i \in 1 .. Len(popped) : popped[i].ptr \in Nat
      /\ unstored \in [Writers -> SUBSET Fields] /\ msg \in [Writers -> Payloads]
      /\ calcPos(idx[w]) \in Positions /\ ring \in Rings
  BY OnceTypes DEF TypeOK
<1>2. \A r \in Readers : pc'[r] = pc[r] /\ idx'[r] = idx[r]
  BY <1>1 DEF WriterStep, Write, PushState, PushCount, PushSeal, PushClaim,
              PushStore, PushInc, Goto, TypeOK
<1>3. \A v \in Writers : v # w => (ToStore(v)' <=> ToStore(v))
  BY <1>1 DEF WriterStep, Write, PushState, PushCount, PushSeal, PushClaim,
              PushStore, PushInc, Goto, ToStore
<1>4. popped' = popped
  BY DEF WriterStep, Write, PushState, PushCount, PushSeal, PushClaim, PushStore, PushInc
<1>5. \A p \in Positions : Clearing(p)' <=> Clearing(p)
  BY <1>2 DEF Clearing
<1>6. CASE Write(w)
  <2>1. /\ calls' = calls + 1 /\ msg' = [msg EXCEPT ![w] = calls + 1] /\ ring' = ring
    BY <1>6 DEF Write
  <2>2. /\ msg'[w] = calls + 1
        /\ \A v \in Writers : v # w => msg'[v] = msg[v]
        /\ \A p \in Positions : Slot(p)' = Slot(p)
    BY <1>1, <2>1 DEF Slot
  <2>3. MsgInv'
    BY <1>1, <1>3, <2>1, <2>2 DEF OnceInv, MsgInv
  <2>4. SlotInv'
    <3>1. \A p \in Positions : Slot(p)' <= calls' /\ Slot(p)' # calls + 1
      BY <1>1, <2>1, <2>2 DEF OnceInv, SlotInv
    <3>2. \A p \in Positions, v \in Writers : ToStore(v)' => Slot(p)' # msg'[v]
      BY <1>3, <2>2, <3>1 DEF OnceInv, SlotInv
    <3>3. \A p, q \in Positions : Slot(p)' # 0 /\ Slot(p)' = Slot(q)' => p = q
      BY <2>2 DEF OnceInv, SlotInv
    <3> QED
      BY <3>1, <3>2, <3>3 DEF SlotInv
  <2>5. PoppedInv'
    <3>1. ASSUME NEW i \in 1 .. Len(popped)
          PROVE  /\ popped[i].ptr # 0 /\ popped[i].ptr <= calls + 1
                 /\ \A v \in Writers : ToStore(v)' => popped[i].ptr # msg'[v]
                 /\ \A p \in Positions : Slot(p)' = popped[i].ptr => Clearing(p)'
      BY <1>1, <1>3, <1>5, <2>2 DEF OnceInv, PoppedInv
    <3> QED
      BY <1>4, <2>1, <3>1 DEF PoppedInv
  <2>6. NoDuplicate'
    BY <1>4 DEF OnceInv, NoDuplicate
  <2> QED
    BY <2>3, <2>4, <2>5, <2>6 DEF OnceInv
<1>7. CASE PushStore(w)
  <2>1. PICK f \in unstored[w] :
          /\ pc[w] = "store"
          /\ ring' = StoreField(ring, calcPos(idx[w]), f, msg[w])
          /\ unstored' = [unstored EXCEPT ![w] = unstored[w] \ {f}]
          /\ UNCHANGED <<msg, calls>>
    BY <1>7 DEF PushStore, Goto
  <2>2. pc'[w] \in {"inc", "store"}
    BY <1>1, <1>7 DEF PushStore, Goto
  <2>3. ToStore(w)' => ToStore(w) /\ f # "ptr"
    BY <1>1, <2>1, <2>2 DEF ToStore
  <2>4. CASE f = "size"
    <3>1. \A p \in Positions : Slot(p)' = Slot(p)
      BY <1>1, <2>1, <2>4, StoredSlot DEF Slot
    <3> QED
      BY <1>2, <1>3, <1>4, <2>1, <2>3, <3>1, OnceQuiet
  <2>5. CASE f = "ptr"
    <3>1. PICK c \in Positions : c = calcPos(idx[w])
      BY <1>1
    <3>2. /\ \A p \in Positions : Slot(p)' = IF p = c THEN msg[w] ELSE Slot(p)
          /\ msg[w] # 0 /\ ToStore(w) /\ ~ToStore(w)'
      <4>1. ToStore(w)
        BY <2>1, <2>5 DEF ToStore
      <4> QED
        BY <1>1, <2>1, <2>3, <2>5, <3>1, <4>1, StoredSlot DEF Slot, OnceInv, MsgInv
    <3>3. MsgInv'
      BY <1>3, <2>1, <3>2 DEF OnceInv, MsgInv
    <3>4. SlotInv'
      <4>1. \A p \in Positions : Slot(p)' <= calls'
        BY <2>1, <3>2 DEF OnceInv, SlotInv, MsgInv
      <4>2. \A p \in Positions, v \in Writers : ToStore(v)' => Slot(p)' # msg'[v]
        BY <1>3, <2>1, <3>2 DEF OnceInv, SlotInv, MsgInv
      <4>3. \A p, q \in Positions : Slot(p)' # 0 /\ Slot(p)' = Slot(q)' => p = q
        BY <3>2 DEF OnceInv, SlotInv
      <4> QED
        BY <4>1, <4>2, <4>3 DEF SlotInv
    <3>5. PoppedInv'
      <4>1. \A i \in 1 .. Len(popped) : popped[i].ptr # msg[w]
        BY <3>2 DEF OnceInv, PoppedInv
      <4> QED
        BY <1>3, <1>4, <1>5, <2>1, <3>2, <4>1 DEF OnceInv, PoppedInv
    <3>6. NoDuplicate'
      BY <1>4 DEF OnceInv, NoDuplicate
    <3> QED
      BY <3>3, <3>4, <3>5, <3>6 DEF OnceInv
  <2>6. f \in Fields
    BY <1>1, <2>1
  <2> QED
    BY <2>4, <2>5, <2>6 DEF Fields
<1>8. CASE PushState(w) \/ PushCount(w) \/ PushSeal(w) \/ PushClaim(w) \/ PushInc(w)
  <2>1. UNCHANGED <<msg, calls>>
    BY <1>8 DEF PushState, PushCount, PushSeal, PushClaim, PushInc
  <2>2. ring'.buf = ring.buf
    BY <1>1, <1>8 DEF PushState, PushCount, PushSeal, PushClaim, PushInc, SealFull, ClaimHead,
                      AddCount, Rings
  <2>3. ToStore(w)' => ToStore(w)
    BY <1>1, <1>8 DEF PushState, PushCount, PushSeal, PushClaim, PushInc, Goto, ToStore
  <2> QED
    BY <1>2, <1>3, <1>4, <2>1, <2>2, <2>3, OnceQuiet DEF Slot
<1> QED
  BY <1>6, <1>7, <1>8 DEF WriterStep

LEMMA OnceReader ==
  ASSUME TypeOK, OnceInv, NEW r \in Readers, ReaderStep(r), \A s \in Readers : s = r
  PROVE  OnceInv'
<1>1. /\ pc \in [Threads -> WriterPcs \cup ReaderPcs] /\ r \in Threads /\ ring \in Rings
      /\ \A w \in Writers : w \in Threads /\ w # r
      /\ calcPos(idx[r]) \in Positions /\ popped \in Seq(Items) /\ Len(popped) \in Nat
      /\ calls \in Nat /\ 0 \in Payloads
      /\ \A p \in Positions : Slot(p) \in Nat
  BY OnceTypes, MaxMsgsAssumption DEF TypeOK, Payloads
<1>2. UNCHANGED <<msg, calls, unstored>>
  BY DEF ReaderStep, Pop, PopCount, PopClaim, PopRead, PopClear, PopDec, ResetState,
         ResetCount, ResetIndexes
<1>3. \A w \in Writers : ToStore(w)' <=> ToStore(w)
  BY <1>1, <1>2 DEF ReaderStep, Pop, PopCount, PopClaim, PopRead, PopClear, PopDec,
                    ResetState, ResetCount, ResetIndexes, Goto, ToStore
<1>4. CASE PopRead(r)
  <2>1. PICK c \in Positions : c = calcPos(idx[r])
    BY <1>1
  <2>2. PICK i \in Items : i = ring.buf[c]
    BY <1>1 DEF Rings
  <2>3. /\ pc[r] = "read" /\ pc'[r] = "clear" /\ UNCHANGED <<ring, idx>>
        /\ popped' = IF i.ptr = 0 THEN popped ELSE Append(popped, i)
    BY <1>1, <1>4, <2>1, <2>2 DEF PopRead, Goto
  <2>4. /\ \A p \in Positions : Slot(p)' = Slot(p)
        /\ i.ptr = Slot(c)
    BY <2>2, <2>3 DEF Slot
  <2>5. /\ \A p \in Positions : ~Clearing(p) /\ (Clearing(p)' <=> p = c)
    BY <2>1, <2>3 DEF Clearing
  <2>6. MsgInv' /\ SlotInv'
    BY <1>2, <1>3, <2>4 DEF OnceInv, MsgInv, SlotInv
  <2>7. CASE i.ptr = 0
    BY <1>2, <1>3, <2>3, <2>4, <2>7, OnceQuiet
  <2>8. CASE i.ptr # 0
    <3>1. popped' = Append(popped, i)
      BY <2>3, <2>8
    <3>2. /\ Len(popped') = Len(popped) + 1 /\ popped'[Len(popped) + 1] = i
          /\ \A k \in 1 .. Len(popped) : popped'[k] = popped[k]
      BY <1>1, <3>1
    <3>3. \A k \in 1 .. Len(popped) : popped[k].ptr # i.ptr
      BY <2>4, <2>5 DEF OnceInv, PoppedInv
    <3>4. ASSUME NEW k \in 1 .. Len(popped')
          PROVE  /\ popped'[k].ptr # 0 /\ popped'[k].ptr <= calls'
                 /\ \A w \in Writers : ToStore(w)' => popped'[k].ptr # msg'[w]
                 /\ \A p \in Positions : Slot(p)' = popped'[k].ptr => Clearing(p)'
      <4>1. CASE k = Len(popped) + 1
        BY <1>2, <1>3, <2>4, <2>5, <2>8, <3>2, <4>1 DEF OnceInv, SlotInv
      <4>2. CASE k \in 1 .. Len(popped)
        BY <1>2, <1>3, <2>4, <2>5, <3>2, <4>2 DEF OnceInv, PoppedInv
      <4> QED
        BY <1>1, <3>2, <4>1, <4>2
    <3>5. PoppedInv'
      BY <3>4 DEF PoppedInv
    <3>6. \A k \in 1 .. Len(popped') : k \in 1 .. Len(popped) \/ k = Len(popped) + 1
      BY <1>1, <3>2
    <3>7. NoDuplicate'
      BY <3>2, <3>3, <3>6 DEF OnceInv, NoDuplicate
    <3> QED
      BY <2>6, <3>5, <3>7 DEF OnceInv
  <2> QED
    BY <2>7, <2>8
<1>5. popped' = popped \/ PopRead(r)
  BY DEF ReaderStep, Pop, PopCount, PopClaim, PopClear, PopDec, ResetState, ResetCount,
         ResetIndexes
<1>6. CASE PopClear(r)
  <2>1. PICK c \in Positions : c = calcPos(idx[r])
    BY <1>1
  <2>2. /\ pc[r] = "clear" /\ UNCHANGED popped
        /\ ring' = StoreItem(ring, c, EmptyItem)
    BY <1>6, <2>1 DEF PopClear, Goto
  <2>3. \A p \in Positions : Slot(p)' = IF p = c THEN 0 ELSE Slot(p)
    BY <1>1, <2>2, StoredSlot DEF Slot
  <2>4. \A p \in Positions : Clearing(p) => p = c
    BY <2>1 DEF Clearing
  <2>5. MsgInv'
    BY <1>2, <1>3 DEF OnceInv, MsgInv
  <2>6. SlotInv'
    <3>1. \A p \in Positions : Slot(p)' <= calls'
      BY <1>1, <1>2, <2>3 DEF OnceInv, SlotInv
    <3>2. \A p \in Positions, w \in Writers : ToStore(w)' => Slot(p)' # msg'[w]
      BY <1>2, <1>3, <2>3 DEF OnceInv, SlotInv, MsgInv
    <3>3. \A p, q \in Positions : Slot(p)' # 0 /\ Slot(p)' = Slot(q)' => p = q
      BY <2>3 DEF OnceInv, SlotInv
    <3> QED
      BY <3>1, <3>2, <3>3 DEF SlotInv
  <2>7. PoppedInv'
    BY <1>2, <1>3, <2>2, <2>3, <2>4 DEF OnceInv, PoppedInv
  <2>8. NoDuplicate'
    BY <2>2 DEF OnceInv, NoDuplicate
  <2> QED
    BY <2>5, <2>6, <2>7, <2>8 DEF OnceInv
<1>7. CASE ~PopRead(r) /\ ~PopClear(r)
  <2>1. ring'.buf = ring.buf
    BY <1>1, <1>7 DEF ReaderStep, Pop, PopCount, PopClaim, PopDec, ResetState, ResetCount,
       ResetIndexes, ClaimTail, AddCount, SetState, ZeroCount, RewindIndexes, Rings
  <2>2. pc[r] # "clear"
    BY <1>7 DEF ReaderStep, Pop, PopCount, PopClaim, PopDec, ResetState, ResetCount,
       ResetIndexes, Goto
  <2> QED
    BY <1>2, <1>3, <1>5, <1>7, <2>1, <2>2, OnceQuiet DEF Slot
<1> QED
  BY <1>4, <1>6, <1>7

LEMMA OnceStep ==
  ASSUME \A r, s \in Readers : r = s
  PROVE  TypeOK /\ OnceInv /\ [Next]_vars => OnceInv'
<1> SUFFICES ASSUME TypeOK, OnceInv, [Next]_vars PROVE OnceInv'
  OBVIOUS
<1>1. CASE \E w \in Writers : WriterStep(w)
  BY <1>1, OnceWriter
<1>2. CASE \E r \in Readers : ReaderStep(r)
  <2>1. PICK r \in Readers : ReaderStep(r)
    BY <1>2
  <2>2. \A s \in Readers : s = r
    OBVIOUS
  <2> QED
    BY <2>1, <2>2, OnceReader
<1>3. CASE OwnerSetState \/ UNCHANGED vars
  <2>1. ring'.buf = ring.buf /\ UNCHANGED <<pc, idx, unstored, msg, calls, popped>>
    BY <1>3 DEF OwnerSetState, SetState, vars, TypeOK, Rings
  <2> QED
    BY <2>1, OnceQuiet DEF Slot, ToStore
<1> QED
  BY <1>1, <1>2, <1>3 DEF Next

LEMMA OnceInit == Init => OnceInv
<1> SUFFICES ASSUME Init PROVE OnceInv
  OBVIOUS
<1>1. /\ \A p \in Positions : Slot(p) = 0
      /\ \A w \in Writers : ~ToStore(w) /\ msg[w] = 0
      /\ calls = 0 /\ popped = <<>>
  BY DEF Init, NewSmartBuffer, EmptyItem, Slot, ToStore, Threads
<1> QED
  BY <1>1 DEF OnceInv, MsgInv, SlotInv, PoppedInv, NoDuplicate

(* With one reader no two Pops return the same message, however many       *)
(* writers overrun the ring, whatever its capacity, and through Reset,     *)
(* SetState and the wrap-around of the indexes.                            *)
THEOREM PoppedOnce ==
  ASSUME \A r, s \in Readers : r = s
  PROVE  Spec => []NoDuplicate
<1>1. OnceInv => NoDuplicate
  BY DEF OnceInv
<1>2. TypeOK /\ OnceInv /\ [Next]_vars => OnceInv'
  BY OnceStep
<1> QED
  BY <1>1, <1>2, RingTypeOK, OnceInit, PTL DEF Spec

-----------------------------------------------------------------------------
(* The ring of one writer and one reader is a FIFO *)

(* The slots are used in turn for ever: the indexes either do not reach    *)
(* their end, or the number of their values is a multiple of the capacity, *)
(* as 2^32 is of every power of two.                                       *)
SlotsInTurn == MaxMsgs <= MaxIndex \/ (2 * (MaxIndex + 1)) % Capacity = 0

(* The slot of the k-th message committed. *)
Place(k) == (k - 2) % Capacity

(* The claims made so far are the messages committed or popped, and the    *)
(* one whose claim has not become one of these.                            *)
Claims(t, places, done) == done + (IF pc[t] \in places THEN 1 ELSE 0)

IndexIs(i, claims) ==
  /\ calcPos(i) = Place(claims + 1)
  /\ MaxMsgs <= MaxIndex => i = claims - 1

LengthInv ==
  /\ Len(popped) <= Len(committed) /\ Len(committed) <= calls
  /\ \A k \in 1 .. Len(committed) : committed[k] \in Msgs
  /\ Len(committed) - Len(popped) <= ring.count /\ ring.count <= Capacity

(* The slots of the messages not yet read hold them, whole. *)
UnreadInv ==
  \A k \in Len(popped) + 1 .. Len(committed) : ring.buf[Place(k)] = Item(committed[k])

WriterInv(w) ==
  /\ IndexIs(ring.head, Claims(w, {"store", "inc"}, Len(committed)))
  /\ pc[w] # "idle" => msg[w] \in Msgs /\ Len(committed) < calls
  /\ pc[w] \in {"claim", "store", "inc"} => ring.count < Capacity
  /\ pc[w] \in {"store", "inc"} =>
       /\ calcPos(idx[w]) = Place(Len(committed) + 1)
       /\ \A f \in Fields : pc[w] = "inc" \/ f \notin unstored[w]
                              => ring.buf[Place(Len(committed) + 1)][f] = msg[w]

ReaderInv(r) ==
  /\ IndexIs(ring.tail, Claims(r, {"read"}, Len(popped)))
  /\ ring.count = Len(committed) - Len(popped) + IF pc[r] \in {"clear", "dec"} THEN 1 ELSE 0
  /\ pc[r] \in {"claim", "read"} => Len(popped) < Len(committed)
  /\ pc[r] = "read" => calcPos(idx[r]) = Place(Len(popped) + 1)
  /\ pc[r] = "clear" => calcPos(idx[r]) = Place(Len(popped))
  /\ pc[r] \notin {"zero", "rewind"}

FifoInv ==
  /\ LengthInv /\ UnreadInv
  /\ \A w \in Writers : WriterInv(w)
  /\ \A r \in Readers : ReaderInv(r)

LEMMA RemainderIs ==
  ASSUME NEW x \in Int, NEW q \in Int, NEW s \in Positions, x = Capacity * q + s
  PROVE  x % Capacity = s
<1>1. /\ x \div Capacity \in Int /\ x % Capacity \in Positions
      /\ x = Capacity * (x \div Capacity) + (x % Capacity)
  BY CapacityAssumption DEF Positions
<1>2. PICK p \in Int, t \in Positions : p = x \div Capacity /\ t = x % Capacity
  BY <1>1
<1>3. Capacity * p + t = Capacity * q + s
  BY <1>1, <1>2
<1>4. CASE p < q
  <2>1. Capacity * q >= Capacity * p + Capacity
    BY <1>4, CapacityAssumption
  <2> QED BY <1>3, <2>1, CapacityAssumption DEF Positions
<1>5. CASE q < p
  <2>1. Capacity * p >= Capacity * q + Capacity
    BY <1>5, CapacityAssumption
  <2> QED BY <1>3, <2>1, CapacityAssumption DEF Positions
<1>6. CASE p = q
  BY <1>2, <1>3, <1>6, CapacityAssumption DEF Positions
<1> QED BY <1>4, <1>5, <1>6

LEMMA RemainderOf ==
  ASSUME NEW x \in Int
  PROVE  \E q \in Int, s \in Positions : x = Capacity * q + s /\ x % Capacity = s
<1>1. /\ x \div Capacity \in Int /\ x % Capacity \in Positions
      /\ x = Capacity * (x \div Capacity) + (x % Capacity)
  BY CapacityAssumption DEF Positions
<1> QED BY <1>1

(* Numbers with the same remainder keep it when both move on, and differ   *)
(* by at least the capacity.                                               *)
LEMMA RemainderMoves ==
  ASSUME NEW x \in Int, NEW y \in Int, NEW d \in Int, x % Capacity = y % Capacity
  PROVE  (x + d) % Capacity = (y + d) % Capacity
<1>1. PICK q \in Int, s \in Positions : x = Capacity * q + s /\ x % Capacity = s
  BY RemainderOf
<1>2. PICK p \in Int : y = Capacity * p + s
  BY <1>1, RemainderOf
<1>3. PICK n \in Int, t \in Positions : x + d = Capacity * n + t /\ (x + d) % Capacity = t
  BY RemainderOf
<1>4. y + d = Capacity * (n + p - q) + t
  <2>1. Capacity * (n + p - q) = Capacity * n + Capacity * p - Capacity * q
    BY CapacityAssumption
  <2> QED BY <1>1, <1>2, <1>3, <2>1, CapacityAssumption DEF Positions
<1>5. n + p - q \in Int /\ y + d \in Int
  OBVIOUS
<1> QED BY <1>3, <1>4, <1>5, RemainderIs

LEMMA PlaceType ==
  ASSUME NEW k \in Int
  PROVE  Place(k) \in Positions
BY CapacityAssumption DEF Place, Positions

LEMMA PlacesDiffer ==
  ASSUME NEW k \in Int, NEW l \in Int, k < l, l - k < Capacity
  PROVE  Place(k) # Place(l)
<1> SUFFICES ASSUME Place(k) = Place(l) PROVE FALSE
  OBVIOUS
<1>1. PICK q \in Int, s \in Positions : k - 2 = Capacity * q + s /\ Place(k) = s
  BY RemainderOf DEF Place
<1>2. PICK p \in Int : l - 2 = Capacity * p + s
  BY <1>1, RemainderOf DEF Place
<1>3. l - k = Capacity * p - Capacity * q
  BY <1>1, <1>2, CapacityAssumption DEF Positions
<1>4. CASE p <= q
  <2>1. Capacity * p <= Capacity * q
    BY <1>4, CapacityAssumption
  <2> QED BY <1>3, <2>1, CapacityAssumption
<1>5. CASE p > q
  <2>1. Capacity * p >= Capacity * q + Capacity
    BY <1>5, CapacityAssumption
  <2> QED BY <1>3, <2>1, CapacityAssumption
<1> QED BY <1>4, <1>5

LEMMA PlaceNext ==
  ASSUME NEW i \in Indexes, NEW n \in Nat, n < MaxMsgs, SlotsInTurn, IndexIs(i, n)
  PROVE  IndexIs(NextIndex(i), n + 1) /\ calcPos(i) = Place(n + 1)
<1>1. i \in Int /\ MaxIndex \in Nat /\ MaxMsgs \in Nat
  BY MaxIndexAssumption, MaxMsgsAssumption DEF Indexes
<1>2. (i + 1) % Capacity = Place(n + 2)
  <2>1. i % Capacity = (n - 1) % Capacity
    BY DEF IndexIs, calcPos, Place
  <2>2. n - 1 \in Int /\ 1 \in Int
    OBVIOUS
  <2>3. (i + 1) % Capacity = (n - 1 + 1) % Capacity
    BY <1>1, <2>1, <2>2, RemainderMoves
  <2> QED BY <2>3 DEF Place
<1>3. CASE i # MaxIndex
  BY <1>1, <1>2, <1>3 DEF IndexIs, NextIndex, calcPos
<1>4. CASE i = MaxIndex
  <2>1. ~(MaxMsgs <= MaxIndex)
    BY <1>1, <1>4 DEF IndexIs
  <2>2. PICK v \in Int : v = 2 * (MaxIndex + 1)
    BY <1>1
  <2>3. PICK j \in Int : j = NextIndex(i) /\ j = i + 1 - v
    BY <1>1, <1>4, <2>2 DEF NextIndex
  <2>4. v % Capacity = 0 % Capacity
    BY <2>1, <2>2, CapacityAssumption DEF SlotsInTurn
  <2>5. 0 \in Int
    OBVIOUS
  <2>6. (v + j) % Capacity = (0 + j) % Capacity
    BY <2>4, <2>5, RemainderMoves
  <2>7. v + j = i + 1 /\ 0 + j = j
    BY <1>1, <2>3
  <2>8. calcPos(NextIndex(i)) = Place(n + 2)
    BY <1>2, <2>3, <2>6, <2>7 DEF calcPos
  <2> QED BY <2>1, <2>8 DEF IndexIs
<1> QED BY <1>3, <1>4 DEF IndexIs

(* What an operation on the ring leaves as it is. *)
SameBut(b, c, fields) ==
  /\ "buf" \in fields \/ c.buf = b.buf
  /\ "head" \in fields \/ c.head = b.head
  /\ "tail" \in fields \/ c.tail = b.tail
  /\ "count" \in fields \/ c.count = b.count

LEMMA RingChanges ==
  ASSUME NEW b \in Rings
  PROVE  /\ \A s : SameBut(b, SetState(b, s), {})
         /\ SameBut(b, SealFull(b), {})
         /\ SameBut(b, ClaimHead(b), {"head"}) /\ ClaimHead(b).head = NextIndex(b.head)
         /\ SameBut(b, ClaimTail(b), {"tail"}) /\ ClaimTail(b).tail = NextIndex(b.tail)
         /\ \A d : SameBut(b, AddCount(b, d), {"count"}) /\ AddCount(b, d).count = b.count + d
         /\ \A p \in Positions :
              /\ SameBut(b, StoreItem(b, p, EmptyItem), {"buf"})
              /\ \A q \in Positions : q # p => StoreItem(b, p, EmptyItem).buf[q] = b.buf[q]
<1>1. \A s : SameBut(b, SetState(b, s), {})
  BY DEF SameBut, Rings, SetState
<1>2. SameBut(b, SealFull(b), {})
  BY DEF SameBut, Rings, SealFull
<1>3. SameBut(b, ClaimHead(b), {"head"}) /\ ClaimHead(b).head = NextIndex(b.head)
  BY DEF SameBut, Rings, ClaimHead
<1>4. SameBut(b, ClaimTail(b), {"tail"}) /\ ClaimTail(b).tail = NextIndex(b.tail)
  BY DEF SameBut, Rings, ClaimTail
<1>5. \A d : SameBut(b, AddCount(b, d), {"count"}) /\ AddCount(b, d).count = b.count + d
  BY DEF SameBut, Rings, AddCount
<1>6. ASSUME NEW p \in Positions
      PROVE  /\ SameBut(b, StoreItem(b, p, EmptyItem), {"buf"})
             /\ \A q \in Positions : q # p => StoreItem(b, p, EmptyItem).buf[q] = b.buf[q]
  BY DEF SameBut, Rings, StoreItem
<1> QED BY <1>1, <1>2, <1>3, <1>4, <1>5, <1>6

LEMMA StoreFieldChanges ==
  ASSUME NEW b \in Rings, NEW p \in Positions, NEW f \in Fields, NEW m \in Payloads
  PROVE  /\ SameBut(b, StoreField(b, p, f, m), {"buf"})
         /\ \A q \in Positions : q # p => StoreField(b, p, f, m).buf[q] = b.buf[q]
         /\ \A g \in Fields :
              StoreField(b, p, f, m).buf[p][g] = IF g = f THEN m ELSE b.buf[p][g]
<1>1. CASE f = "ptr"
  BY <1>1 DEF SameBut, StoreField, Rings, Items, Fields
<1>2. CASE f = "size"
  BY <1>2 DEF SameBut, StoreField, Rings, Items, Fields
<1> QED BY <1>1, <1>2 DEF Fields

LEMMA FifoTypes ==
  ASSUME TypeOK
  PROVE  /\ Len(committed) \in Nat /\ Len(popped) \in Nat
         /\ calls \in Nat /\ MaxMsgs \in Nat /\ calls <= MaxMsgs
         /\ ring \in Rings /\ ring.buf \in [Positions -> Items] /\ ring.count \in Int
         /\ ring.head \in Indexes /\ ring.tail \in Indexes /\ Capacity \in Nat \ {0}
         /\ pc \in [Threads -> WriterPcs \cup ReaderPcs] /\ idx \in [Threads -> Indexes]
         /\ msg \in [Writers -> Payloads] /\ unstored \in [Writers -> SUBSET Fields]
         /\ \A t \in Threads : calcPos(idx[t]) \in Positions
         /\ Writers \subseteq Threads /\ Readers \subseteq Threads
         /\ Writers \cap Readers = {}
<1>1. committed \in Seq(Payloads) /\ popped \in Seq(Items)
  BY DEF TypeOK
<1>2. Len(committed) \in Nat /\ Len(popped) \in Nat
  BY <1>1
<1>3. calls \in Nat /\ MaxMsgs \in Nat /\ calls <= MaxMsgs
  BY MaxMsgsAssumption DEF TypeOK, Payloads
<1>4. \A i \in Indexes : i \in Int
  BY MaxIndexAssumption DEF Indexes
<1>5. \A t \in Threads : calcPos(idx[t]) \in Positions
  BY <1>4, calcPosType DEF TypeOK
<1> QED BY <1>2, <1>3, <1>5, CapacityAssumption, ThreadsAssumption DEF TypeOK, Rings, Threads

LEMMA FifoInit == Init => FifoInv
<1> SUFFICES ASSUME Init PROVE FifoInv
  OBVIOUS
<1>1. /\ committed = <<>> /\ popped = <<>> /\ calls = 0 /\ ring.count = 0
      /\ ring.head = -1 /\ ring.tail = -1
      /\ \A t \in Threads : pc[t] = "idle"
  BY DEF Init, NewSmartBuffer
<1>2. IndexIs(-1, 0)
  BY DEF IndexIs, calcPos, Place
<1>3. Len(committed) = 0 /\ Len(popped) = 0
  BY <1>1
<1>4. LengthInv /\ UnreadInv
  BY <1>1, <1>3, CapacityAssumption DEF LengthInv, UnreadInv
<1>5. \A w \in Writers : WriterInv(w)
  BY <1>1, <1>2, <1>3 DEF WriterInv, Claims, Threads
<1>6. \A r \in Readers : ReaderInv(r)
  BY <1>1, <1>2, <1>3 DEF ReaderInv, Claims, Threads
<1> QED BY <1>4, <1>5, <1>6 DEF FifoInv

(* The only writer takes a step. *)
LEMMA FifoWriter ==
  ASSUME TypeOK, FifoInv, SlotsInTurn,
         NEW w \in Writers, \A v \in Writers : v = w, WriterStep(w)
  PROVE  FifoInv'
<1>t. /\ Len(committed) \in Nat /\ Len(popped) \in Nat
      /\ calls \in Nat /\ MaxMsgs \in Nat /\ calls <= MaxMsgs
      /\ ring \in Rings /\ ring.buf \in [Positions -> Items] /\ ring.count \in Int
      /\ ring.head \in Indexes /\ ring.tail \in Indexes /\ Capacity \in Nat \ {0}
      /\ pc \in [Threads -> WriterPcs \cup ReaderPcs] /\ idx \in [Threads -> Indexes]
      /\ msg \in [Writers -> Payloads] /\ unstored \in [Writers -> SUBSET Fields]
      /\ w \in Threads /\ \A r \in Readers : r \in Threads /\ r # w
  BY FifoTypes
<1>i. LengthInv /\ UnreadInv /\ WriterInv(w) /\ \A r \in Readers : ReaderInv(r)
  BY DEF FifoInv
<1>p. /\ calcPos(idx[w]) \in Positions
      /\ \A k \in Int : Place(k) \in Positions
      /\ \A k, l \in Int : k < l /\ l - k < Capacity => Place(k) # Place(l)
  BY FifoTypes, PlaceType, PlacesDiffer
<1>1. \A r \in Readers : pc'[r] = pc[r] /\ idx'[r] = idx[r]
  BY <1>t DEF WriterStep, Write, PushState, PushCount, PushSeal, PushClaim, PushStore,
     PushInc, Goto
<1>2. UNCHANGED popped
  BY DEF WriterStep, Write, PushState, PushCount, PushSeal, PushClaim, PushStore, PushInc
<1>3. ASSUME UNCHANGED committed, calls <= calls', calls' \in Nat, ring'.tail = ring.tail,
             ring'.count = ring.count, UnreadInv', WriterInv(w)'
      PROVE  FifoInv'
  <2>1. LengthInv'
    BY <1>t, <1>i, <1>2, <1>3 DEF LengthInv
  <2>2. ASSUME NEW r \in Readers PROVE ReaderInv(r)'
    <3>1. pc'[r] = pc[r] /\ idx'[r] = idx[r] /\ ReaderInv(r)
      BY <1>i, <1>1
    <3> QED BY <1>2, <1>3, <3>1 DEF ReaderInv, Claims, IndexIs
  <2> QED BY <1>3, <2>1, <2>2 DEF FifoInv
<1>4. ASSUME UNCHANGED committed, calls <= calls', calls' \in Nat, ring'.tail = ring.tail,
             ring'.buf = ring.buf, ring'.count = ring.count, WriterInv(w)'
      PROVE  FifoInv'
  <2>1. UnreadInv'
    BY <1>i, <1>2, <1>4 DEF UnreadInv
  <2> QED BY <1>3, <1>4, <2>1
<1>5. CASE Write(w)
  <2>1. /\ UNCHANGED <<committed, ring>> /\ calls' = calls + 1 /\ calls < MaxMsgs
        /\ pc[w] = "idle" /\ pc'[w] = "state" /\ msg'[w] = calls + 1
    BY <1>t, <1>5 DEF Write, Goto
  <2>2. WriterInv(w)'
    BY <1>t, <1>i, <2>1 DEF WriterInv, Claims, IndexIs, LengthInv, Msgs
  <2> QED BY <1>t, <1>4, <2>1, <2>2
<1>6. CASE PushState(w) \/ PushCount(w) \/ PushSeal(w)
  <2>1. /\ UNCHANGED <<committed, calls, msg>> /\ SameBut(ring, ring', {})
        /\ pc[w] \in {"state", "count", "seal"} /\ pc'[w] \in {"idle", "count", "seal", "claim"}
        /\ pc'[w] = "claim" => ring.count < Capacity
    <3>1. SameBut(ring, ring, {}) /\ SameBut(ring, SealFull(ring), {})
      BY <1>t, RingChanges DEF SameBut
    <3>2. CASE PushState(w)
      BY <1>t, <3>1, <3>2 DEF PushState, Goto
    <3>3. CASE PushCount(w)
      BY <1>t, <3>1, <3>3 DEF PushCount, Goto
    <3>4. CASE PushSeal(w)
      BY <1>t, <3>1, <3>4 DEF PushSeal, Goto
    <3> QED BY <1>6, <3>2, <3>3, <3>4
  <2>2. /\ ring'.buf = ring.buf /\ ring'.head = ring.head
        /\ ring'.tail = ring.tail /\ ring'.count = ring.count
    BY <2>1 DEF SameBut
  <2>3. WriterInv(w)'
    BY <1>i, <2>1, <2>2 DEF WriterInv, Claims, IndexIs
  <2> QED BY <1>t, <1>4, <2>1, <2>2, <2>3
<1>7. CASE PushClaim(w)
  <2>1. /\ UNCHANGED <<committed, calls, msg>> /\ pc[w] = "claim" /\ pc'[w] = "store"
        /\ ring' = ClaimHead(ring) /\ idx'[w] = ring.head /\ unstored'[w] = Fields
    BY <1>t, <1>7 DEF PushClaim, Goto
  <2>2. /\ ring'.buf = ring.buf /\ ring'.head = NextIndex(ring.head)
        /\ ring'.tail = ring.tail /\ ring'.count = ring.count
    BY <1>t, <2>1, RingChanges DEF SameBut
  <2>3. IndexIs(ring.head, Len(committed)) /\ Len(committed) < MaxMsgs
    BY <1>t, <1>i, <2>1 DEF WriterInv, Claims
  <2>4. /\ IndexIs(NextIndex(ring.head), Len(committed) + 1)
        /\ calcPos(ring.head) = Place(Len(committed) + 1)
    BY <1>t, <2>3, PlaceNext
  <2>5. WriterInv(w)'
    BY <1>i, <2>1, <2>2, <2>4 DEF WriterInv, Claims, IndexIs
  <2> QED BY <1>t, <1>4, <2>1, <2>2, <2>5
<1>8. CASE PushStore(w)
  <2>1. PICK f \in Fields :
          /\ f \in unstored[w] /\ UNCHANGED <<committed, calls, msg>>
          /\ pc[w] = "store" /\ pc'[w] = IF unstored[w] = {f} THEN "inc" ELSE "store"
          /\ ring' = StoreField(ring, calcPos(idx[w]), f, msg[w])
          /\ unstored'[w] = unstored[w] \ {f} /\ idx'[w] = idx[w]
    BY <1>t, <1>8 DEF PushStore, Goto
  <2>2. PICK p \in Positions : p = calcPos(idx[w])
    BY <1>p
  <2>3. PICK m \in Payloads : m = msg[w]
    BY <1>t
  <2>4. /\ ring'.head = ring.head /\ ring'.tail = ring.tail /\ ring'.count = ring.count
        /\ \A q \in Positions : q # p => ring'.buf[q] = ring.buf[q]
        /\ \A g \in Fields : ring'.buf[p][g] = IF g = f THEN m ELSE ring.buf[p][g]
    BY <1>t, <2>1, <2>2, <2>3, StoreFieldChanges DEF SameBut
  <2>5. p = Place(Len(committed) + 1) /\ ring.count < Capacity
    BY <1>i, <2>1, <2>2 DEF WriterInv
  <2>6. UnreadInv'
    <3> SUFFICES ASSUME NEW k \in Len(popped) + 1 .. Len(committed)
                 PROVE  ring'.buf[Place(k)] = Item(committed[k])
      BY <1>2, <2>1 DEF UnreadInv
    <3>1. Place(k) \in Positions /\ Place(k) # p
      BY <1>t, <1>i, <1>p, <2>5 DEF LengthInv
    <3> QED BY <1>i, <2>4, <3>1 DEF UnreadInv
  <2>7. \A g \in Fields : pc'[w] = "inc" \/ g \notin unstored'[w]
                            => ring'.buf[Place(Len(committed) + 1)][g] = msg[w]
    <3> SUFFICES ASSUME NEW g \in Fields, g # f, pc'[w] = "inc" \/ g \notin unstored'[w]
                 PROVE  ring.buf[p][g] = msg[w]
      BY <2>3, <2>4, <2>5
    <3>1. g \notin unstored[w]
      BY <2>1
    <3> QED BY <1>i, <2>1, <2>5, <3>1 DEF WriterInv
  <2>8. WriterInv(w)'
    BY <1>i, <2>1, <2>4, <2>7 DEF WriterInv, Claims, IndexIs
  <2> QED BY <1>t, <1>3, <2>1, <2>4, <2>6, <2>8
<1>9. CASE PushInc(w)
  <2>1. /\ pc[w] = "inc" /\ pc'[w] = "idle" /\ ring' = AddCount(ring, 1)
        /\ committed' = Append(committed, msg[w]) /\ UNCHANGED <<calls, msg>>
    BY <1>t, <1>9 DEF PushInc, Goto
  <2>2. /\ ring'.buf = ring.buf /\ ring'.head = ring.head
        /\ ring'.tail = ring.tail /\ ring'.count = ring.count + 1
    BY <1>t, <2>1, RingChanges DEF SameBut
  <2>3. /\ Len(committed') = Len(committed) + 1
        /\ committed'[Len(committed) + 1] = msg[w]
        /\ \A k \in 1 .. Len(committed) : committed'[k] = committed[k]
    BY <2>1 DEF TypeOK
  <2>4. /\ msg[w] \in Msgs /\ Len(committed) < calls /\ ring.count < Capacity
        /\ \A f \in Fields : ring.buf[Place(Len(committed) + 1)][f] = msg[w]
    BY <1>i, <2>1 DEF WriterInv
  <2>5. ring.buf[Place(Len(committed) + 1)] = Item(msg[w])
    <3>1. ring.buf[Place(Len(committed) + 1)] \in Items
      BY <1>t, <1>p
    <3> QED BY <2>4, <3>1 DEF Items, Item, Fields
  <2>6. LengthInv'
    BY <1>t, <1>i, <1>2, <2>1, <2>2, <2>3, <2>4 DEF LengthInv
  <2>7. UnreadInv'
    <3> SUFFICES ASSUME NEW k \in Len(popped) + 1 .. Len(committed) + 1
                 PROVE  ring.buf[Place(k)] = Item(committed'[k])
      BY <1>2, <2>2, <2>3 DEF UnreadInv
    <3>1. CASE k = Len(committed) + 1
      BY <2>3, <2>5, <3>1
    <3>2. CASE k \in Len(popped) + 1 .. Len(committed)
      BY <1>t, <1>i, <2>3, <3>2 DEF UnreadInv
    <3> QED BY <1>t, <3>1, <3>2
  <2>8. WriterInv(w)'
    BY <1>t, <1>i, <2>1, <2>2, <2>3 DEF WriterInv, Claims, IndexIs
  <2>9. ASSUME NEW r \in Readers PROVE ReaderInv(r)'
    <3>1. pc'[r] = pc[r] /\ idx'[r] = idx[r] /\ ReaderInv(r)
      BY <1>i, <1>1
    <3> QED BY <1>t, <1>2, <2>2, <2>3, <3>1 DEF ReaderInv, Claims, IndexIs
  <2> QED BY <2>6, <2>7, <2>8, <2>9 DEF FifoInv
<1> QED BY <1>5, <1>6, <1>7, <1>8, <1>9 DEF WriterStep

(* PopRead returns the oldest message not yet read, whole. *)
LEMMA FifoReads ==
  ASSUME TypeOK, FifoInv, NEW r \in Readers, PopRead(r)
  PROVE  /\ UNCHANGED <<ring, committed>> /\ idx'[r] = idx[r]
         /\ pc[r] = "read" /\ pc'[r] = "clear"
         /\ popped' = Append(popped, Item(committed[Len(popped) + 1]))
         /\ Len(popped) < Len(committed)
<1>1. /\ Len(committed) \in Nat /\ Len(popped) \in Nat /\ r \in Threads
      /\ pc \in [Threads -> WriterPcs \cup ReaderPcs]
  BY FifoTypes
<1>2. /\ UNCHANGED <<ring, idx, committed>> /\ pc[r] = "read" /\ pc'[r] = "clear"
      /\ popped' = LET i == ring.buf[calcPos(idx[r])]
                   IN  IF i.ptr = 0 THEN popped ELSE Append(popped, i)
  BY <1>1 DEF PopRead, Goto
<1>3. calcPos(idx[r]) = Place(Len(popped) + 1) /\ Len(popped) < Len(committed)
  BY <1>2 DEF FifoInv, ReaderInv
<1>4. ring.buf[Place(Len(popped) + 1)] = Item(committed[Len(popped) + 1])
  BY <1>1, <1>3 DEF FifoInv, UnreadInv
<1>5. committed[Len(popped) + 1] # 0
  BY <1>1, <1>3 DEF FifoInv, LengthInv, Msgs
<1>6. Item(committed[Len(popped) + 1]).ptr # 0
  BY <1>5 DEF Item
<1> QED BY <1>2, <1>3, <1>4, <1>6

(* The only reader takes a step; it never resets the ring. *)
LEMMA FifoReader ==
  ASSUME TypeOK, FifoInv, SlotsInTurn, ~Recycling,
         NEW r \in Readers, \A s \in Readers : s = r, ReaderStep(r)
  PROVE  FifoInv'
<1>t. /\ Len(committed) \in Nat /\ Len(popped) \in Nat
      /\ calls \in Nat /\ MaxMsgs \in Nat /\ calls <= MaxMsgs
      /\ ring \in Rings /\ ring.buf \in [Positions -> Items] /\ ring.count \in Int
      /\ ring.head \in Indexes /\ ring.tail \in Indexes /\ Capacity \in Nat \ {0}
      /\ pc \in [Threads -> WriterPcs \cup ReaderPcs] /\ idx \in [Threads -> Indexes]
      /\ r \in Threads /\ \A w \in Writers : w \in Threads /\ w # r
  BY FifoTypes
<1>i. LengthInv /\ UnreadInv /\ ReaderInv(r) /\ \A w \in Writers : WriterInv(w)
  BY DEF FifoInv
<1>p. /\ calcPos(idx[r]) \in Positions
      /\ \A k \in Int : Place(k) \in Positions
      /\ \A k, l \in Int : k < l /\ l - k < Capacity => Place(k) # Place(l)
  BY FifoTypes, PlaceType, PlacesDiffer
<1>1. \A w \in Writers : pc'[w] = pc[w] /\ idx'[w] = idx[w]
  BY <1>t DEF ReaderStep, Pop, PopCount, PopClaim, PopRead, PopClear, PopDec,
     ResetState, ResetCount, ResetIndexes, Goto
<1>2. UNCHANGED <<committed, calls, msg, unstored>>
  BY DEF ReaderStep, Pop, PopCount, PopClaim, PopRead, PopClear, PopDec,
     ResetState, ResetCount, ResetIndexes
<1>3. ASSUME ring'.head = ring.head, ring'.count \in Int, ring'.count <= ring.count,
             NEW w \in Writers,
             pc[w] \in {"store", "inc"} =>
               ring'.buf[Place(Len(committed) + 1)] = ring.buf[Place(Len(committed) + 1)]
      PROVE  WriterInv(w)'
  <2>1. pc'[w] = pc[w] /\ idx'[w] = idx[w] /\ WriterInv(w)
    BY <1>i, <1>1
  <2>2. pc[w] \in {"claim", "store", "inc"} => ring'.count < Capacity
    BY <1>t, <1>3, <2>1 DEF WriterInv
  <2> QED BY <1>2, <1>3, <2>1, <2>2 DEF WriterInv, Claims, IndexIs
<1>4. ASSUME ring'.head = ring.head, ring'.buf = ring.buf, ring'.count = ring.count,
             UNCHANGED popped, ReaderInv(r)'
      PROVE  FifoInv'
  <2>1. LengthInv' /\ UnreadInv'
    BY <1>i, <1>2, <1>4 DEF LengthInv, UnreadInv
  <2>2. \A w \in Writers : WriterInv(w)'
    BY <1>t, <1>3, <1>4
  <2> QED BY <1>4, <2>1, <2>2 DEF FifoInv
<1>5. CASE Pop(r) \/ PopCount(r)
  <2>1. /\ UNCHANGED <<ring, popped>> /\ pc[r] \in {"idle", "count"}
        /\ pc'[r] \in {"idle", "count", "claim"}
        /\ pc'[r] = "claim" => ring.count # 0
    BY <1>t, <1>5 DEF Pop, PopCount, Goto
  <2>2. pc'[r] = "claim" => Len(popped) < Len(committed)
    BY <1>t, <1>i, <2>1 DEF ReaderInv, LengthInv
  <2>3. /\ Len(committed') = Len(committed) /\ Len(popped') = Len(popped)
        /\ Claims(r, {"read"}, Len(popped))' = Claims(r, {"read"}, Len(popped))
    BY <1>2, <2>1 DEF Claims
  <2>4. ReaderInv(r)'
    BY <1>i, <2>1, <2>2, <2>3 DEF ReaderInv, IndexIs
  <2> QED BY <1>4, <2>1, <2>4
<1>6. CASE PopClaim(r)
  <2>1. /\ UNCHANGED popped /\ pc[r] = "claim" /\ pc'[r] = "read"
        /\ ring' = ClaimTail(ring) /\ idx'[r] = ring.tail
    BY <1>t, <1>6 DEF PopClaim, Goto
  <2>2. /\ ring'.buf = ring.buf /\ ring'.head = ring.head
        /\ ring'.tail = NextIndex(ring.tail) /\ ring'.count = ring.count
    BY <1>t, <2>1, RingChanges DEF SameBut
  <2>3. IndexIs(ring.tail, Len(popped)) /\ Len(popped) < MaxMsgs
    BY <1>t, <1>i, <2>1 DEF ReaderInv, Claims, LengthInv
  <2>4. /\ IndexIs(NextIndex(ring.tail), Len(popped) + 1)
        /\ calcPos(ring.tail) = Place(Len(popped) + 1)
    BY <1>t, <2>3, PlaceNext
  <2>5. ReaderInv(r)'
    BY <1>i, <1>2, <2>1, <2>2, <2>4 DEF ReaderInv, Claims, IndexIs
  <2> QED BY <1>4, <2>1, <2>2, <2>5
<1>7. CASE PopRead(r)
  <2>1. /\ UNCHANGED ring /\ pc[r] = "read" /\ pc'[r] = "clear" /\ idx'[r] = idx[r]
        /\ popped' = Append(popped, Item(committed[Len(popped) + 1]))
        /\ Len(popped) < Len(committed)
    BY FifoReads, <1>7
  <2>2. Len(popped') = Len(popped) + 1
    BY <2>1 DEF TypeOK
  <2>3. LengthInv'
    BY <1>t, <1>i, <1>2, <2>1, <2>2 DEF LengthInv
  <2>4. UnreadInv'
    BY <1>t, <1>i, <1>2, <2>1, <2>2 DEF UnreadInv
  <2>5. ReaderInv(r)'
    BY <1>t, <1>i, <1>2, <2>1, <2>2 DEF ReaderInv, Claims, IndexIs
  <2>6. \A w \in Writers : WriterInv(w)'
    BY <1>t, <1>3, <2>1
  <2> QED BY <2>3, <2>4, <2>5, <2>6 DEF FifoInv
<1>8. CASE PopClear(r)
  <2>1. /\ UNCHANGED popped /\ pc[r] = "clear" /\ pc'[r] = "dec" /\ idx'[r] = idx[r]
        /\ ring' = StoreItem(ring, calcPos(idx[r]), EmptyItem)
    BY <1>t, <1>8 DEF PopClear, Goto
  <2>2. PICK p \in Positions : p = calcPos(idx[r])
    BY <1>p
  <2>3. /\ ring'.head = ring.head /\ ring'.tail = ring.tail /\ ring'.count = ring.count
        /\ \A q \in Positions : q # p => ring'.buf[q] = ring.buf[q]
    BY <1>t, <2>1, <2>2, RingChanges DEF SameBut
  <2>4. p = Place(Len(popped)) /\ ring.count = Len(committed) - Len(popped) + 1
    BY <1>i, <2>1, <2>2 DEF ReaderInv
  <2>5. LengthInv'
    BY <1>i, <1>2, <2>1, <2>3 DEF LengthInv
  <2>6. UnreadInv'
    <3> SUFFICES ASSUME NEW k \in Len(popped) + 1 .. Len(committed)
                 PROVE  ring'.buf[Place(k)] = Item(committed[k])
      BY <1>2, <2>1 DEF UnreadInv
    <3>1. Place(k) \in Positions /\ Place(k) # p
      BY <1>t, <1>i, <1>p, <2>4 DEF LengthInv
    <3> QED BY <1>i, <2>3, <3>1 DEF UnreadInv
  <2>7. ReaderInv(r)'
    BY <1>i, <1>2, <2>1, <2>3 DEF ReaderInv, Claims, IndexIs
  <2>8. ASSUME NEW w \in Writers PROVE WriterInv(w)'
    <3>1. ASSUME pc[w] \in {"store", "inc"}
          PROVE  ring'.buf[Place(Len(committed) + 1)] = ring.buf[Place(Len(committed) + 1)]
      <4>1. ring.count < Capacity
        BY <1>i, <3>1 DEF WriterInv
      <4>2. Place(Len(committed) + 1) \in Positions /\ Place(Len(committed) + 1) # p
        BY <1>t, <1>i, <1>p, <2>4, <4>1 DEF LengthInv
      <4> QED BY <2>3, <4>2
    <3> QED BY <1>t, <1>3, <2>3, <3>1
  <2> QED BY <2>5, <2>6, <2>7, <2>8 DEF FifoInv
<1>9. CASE PopDec(r)
  <2>1. /\ UNCHANGED popped /\ pc[r] = "dec" /\ pc'[r] = "idle" /\ ring' = AddCount(ring, -1)
    BY <1>t, <1>9 DEF PopDec, Goto
  <2>2. /\ ring'.buf = ring.buf /\ ring'.head = ring.head
        /\ ring'.tail = ring.tail /\ ring'.count = ring.count - 1
    BY <1>t, <2>1, RingChanges DEF SameBut
  <2>3. LengthInv'
    BY <1>t, <1>i, <1>2, <2>1, <2>2 DEF LengthInv, ReaderInv
  <2>4. UnreadInv'
    BY <1>i, <1>2, <2>1, <2>2 DEF UnreadInv
  <2>5. ReaderInv(r)'
    BY <1>t, <1>i, <1>2, <2>1, <2>2 DEF ReaderInv, Claims, IndexIs
  <2>6. \A w \in Writers : WriterInv(w)'
    BY <1>t, <1>3, <2>2
  <2> QED BY <2>3, <2>4, <2>5, <2>6 DEF FifoInv
<1>10. CASE ResetState(r) \/ ResetCount(r) \/ ResetIndexes(r)
  BY <1>i, <1>10 DEF ResetState, ResetCount, ResetIndexes, Goto, ReaderInv
<1> QED BY <1>5, <1>6, <1>7, <1>8, <1>9, <1>10 DEF ReaderStep

LEMMA FifoNext ==
  ASSUME SlotsInTurn, ~Recycling,
         \A v, w \in Writers : v = w, \A r, s \in Readers : r = s
  PROVE  TypeOK /\ FifoInv /\ [Next]_vars => FifoInv'
<1> SUFFICES ASSUME TypeOK, FifoInv, [Next]_vars PROVE FifoInv'
  OBVIOUS
<1>1. CASE \E w \in Writers : WriterStep(w)
  BY <1>1, FifoWriter
<1>2. CASE \E r \in Readers : ReaderStep(r)
  BY <1>2, FifoReader
<1>3. ASSUME UNCHANGED <<pc, idx, msg, unstored, calls, committed, popped>>,
             SameBut(ring, ring', {})
      PROVE  FifoInv'
  <2>1. /\ ring'.buf = ring.buf /\ ring'.head = ring.head
        /\ ring'.tail = ring.tail /\ ring'.count = ring.count
    BY <1>3 DEF SameBut
  <2> QED BY <1>3, <2>1 DEF FifoInv, LengthInv, UnreadInv, WriterInv, ReaderInv, Claims, IndexIs
<1>4. CASE OwnerSetState
  <2>1. ring \in Rings
    BY DEF TypeOK
  <2>2. SameBut(ring, ring', {})
    BY <1>4, <2>1, RingChanges DEF OwnerSetState
  <2> QED BY <1>3, <1>4, <2>2 DEF OwnerSetState
<1>5. CASE UNCHANGED vars
  BY <1>3, <1>5 DEF vars, SameBut
<1> QED BY <1>1, <1>2, <1>4, <1>5 DEF Next

(* Only count++ and the load of a slot are steps of the queue. *)
LEMMA FifoSimulation ==
  ASSUME \A v, w \in Writers : v = w
  PROVE  TypeOK /\ FifoInv /\ [Next]_vars => [Fifo!Next]_(Fifo!fifoVars)
<1> SUFFICES ASSUME TypeOK, FifoInv, [Next]_vars PROVE [Fifo!Next]_(Fifo!fifoVars)
  OBVIOUS
<1>1. /\ Len(committed) \in Nat /\ Len(popped) \in Nat /\ Capacity \in Nat /\ ring.count \in Int
      /\ Len(popped) <= Len(committed)
      /\ Len(committed) - Len(popped) <= ring.count /\ LengthInv
  BY FifoTypes DEF FifoInv, LengthInv
<1>2. PICK n \in Nat : n = Len(committed) - Len(popped)
  BY <1>1
<1>3. Unread \in Seq({Item(m) : m \in Msgs}) /\ Len(Unread) = n
  <2>1. \A i \in 1 .. n : committed[Len(popped) + i] \in Msgs
    BY <1>1, <1>2 DEF LengthInv
  <2>2. Unread \in [1 .. n -> {Item(m) : m \in Msgs}]
    BY <1>2, <2>1 DEF Unread
  <2> QED BY <2>2
<1>4. CASE UNCHANGED <<committed, popped>>
  BY <1>4 DEF Unread, Fifo!fifoVars
<1>5. ASSUME NEW w \in Writers, PushInc(w) PROVE Fifo!Put
  <2>1. /\ pc[w] = "inc" /\ committed' = Append(committed, msg[w]) /\ UNCHANGED popped
    BY <1>5 DEF PushInc, Goto
  <2>2. msg[w] \in Msgs /\ ring.count < Capacity
    BY <2>1 DEF FifoInv, WriterInv
  <2>3. PICK i \in {Item(m) : m \in Msgs} : i = Item(msg[w])
    BY <2>2
  <2>4. /\ Len(committed') = Len(committed) + 1
        /\ committed'[Len(committed) + 1] = msg[w]
        /\ \A k \in 1 .. Len(committed) : committed'[k] = committed[k]
    BY <2>1 DEF TypeOK
  <2>5. Unread' = Append(Unread, i)
    <3>1. Unread' = [k \in 1 .. n + 1 |-> Item(committed'[Len(popped) + k])]
      BY <1>1, <1>2, <2>1, <2>4 DEF Unread
    <3>2. PICK u : u = Append(Unread, i)
      OBVIOUS
    <3>3. u \in Seq({Item(m) : m \in Msgs}) /\ Len(u) = n + 1
      BY <1>3, <2>3, <3>2
    <3>4. u[n + 1] = i /\ \A k \in 1 .. n : u[k] = Unread[k]
      BY <1>3, <2>3, <3>2
    <3>5. ASSUME NEW k \in 1 .. n + 1 PROVE Item(committed'[Len(popped) + k]) = u[k]
      <4>1. CASE k = n + 1
        BY <1>1, <1>2, <2>3, <2>4, <3>4, <4>1
      <4>2. CASE k \in 1 .. n
        <5>1. Unread[k] = Item(committed[Len(popped) + k])
          BY <1>2, <4>2 DEF Unread
        <5>2. Len(popped) + k \in 1 .. Len(committed)
          BY <1>1, <1>2, <4>2
        <5> QED BY <2>4, <3>4, <4>2, <5>1, <5>2
      <4> QED BY <1>2, <4>1, <4>2
    <3>6. u = [k \in 1 .. n + 1 |-> u[k]]
      BY <3>3
    <3> QED BY <3>1, <3>2, <3>5, <3>6
  <2>6. Len(Unread) < Capacity
    BY <1>1, <1>2, <1>3, <2>2
  <2> QED BY <2>1, <2>3, <2>5, <2>6 DEF Fifo!Put
<1>6. ASSUME NEW r \in Readers, PopRead(r) PROVE Fifo!Take
  <2>1. /\ popped' = Append(popped, Item(committed[Len(popped) + 1]))
        /\ UNCHANGED committed /\ Len(popped) < Len(committed)
    BY <1>6, FifoReads
  <2>2. Len(popped') = Len(popped) + 1
    BY <2>1 DEF TypeOK
  <2>3. n >= 1 /\ Unread # <<>>
    BY <1>1, <1>2, <1>3, <2>1
  <2>4. Head(Unread) = Item(committed[Len(popped) + 1])
    <3>1. Unread[1] = Item(committed[Len(popped) + 1])
      BY <1>1, <1>2, <2>3 DEF Unread
    <3> QED BY <1>3, <2>3, <3>1
  <2>5. Unread' = Tail(Unread)
    <3>1. Unread' = [k \in 1 .. n - 1 |-> Item(committed[Len(popped) + 1 + k])]
      BY <1>1, <1>2, <2>1, <2>2 DEF Unread
    <3>2. PICK u : u = Tail(Unread)
      OBVIOUS
    <3>3. u \in Seq({Item(m) : m \in Msgs}) /\ Len(u) = n - 1
      BY <1>3, <2>3, <3>2
    <3>4. \A k \in 1 .. n - 1 : u[k] = Unread[k + 1]
      BY <1>3, <2>3, <3>2
    <3>5. ASSUME NEW k \in 1 .. n - 1 PROVE Item(committed[Len(popped) + 1 + k]) = u[k]
      <4>1. k + 1 \in 1 .. n /\ Len(popped) + (k + 1) = Len(popped) + 1 + k
        BY <1>1, <1>2
      <4>2. Unread[k + 1] = Item(committed[Len(popped) + (k + 1)])
        BY <1>2, <4>1 DEF Unread
      <4> QED BY <3>4, <4>1, <4>2
    <3>6. u = [k \in 1 .. n - 1 |-> u[k]]
      BY <3>3
    <3> QED BY <3>1, <3>2, <3>5, <3>6
  <2> QED BY <2>1, <2>3, <2>4, <2>5 DEF Fifo!Take
<1>7. \/ UNCHANGED <<committed, popped>>
      \/ \E w \in Writers : PushInc(w)
      \/ \E r \in Readers : PopRead(r)
  BY DEF Next, WriterStep, ReaderStep, OwnerSetState, vars, Write, PushState, PushCount,
     PushSeal, PushClaim, PushStore, Pop, PopCount, PopClaim, PopClear, PopDec,
     ResetState, ResetCount, ResetIndexes
<1> QED BY <1>4, <1>5, <1>6, <1>7 DEF Fifo!Next

(* With one writer and one reader, no Reset, and slots used in turn, the   *)
(* ring implements a bounded FIFO of whole items, for every capacity and   *)
(* whatever states the owner stores.                                       *)
THEOREM RingIsFifo ==
  ASSUME SlotsInTurn, ~Recycling,
         \A v, w \in Writers : v = w, \A r, s \in Readers : r = s
  PROVE  Spec => ImplementsFifo
<1>1. Init => Fifo!Init
  <2> SUFFICES ASSUME Init PROVE Fifo!Init
    OBVIOUS
  <2>1. committed = <<>> /\ popped = <<>>
    BY DEF Init
  <2>2. Unread = <<>>
    BY <2>1 DEF Unread
  <2> QED BY <2>1, <2>2 DEF Fifo!Init
<1>2. TypeOK /\ FifoInv /\ [Next]_vars => FifoInv'
  BY FifoNext
<1>3. TypeOK /\ FifoInv /\ [Next]_vars => [Fifo!Next]_(Fifo!fifoVars)
  BY FifoSimulation
<1> QED BY <1>1, <1>2, <1>3, FifoInit, RingTypeOK, PTL DEF Spec, ImplementsFifo, Fifo!Spec
=============================================================================
