---------------------------- MODULE SmartBuffer ----------------------------
(***************************************************************************)
(* core/component/smart_buffer.go: one ring shared by writer and reader    *)
(* threads without a lock.  Every atomic access is a step, but for the     *)
(* rounds of Push and Pop whose CAS fails: they change nothing and keep    *)
(* nothing, so a thread takes only its last round.  The plain two-word     *)
(* store of a slot is two steps, in either order.                          *)
(*                                                                         *)
(*   writer:  idle - Write -> state -> count -> claim -> store(2) -> inc   *)
(*                 -> idle             (or count -> seal -> idle)          *)
(*   reader:  idle - Pop -> count -> claim -> read -> clear -> dec -> idle *)
(*                                     (or count -> idle)                  *)
(*            idle - Reset -> zero -> rewind -> idle                       *)
(***************************************************************************)
EXTENDS SmartBufferOps, Sequences, FiniteSets

CONSTANTS Writers, Readers,
          MaxMsgs,       \* bound: messages handed to Write
          OwnerStates,   \* the states the owner may store with SetState
          Recycling      \* whether readers Reset the ring

ASSUME ThreadsAssumption == /\ IsFiniteSet(Writers) /\ IsFiniteSet(Readers)
                            /\ Writers \cap Readers = {}
ASSUME OwnerAssumption == /\ OwnerStates \subseteq BufferStates
                          /\ Recycling \in BOOLEAN
ASSUME MaxMsgsAssumption == MaxMsgs \in Nat

Threads  == Writers \cup Readers
Msgs     == 1 .. MaxMsgs
Payloads == 0 .. MaxMsgs

VARIABLES
  ring,        \* the SmartBuffer
  pc,          \* where each thread is
  idx,         \* the head or tail a thread loaded; after its CAS, its claim
  msg,         \* the message a writer carries
  unstored,    \* the words of its slot a writer has yet to store
  calls,       \* Write calls so far: message k is the k-th call's
  committed,   \* history: messages in the order their count++ ran
  popped       \* history: items Pop returned with a pointer, in order

vars == <<ring, pc, idx, msg, unstored, calls, committed, popped>>

WriterPcs == {"idle", "state", "count", "seal", "claim", "store", "inc"}
ReaderPcs == {"idle", "count", "claim", "read", "clear", "dec", "zero", "rewind"}

Items == [ptr : Payloads, size : Payloads]

Init ==
  /\ ring = NewSmartBuffer
  /\ pc = [t \in Threads |-> "idle"]
  /\ idx = [t \in Threads |-> -1]
  /\ msg = [w \in Writers |-> 0]
  /\ unstored = [w \in Writers |-> {}]
  /\ calls = 0
  /\ committed = <<>>
  /\ popped = <<>>

Goto(t, from, to) == pc[t] = from /\ pc' = [pc EXCEPT ![t] = to]

-----------------------------------------------------------------------------
(* Write and Push *)

(* Write: a closed buffer refuses the item; any other goes on to Push. *)
Write(w) ==
  /\ calls < MaxMsgs
  /\ ring.state # Switching
  /\ Goto(w, "idle", "state")
  /\ calls' = calls + 1
  /\ msg' = [msg EXCEPT ![w] = calls + 1]
  /\ UNCHANGED <<ring, idx, unstored, committed, popped>>

(* The load of state; a read-only ring fails the call. *)
PushState(w) ==
  /\ Goto(w, "state", IF ring.state = ReadOnly THEN "idle" ELSE "count")
  /\ UNCHANGED <<ring, idx, msg, unstored, calls, committed, popped>>

(* Mutant: off by one in the test for a full ring. *)
PushCount_OffByOne(w) ==
  /\ Goto(w, "count", IF ring.count > Capacity THEN "seal" ELSE "claim")
  /\ UNCHANGED <<ring, idx, msg, unstored, calls, committed, popped>>

(* The load of count. *)
PushCount(w) ==
  /\ Goto(w, "count", IF ring.count >= Capacity THEN "seal" ELSE "claim")
  /\ UNCHANGED <<ring, idx, msg, unstored, calls, committed, popped>>

(* The writer that found the ring full makes it read-only and fails. *)
PushSeal(w) ==
  /\ Goto(w, "seal", "idle")
  /\ ring' = SealFull(ring)
  /\ UNCHANGED <<idx, msg, unstored, calls, committed, popped>>

(* The CAS of head that succeeds, and so the load of head before it, which *)
(* found the same value: it claims the slot of the head it replaces.       *)
PushClaim(w) ==
  /\ Goto(w, "claim", "store")
  /\ idx' = [idx EXCEPT ![w] = ring.head]
  /\ ring' = ClaimHead(ring)
  /\ unstored' = [unstored EXCEPT ![w] = Fields]
  /\ UNCHANGED <<msg, calls, committed, popped>>

(* Mutant: the slot is published after its first word. *)
PushStore_HalfDone(w) ==
  \E f \in unstored[w] :
    /\ Goto(w, "store", "inc")
    /\ ring' = StoreField(ring, calcPos(idx[w]), f, msg[w])
    /\ unstored' = [unstored EXCEPT ![w] = @ \ {f}]
    /\ UNCHANGED <<idx, msg, calls, committed, popped>>

(* One word of the slot, whatever the slot holds. *)
PushStore(w) ==
  \E f \in unstored[w] :
    /\ Goto(w, "store", IF unstored[w] = {f} THEN "inc" ELSE "store")
    /\ ring' = StoreField(ring, calcPos(idx[w]), f, msg[w])
    /\ unstored' = [unstored EXCEPT ![w] = @ \ {f}]
    /\ UNCHANGED <<idx, msg, calls, committed, popped>>

PushInc(w) ==
  /\ Goto(w, "inc", "idle")
  /\ ring' = AddCount(ring, 1)
  /\ committed' = Append(committed, msg[w])
  /\ UNCHANGED <<idx, msg, unstored, calls, popped>>

-----------------------------------------------------------------------------
(* Pop *)

Pop(r) ==
  /\ Goto(r, "idle", "count")
  /\ UNCHANGED <<ring, idx, msg, unstored, calls, committed, popped>>

(* Mutant: Pop does not look at count. *)
PopCount_Unchecked(r) ==
  /\ Goto(r, "count", "claim")
  /\ UNCHANGED <<ring, idx, msg, unstored, calls, committed, popped>>

(* The load of count: zero returns nil, any other value goes on. *)
PopCount(r) ==
  /\ Goto(r, "count", IF ring.count = 0 THEN "idle" ELSE "claim")
  /\ UNCHANGED <<ring, idx, msg, unstored, calls, committed, popped>>

(* The CAS of tail that succeeds. *)
PopClaim(r) ==
  /\ Goto(r, "claim", "read")
  /\ idx' = [idx EXCEPT ![r] = ring.tail]
  /\ ring' = ClaimTail(ring)
  /\ UNCHANGED <<msg, unstored, calls, committed, popped>>

(* The load of the slot that decides: the first with a pointer, or the     *)
(* third.  The item it finds is what Pop will return.                      *)
PopRead(r) ==
  LET i == ring.buf[calcPos(idx[r])] IN
  /\ Goto(r, "read", "clear")
  /\ popped' = IF i.ptr = 0 THEN popped ELSE Append(popped, i)
  /\ UNCHANGED <<ring, idx, msg, unstored, calls, committed>>

(* Mutant: the slot is not cleared. *)
PopClear_Kept(r) ==
  /\ Goto(r, "clear", "dec")
  /\ UNCHANGED <<ring, idx, msg, unstored, calls, committed, popped>>

PopClear(r) ==
  /\ Goto(r, "clear", "dec")
  /\ ring' = StoreItem(ring, calcPos(idx[r]), EmptyItem)
  /\ UNCHANGED <<idx, msg, unstored, calls, committed, popped>>

PopDec(r) ==
  /\ Goto(r, "dec", "idle")
  /\ ring' = AddCount(ring, -1)
  /\ UNCHANGED <<idx, msg, unstored, calls, committed, popped>>

-----------------------------------------------------------------------------
(* Reset and SetState, called by whoever owns the ring *)

ResetState(r) ==
  /\ Recycling
  /\ Goto(r, "idle", "zero")
  /\ ring' = SetState(ring, WriteOnly)
  /\ UNCHANGED <<idx, msg, unstored, calls, committed, popped>>

ResetCount(r) ==
  /\ Goto(r, "zero", "rewind")
  /\ ring' = ZeroCount(ring)
  /\ UNCHANGED <<idx, msg, unstored, calls, committed, popped>>

ResetIndexes(r) ==
  /\ Goto(r, "rewind", "idle")
  /\ ring' = RewindIndexes(ring)
  /\ UNCHANGED <<idx, msg, unstored, calls, committed, popped>>

OwnerSetState ==
  /\ \E s \in OwnerStates : ring' = SetState(ring, s)
  /\ UNCHANGED <<pc, idx, msg, unstored, calls, committed, popped>>

-----------------------------------------------------------------------------
WriterStep(w) ==
  \/ Write(w) \/ PushState(w) \/ PushCount(w) \/ PushSeal(w)
  \/ PushClaim(w) \/ PushStore(w) \/ PushInc(w)

ReaderStep(r) ==
  \/ Pop(r) \/ PopCount(r) \/ PopClaim(r) \/ PopRead(r)
  \/ PopClear(r) \/ PopDec(r)
  \/ ResetState(r) \/ ResetCount(r) \/ ResetIndexes(r)

Next ==
  \/ \E w \in Writers : WriterStep(w)
  \/ \E r \in Readers : ReaderStep(r)
  \/ OwnerSetState

Spec == Init /\ [][Next]_vars

-----------------------------------------------------------------------------
(* Properties *)

Rings ==
  [ buf : [Positions -> Items], head : Indexes, tail : Indexes, count : Int,
    state : BufferStates ]

(* Every variable keeps its type: the indexes stay int32 values through    *)
(* their wrap-around, and every slot a thread addresses exists.            *)
TypeOK ==
  /\ ring \in Rings
  /\ pc \in [Threads -> WriterPcs \cup ReaderPcs]
  /\ \A w \in Writers : pc[w] \in WriterPcs
  /\ \A r \in Readers : pc[r] \in ReaderPcs
  /\ idx \in [Threads -> Indexes]
  /\ msg \in [Writers -> Payloads]
  /\ unstored \in [Writers -> SUBSET Fields]
  /\ calls \in Payloads
  /\ committed \in Seq(Payloads)
  /\ popped \in Seq(Items)

(* The writers that have passed Push's test of count and not yet added to  *)
(* it: the room each of them saw may be the same room.                     *)
InFlight == {w \in Writers : pc[w] \in {"claim", "store", "inc"}}

(* The check of count and its increment are far apart, so Push can overrun *)
(* the ring; but by no more than the other writers: at most                *)
(* Capacity - 1 + |Writers| messages are counted or about to be, whatever  *)
(* the readers, Reset and SetState do meanwhile.  With one writer the ring *)
(* never holds more than its capacity.                                     *)
CountBounded ==
  ring.count + Cardinality(InFlight) <= Capacity - 1 + Cardinality(Writers)

(* A single reader never drives count below zero, with any number of       *)
(* writers and with Reset between its calls: between the load that found   *)
(* it positive and the decrement, nobody else decrements.  (Pop tests for  *)
(* zero only, so a negative count would never again look empty.)           *)
CountNeverNegative == ring.count >= 0

(* A single reader never gets the same message from two Pops, however many *)
(* writers overrun the ring or store into a slot it has just cleared.      *)
NoDuplicate ==
  \A i, j \in 1 .. Len(popped) :
    popped[i].ptr = popped[j].ptr => i = j

(* With one writer and one reader, and no Reset, the ring is a bounded     *)
(* FIFO: it implements BoundedFifo with the items committed by count++ and *)
(* not yet read as the queue, through any wrap-around of the indexes and   *)
(* any SetState.  Items are whole: a Pop returns, as its comment promises, *)
(* "pointer and data length" of one message.                               *)
Unread == [i \in 1 .. (Len(committed) - Len(popped)) |->
             Item(committed[Len(popped) + i])]

Fifo == INSTANCE BoundedFifo WITH
          q <- Unread, out <- popped, Items <- {Item(m) : m \in Msgs}

ImplementsFifo == Fifo!Spec
=============================================================================
