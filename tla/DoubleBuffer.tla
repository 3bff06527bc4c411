---------------------------- MODULE DoubleBuffer ----------------------------
(***************************************************************************)
(* core/double_buffer.go: writers append to the active SmartBuffer, a      *)
(* switch of channels (by a writer that found it full, or by swapMonitor)  *)
(* rotates it into a min-heap through a goroutine of its own, and readers  *)
(* take the rotated buffers in the order of their sequence numbers, recycle*)
(* them through a pool, and block in the waiter manager when there is none.*)
(*                                                                         *)
(* A step is one access to shared state that another thread can fall       *)
(* between, with the accesses around it that commute with every step of    *)
(* the others:                                                             *)
(*  - a retry loop around a CAS is the step of the CAS that succeeds; the  *)
(*    failed rounds change nothing and keep nothing;                       *)
(*  - the store of a slot goes with the count++ that publishes it and with *)
(*    d.count++, the go statement of a switch with the swap, the load of   *)
(*    tail with the load of the slot, Reset with the Put of the buffer.    *)
(* SmartBuffer has the ring at the grain of single loads and stores.       *)
(*                                                                         *)
(* Time is not a variable: any time can pass between two ticks, so the     *)
(* strategy may find a switch due at every tick (SwitchTrigger), and       *)
(* d.count and lastSwitch, which only the strategy reads, are left out.    *)
(* switchLock is taken only between the CAS to Switching and the store of  *)
(* Writing, which exclude each other already.                              *)
(***************************************************************************)
EXTENDS SmartBufferOps, Sequences, FiniteSets, FiniteSetsExt, Bags

CONSTANTS
  Writers, Readers, Closers,  \* threads calling Write, BlockingRead, Close
  None,                       \* nil
  ReadModes,      \* the modes RegisterReadMode is called with
  PoolForgets,    \* whether the garbage collector may empty the sync.Pool
  MaxMsgs,        \* bound: calls of Write
  MaxRotations,   \* bound: channel switches
  MaxPushers      \* bound: goroutines of switches alive when one starts

ASSUME BoundsAssumption ==
  /\ MaxMsgs \in Nat /\ MaxRotations \in Nat /\ MaxPushers \in Nat
  /\ PoolForgets \in BOOLEAN
  /\ IsFiniteSet(Writers) /\ IsFiniteSet(Readers) /\ IsFiniteSet(Closers)

(* The two goroutines of NewDoubleBuffer, counted by wg. *)
Monitor  == "swapMonitor"
Recycler == "asyncRecycleWorker"
Workers  == {Monitor, Recycler}

Threads   == Writers \cup Readers \cup Closers \cup {Monitor}
Switchers == Writers \cup {Monitor}
Bufs      == 1 .. MaxRotations + 2    \* every Get finds a buffer or makes one
Msgs      == 1 .. MaxMsgs

(* A thread has one role, and nil is not a buffer. *)
ASSUME ThreadsAssumption ==
  /\ Writers \cap Readers = {} /\ Writers \cap Closers = {} /\ Readers \cap Closers = {}
  /\ Monitor \notin Writers \cup Readers \cup Closers
  /\ None \notin Bufs

WritingState   == "Writing"
SwitchingState == "Switching"
ClosedState    == "Closed"

MaxWaitersPerBatch == 64
MaxTotalWaiters    == 1024
MaxPickRetries     == 3

VARIABLES
  state,            \* d.state
  active, passive,  \* the two channels
  buf,              \* the SmartBuffer of each id
  pool, allocated,  \* d.pool: how often each id is in it; ids made so far
  writeLock,        \* its holder, or None
  sequence, currentSequence, pendingHeap,
  rotations,        \* switches made so far
  pushers,          \* the bag of their goroutines that have not ended
  currentBuffer, readMode,
  ws, tokens,       \* waiter manager: registered readers; readers notified
  stop, workers,    \* the stop channel is closed; goroutines wg waits for
  pc, loc,          \* control point and locals of each thread
  panicked,         \* a nil dereference has ended the process
  calls, delivered  \* history: calls of Write (message k is the k-th
                    \* call's); messages returned to readers, in order

channelVars == <<state, active, passive>>
bufVars     == <<buf, pool, allocated>>
heapVars    == <<sequence, currentSequence, pendingHeap, rotations, pushers>>
readVars    == <<currentBuffer, readMode>>
waitVars    == <<ws, tokens>>
closeVars   == <<stop, workers, panicked>>
history     == <<calls, delivered>>
vars == <<channelVars, bufVars, writeLock, heapVars, readVars, waitVars,
          closeVars, pc, loc, history>>

(* The locals of a call; those a thread does not use keep these values. *)
NoLocals == [ref |-> None, pos |-> 0, val |-> 0, seq |-> 0, retry |-> 0,
             slow |-> FALSE]

Init ==
  /\ state = WritingState
  /\ active = 1 /\ passive = 2
  /\ buf = [b \in Bufs |-> NewSmartBuffer]
  /\ pool = [b \in Bufs |-> 0] /\ allocated = 2
  /\ writeLock = None
  /\ sequence = 0 /\ currentSequence = 1 /\ pendingHeap = {}
  /\ rotations = 0 /\ pushers = EmptyBag
  /\ currentBuffer = None /\ readMode = None
  /\ ws = {} /\ tokens = {}
  /\ stop = FALSE /\ workers = Workers /\ panicked = FALSE
  /\ pc = [t \in Threads |-> "idle"]
  /\ loc = [t \in Threads |-> NoLocals]
  /\ calls = 0 /\ delivered = <<>>

-----------------------------------------------------------------------------
(* Control *)

At(t, l)   == pc[t] = l
Goto(t, l) == pc' = [pc EXCEPT ![t] = l]

(* The buffer a thread works on. *)
Ref(t) == buf[loc[t].ref]

(* The call returns. *)
Return(t) == /\ pc' = [pc EXCEPT ![t] = "idle"]
             /\ loc' = [loc EXCEPT ![t] = NoLocals]

(* A panic ends every goroutine of the process. *)
Panic == /\ panicked' = TRUE
         /\ pc' = [t \in Threads |-> "dead"]
         /\ workers' = {}

Put(b) == pool' = [pool EXCEPT ![b] = @ + 1]

(* The buffers pool.Get may return: any pooled one, or a new one when there *)
(* is none or the garbage collector has dropped them.                      *)
Pooled   == {b \in Bufs : pool[b] > 0}
Gettable == Pooled \cup {b \in {allocated + 1} \cap Bufs : PoolForgets \/ Pooled = {}}
Get(b) == IF b = allocated + 1
            THEN allocated' = b /\ UNCHANGED pool
            ELSE pool' = [pool EXCEPT ![b] = @ - 1] /\ UNCHANGED allocated

-----------------------------------------------------------------------------
(* Write *)

(* A closed buffer returns ErrBufferClose at once. *)
Write(w) ==
  /\ At(w, "idle") /\ calls < MaxMsgs
  /\ state # ClosedState
  /\ Goto(w, "fast")
  /\ calls' = calls + 1
  /\ loc' = [loc EXCEPT ![w].val = calls + 1]
  /\ UNCHANGED <<channelVars, bufVars, writeLock, heapVars, readVars, waitVars,
                 closeVars, delivered>>

FastPath(w) ==
  /\ At(w, "fast")
  /\ Goto(w, IF state = WritingState THEN "load" ELSE "lock")
  /\ UNCHANGED <<channelVars, bufVars, writeLock, heapVars, readVars, waitVars,
                 closeVars, loc, history>>

(* The read of d.active in front of active.Write, on both paths. *)
LoadActive(w) ==
  /\ At(w, "load")
  /\ Goto(w, "state")
  /\ loc' = [loc EXCEPT ![w].ref = active]
  /\ UNCHANGED <<channelVars, bufVars, writeLock, heapVars, readVars, waitVars,
                 closeVars, history>>

(* Mutant: the error return forgets the unlock. *)
PushFailed_Locked(w) ==
  IF loc[w].slow
    THEN /\ Return(w)
         /\ UNCHANGED writeLock
    ELSE /\ Goto(w, "lock")
         /\ UNCHANGED <<loc, writeLock>>

(* Push fails: the fast path falls through to the lock, the slow path      *)
(* returns the error and unlocks.                                          *)
PushFailed(w) ==
  IF loc[w].slow
    THEN /\ Return(w)
         /\ writeLock' = None
    ELSE /\ Goto(w, "lock")
         /\ UNCHANGED <<loc, writeLock>>

PushState(w) ==
  /\ At(w, "state")
  /\ IF Ref(w).state = ReadOnly
       THEN PushFailed(w)
       ELSE Goto(w, "count") /\ UNCHANGED <<loc, writeLock>>
  /\ UNCHANGED <<channelVars, bufVars, heapVars, readVars, waitVars, closeVars,
                 history>>

PushCount(w) ==
  /\ At(w, "count")
  /\ Goto(w, IF Ref(w).count >= Capacity THEN "full" ELSE "claim")
  /\ UNCHANGED <<channelVars, bufVars, writeLock, heapVars, readVars, waitVars,
                 closeVars, loc, history>>

PushFull(w) ==
  /\ At(w, "full")
  /\ buf' = [buf EXCEPT ![loc[w].ref] = SealFull(@)]
  /\ PushFailed(w)
  /\ UNCHANGED <<channelVars, pool, allocated, heapVars, readVars, waitVars,
                 closeVars, history>>

PushClaim(w) ==
  /\ At(w, "claim")
  /\ Goto(w, "store")
  /\ buf' = [buf EXCEPT ![loc[w].ref] = ClaimHead(@)]
  /\ loc' = [loc EXCEPT ![w].pos = calcPos(Ref(w).head)]
  /\ UNCHANGED <<channelVars, pool, allocated, writeLock, heapVars, readVars,
                 waitVars, closeVars, history>>

(* The slot is stored and counted, Write returns nil and, on the slow      *)
(* path, unlocks.                                                          *)
PushStore(w) ==
  /\ At(w, "store")
  /\ Return(w)
  /\ buf' = [buf EXCEPT ![loc[w].ref] =
               AddCount(StoreItem(@, loc[w].pos, Item(loc[w].val)), 1)]
  /\ writeLock' = IF loc[w].slow THEN None ELSE writeLock
  /\ UNCHANGED <<channelVars, pool, allocated, heapVars, readVars, waitVars,
                 closeVars, history>>

(* The slow path: the lock, and the read of d.active for GetState. *)
SlowPath(w) ==
  /\ At(w, "lock") /\ writeLock = None
  /\ Goto(w, "peek")
  /\ writeLock' = w
  /\ loc' = [loc EXCEPT ![w].slow = TRUE, ![w].ref = active]
  /\ UNCHANGED <<channelVars, bufVars, heapVars, readVars, waitVars, closeVars,
                 history>>

(* A read-only active channel is switched by the writer itself; in any     *)
(* other state it goes on to its second attempt.                           *)
PeekActive(w) ==
  /\ At(w, "peek")
  /\ Goto(w, IF Ref(w).state = ReadOnly THEN "switch" ELSE "load")
  /\ UNCHANGED <<channelVars, bufVars, writeLock, heapVars, readVars, waitVars,
                 closeVars, loc, history>>

-----------------------------------------------------------------------------
(* switchChannel, by a writer or by swapMonitor *)

Switched(t) == IF t = Monitor THEN "idle" ELSE "load"

(* The goroutine of a rotation, at label l. *)
Pusher(l, b, s, n) == [pc |-> l, buf |-> b, seq |-> s, n |-> n]

(* Mutant: a store instead of a CAS. *)
SwitchCas_Unguarded(t) ==
  /\ IF t = Monitor THEN At(t, "idle") /\ Monitor \in workers ELSE At(t, "switch")
  /\ IF state # ClosedState
       THEN /\ rotations < MaxRotations /\ BagCardinality(pushers) < MaxPushers
            /\ state' = SwitchingState
            /\ Goto(t, "seal")
       ELSE Goto(t, Switched(t)) /\ UNCHANGED state
  /\ UNCHANGED <<active, passive, bufVars, writeLock, heapVars, readVars,
                 waitVars, closeVars, loc, history>>

(* The CAS Writing -> Switching; whoever loses it skips the switch.  The   *)
(* monitor comes here from any tick at which its strategy says so.         *)
SwitchCas(t) ==
  /\ IF t = Monitor THEN At(t, "idle") /\ Monitor \in workers ELSE At(t, "switch")
  /\ IF state = WritingState
       THEN /\ rotations < MaxRotations /\ BagCardinality(pushers) < MaxPushers
            /\ state' = SwitchingState
            /\ Goto(t, "seal")
       ELSE Goto(t, Switched(t)) /\ UNCHANGED state
  /\ UNCHANGED <<active, passive, bufVars, writeLock, heapVars, readVars,
                 waitVars, closeVars, loc, history>>

(* Mutant: the old active channel is not sealed. *)
SwitchSeal_Skipped(t) ==
  /\ At(t, "seal")
  /\ Goto(t, "swap")
  /\ UNCHANGED <<channelVars, bufVars, writeLock, heapVars, readVars,
                 waitVars, closeVars, loc, history>>

SwitchSeal(t) ==
  /\ At(t, "seal")
  /\ Goto(t, "swap")
  /\ buf' = [buf EXCEPT ![active] = SetState(@, ReadOnly)]
  /\ UNCHANGED <<channelVars, pool, allocated, writeLock, heapVars, readVars,
                 waitVars, closeVars, loc, history>>

(* pool.Get and swapChannels: passive becomes active, the buffer from the  *)
(* pool becomes passive, and a goroutine starts that will push the old     *)
(* active.                                                                 *)
SwitchSwap(t) ==
  /\ At(t, "swap")
  /\ Goto(t, "open")
  /\ \E newBuf \in Gettable : Get(newBuf) /\ passive' = newBuf
  /\ active' = passive
  /\ rotations' = rotations + 1
  /\ pushers' = pushers (+) SetToBag({Pusher("sequence", active, 0, 0)})
  /\ UNCHANGED <<state, buf, writeLock, sequence, currentSequence, pendingHeap,
                 readVars, waitVars, closeVars, loc, history>>

(* The deferred store of Writing. *)
SwitchOpen(t) ==
  /\ At(t, "open")
  /\ Goto(t, Switched(t))
  /\ state' = WritingState
  /\ UNCHANGED <<active, passive, bufVars, writeLock, heapVars, readVars,
                 waitVars, closeVars, loc, history>>

-----------------------------------------------------------------------------
(* The goroutine of a rotation: it takes a sequence number, pushes the     *)
(* buffer, measures it, and starts the notification with that size.        *)

Runs(p, l) == ~panicked /\ p.pc = l

Become(p, q) == pushers' = (pushers (-) SetToBag({p})) (+) SetToBag({q})

TakeSequence(p) ==
  /\ Runs(p, "sequence")
  /\ sequence' = sequence + 1
  /\ Become(p, Pusher("push", p.buf, sequence + 1, 0))
  /\ UNCHANGED <<channelVars, bufVars, writeLock, currentSequence, pendingHeap,
                 rotations, readVars, waitVars, closeVars, pc, loc, history>>

PushHeap(p) ==
  /\ Runs(p, "push")
  /\ pendingHeap' = pendingHeap \cup {[seq |-> p.seq, buf |-> p.buf]}
  /\ Become(p, Pusher("len", p.buf, 0, 0))
  /\ UNCHANGED <<channelVars, bufVars, writeLock, sequence, currentSequence,
                 rotations, readVars, waitVars, closeVars, pc, loc, history>>

(* buf.Len() is evaluated here, notify runs later. *)
MeasureBuffer(p) ==
  /\ Runs(p, "len")
  /\ Become(p, Pusher("notify", None, 0, buf[p.buf].count))
  /\ UNCHANGED <<channelVars, bufVars, writeLock, sequence, currentSequence,
                 pendingHeap, rotations, readVars, waitVars, closeVars, pc, loc,
                 history>>

(* wm.notify(n): n waiters, at most MaxWaitersPerBatch, get a token and     *)
(* leave ws.  (WaiterManager models its channels and their reuse.)         *)
notify(p) ==
  /\ Runs(p, "notify")
  /\ LET total == Min({MaxWaitersPerBatch, p.n, MaxTotalWaiters}) IN
     IF total <= 0
       THEN UNCHANGED waitVars
       ELSE \E S \in kSubset(Min({total, Cardinality(ws)}), ws) :
              ws' = ws \ S /\ tokens' = tokens \cup S
  /\ pushers' = pushers (-) SetToBag({p})
  /\ UNCHANGED <<channelVars, bufVars, writeLock, sequence, currentSequence,
                 pendingHeap, rotations, readVars, closeVars, pc, loc, history>>

-----------------------------------------------------------------------------
(* swapMonitor and asyncRecycleWorker *)

(* Mutant: swapMonitor does not select on stop. *)
WorkerExit_RecyclerOnly(g) ==
  /\ stop /\ g \in workers
  /\ g = Recycler
  /\ workers' = workers \ {g}
  /\ UNCHANGED <<channelVars, bufVars, writeLock, heapVars, readVars, waitVars,
                 stop, panicked, pc, loc, history>>

(* A worker leaves its loop at the select that sees stop; the recycler's   *)
(* ticks touch none of this state.                                         *)
WorkerExit(g) ==
  /\ stop /\ g \in workers
  /\ g = Monitor => At(Monitor, "idle")
  /\ workers' = workers \ {g}
  /\ UNCHANGED <<channelVars, bufVars, writeLock, heapVars, readVars, waitVars,
                 stop, panicked, pc, loc, history>>

-----------------------------------------------------------------------------
(* BlockingRead and tryRead *)

RegisterReadMode ==
  /\ ~panicked
  /\ \E m \in ReadModes : readMode' = m
  /\ UNCHANGED <<channelVars, bufVars, writeLock, heapVars, currentBuffer,
                 waitVars, closeVars, pc, loc, history>>

(* tryRead begins: with no buffer it picks one, with an exhausted buffer   *)
(* it recycles that first.                                                 *)
tryRead(r) ==
  Goto(r, IF currentBuffer = None THEN "pick"
          ELSE IF buf[currentBuffer].count = 0 THEN "reset" ELSE "popCount")

(* tryRead fails: the first attempt goes on to wait, the second (after a   *)
(* token) returns the error.  loc.slow tells them apart.                   *)
ReadFailed(r) == Goto(r, IF loc[r].slow THEN "unregister" ELSE "register")

(* A client registers a read mode before it reads. *)
BlockingRead(r) ==
  /\ At(r, "idle") /\ readMode # None
  /\ tryRead(r)
  /\ UNCHANGED <<channelVars, bufVars, writeLock, heapVars, readVars, waitVars,
                 closeVars, loc, history>>

(* Mutant: the recycled buffer stays the current one. *)
RecycleUseless_Kept(r) ==
  /\ At(r, "reset")
  /\ Goto(r, "pick")
  /\ IF currentBuffer = None
       THEN UNCHANGED <<buf, currentBuffer, pool>>
       ELSE /\ buf' = [buf EXCEPT ![currentBuffer] = Reset(@)]
            /\ UNCHANGED currentBuffer
            /\ Put(currentBuffer)
  /\ UNCHANGED <<channelVars, allocated, writeLock, heapVars, readMode, waitVars,
                 closeVars, loc, history>>

RecycleUseless(r) ==
  /\ At(r, "reset")
  /\ Goto(r, "pick")
  /\ IF currentBuffer = None
       THEN UNCHANGED <<buf, currentBuffer, pool>>
       ELSE /\ buf' = [buf EXCEPT ![currentBuffer] = Reset(@)]
            /\ currentBuffer' = None
            /\ Put(currentBuffer)
  /\ UNCHANGED <<channelVars, allocated, writeLock, heapVars, readMode, waitVars,
                 closeVars, loc, history>>

(* Mutant: tryRead does not look at the result of an empty heap. *)
PickFromHeap_Ignored(r) ==
  /\ At(r, "pick")
  /\ IF pendingHeap = {}
       THEN Goto(r, "popCount") /\ UNCHANGED <<pendingHeap, loc>>
       ELSE \E i \in pendingHeap :
              /\ \A j \in pendingHeap : i.seq <= j.seq
              /\ pendingHeap' = pendingHeap \ {i}
              /\ loc' = [loc EXCEPT ![r].ref = i.buf, ![r].seq = i.seq]
              /\ Goto(r, "match")
  /\ UNCHANGED <<channelVars, bufVars, writeLock, sequence, currentSequence,
                 rotations, pushers, readVars, waitVars, closeVars, history>>

(* pickBufferFromHeap takes the least sequence number; an empty heap is    *)
(* ErrNoBuffer.                                                            *)
PickFromHeap(r) ==
  /\ At(r, "pick")
  /\ IF pendingHeap = {}
       THEN ReadFailed(r) /\ UNCHANGED <<pendingHeap, loc>>
       ELSE \E i \in pendingHeap :
              /\ \A j \in pendingHeap : i.seq <= j.seq
              /\ pendingHeap' = pendingHeap \ {i}
              /\ loc' = [loc EXCEPT ![r].ref = i.buf, ![r].seq = i.seq]
              /\ Goto(r, "match")
  /\ UNCHANGED <<channelVars, bufVars, writeLock, sequence, currentSequence,
                 rotations, pushers, readVars, waitVars, closeVars, history>>

(* Mutant: a number out of turn is not pushed back. *)
MatchSequence_Dropped(r) ==
  /\ At(r, "match")
  /\ IF loc[r].seq = currentSequence
       THEN /\ currentBuffer' = loc[r].ref
            /\ currentSequence' = currentSequence + 1
            /\ Goto(r, "popCount")
            /\ loc' = [loc EXCEPT ![r] = [NoLocals EXCEPT !.slow = loc[r].slow]]
            /\ UNCHANGED pendingHeap
       ELSE /\ UNCHANGED pendingHeap
            /\ LET again == loc[r].retry + 1 < MaxPickRetries IN
               /\ loc' = [loc EXCEPT ![r].ref = None, ![r].seq = 0,
                                     ![r].retry = IF again THEN @ + 1 ELSE 0]
               /\ IF again THEN Goto(r, "pick")
                  ELSE IF currentBuffer = None THEN ReadFailed(r)
                  ELSE Goto(r, "popCount")
            /\ UNCHANGED <<currentBuffer, currentSequence>>
  /\ UNCHANGED <<channelVars, bufVars, writeLock, sequence, rotations, pushers, readMode,
                 waitVars, closeVars, history>>

(* Mutant: one retry too many. *)
MatchSequence_OffByOne(r) ==
  /\ At(r, "match")
  /\ IF loc[r].seq = currentSequence
       THEN /\ currentBuffer' = loc[r].ref
            /\ currentSequence' = currentSequence + 1
            /\ Goto(r, "popCount")
            /\ loc' = [loc EXCEPT ![r] = [NoLocals EXCEPT !.slow = loc[r].slow]]
            /\ UNCHANGED pendingHeap
       ELSE /\ pendingHeap' = pendingHeap \cup {[seq |-> loc[r].seq, buf |-> loc[r].ref]}
            /\ LET again == loc[r].retry + 1 <= MaxPickRetries IN
               /\ loc' = [loc EXCEPT ![r].ref = None, ![r].seq = 0,
                                     ![r].retry = IF again THEN @ + 1 ELSE 0]
               /\ IF again THEN Goto(r, "pick")
                  ELSE IF currentBuffer = None THEN ReadFailed(r)
                  ELSE Goto(r, "popCount")
            /\ UNCHANGED <<currentBuffer, currentSequence>>
  /\ UNCHANGED <<channelVars, bufVars, writeLock, sequence, rotations, pushers, readMode,
                 waitVars, closeVars, history>>

(* The next number in line becomes the current buffer; any other goes back *)
(* to the heap and, after a sleep, the reader picks again, up to three     *)
(* times.  After that it goes on only if there is a current buffer.        *)
MatchSequence(r) ==
  /\ At(r, "match")
  /\ IF loc[r].seq = currentSequence
       THEN /\ currentBuffer' = loc[r].ref
            /\ currentSequence' = currentSequence + 1
            /\ Goto(r, "popCount")
            /\ loc' = [loc EXCEPT ![r] = [NoLocals EXCEPT !.slow = loc[r].slow]]
            /\ UNCHANGED pendingHeap
       ELSE /\ pendingHeap' = pendingHeap \cup {[seq |-> loc[r].seq, buf |-> loc[r].ref]}
            /\ LET again == loc[r].retry + 1 < MaxPickRetries IN
               /\ loc' = [loc EXCEPT ![r].ref = None, ![r].seq = 0,
                                     ![r].retry = IF again THEN @ + 1 ELSE 0]
               /\ IF again THEN Goto(r, "pick")
                  ELSE IF currentBuffer = None THEN ReadFailed(r)
                  ELSE Goto(r, "popCount")
            /\ UNCHANGED <<currentBuffer, currentSequence>>
  /\ UNCHANGED <<channelVars, bufVars, writeLock, sequence, rotations, pushers, readMode,
                 waitVars, closeVars, history>>

(* safeRead or zeroCopyRead: the read of d.currentBuffer, which another    *)
(* reader may have taken away (a nil dereference), then its Pop, which     *)
(* returns nil when count is zero.                                         *)
PopCount(r) ==
  /\ At(r, "popCount")
  /\ IF currentBuffer = None
       THEN Panic /\ UNCHANGED loc
       ELSE /\ IF buf[currentBuffer].count = 0
                 THEN ReadFailed(r) /\ UNCHANGED loc
                 ELSE /\ Goto(r, "popRead")
                      /\ loc' = [loc EXCEPT ![r].ref = currentBuffer]
            /\ UNCHANGED <<panicked, workers>>
  /\ UNCHANGED <<channelVars, bufVars, writeLock, heapVars, readVars, waitVars,
                 stop, history>>

(* The claim of tail and the load of the claimed slot. *)
PopRead(r) ==
  /\ At(r, "popRead")
  /\ Goto(r, "popClear")
  /\ buf' = [buf EXCEPT ![loc[r].ref] = ClaimTail(@)]
  /\ LET p == calcPos(Ref(r).tail) IN
       loc' = [loc EXCEPT ![r].pos = p, ![r].val = Ref(r).buf[p].ptr]
  /\ UNCHANGED <<channelVars, pool, allocated, writeLock, heapVars, readVars,
                 waitVars, closeVars, history>>

(* Mutant: the slot is neither cleared nor uncounted. *)
PopClear_Kept(r) ==
  /\ At(r, "popClear")
  /\ UNCHANGED buf
  /\ loc' = [loc EXCEPT ![r] = [NoLocals EXCEPT !.slow = loc[r].slow]]
  /\ IF loc[r].val = 0
       THEN ReadFailed(r) /\ UNCHANGED delivered
       ELSE /\ Goto(r, IF loc[r].slow THEN "unregister" ELSE "idle")
            /\ delivered' = Append(delivered, loc[r].val)
  /\ UNCHANGED <<channelVars, pool, allocated, writeLock, heapVars, readVars,
                 waitVars, closeVars, calls>>

(* The slot is cleared, count decremented and the data returned, or        *)
(* ErrRead for an empty slot.                                              *)
PopClear(r) ==
  /\ At(r, "popClear")
  /\ buf' = [buf EXCEPT ![loc[r].ref] =
               AddCount(StoreItem(@, loc[r].pos, EmptyItem), -1)]
  /\ loc' = [loc EXCEPT ![r] = [NoLocals EXCEPT !.slow = loc[r].slow]]
  /\ IF loc[r].val = 0
       THEN ReadFailed(r) /\ UNCHANGED delivered
       ELSE /\ Goto(r, IF loc[r].slow THEN "unregister" ELSE "idle")
            /\ delivered' = Append(delivered, loc[r].val)
  /\ UNCHANGED <<channelVars, pool, allocated, writeLock, heapVars, readVars,
                 waitVars, closeVars, calls>>

-----------------------------------------------------------------------------
(* Waiting: register, select, unregister *)

register(r) ==
  /\ At(r, "register")
  /\ Goto(r, "select")
  /\ ws' = ws \cup {r}
  /\ loc' = [loc EXCEPT ![r] = NoLocals]
  /\ UNCHANGED <<channelVars, bufVars, writeLock, heapVars, readVars, tokens,
                 closeVars, history>>

WokenByToken(r) ==
  /\ At(r, "select") /\ r \in tokens
  /\ tryRead(r)
  /\ tokens' = tokens \ {r}
  /\ loc' = [loc EXCEPT ![r].slow = TRUE]
  /\ UNCHANGED <<channelVars, bufVars, writeLock, heapVars, readVars, ws,
                 closeVars, history>>

(* Mutant: the select has no case for the context. *)
ContextDone_Missing(r) ==
  /\ At(r, "select") /\ r \in tokens
  /\ Goto(r, "unregister")
  /\ UNCHANGED <<channelVars, bufVars, writeLock, heapVars, readVars, waitVars,
                 closeVars, loc, history>>

ContextDone(r) ==
  /\ At(r, "select")
  /\ Goto(r, "unregister")
  /\ UNCHANGED <<channelVars, bufVars, writeLock, heapVars, readVars, waitVars,
                 closeVars, loc, history>>

(* Mutant: the select has no case for stop. *)
StopSeen_Missing(r) ==
  /\ At(r, "select") /\ stop /\ r \in tokens
  /\ Goto(r, "unregister")
  /\ UNCHANGED <<channelVars, bufVars, writeLock, heapVars, readVars, waitVars,
                 closeVars, loc, history>>

StopSeen(r) ==
  /\ At(r, "select") /\ stop
  /\ Goto(r, "unregister")
  /\ UNCHANGED <<channelVars, bufVars, writeLock, heapVars, readVars, waitVars,
                 closeVars, loc, history>>

unregister(r) ==
  /\ At(r, "unregister")
  /\ Return(r)
  /\ ws' = ws \ {r} /\ tokens' = tokens \ {r}
  /\ UNCHANGED <<channelVars, bufVars, writeLock, heapVars, readVars, closeVars,
                 history>>

-----------------------------------------------------------------------------
(* Close *)

(* Mutant: a store instead of a CAS. *)
Close_Store(c) ==
  /\ At(c, "idle")
  /\ IF state # ClosedState
       THEN state' = ClosedState /\ Goto(c, "stop")
       ELSE Goto(c, "returned") /\ UNCHANGED state
  /\ UNCHANGED <<active, passive, bufVars, writeLock, heapVars,
                 readVars, waitVars, closeVars, loc, history>>

(* The CAS Writing -> Closed; if it fails Close returns. *)
Close(c) ==
  /\ At(c, "idle")
  /\ IF state = WritingState
       THEN state' = ClosedState /\ Goto(c, "stop")
       ELSE Goto(c, "returned") /\ UNCHANGED state
  /\ UNCHANGED <<active, passive, bufVars, writeLock, heapVars,
                 readVars, waitVars, closeVars, loc, history>>

CloseStop(c) ==
  /\ At(c, "stop")
  /\ Goto(c, "put")
  /\ stop' = TRUE
  /\ UNCHANGED <<channelVars, bufVars, writeLock, heapVars, readVars, waitVars,
                 workers, panicked, loc, history>>

(* Both channels go back to the pool as they are. *)
ClosePut(c) ==
  /\ At(c, "put")
  /\ Goto(c, "wait")
  /\ pool' = [pool EXCEPT ![active] = @ + 1, ![passive] = @ + 1]
  /\ UNCHANGED <<channelVars, buf, allocated, writeLock, heapVars, readVars,
                 waitVars, closeVars, loc, history>>

CloseWait(c) ==
  /\ At(c, "wait") /\ workers = {}
  /\ Goto(c, "drain")
  /\ UNCHANGED <<channelVars, bufVars, writeLock, heapVars, readVars, waitVars,
                 closeVars, loc, history>>

(* drainProcessor: the length of the heap, then the pick, in two lock      *)
(* sections; a nil item is dereferenced.                                   *)
DrainLen(c) ==
  /\ At(c, "drain")
  /\ Goto(c, IF pendingHeap = {} THEN "returned" ELSE "drainPick")
  /\ UNCHANGED <<channelVars, bufVars, writeLock, heapVars, readVars, waitVars,
                 closeVars, loc, history>>

DrainPick(c) ==
  /\ At(c, "drainPick")
  /\ IF pendingHeap = {}
       THEN Panic /\ UNCHANGED <<pendingHeap, pool>>
       ELSE /\ \E i \in pendingHeap :
                 /\ \A j \in pendingHeap : i.seq <= j.seq
                 /\ pendingHeap' = pendingHeap \ {i}
                 /\ Put(i.buf)
            /\ Goto(c, "drain")
            /\ UNCHANGED <<panicked, workers>>
  /\ UNCHANGED <<channelVars, buf, allocated, writeLock, sequence,
                 currentSequence, rotations, pushers, readVars, waitVars, stop, loc,
                 history>>

-----------------------------------------------------------------------------
WriterStep(w) ==
  \/ Write(w) \/ FastPath(w) \/ LoadActive(w) \/ PushState(w) \/ PushCount(w)
  \/ PushFull(w) \/ PushClaim(w) \/ PushStore(w)
  \/ SlowPath(w) \/ PeekActive(w)

SwitchStep(t) ==
  \/ SwitchCas(t) \/ SwitchSeal(t) \/ SwitchSwap(t) \/ SwitchOpen(t)

PusherStep ==
  \E p \in BagToSet(pushers) :
    TakeSequence(p) \/ PushHeap(p) \/ MeasureBuffer(p) \/ notify(p)

(* The steps of a BlockingRead that has begun, but for the timeout. *)
ReaderStep(r) ==
  \/ RecycleUseless(r) \/ PickFromHeap(r) \/ MatchSequence(r)
  \/ PopCount(r) \/ PopRead(r) \/ PopClear(r)
  \/ register(r) \/ WokenByToken(r) \/ StopSeen(r) \/ unregister(r)

CloserStep(c) ==
  \/ CloseStop(c) \/ ClosePut(c) \/ CloseWait(c) \/ DrainLen(c) \/ DrainPick(c)

Next ==
  \/ \E w \in Writers : WriterStep(w)
  \/ \E t \in Switchers : SwitchStep(t)
  \/ PusherStep
  \/ RegisterReadMode
  \/ \E g \in Workers : WorkerExit(g)
  \/ \E r \in Readers : BlockingRead(r) \/ ReaderStep(r) \/ ContextDone(r)
  \/ \E c \in Closers : Close(c) \/ CloserStep(c)

Spec == Init /\ [][Next]_vars

-----------------------------------------------------------------------------
(* Fairness.  Every goroutine that can run is eventually scheduled, the    *)
(* ticker keeps ticking, and a client keeps reading and passes contexts    *)
(* that time out; nobody has to call Write or Close.                       *)

GoroutinesFair ==
  /\ \A w \in Writers : WF_vars(~At(w, "idle") /\ WriterStep(w))
  /\ \A t \in Switchers : WF_vars(SwitchStep(t))
  /\ WF_vars(PusherStep)
  /\ \A g \in Workers : WF_vars(WorkerExit(g))
  /\ \A r \in Readers : WF_vars(ReaderStep(r))
  /\ \A c \in Closers : WF_vars(CloserStep(c))

ClientsRead ==
  /\ WF_vars(readMode = None /\ RegisterReadMode)
  /\ \A r \in Readers : WF_vars(BlockingRead(r)) /\ WF_vars(ContextDone(r))

FairSpec    == Spec /\ GoroutinesFair
ReadingSpec == Spec /\ GoroutinesFair /\ ClientsRead

-----------------------------------------------------------------------------
(* Type *)

WriterPcs == {"idle", "fast", "load", "state", "count", "full", "claim", "store",
              "lock", "peek"}
SwitchPcs == {"switch", "seal", "swap", "open"}
ReaderPcs == {"idle", "reset", "pick", "match", "popCount", "popRead", "popClear",
              "register", "select", "unregister"}
CloserPcs == {"idle", "stop", "put", "wait", "drain", "drainPick", "returned"}
PusherPcs == {"sequence", "push", "len", "notify"}

BufOrNone == Bufs \cup {None}
Rings     == [buf : [Positions -> {EmptyItem} \cup {Item(m) : m \in Msgs}],
              head : Indexes, tail : Indexes, count : Int, state : {WriteOnly, ReadOnly}]
Locals    == [ref : BufOrNone, pos : Positions, val : Nat, seq : Nat,
              retry : 0 .. MaxPickRetries - 1, slow : BOOLEAN]

(* Every variable keeps its type; in particular channels and slots exist.  *)
TypeOK ==
  /\ state \in {WritingState, SwitchingState, ClosedState}
  /\ active \in Bufs /\ passive \in Bufs /\ currentBuffer \in BufOrNone
  /\ buf \in [Bufs -> Rings]
  /\ pool \in [Bufs -> Nat] /\ allocated \in Bufs
  /\ writeLock \in Writers \cup {None}
  /\ sequence \in Nat /\ currentSequence \in Nat
  /\ pendingHeap \subseteq [seq : 1 .. sequence, buf : Bufs]
  /\ rotations \in 0 .. MaxRotations
  /\ IsABag(pushers)
  /\ BagToSet(pushers) \subseteq [pc : PusherPcs, buf : BufOrNone, seq : Nat, n : Int]
  /\ readMode \in ReadModes \cup {None}
  /\ ws \subseteq Readers /\ tokens \subseteq Readers
  /\ stop \in BOOLEAN /\ workers \subseteq Workers /\ panicked \in BOOLEAN
  /\ \A w \in Writers : pc[w] \in WriterPcs \cup SwitchPcs \cup {"dead"}
  /\ \A r \in Readers : pc[r] \in ReaderPcs \cup {"dead"}
  /\ \A c \in Closers : pc[c] \in CloserPcs \cup {"dead"}
  /\ pc[Monitor] \in {"idle"} \cup SwitchPcs \cup {"dead"}
  /\ loc \in [Threads -> Locals]
  /\ calls \in 0 .. MaxMsgs /\ delivered \in Seq(Msgs)

-----------------------------------------------------------------------------
(* Safety *)

SwitchersInside == {t \in Switchers : pc[t] \in {"seal", "swap", "open"}}

(* A switch is under way exactly while the state says so, and by one       *)
(* thread: no two of the writers and the monitor rotate at the same time,  *)
(* and the deferred store of Writing never reopens a closed buffer.        *)
SwitchExclusive ==
  ~panicked =>
    /\ \A t, u \in SwitchersInside : t = u
    /\ state = SwitchingState <=> SwitchersInside # {}

(* The goroutines of rotations before their push, one by one. *)
Pushing == {q \in BagToSet(pushers) : q.pc \in {"sequence", "push"}}
Goroutines(P) == UNION {{<<"goroutine", p, n>> : n \in 1 .. pushers[p]} : p \in P}

(* The places that hold buffer b: a channel, the pool, a goroutine before  *)
(* its push, the heap, a reader that has picked it, currentBuffer.         *)
Places(b) ==
       {<<"active">> : x \in {active} \cap {b}}
  \cup {<<"passive">> : x \in {passive} \cap {b}}
  \cup {<<"currentBuffer">> : x \in {currentBuffer} \cap {b}}
  \cup {<<"pool", n>> : n \in 1 .. pool[b]}
  \cup Goroutines({p \in Pushing : p.buf = b})
  \cup {<<"pendingHeap", i>> : i \in {j \in pendingHeap : j.buf = b}}
  \cup {<<"reader", r>> : r \in {q \in Readers : pc[q] = "match" /\ loc[q].ref = b}}

(* Until Close, every buffer ever made is in exactly one place: none leaks *)
(* on its way from active through the heap and the reader to the pool, and *)
(* none comes back while it is still in use.  (One reader.)                *)
SingleOwner ==
  state # ClosedState => \A b \in 1 .. allocated : Cardinality(Places(b)) = 1

(* Who carries sequence number s: a goroutine about to push, the heap, or  *)
(* the hand of a reader.                                                   *)
Carriers(s) ==
       Goroutines({p \in Pushing : p.pc = "push" /\ p.seq = s})
  \cup {<<"pendingHeap", i>> : i \in {j \in pendingHeap : j.seq = s}}
  \cup {<<"reader", r>> : r \in {q \in Readers : pc[q] = "match" /\ loc[q].seq = s}}

(* Until Close, every sequence number given out and not yet consumed is in *)
(* exactly one place, and no consumed one is anywhere: readers that wait   *)
(* for currentSequence wait for something that will come.                  *)
SequenceComplete ==
  state # ClosedState /\ ~panicked =>
    \A s \in 1 .. sequence :
      Cardinality(Carriers(s)) = IF s < currentSequence THEN 0 ELSE 1

(* The buffers between their rotation and the reader's Reset. *)
Rotated ==
       {p.buf : p \in Pushing}
  \cup {i.buf : i \in pendingHeap}
  \cup {loc[r].ref : r \in {q \in Readers : pc[q] = "match"}}
  \cup ({currentBuffer} \ {None})

(* A buffer stays read-only from its seal to the reader's Reset, so no     *)
(* writer that looks at its state after the rotation can push to it.       *)
(* (One reader.)                                                           *)
SealedUntilReset == \A b \in Rotated : buf[b].state = ReadOnly

(* No message is returned by two reads, through rotations, recycling and   *)
(* writers that store into a buffer already rotated.  (One reader.)        *)
NoDuplicateDelivery ==
  \A i, j \in 1 .. Len(delivered) : delivered[i] = delivered[j] => i = j

(* Only drainProcessor, after Close, dereferences nil: a single reader has *)
(* a buffer whenever it goes on to pop, though recycling takes away the    *)
(* empty one and the heap may have no other.  (One reader.)                *)
NilOnlyInDrain ==
  /\ panicked => stop
  /\ \A r \in Readers : At(r, "popCount") => currentBuffer # None

(* A step never leaves the closed state, and once Close has closed stop    *)
(* nothing is rotated any more.                                            *)
ClosedIsFinal ==
  [][state = ClosedState => state' = ClosedState /\ active' = active]_vars

-----------------------------------------------------------------------------
(* What the documentation says, and the code does not do *)

(* "Consumers process messages in strict sequence order" (one writer). *)
GlobalMessageOrder ==
  \A i, j \in 1 .. Len(delivered) : i < j => delivered[i] < delivered[j]

-----------------------------------------------------------------------------
(* Liveness *)

(* A reader that keeps reading consumes every sequence number given out,   *)
(* lost wake-ups and out-of-order pushes notwithstanding.                  *)
EveryRotationConsumed ==
  \A s \in 1 .. MaxRotations :
    sequence >= s ~> currentSequence > s \/ state = ClosedState

(* "It will not block forever." *)
BlockingReadReturns == \A r \in Readers : ~At(r, "idle") ~> At(r, "idle") \/ panicked

(* A reader blocked without a timeout is released by Close. *)
CloseReleasesReaders ==
  \A r \in Readers : stop /\ At(r, "select") ~> At(r, "idle") \/ panicked

(* A Close that has closed stop returns. *)
CloseReturns == \A c \in Closers : At(c, "put") ~> At(c, "returned") \/ panicked

(* Every Write returns (a switch beyond the bound on rotations is not made). *)
WriteReturns ==
  \A w \in Writers :
    At(w, "fast") ~> \/ At(w, "idle") \/ panicked
                     \/ rotations = MaxRotations /\ \E v \in Writers : At(v, "switch")
=============================================================================
