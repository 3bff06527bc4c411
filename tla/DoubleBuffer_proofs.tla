------------------------ MODULE DoubleBuffer_proofs ------------------------
(***************************************************************************)
(* Proofs about DoubleBuffer, for any number of writers, readers, closers, *)
(* messages, rotations and slots.                                          *)
(***************************************************************************)
EXTENDS DoubleBuffer, FiniteSetTheorems, TLAPS

Inside == {"seal", "swap", "open"}
Labels == WriterPcs \cup SwitchPcs \cup ReaderPcs \cup CloserPcs \cup {"dead"}

(* SwitchExclusive with what makes it inductive: pc is a function on the   *)
(* threads, and no thread of a process that has panicked moves again.      *)
SwitchInv ==
  /\ pc \in [Threads -> Labels]
  /\ panicked \in BOOLEAN
  /\ panicked => \A t \in Threads : pc[t] = "dead"
  /\ SwitchExclusive

(* Most steps move one thread between two labels outside a switch. *)
QuietGoto(t, l) ==
  /\ t \in Threads
  /\ pc[t] \notin Inside \cup {"dead"}
  /\ l \in Labels \ Inside
  /\ pc' = [pc EXCEPT ![t] = l]
  /\ UNCHANGED <<state, panicked>>

(* A step that moves a thread outside of any switch keeps the invariant. *)
LEMMA QuietGotoKeeps ==
  ASSUME SwitchInv, NEW t, NEW l, QuietGoto(t, l)
  PROVE  SwitchInv'
<1>1. pc' \in [Threads -> Labels]
  BY DEF SwitchInv, QuietGoto
<1>2. ~panicked /\ ~panicked'
  BY Zenon DEF SwitchInv, QuietGoto
<1>3. \A u \in Switchers : pc'[u] \in Inside <=> pc[u] \in Inside
  <2> SUFFICES ASSUME NEW u \in Switchers
               PROVE  pc'[u] \in Inside <=> pc[u] \in Inside
    OBVIOUS
  <2>1. u \in Threads
    BY DEF Switchers, Threads
  <2>2. CASE u = t
    BY <2>1, <2>2 DEF QuietGoto, SwitchInv
  <2>3. CASE u # t
    BY <2>1, <2>3 DEF QuietGoto, SwitchInv
  <2> QED BY <2>2, <2>3
<1>4. SwitchersInside' = SwitchersInside
  BY <1>3 DEF SwitchersInside, Inside
<1>5. SwitchExclusive'
  BY <1>2, <1>4 DEF SwitchExclusive, SwitchInv, QuietGoto
<1>6. panicked' \in BOOLEAN
  BY Zenon DEF SwitchInv, QuietGoto
<1> QED BY <1>1, <1>2, <1>5, <1>6, Zenon DEF SwitchInv

(* So does a step that moves no thread. *)
LEMMA NobodyMovesKeeps ==
  ASSUME SwitchInv, UNCHANGED <<state, pc, panicked>>
  PROVE  SwitchInv'
BY DEF SwitchInv, SwitchExclusive, SwitchersInside

(* And a panic, which ends every thread. *)
LEMMA PanicKeeps ==
  ASSUME SwitchInv, Panic
  PROVE  SwitchInv'
BY DEF SwitchInv, SwitchExclusive, Panic, Labels

(* A writer outside of a switch. *)
LEMMA WriterKeeps ==
  ASSUME SwitchInv, NEW w \in Writers, WriterStep(w)
  PROVE  SwitchInv'
<1> USE DEF At, Goto, Return, QuietGoto, Inside, Labels, WriterPcs, SwitchPcs,
            channelVars, closeVars, Threads
<1>1. w \in Threads
  OBVIOUS
<1>2. CASE Write(w)
  BY <1>1, <1>2, QuietGotoKeeps DEF Write
<1>3. CASE FastPath(w)
  BY <1>1, <1>3, QuietGotoKeeps DEF FastPath
<1>4. CASE LoadActive(w)
  BY <1>1, <1>4, QuietGotoKeeps DEF LoadActive
<1>5. CASE PushState(w)
  BY <1>1, <1>5, QuietGotoKeeps DEF PushState, PushFailed
<1>6. CASE PushCount(w)
  BY <1>1, <1>6, QuietGotoKeeps DEF PushCount
<1>7. CASE PushFull(w)
  BY <1>1, <1>7, QuietGotoKeeps DEF PushFull, PushFailed
<1>8. CASE PushClaim(w)
  BY <1>1, <1>8, QuietGotoKeeps DEF PushClaim
<1>9. CASE PushStore(w)
  BY <1>1, <1>9, QuietGotoKeeps DEF PushStore
<1>10. CASE SlowPath(w)
  BY <1>1, <1>10, QuietGotoKeeps DEF SlowPath
<1>11. CASE PeekActive(w)
  BY <1>1, <1>11, QuietGotoKeeps DEF PeekActive
<1> QED BY <1>2, <1>3, <1>4, <1>5, <1>6, <1>7, <1>8, <1>9, <1>10, <1>11
        DEF WriterStep

(* The switch itself: only a thread that finds the state Writing enters,   *)
(* and then nobody is inside.                                              *)
LEMMA SwitcherKeeps ==
  ASSUME SwitchInv, NEW t \in Switchers, SwitchStep(t)
  PROVE  SwitchInv'
<1> USE DEF Inside, Labels, WriterPcs, SwitchPcs
<1>1. t \in Threads
  BY DEF Switchers, Threads
<1>2. CASE SwitchCas(t)
  <2>1. pc[t] \in {"idle", "switch"} /\ panicked' = panicked
    BY <1>2 DEF SwitchCas, At, closeVars
  <2>2. CASE state = WritingState
    <3>1. state' = SwitchingState /\ pc' = [pc EXCEPT ![t] = "seal"]
      BY <1>2, <2>2 DEF SwitchCas, Goto
    <3>2. ~panicked
      BY <1>1, <2>1 DEF SwitchInv
    <3>3. SwitchersInside = {}
      BY <2>2, <3>2 DEF SwitchInv, SwitchExclusive, WritingState, SwitchingState
    <3>4. pc' \in [Threads -> Labels] /\ \A u \in Threads : pc'[u] = IF u = t THEN "seal" ELSE pc[u]
      BY <3>1 DEF SwitchInv
    <3>5. \A u \in Switchers : u \in Threads
      BY DEF Switchers, Threads
    <3>6. \A u \in Switchers : pc'[u] \in Inside <=> u = t
      BY <3>3, <3>4, <3>5 DEF SwitchersInside
    <3>7. SwitchersInside' = {t}
      BY <3>6 DEF SwitchersInside
    <3> QED BY <2>1, <3>1, <3>2, <3>4, <3>7 DEF SwitchInv, SwitchExclusive
  <2>3. CASE state # WritingState
    <3>1. QuietGoto(t, Switched(t))
      BY <1>1, <1>2, <2>1, <2>3 DEF SwitchCas, Goto, Switched, QuietGoto
    <3> QED BY <3>1, QuietGotoKeeps
  <2> QED BY <2>2, <2>3
<1>3. ASSUME NEW l, l \in {"swap", "open"}, pc[t] \in {"seal", "swap"},
             pc' = [pc EXCEPT ![t] = l], UNCHANGED <<state, panicked>>
      PROVE  SwitchInv'
  <2>1. pc' \in [Threads -> Labels] /\ \A u \in Threads : pc'[u] = IF u = t THEN l ELSE pc[u]
    BY <1>3 DEF SwitchInv
  <2>2. \A u \in Switchers : u \in Threads
    BY DEF Switchers, Threads
  <2>3. \A u \in Switchers : pc'[u] \in Inside <=> pc[u] \in Inside
    BY <1>3, <2>1, <2>2
  <2>4. SwitchersInside' = SwitchersInside
    BY <2>3 DEF SwitchersInside
  <2>5. ~panicked
    BY <1>1, <1>3 DEF SwitchInv
  <2> QED BY <1>3, <2>1, <2>4, <2>5 DEF SwitchInv, SwitchExclusive
<1>4. CASE SwitchSeal(t)
  BY <1>3, <1>4 DEF SwitchSeal, At, Goto, channelVars, closeVars
<1>5. CASE SwitchSwap(t)
  BY <1>3, <1>5 DEF SwitchSwap, At, Goto, closeVars
<1>6. CASE SwitchOpen(t)
  <2>1. /\ pc[t] = "open" /\ pc' = [pc EXCEPT ![t] = Switched(t)]
        /\ state' = WritingState /\ panicked' = panicked
    BY <1>6 DEF SwitchOpen, At, Goto, closeVars
  <2>2. ~panicked
    BY <1>1, <2>1 DEF SwitchInv
  <2>3. Switched(t) \in Labels \ Inside
    BY DEF Switched
  <2>4. pc' \in [Threads -> Labels] /\ \A u \in Threads : pc'[u] = IF u = t THEN Switched(t) ELSE pc[u]
    BY <2>1, <2>3 DEF SwitchInv
  <2>5. \A u \in Switchers : u \in Threads
    BY DEF Switchers, Threads
  <2>6. \A u \in SwitchersInside : u = t
    BY <2>1, <2>2 DEF SwitchInv, SwitchExclusive, SwitchersInside
  <2>7. \A u \in Switchers : pc'[u] \notin Inside
    BY <2>3, <2>4, <2>5, <2>6 DEF SwitchersInside
  <2>8. SwitchersInside' = {}
    BY <2>7 DEF SwitchersInside
  <2> QED BY <2>1, <2>2, <2>4, <2>8
          DEF SwitchInv, SwitchExclusive, WritingState, SwitchingState
<1> QED BY <1>2, <1>4, <1>5, <1>6 DEF SwitchStep

(* The goroutines of the rotations move no thread. *)
LEMMA PusherKeeps ==
  ASSUME SwitchInv, PusherStep
  PROVE  SwitchInv'
<1>1. PICK p \in BagToSet(pushers) :
        TakeSequence(p) \/ PushHeap(p) \/ MeasureBuffer(p) \/ notify(p)
  BY Zenon DEF PusherStep
<1>2. UNCHANGED <<state, pc, panicked>>
  BY <1>1, Zenon DEF TakeSequence, PushHeap, MeasureBuffer, notify, channelVars, closeVars
<1> QED BY <1>2, NobodyMovesKeeps

LEMMA ReaderKeeps ==
  ASSUME SwitchInv, NEW r \in Readers,
         BlockingRead(r) \/ ReaderStep(r) \/ ContextDone(r)
  PROVE  SwitchInv'
<1> USE DEF At, Goto, Return, QuietGoto, Inside, Labels, ReaderPcs, channelVars,
            closeVars, Threads
<1>1. r \in Threads
  OBVIOUS
<1>2. CASE BlockingRead(r)
  BY <1>1, <1>2, QuietGotoKeeps DEF BlockingRead, tryRead
<1>3. CASE RecycleUseless(r)
  BY <1>1, <1>3, QuietGotoKeeps DEF RecycleUseless
<1>4. CASE PickFromHeap(r)
  BY <1>1, <1>4, QuietGotoKeeps DEF PickFromHeap, ReadFailed
<1>5. CASE MatchSequence(r)
  BY <1>1, <1>5, QuietGotoKeeps DEF MatchSequence, ReadFailed
<1>6. CASE PopCount(r)
  <2>1. CASE currentBuffer = None
    BY <1>6, <2>1, PanicKeeps DEF PopCount
  <2>2. CASE currentBuffer # None
    BY <1>1, <1>6, <2>2, QuietGotoKeeps DEF PopCount, ReadFailed
  <2> QED BY <2>1, <2>2
<1>7. CASE PopRead(r)
  BY <1>1, <1>7, QuietGotoKeeps DEF PopRead
<1>8. CASE PopClear(r)
  BY <1>1, <1>8, QuietGotoKeeps DEF PopClear, ReadFailed
<1>9. CASE register(r)
  BY <1>1, <1>9, QuietGotoKeeps DEF register
<1>10. CASE WokenByToken(r)
  BY <1>1, <1>10, QuietGotoKeeps DEF WokenByToken, tryRead
<1>11. CASE StopSeen(r)
  BY <1>1, <1>11, QuietGotoKeeps DEF StopSeen
<1>12. CASE unregister(r)
  BY <1>1, <1>12, QuietGotoKeeps DEF unregister
<1>13. CASE ContextDone(r)
  BY <1>1, <1>13, QuietGotoKeeps DEF ContextDone
<1> QED BY <1>2, <1>3, <1>4, <1>5, <1>6, <1>7, <1>8, <1>9, <1>10, <1>11, <1>12, <1>13
        DEF ReaderStep

(* Close closes only a state in which nobody switches. *)
LEMMA CloserKeeps ==
  ASSUME SwitchInv, NEW c \in Closers, Close(c) \/ CloserStep(c)
  PROVE  SwitchInv'
<1> USE DEF At, Goto, QuietGoto, Inside, Labels, CloserPcs, channelVars, closeVars
<1>1. c \in Threads
  BY DEF Threads
<1>2. CASE Close(c)
  <2>1. pc[c] = "idle" /\ panicked' = panicked
    BY <1>2 DEF Close
  <2>2. CASE state = WritingState
    <3>1. state' = ClosedState /\ pc' = [pc EXCEPT ![c] = "stop"]
      BY <1>2, <2>2 DEF Close
    <3>2. ~panicked
      BY <1>1, <2>1 DEF SwitchInv
    <3>3. SwitchersInside = {}
      BY <2>2, <3>2 DEF SwitchInv, SwitchExclusive, WritingState, SwitchingState
    <3>4. pc' \in [Threads -> Labels] /\ \A u \in Threads : pc'[u] = IF u = c THEN "stop" ELSE pc[u]
      BY <3>1 DEF SwitchInv
    <3>5. \A u \in Switchers : u \in Threads
      BY DEF Switchers, Threads
    <3>6. SwitchersInside' = {}
      BY <3>3, <3>4, <3>5 DEF SwitchersInside
    <3> QED BY <2>1, <3>1, <3>2, <3>4, <3>6
            DEF SwitchInv, SwitchExclusive, ClosedState, SwitchingState
  <2>3. CASE state # WritingState
    BY <1>1, <1>2, <2>3, QuietGotoKeeps DEF Close
  <2> QED BY <2>2, <2>3
<1>3. CASE CloseStop(c)
  BY <1>1, <1>3, QuietGotoKeeps DEF CloseStop
<1>4. CASE ClosePut(c)
  BY <1>1, <1>4, QuietGotoKeeps DEF ClosePut
<1>5. CASE CloseWait(c)
  BY <1>1, <1>5, QuietGotoKeeps DEF CloseWait
<1>6. CASE DrainLen(c)
  BY <1>1, <1>6, QuietGotoKeeps DEF DrainLen
<1>7. CASE DrainPick(c)
  <2>1. CASE pendingHeap = {}
    BY <1>7, <2>1, PanicKeeps DEF DrainPick
  <2>2. CASE pendingHeap # {}
    <3>1. QuietGoto(c, "drain")
      BY <1>1, <1>7, <2>2 DEF DrainPick
    <3> QED BY <3>1, QuietGotoKeeps
  <2> QED BY <2>1, <2>2
<1> QED BY <1>2, <1>3, <1>4, <1>5, <1>6, <1>7 DEF CloserStep

LEMMA SwitchInvInit == Init => SwitchInv
<1> SUFFICES ASSUME Init PROVE SwitchInv
  OBVIOUS
<1>1. pc \in [Threads -> Labels] /\ \A t \in Threads : pc[t] = "idle"
  BY DEF Init, Labels, WriterPcs
<1>2. SwitchersInside = {}
  BY <1>1 DEF SwitchersInside, Switchers, Threads
<1> QED BY <1>1, <1>2 DEF Init, SwitchInv, SwitchExclusive, WritingState, SwitchingState

LEMMA SwitchInvNext == SwitchInv /\ [Next]_vars => SwitchInv'
<1> SUFFICES ASSUME SwitchInv, [Next]_vars PROVE SwitchInv'
  OBVIOUS
<1>1. CASE \E w \in Writers : WriterStep(w)
  BY <1>1, WriterKeeps
<1>2. CASE \E t \in Switchers : SwitchStep(t)
  BY <1>2, SwitcherKeeps
<1>3. CASE PusherStep
  BY <1>3, PusherKeeps
<1>4. CASE RegisterReadMode
  BY <1>4, NobodyMovesKeeps DEF RegisterReadMode, channelVars, closeVars
<1>5. CASE \E g \in Workers : WorkerExit(g)
  BY <1>5, NobodyMovesKeeps DEF WorkerExit, channelVars
<1>6. CASE \E r \in Readers : BlockingRead(r) \/ ReaderStep(r) \/ ContextDone(r)
  BY <1>6, ReaderKeeps
<1>7. CASE \E c \in Closers : Close(c) \/ CloserStep(c)
  BY <1>7, CloserKeeps
<1>8. CASE UNCHANGED vars
  BY <1>8, NobodyMovesKeeps DEF vars, channelVars, closeVars
<1> QED BY <1>1, <1>2, <1>3, <1>4, <1>5, <1>6, <1>7, <1>8 DEF Next

(* However many writers, and the monitor, find a switch due at once, one   *)
(* of them makes it, and the state is Switching exactly until its deferred *)
(* store.                                                                  *)
THEOREM OneSwitchAtATime == Spec => []SwitchExclusive
<1>1. SwitchInv => SwitchExclusive
  BY DEF SwitchInv
<1> QED BY <1>1, SwitchInvInit, SwitchInvNext, PTL DEF Spec

(* No step leaves the closed state or rotates in it: the deferred store of *)
(* Writing cannot undo a Close, because no switch can be under way.        *)
LEMMA ClosedStep ==
  ASSUME SwitchInv, Next, state = ClosedState
  PROVE  state' = ClosedState /\ active' = active
<1>1. SwitchersInside = {} \/ panicked
  BY DEF SwitchInv, SwitchExclusive, ClosedState, SwitchingState
<1>2. \A t \in Switchers : pc[t] \notin Inside
  BY <1>1 DEF SwitchersInside, SwitchInv, Switchers, Threads, Inside
<1>3. CASE \E w \in Writers : WriterStep(w)
  BY <1>3, Zenon DEF WriterStep, Write, FastPath, LoadActive, PushState, PushCount, PushFull,
     PushClaim, PushStore, SlowPath, PeekActive, channelVars
<1>4. CASE \E t \in Switchers : SwitchStep(t)
  <2>1. PICK t \in Switchers : SwitchStep(t)
    BY <1>4
  <2>2. SwitchCas(t)
    BY <1>2, <2>1 DEF SwitchStep, SwitchSeal, SwitchSwap, SwitchOpen, At, Inside
  <2> QED BY <2>2 DEF SwitchCas, ClosedState, WritingState
<1>5. CASE PusherStep
  BY <1>5, Zenon DEF PusherStep, TakeSequence, PushHeap, MeasureBuffer, notify, channelVars
<1>6. CASE RegisterReadMode
  BY <1>6 DEF RegisterReadMode, channelVars
<1>7. CASE \E g \in Workers : WorkerExit(g)
  BY <1>7 DEF WorkerExit, channelVars
<1>8. CASE \E r \in Readers : BlockingRead(r) \/ ReaderStep(r) \/ ContextDone(r)
  BY <1>8, Zenon DEF ReaderStep, BlockingRead, RecycleUseless, PickFromHeap, MatchSequence,
     PopCount, PopRead, PopClear, register, WokenByToken, StopSeen, unregister,
     ContextDone, channelVars
<1>9. CASE \E c \in Closers : Close(c) \/ CloserStep(c)
  <2>1. PICK c \in Closers : Close(c) \/ CloserStep(c)
    BY <1>9
  <2>2. CASE Close(c)
    BY <2>2 DEF Close, ClosedState, WritingState
  <2>3. CASE CloserStep(c)
    BY <2>3, Zenon DEF CloserStep, CloseStop, ClosePut, CloseWait, DrainLen, DrainPick,
       channelVars
  <2> QED BY <2>1, <2>2, <2>3
<1> QED BY <1>3, <1>4, <1>5, <1>6, <1>7, <1>8, <1>9 DEF Next

(* Close is final: whatever the switches, readers and writers still under  *)
(* way do, the state stays Closed and the active channel stays in place.   *)
THEOREM CloseIsFinal == Spec => ClosedIsFinal
<1>1. SwitchInv /\ [Next]_vars =>
        [state = ClosedState => state' = ClosedState /\ active' = active]_vars
  BY ClosedStep
<1> QED BY <1>1, SwitchInvInit, SwitchInvNext, PTL DEF Spec, ClosedIsFinal

-----------------------------------------------------------------------------
(* Type correctness, with the parts of the state a step relies on: a       *)
(* thread past the load of a buffer has one, a goroutine of a rotation too,*)
(* and a switch under way has not used up the bound on rotations.          *)

PusherOK(p, s) ==
  /\ p \in [pc : PusherPcs, buf : BufOrNone, seq : Nat, n : Int]
  /\ p.pc \in {"sequence", "push", "len"} => p.buf \in Bufs
  /\ p.pc = "push" => p.seq \in 1 .. s

ThreadOK(t, l, c, s) ==
  /\ t \in Writers =>
       /\ l \in WriterPcs \cup SwitchPcs \cup {"dead"}
       /\ l \in {"state", "count", "full", "claim", "store", "peek"} => c.ref \in Bufs
       /\ l \notin {"idle", "dead"} => c.val \in Msgs
  /\ t \in Readers =>
       /\ l \in ReaderPcs \cup {"dead"}
       /\ l \in {"match", "popRead", "popClear"} => c.ref \in Bufs
       /\ l = "match" => c.seq \in 1 .. s
       /\ l = "popClear" => c.val \in Msgs \cup {0}
  /\ t \in Closers => l \in CloserPcs \cup {"dead"}
  /\ t = Monitor => l \in {"idle"} \cup SwitchPcs \cup {"dead"}

ChannelType ==
  state \in {WritingState, SwitchingState, ClosedState} /\ active \in Bufs /\ passive \in Bufs
BufType  == buf \in [Bufs -> Rings] /\ pool \in [Bufs -> Nat] /\ allocated \in Bufs
LockType == writeLock \in Writers \cup {None}
HeapType ==
  /\ sequence \in Nat /\ currentSequence \in Nat
  /\ pendingHeap \subseteq [seq : 1 .. sequence, buf : Bufs]
  /\ rotations \in 0 .. MaxRotations
  /\ IsABag(pushers) /\ \A p \in DOMAIN pushers : PusherOK(p, sequence)
ReadType  == currentBuffer \in BufOrNone /\ readMode \in ReadModes \cup {None}
WaitType  == ws \subseteq Readers /\ tokens \subseteq Readers
CloseType == stop \in BOOLEAN /\ workers \subseteq Workers /\ panicked \in BOOLEAN
ThreadType ==
  /\ pc \in [Threads -> Labels] /\ loc \in [Threads -> Locals]
  /\ \A t \in Threads : ThreadOK(t, pc[t], loc[t], sequence)
HistoryType == calls \in 0 .. MaxMsgs /\ delivered \in Seq(Msgs)
RotationInv == \A t \in Switchers : pc[t] \in {"seal", "swap"} => rotations < MaxRotations

TypeInv ==
  /\ ChannelType /\ BufType /\ LockType /\ HeapType /\ ReadType /\ WaitType /\ CloseType
  /\ ThreadType /\ HistoryType /\ RotationInv

LEMMA TypeInvIsType == TypeInv => TypeOK
<1> SUFFICES ASSUME TypeInv PROVE TypeOK
  OBVIOUS
<1>1. /\ \A w \in Writers : pc[w] \in WriterPcs \cup SwitchPcs \cup {"dead"}
      /\ \A r \in Readers : pc[r] \in ReaderPcs \cup {"dead"}
      /\ \A c \in Closers : pc[c] \in CloserPcs \cup {"dead"}
      /\ pc[Monitor] \in {"idle"} \cup SwitchPcs \cup {"dead"}
  BY DEF TypeInv, ThreadType, ThreadOK, Threads
<1>2. BagToSet(pushers) \subseteq [pc : PusherPcs, buf : BufOrNone, seq : Nat, n : Int]
  BY DEF TypeInv, HeapType, PusherOK, BagToSet
<1> QED BY <1>1, <1>2, Zenon
        DEF TypeInv, ChannelType, BufType, LockType, HeapType, ReadType, WaitType, CloseType,
            ThreadType, HistoryType, TypeOK

(* Bags *)

LEMMA BagGets ==
  ASSUME NEW B, IsABag(B), NEW q
  PROVE  /\ IsABag(B (+) SetToBag({q}))
         /\ DOMAIN (B (+) SetToBag({q})) = DOMAIN B \cup {q}
         /\ \A x \in DOMAIN B : x # q => (B (+) SetToBag({q}))[x] = B[x]
         /\ (B (+) SetToBag({q}))[q] = IF q \in DOMAIN B THEN B[q] + 1 ELSE 1
BY DEF IsABag, (+), SetToBag

LEMMA BagLoses ==
  ASSUME NEW B, IsABag(B), NEW p \in DOMAIN B
  PROVE  /\ IsABag(B (-) SetToBag({p}))
         /\ DOMAIN (B (-) SetToBag({p})) = IF B[p] = 1 THEN DOMAIN B \ {p} ELSE DOMAIN B
         /\ \A x \in DOMAIN B : x # p => (B (-) SetToBag({p}))[x] = B[x]
         /\ B[p] # 1 => (B (-) SetToBag({p}))[p] = B[p] - 1
BY DEF IsABag, (-), SetToBag

(* The ring and the locals *)

LEMMA RingTypes ==
  ASSUME NEW b \in Rings
  PROVE  /\ SetState(b, ReadOnly) \in Rings /\ SealFull(b) \in Rings
         /\ ClaimHead(b) \in Rings /\ ClaimTail(b) \in Rings /\ Reset(b) \in Rings
         /\ \A i \in Int : calcPos(i) \in Positions
         /\ \A p \in Positions, d \in Int :
              /\ AddCount(StoreItem(b, p, EmptyItem), d) \in Rings
              /\ \A m \in Msgs : AddCount(StoreItem(b, p, Item(m)), d) \in Rings
<1>1. SetState(b, ReadOnly) \in Rings /\ SealFull(b) \in Rings
  BY DEF Rings, SetState, SealFull
<1>2. \A i \in Indexes : NextIndex(i) \in Indexes
  BY MaxIndexAssumption DEF NextIndex, Indexes
<1>3. ClaimHead(b) \in Rings /\ ClaimTail(b) \in Rings
  BY <1>2 DEF Rings, ClaimHead, ClaimTail
<1>4. -1 \in Indexes
  BY MaxIndexAssumption DEF Indexes
<1>5. Reset(b) \in Rings
  <2>1. SetState(b, WriteOnly) \in Rings
    BY DEF Rings, SetState
  <2>2. \A c \in Rings : ZeroCount(c) \in Rings
    BY DEF Rings, ZeroCount
  <2>3. \A c \in Rings : RewindIndexes(c) \in Rings
    BY <1>4 DEF Rings, RewindIndexes
  <2> QED BY <2>1, <2>2, <2>3 DEF Reset
<1>6. \A i \in Int : calcPos(i) \in Positions
  BY CapacityAssumption DEF calcPos, Positions
<1>7. ASSUME NEW p \in Positions, NEW d \in Int,
             NEW i \in {EmptyItem} \cup {Item(m) : m \in Msgs}
      PROVE  AddCount(StoreItem(b, p, i), d) \in Rings
  <2>1. StoreItem(b, p, i) \in Rings
    <3>1. b.buf \in [Positions -> {EmptyItem} \cup {Item(m) : m \in Msgs}]
      BY DEF Rings
    <3>2. [b.buf EXCEPT ![p] = i] \in [Positions -> {EmptyItem} \cup {Item(m) : m \in Msgs}]
      BY <1>7, <3>1
    <3>3. StoreItem(b, p, i) = [b EXCEPT !.buf = [b.buf EXCEPT ![p] = i]]
      BY DEF StoreItem, Rings
    <3> QED BY <3>2, <3>3 DEF Rings
  <2>2. \A c \in Rings : AddCount(c, d) \in Rings
    BY DEF Rings, AddCount
  <2> QED BY <2>1, <2>2
<1> QED BY <1>1, <1>3, <1>5, <1>6, <1>7

LEMMA LocalTypes ==
  /\ NoLocals \in Locals
  /\ \A b \in BOOLEAN : [NoLocals EXCEPT !.slow = b] \in Locals
  /\ \A l \in Locals :
       /\ \A b \in BufOrNone : [l EXCEPT !.ref = b] \in Locals
       /\ \A p \in Positions : [l EXCEPT !.pos = p] \in Locals
       /\ \A v \in Nat : [l EXCEPT !.val = v] \in Locals
       /\ \A s \in Nat : [l EXCEPT !.seq = s] \in Locals
       /\ \A n \in 0 .. MaxPickRetries - 1 : [l EXCEPT !.retry = n] \in Locals
       /\ \A b \in BOOLEAN : [l EXCEPT !.slow = b] \in Locals
<1>1. 0 \in Positions /\ 0 \in 0 .. MaxPickRetries - 1 /\ None \in BufOrNone
  BY CapacityAssumption DEF Positions, MaxPickRetries, BufOrNone
<1>2. NoLocals \in Locals
  BY <1>1 DEF NoLocals, Locals
<1>3. \A l \in Locals :
       /\ \A b \in BufOrNone : [l EXCEPT !.ref = b] \in Locals
       /\ \A p \in Positions : [l EXCEPT !.pos = p] \in Locals
       /\ \A v \in Nat : [l EXCEPT !.val = v] \in Locals
       /\ \A s \in Nat : [l EXCEPT !.seq = s] \in Locals
       /\ \A n \in 0 .. MaxPickRetries - 1 : [l EXCEPT !.retry = n] \in Locals
       /\ \A b \in BOOLEAN : [l EXCEPT !.slow = b] \in Locals
  BY DEF Locals
<1> QED BY <1>2, <1>3

(* Thread t goes to label l with locals c. *)
LEMMA ThreadGoes ==
  ASSUME ThreadType, NEW t \in Threads, NEW l \in Labels, NEW c \in Locals,
         ThreadOK(t, l, c, sequence), pc' = [pc EXCEPT ![t] = l],
         loc' = [loc EXCEPT ![t] = c] \/ (loc' = loc /\ c = loc[t]), UNCHANGED sequence
  PROVE  /\ ThreadType'
         /\ pc'[t] = l /\ loc'[t] = c
         /\ \A u \in Threads : u # t => pc'[u] = pc[u] /\ loc'[u] = loc[u]
<1>1. /\ pc' \in [Threads -> Labels] /\ loc' \in [Threads -> Locals]
      /\ pc'[t] = l /\ loc'[t] = c
      /\ \A u \in Threads : u # t => pc'[u] = pc[u] /\ loc'[u] = loc[u]
  BY DEF ThreadType
<1>2. \A u \in Threads : ThreadOK(u, pc'[u], loc'[u], sequence)
  BY <1>1 DEF ThreadType
<1> QED BY <1>1, <1>2 DEF ThreadType

LEMMA SameTypes ==
  /\ ChannelType /\ UNCHANGED channelVars => ChannelType'
  /\ BufType /\ UNCHANGED bufVars => BufType'
  /\ LockType /\ UNCHANGED writeLock => LockType'
  /\ HeapType /\ UNCHANGED heapVars => HeapType'
  /\ ReadType /\ UNCHANGED readVars => ReadType'
  /\ WaitType /\ UNCHANGED waitVars => WaitType'
  /\ CloseType /\ UNCHANGED closeVars => CloseType'
  /\ HistoryType /\ UNCHANGED history => HistoryType'
<1>1. ChannelType /\ UNCHANGED channelVars => ChannelType'
  BY Zenon DEF ChannelType, channelVars
<1>2. BufType /\ UNCHANGED bufVars => BufType'
  BY Zenon DEF BufType, bufVars
<1>3. LockType /\ UNCHANGED writeLock => LockType'
  BY Zenon DEF LockType
<1>4. HeapType /\ UNCHANGED heapVars => HeapType'
  BY Zenon DEF HeapType, heapVars
<1>5. ReadType /\ UNCHANGED readVars => ReadType'
  BY Zenon DEF ReadType, readVars
<1>6. WaitType /\ UNCHANGED waitVars => WaitType'
  BY Zenon DEF WaitType, waitVars
<1>7. CloseType /\ UNCHANGED closeVars => CloseType'
  BY Zenon DEF CloseType, closeVars
<1>8. HistoryType /\ UNCHANGED history => HistoryType'
  BY Zenon DEF HistoryType, history
<1> QED BY <1>1, <1>2, <1>3, <1>4, <1>5, <1>6, <1>7, <1>8

(* A thread that moves, but not into a switch. *)
LEMMA RotationSame ==
  ASSUME ThreadType, RotationInv, NEW t \in Threads, NEW l \in Labels,
         pc' = [pc EXCEPT ![t] = l], UNCHANGED rotations,
         l \in {"seal", "swap"} => rotations < MaxRotations
  PROVE  RotationInv'
<1>1. \A u \in Switchers : u \in Threads
  BY DEF Switchers, Threads
<1>2. \A u \in Threads : pc'[u] = IF u = t THEN l ELSE pc[u]
  BY DEF ThreadType
<1> QED BY <1>1, <1>2 DEF RotationInv

LEMMA BasicTypes ==
  /\ \A m \in Msgs : m \in Nat /\ m # 0
  /\ \A b \in Bufs : b \in BufOrNone /\ b \in Nat /\ b # None
  /\ MaxMsgs \in Nat /\ MaxRotations \in Nat
  /\ Writers \subseteq Threads /\ Readers \subseteq Threads /\ Closers \subseteq Threads
  /\ Monitor \in Threads /\ Switchers \subseteq Threads
BY BoundsAssumption, ThreadsAssumption DEF Msgs, Bufs, BufOrNone, Threads, Switchers

(* What a thread at a label has, and that a thread has one role. *)
LEMMA WriterHas ==
  ASSUME TypeInv, NEW w \in Writers
  PROVE  /\ ThreadType /\ w \in Threads /\ loc[w] \in Locals /\ pc[w] \in Labels
         /\ ThreadOK(w, pc[w], loc[w], sequence)
         /\ \A l, c, s : ThreadOK(w, l, c, s) <=>
              /\ l \in WriterPcs \cup SwitchPcs \cup {"dead"}
              /\ l \in {"state", "count", "full", "claim", "store", "peek"} => c.ref \in Bufs
              /\ l \notin {"idle", "dead"} => c.val \in Msgs
<1>1. w \notin Readers /\ w \notin Closers /\ w # Monitor
  BY ThreadsAssumption
<1>2. \A l, c, s : ThreadOK(w, l, c, s) <=>
              /\ l \in WriterPcs \cup SwitchPcs \cup {"dead"}
              /\ l \in {"state", "count", "full", "claim", "store", "peek"} => c.ref \in Bufs
              /\ l \notin {"idle", "dead"} => c.val \in Msgs
  BY <1>1 DEF ThreadOK
<1> QED BY <1>2, BasicTypes DEF TypeInv, ThreadType

LEMMA ReaderHas ==
  ASSUME TypeInv, NEW r \in Readers
  PROVE  /\ ThreadType /\ r \in Threads /\ loc[r] \in Locals /\ pc[r] \in Labels
         /\ ThreadOK(r, pc[r], loc[r], sequence)
         /\ \A l, c, s : ThreadOK(r, l, c, s) <=>
              /\ l \in ReaderPcs \cup {"dead"}
              /\ l \in {"match", "popRead", "popClear"} => c.ref \in Bufs
              /\ l = "match" => c.seq \in 1 .. s
              /\ l = "popClear" => c.val \in Msgs \cup {0}
<1>1. r \notin Writers /\ r \notin Closers /\ r # Monitor
  BY ThreadsAssumption
<1>2. \A l, c, s : ThreadOK(r, l, c, s) <=>
              /\ l \in ReaderPcs \cup {"dead"}
              /\ l \in {"match", "popRead", "popClear"} => c.ref \in Bufs
              /\ l = "match" => c.seq \in 1 .. s
              /\ l = "popClear" => c.val \in Msgs \cup {0}
  BY <1>1 DEF ThreadOK
<1> QED BY <1>2, BasicTypes DEF TypeInv, ThreadType

LEMMA CloserHas ==
  ASSUME TypeInv, NEW c \in Closers
  PROVE  /\ ThreadType /\ c \in Threads /\ loc[c] \in Locals /\ pc[c] \in Labels
         /\ \A l, k, s : ThreadOK(c, l, k, s) <=> l \in CloserPcs \cup {"dead"}
<1>1. c \notin Writers /\ c \notin Readers /\ c # Monitor
  BY ThreadsAssumption
<1>2. \A l, k, s : ThreadOK(c, l, k, s) <=> l \in CloserPcs \cup {"dead"}
  BY <1>1 DEF ThreadOK
<1> QED BY <1>2, BasicTypes DEF TypeInv, ThreadType

(* A writer's step: where it goes, and with which locals. *)
WriterMoves(w, l, c) ==
  /\ l \in WriterPcs \cup {"switch"} /\ c \in Locals /\ ThreadOK(w, l, c, sequence)
  /\ pc' = [pc EXCEPT ![w] = l]
  /\ loc' = [loc EXCEPT ![w] = c] \/ (loc' = loc /\ c = loc[w])

LEMMA TypeWriterMoves ==
  ASSUME TypeInv, NEW w \in Writers, NEW l, NEW c, WriterMoves(w, l, c),
         UNCHANGED <<channelVars, heapVars, readVars, waitVars, closeVars>>,
         BufType', LockType', HistoryType'
  PROVE  TypeInv'
<1>1. ThreadType /\ w \in Threads /\ l \in Labels
  BY WriterHas DEF WriterMoves, Labels, SwitchPcs
<1>2. ThreadType'
  BY <1>1, ThreadGoes DEF WriterMoves, heapVars
<1>3. RotationInv'
  BY <1>1, RotationSame DEF WriterMoves, WriterPcs, heapVars, TypeInv
<1> QED BY <1>2, <1>3, SameTypes DEF TypeInv

LEMMA PushFailedMoves ==
  ASSUME TypeInv, NEW w \in Writers, pc[w] \in {"state", "full"}, PushFailed(w)
  PROVE  LockType' /\ \E l, c : WriterMoves(w, l, c)
<1>1. CASE loc[w].slow
  <2>1. WriterMoves(w, "idle", NoLocals)
    BY <1>1, WriterHas, LocalTypes DEF PushFailed, Return, WriterMoves, WriterPcs
  <2>2. LockType'
    BY <1>1 DEF PushFailed, LockType
  <2> QED BY <2>1, <2>2
<1>2. CASE ~loc[w].slow
  <2>1. WriterMoves(w, "lock", loc[w])
    BY <1>2, WriterHas DEF PushFailed, Goto, WriterMoves, WriterPcs
  <2>2. LockType'
    BY <1>2 DEF PushFailed, LockType, TypeInv
  <2> QED BY <2>1, <2>2
<1> QED BY <1>1, <1>2

LEMMA TypeWriter ==
  ASSUME TypeInv, NEW w \in Writers, WriterStep(w)
  PROVE  TypeInv'
<1>1. /\ BufType /\ LockType /\ HistoryType /\ ChannelType
      /\ loc[w] \in Locals
      /\ pc[w] \in {"state", "count", "full", "claim", "store", "peek"} => loc[w].ref \in Bufs
      /\ pc[w] \notin {"idle", "dead"} => loc[w].val \in Msgs
      /\ loc \in [Threads -> Locals] /\ w \in Threads
  BY WriterHas DEF TypeInv, ThreadType
<1> USE DEF At, Goto
<1>2. CASE Write(w)
  <2> DEFINE c == [loc[w] EXCEPT !.val = calls + 1]
  <2>1. calls + 1 \in Msgs
    BY <1>1, <1>2, BasicTypes DEF HistoryType, Write, Msgs
  <2>2. c \in Locals /\ c.val = calls + 1
    BY <1>1, <2>1, LocalTypes, BasicTypes DEF Locals
  <2>3. loc' = [loc EXCEPT ![w] = c] /\ pc' = [pc EXCEPT ![w] = "fast"]
    BY <1>2 DEF Write
  <2> HIDE DEF c
  <2>4. WriterMoves(w, "fast", c)
    BY <2>1, <2>2, <2>3, WriterHas DEF WriterMoves, WriterPcs
  <2>5. HistoryType'
    BY <1>1, <1>2, <2>1, BasicTypes DEF HistoryType, Write, Msgs
  <2> QED BY <1>1, <1>2, <2>4, <2>5, TypeWriterMoves, SameTypes DEF Write
<1>3. CASE FastPath(w) \/ PushCount(w) \/ PeekActive(w)
  <2>1. PICK l \in {"load", "lock", "full", "claim", "switch"} : pc' = [pc EXCEPT ![w] = l]
    BY <1>3 DEF FastPath, PushCount, PeekActive
  <2>2. /\ pc[w] \in {"fast", "count", "peek"} /\ loc' = loc
        /\ l \in {"full", "claim"} => pc[w] = "count"
    BY <1>1, <1>3, <2>1, WriterHas DEF FastPath, PushCount, PeekActive, ThreadType
  <2>3. WriterMoves(w, l, loc[w])
    BY <1>1, <2>1, <2>2, WriterHas DEF WriterMoves, WriterPcs, SwitchPcs
  <2> QED BY <1>1, <1>3, <2>3, TypeWriterMoves, SameTypes DEF FastPath, PushCount, PeekActive
<1>4. CASE LoadActive(w)
  <2> DEFINE c == [loc[w] EXCEPT !.ref = active]
  <2>1. c \in Locals /\ c.ref \in Bufs /\ c.val = loc[w].val
    BY <1>1, LocalTypes, BasicTypes DEF Locals, ChannelType
  <2>2. /\ loc' = [loc EXCEPT ![w] = c] /\ pc' = [pc EXCEPT ![w] = "state"]
        /\ pc[w] = "load"
    BY <1>4 DEF LoadActive
  <2> HIDE DEF c
  <2>3. WriterMoves(w, "state", c)
    BY <1>1, <2>1, <2>2, WriterHas DEF WriterMoves, WriterPcs
  <2> QED BY <1>1, <1>4, <2>3, TypeWriterMoves, SameTypes DEF LoadActive
<1>5. CASE PushState(w)
  <2>1. CASE Ref(w).state = ReadOnly
    <3>1. LockType' /\ \E l, c : WriterMoves(w, l, c)
      BY <1>5, <2>1, PushFailedMoves DEF PushState
    <3> QED BY <1>1, <1>5, <3>1, TypeWriterMoves, SameTypes DEF PushState
  <2>2. CASE Ref(w).state # ReadOnly
    <3>1. /\ pc' = [pc EXCEPT ![w] = "count"] /\ loc' = loc /\ pc[w] = "state"
          /\ UNCHANGED writeLock
      BY <1>5, <2>2 DEF PushState
    <3>2. WriterMoves(w, "count", loc[w])
      BY <1>1, <3>1, WriterHas DEF WriterMoves, WriterPcs
    <3> QED BY <1>1, <1>5, <3>1, <3>2, TypeWriterMoves, SameTypes DEF PushState
  <2> QED BY <2>1, <2>2
<1>6. CASE PushFull(w)
  <2>1. LockType' /\ \E l, c : WriterMoves(w, l, c)
    BY <1>6, PushFailedMoves DEF PushFull
  <2>2. BufType'
    <3>1. loc[w].ref \in Bufs /\ buf \in [Bufs -> Rings]
      BY <1>1, <1>6 DEF PushFull, BufType
    <3>2. buf' = [buf EXCEPT ![loc[w].ref] = SealFull(buf[loc[w].ref])]
      BY <1>6 DEF PushFull
    <3>3. buf' \in [Bufs -> Rings]
      BY <3>1, <3>2, RingTypes
    <3> QED BY <1>1, <1>6, <3>3 DEF BufType, PushFull
  <2> QED BY <1>1, <1>6, <2>1, <2>2, TypeWriterMoves, SameTypes DEF PushFull
<1>7. CASE PushClaim(w)
  <2> DEFINE c == [loc[w] EXCEPT !.pos = calcPos(Ref(w).head)]
  <2>1. loc[w].ref \in Bufs /\ buf \in [Bufs -> Rings] /\ pc[w] = "claim"
    BY <1>1, <1>7 DEF PushClaim, BufType
  <2>2. calcPos(Ref(w).head) \in Positions
    <3>1. Ref(w) \in Rings
      BY <2>1 DEF Ref
    <3>2. Ref(w).head \in Int
      BY <3>1, MaxIndexAssumption DEF Rings, Indexes
    <3> QED BY <3>1, <3>2, RingTypes
  <2>3. c \in Locals /\ c.ref = loc[w].ref /\ c.val = loc[w].val
    BY <1>1, <2>2, LocalTypes DEF Locals
  <2>4. loc' = [loc EXCEPT ![w] = c] /\ pc' = [pc EXCEPT ![w] = "store"]
    BY <1>7 DEF PushClaim
  <2> HIDE DEF c
  <2>5. WriterMoves(w, "store", c)
    BY <1>1, <2>1, <2>3, <2>4, WriterHas DEF WriterMoves, WriterPcs
  <2>6. BufType'
    <3>1. buf' = [buf EXCEPT ![loc[w].ref] = ClaimHead(buf[loc[w].ref])]
      BY <1>7 DEF PushClaim
    <3>2. buf' \in [Bufs -> Rings]
      BY <2>1, <3>1, RingTypes
    <3> QED BY <1>1, <1>7, <3>2 DEF BufType, PushClaim
  <2> QED BY <1>1, <1>7, <2>5, <2>6, TypeWriterMoves, SameTypes DEF PushClaim
<1>8. CASE PushStore(w)
  <2>1. /\ loc[w].ref \in Bufs /\ buf \in [Bufs -> Rings] /\ loc[w].val \in Msgs
        /\ loc[w].pos \in Positions
    BY <1>1, <1>8 DEF PushStore, BufType, Locals
  <2>2. WriterMoves(w, "idle", NoLocals)
    BY <1>8, WriterHas, LocalTypes DEF PushStore, Return, WriterMoves, WriterPcs
  <2>3. BufType'
    <3>1. buf' = [buf EXCEPT ![loc[w].ref] =
               AddCount(StoreItem(buf[loc[w].ref], loc[w].pos, Item(loc[w].val)), 1)]
      BY <1>8 DEF PushStore
    <3>2. AddCount(StoreItem(buf[loc[w].ref], loc[w].pos, Item(loc[w].val)), 1) \in Rings
      <4>1. buf[loc[w].ref] \in Rings /\ 1 \in Int
        BY <2>1
      <4> QED BY <2>1, <4>1, RingTypes, Zenon
    <3>3. buf' \in [Bufs -> Rings]
      BY <2>1, <3>1, <3>2
    <3> QED BY <1>1, <1>8, <3>3 DEF BufType, PushStore
  <2>4. LockType'
    BY <1>1, <1>8 DEF PushStore, LockType
  <2> QED BY <1>1, <1>8, <2>2, <2>3, <2>4, TypeWriterMoves, SameTypes DEF PushStore
<1>9. CASE SlowPath(w)
  <2> DEFINE c == [[loc[w] EXCEPT !.slow = TRUE] EXCEPT !.ref = active]
  <2>1. [loc[w] EXCEPT !.slow = TRUE] \in Locals /\ [loc[w] EXCEPT !.slow = TRUE].val = loc[w].val
    BY <1>1, LocalTypes DEF Locals
  <2>2. c \in Locals /\ c.ref \in Bufs /\ c.val = loc[w].val
    BY <1>1, <2>1, LocalTypes, BasicTypes DEF Locals, ChannelType
  <2>3. /\ loc' = [loc EXCEPT ![w].slow = TRUE, ![w].ref = active]
        /\ pc' = [pc EXCEPT ![w] = "peek"] /\ pc[w] = "lock"
    BY <1>9 DEF SlowPath
  <2>4. loc' = [loc EXCEPT ![w] = c]
    BY <1>1, <2>3
  <2> HIDE DEF c
  <2>5. WriterMoves(w, "peek", c)
    BY <1>1, <2>2, <2>3, <2>4, WriterHas DEF WriterMoves, WriterPcs
  <2>6. LockType'
    BY <1>9 DEF SlowPath, LockType
  <2> QED BY <1>1, <1>9, <2>5, <2>6, TypeWriterMoves, SameTypes DEF SlowPath
<1> QED BY <1>2, <1>3, <1>4, <1>5, <1>6, <1>7, <1>8, <1>9 DEF WriterStep

LEMMA TypeSwitcher ==
  ASSUME TypeInv, SwitchInv, NEW t \in Switchers, SwitchStep(t)
  PROVE  TypeInv'
<1>1. /\ ThreadType /\ t \in Threads /\ loc[t] \in Locals
      /\ ThreadOK(t, pc[t], loc[t], sequence)
      /\ ChannelType /\ BufType /\ HeapType /\ RotationInv
  BY BasicTypes DEF TypeInv, ThreadType
<1>2. t \notin Readers /\ t \notin Closers /\ (t = Monitor => t \notin Writers)
  BY ThreadsAssumption DEF Switchers
<1>3. pc[t] \in {"idle", "switch", "seal", "swap", "open"} /\ (t \in Writers => pc[t] # "idle")
  BY <1>2 DEF SwitchStep, SwitchCas, SwitchSeal, SwitchSwap, SwitchOpen, At, Switchers
<1>4. ASSUME NEW l \in {"seal", "swap", "open", Switched(t)}
      PROVE  l \in Labels /\ ThreadOK(t, l, loc[t], sequence)
  <2>1. l \in Labels
    BY DEF Switched, Labels, WriterPcs, SwitchPcs
  <2>2. t = Monitor => l \in {"idle"} \cup SwitchPcs
    BY DEF Switched, SwitchPcs
  <2>3. t \in Writers => l \in {"seal", "swap", "open", "load"} /\ loc[t].val \in Msgs
    BY <1>1, <1>2, <1>3 DEF Switched, ThreadOK
  <2>4. t \in Writers => l \in WriterPcs \cup SwitchPcs
    BY <2>3 DEF WriterPcs, SwitchPcs
  <2> QED BY <1>2, <2>1, <2>2, <2>3, <2>4 DEF ThreadOK
<1>5. ASSUME NEW l \in {"seal", "swap", "open", Switched(t)},
             pc' = [pc EXCEPT ![t] = l], UNCHANGED <<loc, sequence>>
      PROVE  ThreadType'
  BY <1>1, <1>4, <1>5, ThreadGoes
<1> USE DEF At, Goto
<1>6. CASE SwitchCas(t)
  <2>1. PICK l \in {"seal", Switched(t)} :
          /\ pc' = [pc EXCEPT ![t] = l]
          /\ l = "seal" => rotations < MaxRotations
    <3>1. CASE state = WritingState
      BY <1>6, <3>1 DEF SwitchCas
    <3>2. CASE state # WritingState
      BY <1>6, <3>2 DEF SwitchCas, Switched
    <3> QED BY <3>1, <3>2
  <2>2. UNCHANGED <<loc, sequence, rotations>>
    BY <1>6 DEF SwitchCas, heapVars
  <2>3. ThreadType'
    BY <1>5, <2>1, <2>2
  <2>4. RotationInv'
    <3>1. l # "swap"
      BY DEF Switched
    <3> QED BY <1>1, <1>4, <2>1, <2>2, <3>1, RotationSame
  <2>5. ChannelType'
    BY <1>1, <1>6 DEF SwitchCas, ChannelType
  <2> QED BY <1>6, <2>3, <2>4, <2>5, SameTypes DEF SwitchCas, TypeInv
<1>7. CASE SwitchSeal(t)
  <2>1. ThreadType'
    BY <1>5, <1>7 DEF SwitchSeal, heapVars
  <2>2. RotationInv'
    <3>1. rotations < MaxRotations /\ UNCHANGED rotations /\ pc' = [pc EXCEPT ![t] = "swap"]
      BY <1>1, <1>7 DEF SwitchSeal, RotationInv, heapVars
    <3> QED BY <1>1, <1>4, <3>1, RotationSame
  <2>3. BufType'
    <3>1. buf' = [buf EXCEPT ![active] = SetState(buf[active], ReadOnly)]
      BY <1>7 DEF SwitchSeal
    <3>2. buf' \in [Bufs -> Rings]
      BY <1>1, <3>1, RingTypes DEF BufType, ChannelType
    <3> QED BY <1>1, <1>7, <3>2 DEF BufType, SwitchSeal
  <2> QED BY <1>7, <2>1, <2>2, <2>3, SameTypes DEF SwitchSeal, TypeInv
<1>8. CASE SwitchSwap(t)
  <2>1. ThreadType'
    BY <1>5, <1>8 DEF SwitchSwap
  <2>2. PICK b \in Gettable : Get(b) /\ passive' = b
    BY <1>8 DEF SwitchSwap
  <2>3. b \in Bufs /\ (b = allocated + 1 \/ pool[b] > 0)
    BY DEF Gettable, Pooled
  <2>4. ChannelType'
    BY <1>1, <1>8, <2>2, <2>3 DEF ChannelType, SwitchSwap
  <2>5. BufType'
    BY <1>1, <1>8, <2>2, <2>3 DEF BufType, SwitchSwap, Get
  <2>6. rotations < MaxRotations /\ rotations' = rotations + 1
    BY <1>1, <1>8 DEF SwitchSwap, RotationInv
  <2>7. RotationInv'
    <3>1. ~panicked
      BY <1>1, <1>8 DEF SwitchInv, SwitchSwap
    <3>2. \A u \in Switchers : u # t => pc[u] \notin {"seal", "swap"}
      BY <1>8, <3>1 DEF SwitchInv, SwitchExclusive, SwitchersInside, SwitchSwap
    <3>3. \A u \in Switchers : u \in Threads
      BY BasicTypes
    <3>4. \A u \in Switchers : pc'[u] \notin {"seal", "swap"}
      BY <1>1, <1>8, <3>2, <3>3 DEF SwitchSwap, ThreadType
    <3> QED BY <3>4 DEF RotationInv
  <2>8. HeapType'
    <3> DEFINE q == Pusher("sequence", active, 0, 0)
    <3>1. PusherOK(q, sequence)
      BY <1>1, BasicTypes DEF PusherOK, Pusher, PusherPcs, ChannelType
    <3>2. pushers' = pushers (+) SetToBag({q})
      BY <1>8 DEF SwitchSwap
    <3> HIDE DEF q
    <3>3. IsABag(pushers') /\ DOMAIN pushers' = DOMAIN pushers \cup {q}
      BY <1>1, <3>2, BagGets DEF HeapType
    <3>4. \A p \in DOMAIN pushers' : PusherOK(p, sequence)
      BY <1>1, <3>1, <3>3 DEF HeapType
    <3>5. rotations' \in 0 .. MaxRotations
      BY <1>1, <2>6, BasicTypes DEF HeapType
    <3> QED BY <1>1, <1>8, <3>3, <3>4, <3>5 DEF HeapType, SwitchSwap
  <2> QED BY <1>8, <2>1, <2>4, <2>5, <2>7, <2>8, SameTypes DEF SwitchSwap, TypeInv
<1>9. CASE SwitchOpen(t)
  <2>1. pc' = [pc EXCEPT ![t] = Switched(t)] /\ UNCHANGED <<loc, sequence, rotations>>
    BY <1>9 DEF SwitchOpen, heapVars
  <2>2. Switched(t) \notin {"seal", "swap"}
    BY DEF Switched
  <2>3. ThreadType' /\ RotationInv'
    BY <1>1, <1>4, <1>5, <2>1, <2>2, RotationSame
  <2>4. ChannelType'
    BY <1>1, <1>9 DEF SwitchOpen, ChannelType
  <2> QED BY <1>9, <2>3, <2>4, SameTypes DEF SwitchOpen, TypeInv
<1> QED BY <1>6, <1>7, <1>8, <1>9 DEF SwitchStep

LEMMA kSubsetIsSubset ==
  ASSUME NEW T, NEW k, NEW S \in kSubset(k, T)
  PROVE  S \subseteq T
BY DEF kSubset

(* A goroutine of a rotation moves on. *)
LEMMA Becomes ==
  ASSUME TypeInv, NEW p \in DOMAIN pushers, NEW q, Become(p, q),
         sequence' \in Nat, sequence <= sequence', PusherOK(q, sequence')
  PROVE  IsABag(pushers') /\ \A x \in DOMAIN pushers' : PusherOK(x, sequence')
<1> DEFINE B == pushers (-) SetToBag({p})
<1>1. IsABag(pushers) /\ sequence \in Nat /\ \A x \in DOMAIN pushers : PusherOK(x, sequence)
  BY DEF TypeInv, HeapType
<1>2. IsABag(B) /\ DOMAIN B \subseteq DOMAIN pushers
  BY <1>1, BagLoses
<1>3. pushers' = B (+) SetToBag({q})
  BY DEF Become
<1> HIDE DEF B
<1>4. IsABag(pushers') /\ DOMAIN pushers' = DOMAIN B \cup {q}
  BY <1>2, <1>3, BagGets
<1>5. \A x : PusherOK(x, sequence) => PusherOK(x, sequence')
  BY <1>1 DEF PusherOK
<1> QED BY <1>1, <1>2, <1>4, <1>5

LEMMA TypePusher ==
  ASSUME TypeInv, PusherStep
  PROVE  TypeInv'
<1>1. PICK p \in DOMAIN pushers :
        TakeSequence(p) \/ PushHeap(p) \/ MeasureBuffer(p) \/ notify(p)
  BY Zenon DEF PusherStep, BagToSet
<1>2. /\ HeapType /\ ThreadType /\ BufType /\ WaitType /\ PusherOK(p, sequence)
      /\ sequence \in Nat /\ RotationInv
  BY DEF TypeInv, HeapType
<1>3. UNCHANGED <<pc, loc, rotations, channelVars, bufVars, writeLock, readVars, closeVars, history>>
  BY <1>1, Zenon DEF TakeSequence, PushHeap, MeasureBuffer, notify
<1>4. RotationInv'
  BY <1>2, <1>3 DEF RotationInv
<1>5. ASSUME UNCHANGED sequence PROVE ThreadType'
  BY <1>2, <1>3, <1>5 DEF ThreadType
<1>6. CASE TakeSequence(p)
  <2>1. sequence' = sequence + 1 /\ UNCHANGED <<currentSequence, pendingHeap, waitVars>>
        /\ Become(p, Pusher("push", p.buf, sequence + 1, 0)) /\ p.pc = "sequence"
    BY <1>6 DEF TakeSequence, Runs
  <2>2. PusherOK(Pusher("push", p.buf, sequence + 1, 0), sequence + 1)
    BY <1>2, <2>1, BasicTypes DEF PusherOK, Pusher, PusherPcs
  <2>3. IsABag(pushers') /\ \A x \in DOMAIN pushers' : PusherOK(x, sequence')
    BY <1>2, <2>1, <2>2, Becomes
  <2>4. HeapType'
    BY <1>2, <1>3, <2>1, <2>3 DEF HeapType
  <2>5. ThreadType'
    <3>1. \A t \in Threads : ThreadOK(t, pc[t], loc[t], sequence')
      BY <1>2, <2>1 DEF ThreadType, ThreadOK
    <3> QED BY <1>2, <1>3, <3>1 DEF ThreadType
  <2> QED BY <1>3, <1>4, <2>1, <2>4, <2>5, SameTypes DEF TypeInv
<1>7. CASE PushHeap(p)
  <2>1. UNCHANGED <<sequence, currentSequence, waitVars>> /\ p.pc = "push"
        /\ Become(p, Pusher("len", p.buf, 0, 0))
        /\ pendingHeap' = pendingHeap \cup {[seq |-> p.seq, buf |-> p.buf]}
    BY <1>7 DEF PushHeap, Runs
  <2>2. PusherOK(Pusher("len", p.buf, 0, 0), sequence)
    BY <1>2, <2>1, BasicTypes DEF PusherOK, Pusher, PusherPcs
  <2>3. IsABag(pushers') /\ \A x \in DOMAIN pushers' : PusherOK(x, sequence')
    BY <1>2, <2>1, <2>2, Becomes
  <2>4. p.seq \in 1 .. sequence /\ p.buf \in Bufs
    BY <1>2, <2>1 DEF PusherOK
  <2>5. HeapType'
    BY <1>2, <1>3, <2>1, <2>3, <2>4 DEF HeapType
  <2> QED BY <1>3, <1>4, <1>5, <2>1, <2>5, SameTypes DEF TypeInv
<1>8. CASE MeasureBuffer(p)
  <2>1. UNCHANGED <<sequence, currentSequence, pendingHeap, waitVars>> /\ p.pc = "len"
        /\ Become(p, Pusher("notify", None, 0, buf[p.buf].count))
    BY <1>8 DEF MeasureBuffer, Runs
  <2>2. buf[p.buf].count \in Int
    <3>1. buf[p.buf] \in Rings
      BY <1>2, <2>1 DEF PusherOK, BufType
    <3> QED BY <3>1 DEF Rings
  <2>3. PusherOK(Pusher("notify", None, 0, buf[p.buf].count), sequence)
    BY <2>2 DEF PusherOK, Pusher, PusherPcs, BufOrNone
  <2>4. IsABag(pushers') /\ \A x \in DOMAIN pushers' : PusherOK(x, sequence')
    BY <1>2, <2>1, <2>3, Becomes
  <2>5. HeapType'
    BY <1>2, <1>3, <2>1, <2>4 DEF HeapType
  <2> QED BY <1>3, <1>4, <1>5, <2>1, <2>5, SameTypes DEF TypeInv
<1>9. CASE notify(p)
  <2>1. UNCHANGED <<sequence, currentSequence, pendingHeap>>
        /\ pushers' = pushers (-) SetToBag({p})
    BY <1>9 DEF notify
  <2>2. IsABag(pushers') /\ DOMAIN pushers' \subseteq DOMAIN pushers
    BY <1>2, <2>1, BagLoses DEF HeapType
  <2>3. HeapType'
    BY <1>2, <1>3, <2>1, <2>2 DEF HeapType
  <2>4. UNCHANGED waitVars \/ \E S : S \subseteq ws /\ ws' = ws \ S /\ tokens' = tokens \cup S
    BY <1>9, kSubsetIsSubset, Zenon DEF notify
  <2>5. WaitType'
    BY <1>2, <2>4 DEF WaitType, waitVars
  <2> QED BY <1>3, <1>4, <1>5, <2>1, <2>3, <2>5, SameTypes DEF TypeInv
<1> QED BY <1>1, <1>6, <1>7, <1>8, <1>9

(* A reader's step: where it goes, and with which locals. *)
ReaderMoves(r, l, c) ==
  /\ l \in ReaderPcs /\ c \in Locals /\ ThreadOK(r, l, c, sequence)
  /\ pc' = [pc EXCEPT ![r] = l]
  /\ loc' = [loc EXCEPT ![r] = c] \/ (loc' = loc /\ c = loc[r])

LEMMA TypeReaderMoves ==
  ASSUME TypeInv, NEW r \in Readers, NEW l, NEW c, ReaderMoves(r, l, c),
         UNCHANGED <<channelVars, writeLock, sequence, rotations, pushers, closeVars>>,
         currentSequence' \in Nat, pendingHeap' \subseteq [seq : 1 .. sequence, buf : Bufs],
         BufType', ReadType', WaitType', HistoryType'
  PROVE  TypeInv'
<1>1. ThreadType /\ r \in Threads /\ l \in Labels
  BY ReaderHas DEF ReaderMoves, Labels
<1>2. ThreadType'
  BY <1>1, ThreadGoes DEF ReaderMoves
<1>3. RotationInv'
  BY <1>1, RotationSame DEF ReaderMoves, ReaderPcs, TypeInv
<1>4. HeapType'
  BY DEF HeapType, TypeInv
<1> QED BY <1>2, <1>3, <1>4, SameTypes DEF TypeInv

LEMMA ReadFailedMoves ==
  ASSUME TypeInv, NEW r \in Readers, NEW c \in Locals, ReadFailed(r),
         loc' = [loc EXCEPT ![r] = c] \/ (loc' = loc /\ c = loc[r])
  PROVE  \E l : ReaderMoves(r, l, c)
<1>1. PICK l \in {"unregister", "register"} : pc' = [pc EXCEPT ![r] = l]
  BY DEF ReadFailed, Goto
<1>2. ReaderMoves(r, l, c)
  BY <1>1, ReaderHas DEF ReaderMoves, ReaderPcs
<1> QED BY <1>2

LEMMA tryReadMoves ==
  ASSUME TypeInv, NEW r \in Readers, NEW c \in Locals, tryRead(r),
         loc' = [loc EXCEPT ![r] = c] \/ (loc' = loc /\ c = loc[r])
  PROVE  \E l : ReaderMoves(r, l, c)
<1>1. PICK l \in {"pick", "reset", "popCount"} : pc' = [pc EXCEPT ![r] = l]
  BY DEF tryRead, Goto
<1>2. ReaderMoves(r, l, c)
  BY <1>1, ReaderHas DEF ReaderMoves, ReaderPcs
<1> QED BY <1>2

(* A panic ends all threads. *)
LEMMA TypePanic ==
  ASSUME TypeInv, Panic, UNCHANGED <<channelVars, bufVars, writeLock, heapVars, readVars,
                                     waitVars, stop, loc, history>>
  PROVE  TypeInv'
<1>1. ThreadType'
  BY DEF Panic, ThreadType, ThreadOK, TypeInv, Labels, heapVars, Threads
<1>2. RotationInv'
  BY BasicTypes DEF Panic, RotationInv
<1>3. CloseType'
  BY DEF Panic, CloseType, TypeInv
<1> QED BY <1>1, <1>2, <1>3, SameTypes DEF TypeInv

LEMMA TypeRead ==
  ASSUME TypeInv, NEW r \in Readers,
         BlockingRead(r) \/ RecycleUseless(r) \/ PickFromHeap(r) \/ MatchSequence(r)
  PROVE  TypeInv'
<1>1. /\ BufType /\ ReadType /\ HeapType /\ HistoryType /\ WaitType
      /\ loc[r] \in Locals /\ loc \in [Threads -> Locals] /\ r \in Threads
      /\ pc[r] \in {"match", "popRead", "popClear"} => loc[r].ref \in Bufs
      /\ pc[r] = "match" => loc[r].seq \in 1 .. sequence
  BY ReaderHas DEF TypeInv, ThreadType
<1>2. /\ currentSequence \in Nat /\ sequence \in Nat
      /\ pendingHeap \subseteq [seq : 1 .. sequence, buf : Bufs]
  BY <1>1 DEF HeapType
<1> USE DEF At, Goto
<1>3. CASE BlockingRead(r)
  <2>1. \E l : ReaderMoves(r, l, loc[r])
    BY <1>1, <1>3, tryReadMoves DEF BlockingRead
  <2> QED BY <1>1, <1>2, <1>3, <2>1, TypeReaderMoves, SameTypes DEF BlockingRead, heapVars
<1>4. CASE RecycleUseless(r)
  <2>1. ReaderMoves(r, "pick", loc[r])
    BY <1>1, <1>4, ReaderHas DEF ReaderMoves, ReaderPcs, RecycleUseless
  <2>2. BufType' /\ ReadType'
    <3>1. CASE currentBuffer = None
      BY <1>1, <1>4, <3>1 DEF RecycleUseless, BufType, ReadType
    <3>2. CASE currentBuffer # None
      <4>1. /\ buf' = [buf EXCEPT ![currentBuffer] = Reset(buf[currentBuffer])]
            /\ pool' = [pool EXCEPT ![currentBuffer] = pool[currentBuffer] + 1]
            /\ currentBuffer' = None /\ UNCHANGED <<allocated, readMode>>
        BY <1>4, <3>2 DEF RecycleUseless, Put
      <4>2. currentBuffer \in Bufs
        BY <1>1, <3>2 DEF ReadType, BufOrNone
      <4>3. buf' \in [Bufs -> Rings]
        BY <1>1, <4>1, <4>2, RingTypes DEF BufType
      <4>4. pool' \in [Bufs -> Nat]
        BY <1>1, <4>1, <4>2 DEF BufType
      <4> QED BY <1>1, <4>1, <4>3, <4>4 DEF BufType, ReadType, BufOrNone
    <3> QED BY <3>1, <3>2
  <2> QED BY <1>1, <1>2, <1>4, <2>1, <2>2, TypeReaderMoves, SameTypes
          DEF RecycleUseless, heapVars
<1>5. CASE PickFromHeap(r)
  <2>1. CASE pendingHeap = {}
    <3>1. \E l : ReaderMoves(r, l, loc[r])
      BY <1>1, <1>5, <2>1, ReadFailedMoves DEF PickFromHeap
    <3> QED BY <1>1, <1>2, <1>5, <2>1, <3>1, TypeReaderMoves, SameTypes DEF PickFromHeap
  <2>2. CASE pendingHeap # {}
    <3>1. PICK i \in pendingHeap :
            /\ pendingHeap' = pendingHeap \ {i}
            /\ loc' = [loc EXCEPT ![r].ref = i.buf, ![r].seq = i.seq]
            /\ pc' = [pc EXCEPT ![r] = "match"]
      BY <1>5, <2>2 DEF PickFromHeap
    <3> DEFINE c == [[loc[r] EXCEPT !.ref = i.buf] EXCEPT !.seq = i.seq]
    <3>2. i.seq \in 1 .. sequence /\ i.seq \in Nat /\ i.buf \in Bufs
      BY <1>2
    <3>3. [loc[r] EXCEPT !.ref = i.buf] \in Locals /\ [loc[r] EXCEPT !.ref = i.buf].ref = i.buf
      BY <1>1, <3>2, LocalTypes, BasicTypes DEF Locals
    <3>4. c \in Locals /\ c.ref = i.buf /\ c.seq = i.seq
      BY <3>2, <3>3, LocalTypes DEF Locals
    <3>5. loc' = [loc EXCEPT ![r] = c]
      BY <1>1, <3>1
    <3> HIDE DEF c
    <3>6. ReaderMoves(r, "match", c)
      BY <3>1, <3>2, <3>4, <3>5, ReaderHas DEF ReaderMoves, ReaderPcs
    <3>7. pendingHeap' \subseteq [seq : 1 .. sequence, buf : Bufs]
      BY <1>2, <3>1
    <3> QED BY <1>1, <1>2, <1>5, <3>6, <3>7, TypeReaderMoves, SameTypes DEF PickFromHeap
  <2> QED BY <2>1, <2>2
<1>6. CASE MatchSequence(r)
  <2>1. loc[r].ref \in Bufs /\ loc[r].seq \in 1 .. sequence
    BY <1>1, <1>6 DEF MatchSequence
  <2>2. CASE loc[r].seq = currentSequence
    <3> DEFINE c == [NoLocals EXCEPT !.slow = loc[r].slow]
    <3>1. /\ currentBuffer' = loc[r].ref /\ currentSequence' = currentSequence + 1
          /\ pc' = [pc EXCEPT ![r] = "popCount"] /\ loc' = [loc EXCEPT ![r] = c]
          /\ UNCHANGED <<pendingHeap, readMode>>
      BY <1>6, <2>2 DEF MatchSequence
    <3>2. c \in Locals
      <4>1. loc[r].slow \in BOOLEAN
        BY <1>1 DEF Locals
      <4> QED BY <4>1, LocalTypes
    <3> HIDE DEF c
    <3>3. ReaderMoves(r, "popCount", c)
      BY <3>1, <3>2, ReaderHas DEF ReaderMoves, ReaderPcs
    <3>4. ReadType'
      BY <1>1, <2>1, <3>1, BasicTypes DEF ReadType
    <3>5. currentSequence' \in Nat /\ pendingHeap' \subseteq [seq : 1 .. sequence, buf : Bufs]
      BY <1>2, <3>1
    <3> QED BY <1>1, <1>6, <3>3, <3>4, <3>5, TypeReaderMoves, SameTypes DEF MatchSequence
  <2>3. CASE loc[r].seq # currentSequence
    <3> DEFINE again == loc[r].retry + 1 < MaxPickRetries
               n == IF again THEN loc[r].retry + 1 ELSE 0
               c == [[[loc[r] EXCEPT !.ref = None] EXCEPT !.seq = 0] EXCEPT !.retry = n]
    <3>1. /\ pendingHeap' = pendingHeap \cup {[seq |-> loc[r].seq, buf |-> loc[r].ref]}
          /\ loc' = [loc EXCEPT ![r].ref = None, ![r].seq = 0, ![r].retry = n]
          /\ \/ pc' = [pc EXCEPT ![r] = "pick"]
             \/ pc' = [pc EXCEPT ![r] = "popCount"]
             \/ ReadFailed(r)
          /\ UNCHANGED <<currentBuffer, currentSequence, readMode>>
      BY <1>6, <2>3 DEF MatchSequence
    <3>2. n \in 0 .. MaxPickRetries - 1
      BY <1>1 DEF Locals, MaxPickRetries
    <3> HIDE DEF n
    <3>3. c \in Locals
      <4>1. None \in BufOrNone /\ 0 \in Nat
        BY DEF BufOrNone
      <4>2. [loc[r] EXCEPT !.ref = None] \in Locals
        BY <1>1, <4>1, LocalTypes
      <4>3. [[loc[r] EXCEPT !.ref = None] EXCEPT !.seq = 0] \in Locals
        BY <4>1, <4>2, LocalTypes
      <4> QED BY <3>2, <4>3, LocalTypes
    <3>4. loc' = [loc EXCEPT ![r] = c]
      BY <1>1, <3>1
    <3> HIDE DEF c
    <3>5. \E l : ReaderMoves(r, l, c)
      <4>1. CASE ReadFailed(r)
        BY <3>3, <3>4, <4>1, ReadFailedMoves
      <4>2. CASE \E l \in {"pick", "popCount"} : pc' = [pc EXCEPT ![r] = l]
        BY <3>3, <3>4, <4>2, ReaderHas DEF ReaderMoves, ReaderPcs
      <4> QED BY <3>1, <4>1, <4>2
    <3>6. pendingHeap' \subseteq [seq : 1 .. sequence, buf : Bufs]
      BY <1>2, <2>1, <3>1
    <3>7. ReadType' /\ currentSequence' \in Nat
      BY <1>1, <1>2, <3>1 DEF ReadType
    <3> QED BY <1>1, <1>6, <3>5, <3>6, <3>7, TypeReaderMoves, SameTypes DEF MatchSequence
  <2> QED BY <2>2, <2>3
<1> QED BY <1>3, <1>4, <1>5, <1>6

LEMMA TypePop ==
  ASSUME TypeInv, NEW r \in Readers, PopCount(r) \/ PopRead(r) \/ PopClear(r)
  PROVE  TypeInv'
<1>1. /\ BufType /\ ReadType /\ HeapType /\ HistoryType /\ WaitType
      /\ loc[r] \in Locals /\ loc \in [Threads -> Locals] /\ r \in Threads
      /\ pc[r] \in {"match", "popRead", "popClear"} => loc[r].ref \in Bufs
      /\ pc[r] = "popClear" => loc[r].val \in Msgs \cup {0}
  BY ReaderHas DEF TypeInv, ThreadType
<1>2. currentSequence \in Nat /\ pendingHeap \subseteq [seq : 1 .. sequence, buf : Bufs]
  BY <1>1 DEF HeapType
<1> USE DEF At, Goto
<1>3. CASE PopCount(r)
  <2>1. CASE currentBuffer = None
    BY <1>3, <2>1, TypePanic DEF PopCount
  <2>2. CASE currentBuffer # None
    <3>1. UNCHANGED <<panicked, workers, stop>>
      BY <1>3, <2>2 DEF PopCount
    <3>2. \E l, c : ReaderMoves(r, l, c)
      <4>1. CASE buf[currentBuffer].count = 0
        BY <1>1, <1>3, <2>2, <4>1, ReadFailedMoves DEF PopCount
      <4>2. CASE buf[currentBuffer].count # 0
        <5> DEFINE c == [loc[r] EXCEPT !.ref = currentBuffer]
        <5>1. loc' = [loc EXCEPT ![r] = c] /\ pc' = [pc EXCEPT ![r] = "popRead"]
          BY <1>3, <2>2, <4>2 DEF PopCount
        <5>2. currentBuffer \in Bufs
          BY <1>1, <2>2 DEF ReadType, BufOrNone
        <5>3. c \in Locals /\ c.ref \in Bufs
          BY <1>1, <5>2, LocalTypes, BasicTypes DEF Locals
        <5> HIDE DEF c
        <5> QED BY <5>1, <5>3, ReaderHas DEF ReaderMoves, ReaderPcs
      <4> QED BY <4>1, <4>2
    <3> QED BY <1>1, <1>2, <1>3, <3>1, <3>2, TypeReaderMoves, SameTypes
            DEF PopCount, heapVars, closeVars
  <2> QED BY <2>1, <2>2
<1>4. CASE PopRead(r)
  <2> DEFINE b == buf[loc[r].ref]
             p == calcPos(b.tail)
             c == [[loc[r] EXCEPT !.pos = p] EXCEPT !.val = b.buf[p].ptr]
  <2>1. /\ buf' = [buf EXCEPT ![loc[r].ref] = ClaimTail(b)]
        /\ loc' = [loc EXCEPT ![r].pos = p, ![r].val = b.buf[p].ptr]
        /\ pc' = [pc EXCEPT ![r] = "popClear"]
    BY <1>4 DEF PopRead, Ref
  <2>2. loc[r].ref \in Bufs /\ b \in Rings
    BY <1>1, <1>4 DEF PopRead, BufType
  <2> HIDE DEF b
  <2>3. p \in Positions
    <3>1. b.tail \in Int
      BY <2>2, MaxIndexAssumption DEF Rings, Indexes
    <3> QED BY <2>2, <3>1, RingTypes
  <2> HIDE DEF p
  <2>4. b.buf[p].ptr \in Msgs \cup {0}
    <3>1. b.buf[p] \in {EmptyItem} \cup {Item(m) : m \in Msgs}
      BY <2>2, <2>3 DEF Rings
    <3> QED BY <3>1 DEF EmptyItem, Item
  <2>5. c \in Locals /\ c.ref = loc[r].ref /\ c.val = b.buf[p].ptr
    <3>1. [loc[r] EXCEPT !.pos = p] \in Locals /\ [loc[r] EXCEPT !.pos = p].ref = loc[r].ref
      BY <1>1, <2>3, LocalTypes DEF Locals
    <3>2. b.buf[p].ptr \in Nat
      BY <2>4, BasicTypes
    <3> QED BY <3>1, <3>2, LocalTypes DEF Locals
  <2>6. loc' = [loc EXCEPT ![r] = c]
    BY <1>1, <2>1
  <2> HIDE DEF c
  <2>7. ReaderMoves(r, "popClear", c)
    BY <2>1, <2>2, <2>4, <2>5, <2>6, ReaderHas DEF ReaderMoves, ReaderPcs
  <2>8. BufType'
    <3>1. buf' \in [Bufs -> Rings]
      BY <1>1, <2>1, <2>2, RingTypes DEF BufType
    <3> QED BY <1>1, <1>4, <3>1 DEF BufType, PopRead
  <2> QED BY <1>1, <1>2, <1>4, <2>7, <2>8, TypeReaderMoves, SameTypes DEF PopRead, heapVars
<1>5. CASE PopClear(r)
  <2> DEFINE b == buf[loc[r].ref]
             c == [NoLocals EXCEPT !.slow = loc[r].slow]
  <2>1. /\ buf' = [buf EXCEPT ![loc[r].ref] = AddCount(StoreItem(b, loc[r].pos, EmptyItem), -1)]
        /\ loc' = [loc EXCEPT ![r] = c]
    BY <1>5 DEF PopClear
  <2>2. /\ loc[r].ref \in Bufs /\ b \in Rings /\ loc[r].pos \in Positions
        /\ loc[r].val \in Msgs \cup {0} /\ loc[r].slow \in BOOLEAN
    BY <1>1, <1>5 DEF PopClear, BufType, Locals
  <2>3. c \in Locals
    BY <2>2, LocalTypes
  <2> HIDE DEF b, c
  <2>4. BufType'
    <3>1. AddCount(StoreItem(b, loc[r].pos, EmptyItem), -1) \in Rings
      <4>1. -1 \in Int
        OBVIOUS
      <4> QED BY <2>2, <4>1, RingTypes, Zenon
    <3>2. buf' \in [Bufs -> Rings]
      BY <1>1, <2>1, <2>2, <3>1 DEF BufType
    <3> QED BY <1>1, <1>5, <3>2 DEF BufType, PopClear
  <2>5. (\E l : ReaderMoves(r, l, c)) /\ HistoryType'
    <3>1. CASE loc[r].val = 0
      <4>1. ReadFailed(r) /\ UNCHANGED <<calls, delivered>>
        BY <1>5, <3>1 DEF PopClear
      <4> QED BY <1>1, <2>1, <2>3, <4>1, ReadFailedMoves, SameTypes DEF history
    <3>2. CASE loc[r].val # 0
      <4>1. /\ pc' = [pc EXCEPT ![r] = IF loc[r].slow THEN "unregister" ELSE "idle"]
            /\ delivered' = Append(delivered, loc[r].val) /\ UNCHANGED calls
        BY <1>5, <3>2 DEF PopClear
      <4>2. HistoryType'
        BY <1>1, <2>2, <3>2, <4>1 DEF HistoryType
      <4>3. PICK l \in {"unregister", "idle"} : pc' = [pc EXCEPT ![r] = l]
        BY <4>1
      <4>4. ReaderMoves(r, l, c)
        BY <2>1, <2>3, <4>3, ReaderHas DEF ReaderMoves, ReaderPcs
      <4> QED BY <4>2, <4>4
    <3> QED BY <3>1, <3>2
  <2> QED BY <1>1, <1>2, <1>5, <2>4, <2>5, TypeReaderMoves, SameTypes DEF PopClear, heapVars
<1> QED BY <1>3, <1>4, <1>5

LEMMA TypeWaitStep ==
  ASSUME TypeInv, NEW r \in Readers,
         register(r) \/ WokenByToken(r) \/ StopSeen(r) \/ ContextDone(r) \/ unregister(r)
  PROVE  TypeInv'
<1>1. /\ BufType /\ ReadType /\ HeapType /\ HistoryType /\ WaitType
      /\ loc[r] \in Locals /\ loc \in [Threads -> Locals] /\ r \in Threads
  BY ReaderHas DEF TypeInv, ThreadType
<1>2. currentSequence \in Nat /\ pendingHeap \subseteq [seq : 1 .. sequence, buf : Bufs]
  BY <1>1 DEF HeapType
<1>3. /\ UNCHANGED <<channelVars, bufVars, writeLock, heapVars, readVars, closeVars, history>>
      /\ WaitType'
  <2>1. UNCHANGED <<channelVars, bufVars, writeLock, heapVars, readVars, closeVars, history>>
    BY Zenon DEF register, WokenByToken, StopSeen, ContextDone, unregister
  <2>2. WaitType'
    BY <1>1 DEF register, WokenByToken, StopSeen, ContextDone, unregister, WaitType, waitVars
  <2> QED BY <2>1, <2>2
<1>4. \E l, c : ReaderMoves(r, l, c)
  <2>1. CASE register(r) \/ unregister(r)
    <3>1. PICK l \in {"select", "idle"} : pc' = [pc EXCEPT ![r] = l]
      BY <2>1 DEF register, unregister, Goto, Return
    <3>2. loc' = [loc EXCEPT ![r] = NoLocals]
      BY <2>1 DEF register, unregister, Return
    <3> QED BY <3>1, <3>2, LocalTypes, ReaderHas DEF ReaderMoves, ReaderPcs
  <2>2. CASE WokenByToken(r)
    <3> DEFINE c == [loc[r] EXCEPT !.slow = TRUE]
    <3>1. tryRead(r) /\ loc' = [loc EXCEPT ![r] = c]
      BY <2>2 DEF WokenByToken
    <3>2. c \in Locals
      BY <1>1, LocalTypes
    <3> HIDE DEF c
    <3> QED BY <3>1, <3>2, tryReadMoves
  <2>3. CASE StopSeen(r) \/ ContextDone(r)
    <3>1. ReaderMoves(r, "unregister", loc[r])
      BY <1>1, <2>3, ReaderHas DEF ReaderMoves, ReaderPcs, StopSeen, ContextDone, Goto
    <3> QED BY <3>1
  <2> QED BY <2>1, <2>2, <2>3
<1> QED BY <1>1, <1>2, <1>3, <1>4, TypeReaderMoves, SameTypes DEF heapVars

LEMMA TypeCloser ==
  ASSUME TypeInv, NEW c \in Closers, Close(c) \/ CloserStep(c)
  PROVE  TypeInv'
<1>1. /\ ChannelType /\ BufType /\ HeapType /\ CloseType /\ ThreadType /\ RotationInv
      /\ c \in Threads /\ loc[c] \in Locals
  BY CloserHas DEF TypeInv
<1>2. ASSUME NEW l \in CloserPcs, pc' = [pc EXCEPT ![c] = l], UNCHANGED <<loc, sequence, rotations>>
      PROVE  ThreadType' /\ RotationInv'
  <2>1. l \in Labels /\ ThreadOK(c, l, loc[c], sequence) /\ l \notin {"seal", "swap"}
    BY CloserHas DEF Labels, CloserPcs
  <2> QED BY <1>1, <1>2, <2>1, ThreadGoes, RotationSame
<1> USE DEF At, Goto
<1>3. CASE Close(c)
  <2>1. PICK l \in {"stop", "returned"} : pc' = [pc EXCEPT ![c] = l]
    BY <1>3 DEF Close
  <2>2. ThreadType' /\ RotationInv'
    BY <1>2, <1>3, <2>1 DEF Close, heapVars, CloserPcs
  <2>3. ChannelType'
    BY <1>1, <1>3 DEF Close, ChannelType
  <2> QED BY <1>3, <2>2, <2>3, SameTypes DEF Close, TypeInv
<1>4. CASE CloseStop(c)
  <2>1. ThreadType' /\ RotationInv'
    BY <1>2, <1>4 DEF CloseStop, heapVars, CloserPcs
  <2>2. CloseType'
    BY <1>1, <1>4, Zenon DEF CloseStop, CloseType
  <2> QED BY <1>4, <2>1, <2>2, SameTypes DEF CloseStop, TypeInv
<1>5. CASE ClosePut(c)
  <2>1. ThreadType' /\ RotationInv'
    BY <1>2, <1>5 DEF ClosePut, heapVars, CloserPcs
  <2>2. BufType'
    BY <1>1, <1>5 DEF ClosePut, BufType, ChannelType
  <2> QED BY <1>5, <2>1, <2>2, SameTypes DEF ClosePut, TypeInv
<1>6. CASE CloseWait(c)
  <2>1. ThreadType' /\ RotationInv'
    BY <1>2, <1>6 DEF CloseWait, heapVars, CloserPcs
  <2> QED BY <1>6, <2>1, SameTypes DEF CloseWait, TypeInv
<1>7. CASE DrainLen(c)
  <2>1. PICK l \in {"returned", "drainPick"} : pc' = [pc EXCEPT ![c] = l]
    BY <1>7 DEF DrainLen
  <2>2. ThreadType' /\ RotationInv'
    BY <1>2, <1>7, <2>1 DEF DrainLen, heapVars, CloserPcs
  <2> QED BY <1>7, <2>2, SameTypes DEF DrainLen, TypeInv
<1>8. CASE DrainPick(c)
  <2>1. CASE pendingHeap = {}
    BY <1>8, <2>1, TypePanic DEF DrainPick, bufVars, heapVars
  <2>2. CASE pendingHeap # {}
    <3>1. PICK i \in pendingHeap :
            /\ pendingHeap' = pendingHeap \ {i}
            /\ pool' = [pool EXCEPT ![i.buf] = pool[i.buf] + 1]
      BY <1>8, <2>2 DEF DrainPick, Put
    <3>2. i.buf \in Bufs
      BY <1>1 DEF HeapType
    <3>3. BufType'
      BY <1>1, <1>8, <3>1, <3>2 DEF DrainPick, BufType
    <3>4. HeapType'
      BY <1>1, <1>8, <3>1 DEF DrainPick, HeapType
    <3>5. ThreadType' /\ RotationInv'
      BY <1>2, <1>8, <2>2 DEF DrainPick, CloserPcs
    <3>6. UNCHANGED closeVars
      BY <1>8, <2>2 DEF DrainPick, closeVars
    <3> QED BY <1>8, <3>3, <3>4, <3>5, <3>6, SameTypes DEF DrainPick, TypeInv
  <2> QED BY <2>1, <2>2
<1> QED BY <1>3, <1>4, <1>5, <1>6, <1>7, <1>8 DEF CloserStep

LEMMA TypeInvInit == Init => TypeInv
<1> SUFFICES ASSUME Init PROVE TypeInv
  OBVIOUS
<1>1. 1 \in Bufs /\ 2 \in Bufs
  BY BoundsAssumption DEF Bufs
<1>2. NewSmartBuffer \in Rings
  <2>1. -1 \in Indexes
    BY MaxIndexAssumption DEF Indexes
  <2> QED BY <2>1 DEF NewSmartBuffer, Rings
<1>3. ChannelType /\ BufType /\ LockType
  BY <1>1, <1>2 DEF Init, ChannelType, BufType, LockType
<1>4. HeapType
  BY BoundsAssumption DEF Init, HeapType, EmptyBag, SetToBag, IsABag
<1>5. ReadType /\ WaitType
  BY DEF Init, ReadType, WaitType, BufOrNone
<1>6. CloseType
  BY Zenon DEF Init, CloseType
<1>7. ThreadType
  <2>1. pc \in [Threads -> Labels] /\ loc \in [Threads -> Locals]
    BY LocalTypes DEF Init, Labels, WriterPcs
  <2>2. \A t \in Threads : ThreadOK(t, "idle", NoLocals, sequence)
    BY DEF ThreadOK, WriterPcs, ReaderPcs, CloserPcs
  <2> QED BY <2>1, <2>2 DEF Init, ThreadType
<1>8. HistoryType
  BY BoundsAssumption DEF Init, HistoryType
<1>9. RotationInv
  BY BasicTypes DEF Init, RotationInv
<1> QED BY <1>3, <1>4, <1>5, <1>6, <1>7, <1>8, <1>9 DEF TypeInv

LEMMA TypeInvNext == TypeInv /\ SwitchInv /\ [Next]_vars => TypeInv'
<1> SUFFICES ASSUME TypeInv, SwitchInv, [Next]_vars PROVE TypeInv'
  OBVIOUS
<1>1. ASSUME UNCHANGED <<pc, loc, sequence, rotations>> PROVE ThreadType' /\ RotationInv'
  BY <1>1, Zenon DEF ThreadType, RotationInv, TypeInv
<1>2. CASE RegisterReadMode
  <2>1. ReadType'
    BY <1>2 DEF RegisterReadMode, ReadType, TypeInv
  <2> QED BY <1>1, <1>2, <2>1, SameTypes DEF RegisterReadMode, heapVars, TypeInv
<1>3. CASE \E g \in Workers : WorkerExit(g)
  <2>1. CloseType'
    BY <1>3, Zenon DEF WorkerExit, CloseType, TypeInv
  <2> QED BY <1>1, <1>3, <2>1, SameTypes DEF WorkerExit, heapVars, TypeInv
<1>4. CASE UNCHANGED vars
  BY <1>1, <1>4, SameTypes DEF vars, heapVars, TypeInv
<1> QED BY <1>2, <1>3, <1>4, TypeWriter, TypeSwitcher, TypePusher, TypeRead, TypePop,
           TypeWaitStep, TypeCloser
        DEF Next, ReaderStep

(* Every variable keeps its type, whatever the threads do: no thread uses  *)
(* a buffer, a slot or a sequence number that does not exist, and readers  *)
(* are handed nothing but messages.                                        *)
THEOREM DoubleBufferTypeOK == Spec => []TypeOK
BY TypeInvInit, TypeInvNext, TypeInvIsType, SwitchInvInit, SwitchInvNext, PTL DEF Spec

-----------------------------------------------------------------------------
(* Where the buffers, the sequence numbers and the messages are *)

(* The other threads stay where they are. *)
OnlyMoves(t) == \A u \in Threads : u # t => pc'[u] = pc[u] /\ loc'[u] = loc[u]

(* A buffer that is read-only stays so. *)
StaysSealed == \A b \in Bufs : buf[b].state = ReadOnly => buf'[b].state = ReadOnly

LEMMA RingStates ==
  ASSUME NEW b \in Rings, NEW p, NEW i, NEW d
  PROVE  /\ SealFull(b).state \in {b.state, ReadOnly} /\ SetState(b, ReadOnly).state = ReadOnly
         /\ ClaimHead(b).state = b.state /\ ClaimTail(b).state = b.state
         /\ AddCount(StoreItem(b, p, i), d).state = b.state
<1>1. /\ SealFull(b).state \in {b.state, ReadOnly} /\ SetState(b, ReadOnly).state = ReadOnly
      /\ ClaimHead(b).state = b.state /\ ClaimTail(b).state = b.state
  BY DEF Rings, SealFull, SetState, ClaimHead, ClaimTail
<1>2. AddCount(StoreItem(b, p, i), d).state = b.state
  BY DEF Rings, AddCount, StoreItem
<1> QED BY <1>1, <1>2

(* A writer touches the rings, never one of the places that hold them. *)
LEMMA WriterFrame ==
  ASSUME TypeInv, NEW w \in Writers, WriterStep(w)
  PROVE  /\ UNCHANGED <<channelVars, pool, allocated, heapVars, readVars, closeVars>>
         /\ OnlyMoves(w) /\ StaysSealed /\ pc'[w] \notin Inside
<1>1. UNCHANGED <<channelVars, pool, allocated, heapVars, readVars, closeVars>>
  BY Zenon DEF WriterStep, Write, FastPath, LoadActive, PushState, PushCount, PushFull,
     PushClaim, PushStore, SlowPath, PeekActive, bufVars
<1>2. /\ pc \in [Threads -> Labels] /\ loc \in [Threads -> Locals] /\ w \in Threads
      /\ buf \in [Bufs -> Rings]
      /\ pc[w] \in {"state", "count", "full", "claim", "store", "peek"} => loc[w].ref \in Bufs
  BY WriterHas DEF TypeInv, ThreadType, BufType
<1>3. OnlyMoves(w)
  BY <1>2 DEF WriterStep, Write, FastPath, LoadActive, PushState, PushCount, PushFull,
     PushClaim, PushStore, SlowPath, PeekActive, PushFailed, Goto, Return, OnlyMoves
<1>4. pc'[w] \notin Inside
  BY <1>2 DEF WriterStep, Write, FastPath, LoadActive, PushState, PushCount, PushFull,
     PushClaim, PushStore, SlowPath, PeekActive, PushFailed, Goto, Return, Inside
<1>5. StaysSealed
  <2>1. CASE PushFull(w)
    <3>1. /\ buf' = [buf EXCEPT ![loc[w].ref] = SealFull(buf[loc[w].ref])]
          /\ loc[w].ref \in Bufs
      BY <1>2, <2>1 DEF PushFull, At
    <3> QED BY <1>2, <3>1, RingStates DEF StaysSealed
  <2>2. CASE PushClaim(w)
    <3>1. /\ buf' = [buf EXCEPT ![loc[w].ref] = ClaimHead(buf[loc[w].ref])]
          /\ loc[w].ref \in Bufs
      BY <1>2, <2>2 DEF PushClaim, At
    <3> QED BY <1>2, <3>1, RingStates DEF StaysSealed
  <2>3. CASE PushStore(w)
    <3> DEFINE ring == AddCount(StoreItem(buf[loc[w].ref], loc[w].pos, Item(loc[w].val)), 1)
    <3>1. buf' = [buf EXCEPT ![loc[w].ref] = ring] /\ loc[w].ref \in Bufs
      BY <1>2, <2>3 DEF PushStore, At
    <3>2. ring.state = buf[loc[w].ref].state
      BY <1>2, <3>1, RingStates
    <3> HIDE DEF ring
    <3> QED BY <1>2, <3>1, <3>2 DEF StaysSealed
  <2>4. CASE ~(PushFull(w) \/ PushClaim(w) \/ PushStore(w))
    <3>1. UNCHANGED buf
      BY <2>4, Zenon DEF WriterStep, Write, FastPath, LoadActive, PushState, PushCount,
         SlowPath, PeekActive, bufVars
    <3> QED BY <3>1 DEF StaysSealed
  <2> QED BY <2>1, <2>2, <2>3, <2>4
<1> QED BY <1>1, <1>3, <1>4, <1>5

LEMMA SwitcherFrame ==
  ASSUME TypeInv, NEW t \in Switchers, SwitchStep(t)
  PROVE  UNCHANGED <<sequence, currentSequence, pendingHeap, readVars, closeVars, loc>>
         /\ OnlyMoves(t)
<1>1. UNCHANGED <<sequence, currentSequence, pendingHeap, readVars, closeVars, loc>>
  BY Zenon DEF SwitchStep, SwitchCas, SwitchSeal, SwitchSwap, SwitchOpen, heapVars
<1>2. pc \in [Threads -> Labels]
  BY DEF TypeInv, ThreadType
<1>3. OnlyMoves(t)
  BY <1>1, <1>2 DEF SwitchStep, SwitchCas, SwitchSeal, SwitchSwap, SwitchOpen, Goto, OnlyMoves
<1> QED BY <1>1, <1>3

(* The steps of a reader; the other threads move only when it panics. *)
ReaderAction(r) == BlockingRead(r) \/ ReaderStep(r) \/ ContextDone(r)

LEMMA ReaderFrame ==
  ASSUME TypeInv, NEW r \in Readers, ReaderAction(r), ~Panic
  PROVE  UNCHANGED <<channelVars, allocated, sequence, rotations, pushers, closeVars>>
         /\ OnlyMoves(r)
<1>1. UNCHANGED <<channelVars, allocated, sequence, rotations, pushers>>
  BY Zenon DEF ReaderAction, ReaderStep, BlockingRead, RecycleUseless, PickFromHeap,
     MatchSequence, PopCount, PopRead, PopClear, register, WokenByToken, StopSeen,
     unregister, ContextDone, bufVars, heapVars
<1>2. UNCHANGED closeVars
  BY Zenon DEF ReaderAction, ReaderStep, BlockingRead, RecycleUseless, PickFromHeap,
     MatchSequence, PopCount, PopRead, PopClear, register, WokenByToken, StopSeen,
     unregister, ContextDone, closeVars
<1>3. pc \in [Threads -> Labels] /\ loc \in [Threads -> Locals] /\ r \in Threads
  BY ReaderHas DEF TypeInv, ThreadType
<1>4. OnlyMoves(r)
  <2>1. CASE PickFromHeap(r) \/ MatchSequence(r) \/ PopCount(r)
    BY <1>3, <2>1 DEF PickFromHeap, MatchSequence, PopCount, ReadFailed, Goto, OnlyMoves
  <2>2. CASE PopRead(r) \/ PopClear(r) \/ BlockingRead(r) \/ RecycleUseless(r)
    BY <1>3, <2>2 DEF PopRead, PopClear, BlockingRead, RecycleUseless, tryRead, ReadFailed,
       Goto, OnlyMoves
  <2>3. CASE register(r) \/ WokenByToken(r) \/ StopSeen(r) \/ unregister(r) \/ ContextDone(r)
    BY <1>3, <2>3 DEF register, WokenByToken, StopSeen, unregister, ContextDone, tryRead,
       Return, Goto, OnlyMoves
  <2> QED BY <2>1, <2>2, <2>3 DEF ReaderAction, ReaderStep
<1> QED BY <1>1, <1>2, <1>4

LEMMA CloserFrame ==
  ASSUME TypeInv, NEW c \in Closers, Close(c) \/ CloserStep(c), ~Panic
  PROVE  /\ UNCHANGED <<active, passive, buf, allocated, sequence, currentSequence, rotations,
                        pushers, readVars, loc, panicked>>
         /\ OnlyMoves(c)
<1>1. UNCHANGED <<active, passive, buf, allocated, sequence, currentSequence, rotations,
                  pushers, readVars, loc>>
  BY Zenon DEF Close, CloserStep, CloseStop, ClosePut, CloseWait, DrainLen, DrainPick,
     channelVars, bufVars, heapVars
<1>2. UNCHANGED panicked
  BY Zenon DEF Close, CloserStep, CloseStop, ClosePut, CloseWait, DrainLen, DrainPick, closeVars
<1>3. pc \in [Threads -> Labels]
  BY DEF TypeInv, ThreadType
<1>4. OnlyMoves(c)
  BY <1>1, <1>3 DEF Close, CloserStep, CloseStop, ClosePut, CloseWait, DrainLen, DrainPick,
     Goto, OnlyMoves
<1> QED BY <1>1, <1>2, <1>4

-----------------------------------------------------------------------------
(* A closer past its CAS has closed the state, past CloseStop the channel. *)
CloserInv ==
  \A c \in Closers :
    /\ pc[c] \in {"stop", "put", "wait", "drain", "drainPick"} => state = ClosedState
    /\ pc[c] \in {"put", "wait", "drain", "drainPick"} => stop

LEMMA CloserInvNext == TypeInv /\ SwitchInv /\ CloserInv /\ [Next]_vars => CloserInv'
<1> SUFFICES ASSUME TypeInv, SwitchInv, CloserInv, [Next]_vars PROVE CloserInv'
  OBVIOUS
<1>1. state = ClosedState => state' = ClosedState
  <2>1. CASE UNCHANGED vars
    BY <2>1 DEF vars, channelVars
  <2> QED BY <2>1, ClosedStep
<1>2. \A c \in Closers : c \in Threads /\ c \notin Writers /\ c \notin Readers /\ c # Monitor
  BY BasicTypes, ThreadsAssumption
<1>3. ASSUME UNCHANGED stop, \A c \in Closers : pc'[c] = pc[c]
      PROVE  CloserInv'
  BY <1>1, <1>3 DEF CloserInv
<1>4. ASSUME Panic PROVE CloserInv'
  BY <1>2, <1>4 DEF CloserInv, Panic
<1>5. CASE \E w \in Writers : WriterStep(w)
  BY <1>2, <1>3, <1>5, WriterFrame DEF OnlyMoves, closeVars
<1>6. CASE \E t \in Switchers : SwitchStep(t)
  <2>1. PICK t \in Switchers : SwitchStep(t)
    BY <1>6
  <2>2. t \notin Closers
    BY <1>2 DEF Switchers
  <2>3. UNCHANGED stop /\ OnlyMoves(t)
    BY <2>1, SwitcherFrame DEF closeVars
  <2> QED BY <1>2, <1>3, <2>2, <2>3 DEF OnlyMoves
<1>7. CASE PusherStep \/ RegisterReadMode \/ \E g \in Workers : WorkerExit(g)
  <2>1. UNCHANGED <<stop, pc>>
    BY <1>7, Zenon DEF PusherStep, TakeSequence, PushHeap, MeasureBuffer, notify,
                       RegisterReadMode, WorkerExit, closeVars
  <2> QED BY <1>3, <2>1
<1>8. CASE \E r \in Readers : ReaderAction(r)
  BY <1>2, <1>3, <1>4, <1>8, ReaderFrame DEF OnlyMoves, closeVars
<1>9. ASSUME NEW c \in Closers, Close(c) \/ CloserStep(c), ~Panic PROVE CloserInv'
  <2>1. OnlyMoves(c) /\ pc \in [Threads -> Labels] /\ c \in Threads
    BY <1>2, <1>9, CloserFrame DEF TypeInv, ThreadType
  <2>2. stop => stop'
    BY <1>9, Zenon DEF Close, CloserStep, CloseStop, ClosePut, CloseWait, DrainLen, DrainPick,
                       closeVars
  <2>3. /\ pc'[c] \in {"stop", "put", "wait", "drain", "drainPick"} => state' = ClosedState
        /\ pc'[c] \in {"put", "wait", "drain", "drainPick"} => stop'
    <3>1. CASE Close(c)
      BY <2>1, <3>1 DEF Close, Goto
    <3>2. CASE CloseStop(c)
      BY <1>1, <2>1, <3>2 DEF CloseStop, Goto, At, CloserInv
    <3>3. CASE ClosePut(c) \/ CloseWait(c) \/ DrainLen(c) \/ DrainPick(c)
      <4>1. pc[c] \in {"put", "wait", "drain", "drainPick"}
        BY <3>3 DEF ClosePut, CloseWait, DrainLen, DrainPick, At
      <4> QED BY <1>1, <2>2, <4>1 DEF CloserInv
    <3> QED BY <1>9, <3>1, <3>2, <3>3 DEF CloserStep
  <2> QED BY <1>1, <1>2, <2>1, <2>2, <2>3 DEF CloserInv, OnlyMoves
<1>10. CASE UNCHANGED vars
  BY <1>3, <1>10 DEF vars, closeVars
<1> QED BY <1>4, <1>5, <1>6, <1>7, <1>8, <1>9, <1>10 DEF Next, ReaderAction

LEMMA CloserInvInit == Init => CloserInv
BY BasicTypes DEF Init, CloserInv

(* The single reader has a buffer when it goes on to pop. *)
LEMMA NilReader ==
  ASSUME \A r, s \in Readers : r = s,
         TypeInv, NilOnlyInDrain, NEW r \in Readers, ReaderAction(r)
  PROVE  NilOnlyInDrain' /\ ~Panic
<1>1. /\ pc \in [Threads -> Labels] /\ r \in Threads /\ \A q \in Readers : q = r
      /\ pc[r] = "match" => loc[r].ref \in Bufs
      /\ currentBuffer \in BufOrNone /\ None \notin Bufs
      /\ pc[r] \in Labels /\ r \notin Closers
  BY ReaderHas, ThreadsAssumption DEF TypeInv, ThreadType, ReadType
<1>2. ~Panic
  <2> SUFFICES ASSUME Panic PROVE FALSE
    OBVIOUS
  <2>1. panicked' /\ pc'[r] = "dead"
    BY <1>1 DEF Panic
  <2>2. pc[r] = "popCount" => currentBuffer # None
    BY DEF NilOnlyInDrain, At
  <2>3. ~PopCount(r)
    BY <1>1, <2>1, <2>2 DEF PopCount, ReadFailed, Goto, At
  <2>4. CASE PickFromHeap(r) \/ MatchSequence(r)
    BY <1>1, <2>1, <2>4 DEF PickFromHeap, MatchSequence, ReadFailed, Goto
  <2>5. CASE PopRead(r) \/ PopClear(r) \/ BlockingRead(r) \/ RecycleUseless(r)
    BY <1>1, <2>1, <2>5 DEF PopRead, PopClear, BlockingRead, RecycleUseless, tryRead,
       ReadFailed, Goto
  <2>6. CASE register(r) \/ WokenByToken(r) \/ StopSeen(r) \/ unregister(r) \/ ContextDone(r)
    BY <1>1, <2>1, <2>6 DEF register, WokenByToken, StopSeen, unregister, ContextDone,
       tryRead, Return, Goto
  <2> QED BY <2>3, <2>4, <2>5, <2>6 DEF ReaderAction, ReaderStep
<1>3. UNCHANGED <<stop, panicked>>
  BY <1>2, ReaderFrame DEF closeVars
<1>4. pc'[r] = "popCount" => currentBuffer' # None
  <2>1. CASE MatchSequence(r)
    <3>1. CASE loc[r].seq = currentSequence
      <4>1. currentBuffer' = loc[r].ref /\ pc[r] = "match"
        BY <2>1, <3>1 DEF MatchSequence, At
      <4> QED BY <1>1, <4>1
    <3>2. CASE loc[r].seq # currentSequence
      BY <1>1, <2>1, <3>2 DEF MatchSequence, At, Goto, ReadFailed
    <3> QED BY <3>1, <3>2
  <2>2. CASE BlockingRead(r) \/ WokenByToken(r)
    BY <1>1, <2>2 DEF BlockingRead, WokenByToken, tryRead, Goto, readVars
  <2>3. CASE PickFromHeap(r)
    BY <1>1, <2>3 DEF PickFromHeap, ReadFailed, Goto
  <2>4. CASE RecycleUseless(r) \/ PopRead(r) \/ PopClear(r)
    BY <1>1, <2>4 DEF RecycleUseless, PopRead, PopClear, ReadFailed, Goto
  <2>5. CASE PopCount(r)
    BY <1>1, <2>5 DEF PopCount, readVars, Panic
  <2>6. CASE register(r) \/ StopSeen(r) \/ unregister(r) \/ ContextDone(r)
    BY <1>1, <2>6 DEF register, StopSeen, unregister, ContextDone, Return, Goto
  <2> QED BY <2>1, <2>2, <2>3, <2>4, <2>5, <2>6 DEF ReaderAction, ReaderStep
<1> QED BY <1>1, <1>2, <1>3, <1>4 DEF NilOnlyInDrain, At

LEMMA NilNext ==
  ASSUME \A r, s \in Readers : r = s
  PROVE  TypeInv /\ CloserInv /\ NilOnlyInDrain /\ [Next]_vars => NilOnlyInDrain'
<1> SUFFICES ASSUME TypeInv, CloserInv, NilOnlyInDrain, [Next]_vars PROVE NilOnlyInDrain'
  OBVIOUS
<1>1. \A r \in Readers : r \in Threads /\ r \notin Writers /\ r \notin Closers /\ r # Monitor
  BY BasicTypes, ThreadsAssumption
<1>2. ASSUME UNCHANGED panicked, stop => stop', UNCHANGED currentBuffer,
             \A r \in Readers : pc'[r] = pc[r]
      PROVE  NilOnlyInDrain'
  BY <1>2 DEF NilOnlyInDrain, At
<1>3. CASE \E w \in Writers : WriterStep(w)
  BY <1>1, <1>2, <1>3, WriterFrame DEF OnlyMoves, closeVars, readVars
<1>4. CASE \E t \in Switchers : SwitchStep(t)
  <2>1. PICK t \in Switchers : SwitchStep(t)
    BY <1>4
  <2>2. t \notin Readers
    BY <1>1 DEF Switchers
  <2> QED BY <1>1, <1>2, <2>1, <2>2, SwitcherFrame DEF OnlyMoves, closeVars, readVars
<1>5. CASE PusherStep \/ RegisterReadMode \/ \E g \in Workers : WorkerExit(g)
  <2>1. UNCHANGED <<stop, panicked, pc, currentBuffer>>
    BY <1>5, Zenon DEF PusherStep, TakeSequence, PushHeap, MeasureBuffer, notify,
                       RegisterReadMode, WorkerExit, closeVars, readVars
  <2> QED BY <1>2, <2>1
<1>6. CASE \E r \in Readers : ReaderAction(r)
  BY <1>6, NilReader
<1>7. ASSUME NEW c \in Closers, Close(c) \/ CloserStep(c) PROVE NilOnlyInDrain'
  <2>1. CASE Panic
    <3>1. \A r \in Readers : pc'[r] = "dead"
      BY <1>1, <2>1 DEF Panic
    <3>2. pc'[c] = "dead" /\ pc \in [Threads -> Labels] /\ c \in Threads
      BY <2>1, BasicTypes DEF Panic, TypeInv, ThreadType
    <3>3. DrainPick(c)
      BY <1>7, <3>2 DEF Close, CloserStep, CloseStop, ClosePut, CloseWait, DrainLen, Goto
    <3>4. stop'
      BY <3>3 DEF DrainPick, At, CloserInv
    <3> QED BY <3>1, <3>4 DEF NilOnlyInDrain, At
  <2>2. CASE ~Panic
    <3>1. stop => stop'
      BY <1>7, Zenon DEF Close, CloserStep, CloseStop, ClosePut, CloseWait, DrainLen, DrainPick,
                         closeVars
    <3> QED BY <1>1, <1>2, <1>7, <2>2, <3>1, CloserFrame DEF OnlyMoves, readVars
  <2> QED BY <2>1, <2>2
<1>8. CASE UNCHANGED vars
  BY <1>2, <1>8 DEF vars, closeVars, readVars
<1> QED BY <1>3, <1>4, <1>5, <1>6, <1>7, <1>8 DEF Next, ReaderAction

LEMMA NilInit == Init => NilOnlyInDrain
BY BasicTypes DEF Init, NilOnlyInDrain, At

(* With one reader, whatever the writers, switches and closers do, only    *)
(* drainProcessor dereferences nil, and only after Close has closed stop.  *)
THEOREM SingleReaderHasABuffer ==
  ASSUME \A r, s \in Readers : r = s
  PROVE  Spec => []NilOnlyInDrain
<1>1. TypeInv /\ CloserInv /\ NilOnlyInDrain /\ [Next]_vars => NilOnlyInDrain'
  BY NilNext
<1> QED BY <1>1, TypeInvInit, TypeInvNext, SwitchInvInit, SwitchInvNext, CloserInvInit,
           CloserInvNext, NilInit, PTL
        DEF Spec

-----------------------------------------------------------------------------
(* Sequence numbers *)

(* Where each sequence number is: a function, so that it is in one place.  *)
(* No goroutine about to push has a double.                                *)
Carrier == {"new", "push", "heap", "hand", "read"}
SeqMap(at) ==
  /\ \A s \in Nat :
       /\ at[s] = "new" <=> s = 0 \/ s > sequence
       /\ at[s] = "read" <=> s > 0 /\ s < currentSequence
       /\ at[s] = "push" <=> \E p \in DOMAIN pushers : p.pc = "push" /\ p.seq = s
       /\ at[s] = "heap" <=> \E i \in pendingHeap : i.seq = s
       /\ at[s] = "hand" <=> \E r \in Readers : pc[r] = "match" /\ loc[r].seq = s
  /\ \A p \in DOMAIN pushers : p.pc = "push" => pushers[p] = 1
  /\ \A p, q \in DOMAIN pushers : p.pc = "push" /\ q.pc = "push" /\ p.seq = q.seq => p = q
  /\ \A i, j \in pendingHeap : i.seq = j.seq => i = j
  /\ \A r, q \in Readers :
       pc[r] = "match" /\ pc[q] = "match" /\ loc[r].seq = loc[q].seq => r = q

SeqInv == state # ClosedState /\ ~panicked => \E at \in [Nat -> Carrier] : SeqMap(at)

(* The goroutines about to push stay the same; so do the readers that hold *)
(* a buffer.                                                               *)
PushSame ==
  /\ \A p \in DOMAIN pushers' : p.pc = "push" => p \in DOMAIN pushers
  /\ \A p \in DOMAIN pushers :
       p.pc = "push" => p \in DOMAIN pushers' /\ pushers'[p] = pushers[p]
HandSame ==
  \A r \in Readers : /\ pc'[r] = "match" <=> pc[r] = "match"
                     /\ pc[r] = "match" => loc'[r] = loc[r]

LEMMA SeqSame ==
  ASSUME SeqInv, state # ClosedState, ~panicked, PushSame, HandSame,
         UNCHANGED <<sequence, currentSequence, pendingHeap>>
  PROVE  SeqInv'
<1>1. PICK at \in [Nat -> Carrier] : SeqMap(at)
  BY DEF SeqInv
<1>2. SeqMap(at)'
  BY <1>1 DEF SeqMap, PushSame, HandSame
<1> QED BY <1>2 DEF SeqInv

LEMMA BecomeFacts ==
  ASSUME TypeInv, NEW p \in DOMAIN pushers, NEW q, p # q, Become(p, q)
  PROVE  /\ \A x \in DOMAIN pushers : x \notin {p, q} =>
              x \in DOMAIN pushers' /\ pushers'[x] = pushers[x]
         /\ \A x \in DOMAIN pushers' : x = q \/ x \in DOMAIN pushers
         /\ q \in DOMAIN pushers'
         /\ q \notin DOMAIN pushers => pushers'[q] = 1
         /\ pushers[p] = 1 => p \notin DOMAIN pushers'
<1> DEFINE B == pushers (-) SetToBag({p})
<1>1. IsABag(pushers)
  BY DEF TypeInv, HeapType
<1>2. /\ IsABag(B)
      /\ DOMAIN B = IF pushers[p] = 1 THEN DOMAIN pushers \ {p} ELSE DOMAIN pushers
      /\ \A x \in DOMAIN pushers : x # p => B[x] = pushers[x]
  BY <1>1, BagLoses
<1>3. pushers' = B (+) SetToBag({q})
  BY DEF Become
<1> HIDE DEF B
<1>4. /\ DOMAIN pushers' = DOMAIN B \cup {q}
      /\ \A x \in DOMAIN B : x # q => pushers'[x] = B[x]
      /\ pushers'[q] = IF q \in DOMAIN B THEN B[q] + 1 ELSE 1
  <2> DEFINE C == B (+) SetToBag({q})
  <2>1. /\ DOMAIN C = DOMAIN B \cup {q}
        /\ \A x \in DOMAIN B : x # q => C[x] = B[x]
        /\ C[q] = IF q \in DOMAIN B THEN B[q] + 1 ELSE 1
    BY <1>2, BagGets
  <2>2. pushers' = C
    BY <1>3
  <2> HIDE DEF C
  <2> QED BY <2>1, <2>2
<1> QED BY <1>2, <1>4

LEMMA SeqPusher ==
  ASSUME TypeInv, SeqInv, PusherStep
  PROVE  SeqInv'
<1>1. PICK p \in DOMAIN pushers :
        TakeSequence(p) \/ PushHeap(p) \/ MeasureBuffer(p) \/ notify(p)
  BY Zenon DEF PusherStep, BagToSet
<1>2. UNCHANGED <<pc, loc, currentSequence, state, panicked>>
  BY <1>1, Zenon DEF TakeSequence, PushHeap, MeasureBuffer, notify, channelVars, closeVars
<1> SUFFICES ASSUME state # ClosedState, ~panicked PROVE SeqInv'
  BY <1>2 DEF SeqInv
<1>3. PICK at \in [Nat -> Carrier] : SeqMap(at)
  BY DEF SeqInv
<1>4. /\ sequence \in Nat /\ IsABag(pushers)
      /\ \A x \in DOMAIN pushers : PusherOK(x, sequence)
      /\ \A i \in pendingHeap : i.seq \in 1 .. sequence
  BY DEF TypeInv, HeapType
<1>5. HandSame
  BY <1>2 DEF HandSame
<1>6. CASE TakeSequence(p)
  <2>0. PICK n \in Nat : n = sequence + 1
    BY <1>4
  <2> DEFINE q  == Pusher("push", p.buf, n, 0)
             bt == [at EXCEPT ![n] = "push"]
  <2>1. /\ sequence' = n /\ n = sequence + 1 /\ UNCHANGED pendingHeap /\ p.pc = "sequence"
        /\ Become(p, q)
    BY <1>6, <2>0 DEF TakeSequence, Runs
  <2>2. q.pc = "push" /\ q.seq = n /\ q # p
    BY <2>1 DEF Pusher
  <2>3. \A x \in DOMAIN pushers : x.pc = "push" => x.seq \in Nat /\ x.seq # n
    BY <1>4, <2>1 DEF PusherOK
  <2>4. q \notin DOMAIN pushers
    BY <2>2, <2>3
  <2> HIDE DEF q
  <2>5. /\ \A x \in DOMAIN pushers : x.pc = "push" => x \in DOMAIN pushers' /\ pushers'[x] = pushers[x]
        /\ \A x \in DOMAIN pushers' : x = q \/ x \in DOMAIN pushers
        /\ q \in DOMAIN pushers' /\ pushers'[q] = 1
    BY <2>1, <2>2, <2>4, BecomeFacts
  <2>6. /\ bt \in [Nat -> Carrier] /\ bt[n] = "push"
        /\ \A s \in Nat : s # n => bt[s] = at[s]
    BY <1>3, <1>4 DEF Carrier
  <2> HIDE DEF bt
  <2>7. at[n] = "new"
    BY <1>3, <1>4, <2>1 DEF SeqMap
  <2>8. ASSUME NEW s \in Nat
        PROVE  /\ bt[s] = "new" <=> s = 0 \/ s > sequence'
               /\ bt[s] = "read" <=> s > 0 /\ s < currentSequence'
               /\ bt[s] = "push" <=> \E x \in DOMAIN pushers' : x.pc = "push" /\ x.seq = s
               /\ bt[s] = "heap" <=> \E i \in pendingHeap' : i.seq = s
               /\ bt[s] = "hand" <=> \E r \in Readers : pc'[r] = "match" /\ loc'[r].seq = s
    <3>1. CASE s = n
      BY <1>2, <1>3, <1>4, <2>1, <2>2, <2>5, <2>6, <2>7, <3>1 DEF SeqMap
    <3>2. CASE s # n
      <4>1. s > sequence' <=> s > sequence
        BY <1>4, <2>1, <3>2
      <4>2. (\E x \in DOMAIN pushers' : x.pc = "push" /\ x.seq = s) <=>
            (\E x \in DOMAIN pushers : x.pc = "push" /\ x.seq = s)
        BY <2>2, <2>5, <3>2
      <4> QED BY <1>2, <1>3, <2>1, <2>6, <3>2, <4>1, <4>2 DEF SeqMap
    <3> QED BY <3>1, <3>2
  <2>9. /\ \A x \in DOMAIN pushers' : x.pc = "push" => pushers'[x] = 1
        /\ \A x, y \in DOMAIN pushers' : x.pc = "push" /\ y.pc = "push" /\ x.seq = y.seq => x = y
    BY <1>3, <2>2, <2>3, <2>5 DEF SeqMap
  <2>10. SeqMap(bt)'
    BY <1>2, <1>3, <2>1, <2>8, <2>9 DEF SeqMap
  <2> QED BY <2>6, <2>10 DEF SeqInv
<1>7. CASE PushHeap(p)
  <2> DEFINE q  == Pusher("len", p.buf, 0, 0)
             i  == [seq |-> p.seq, buf |-> p.buf]
             bt == [at EXCEPT ![p.seq] = "heap"]
  <2>1. /\ UNCHANGED sequence /\ p.pc = "push" /\ Become(p, q)
        /\ pendingHeap' = pendingHeap \cup {i}
    BY <1>7 DEF PushHeap, Runs
  <2>2. q.pc = "len" /\ q # p /\ i.seq = p.seq
    BY <2>1 DEF Pusher
  <2>3. p.seq \in Nat /\ at[p.seq] = "push" /\ pushers[p] = 1
    BY <1>3, <1>4, <2>1 DEF SeqMap, PusherOK
  <2> HIDE DEF q, i
  <2>4. /\ \A x \in DOMAIN pushers :
             x.pc = "push" /\ x # p => x \in DOMAIN pushers' /\ pushers'[x] = pushers[x]
        /\ \A x \in DOMAIN pushers' : x.pc = "push" => x \in DOMAIN pushers /\ x # p
    BY <2>1, <2>2, <2>3, BecomeFacts
  <2>5. /\ bt \in [Nat -> Carrier] /\ bt[p.seq] = "heap"
        /\ \A s \in Nat : s # p.seq => bt[s] = at[s]
    BY <1>3, <2>3 DEF Carrier
  <2> HIDE DEF bt
  <2>6. \A x \in DOMAIN pushers' : x.pc = "push" => x.seq # p.seq
    BY <1>3, <2>1, <2>4 DEF SeqMap
  <2>7. \A j \in pendingHeap : j.seq # p.seq
    BY <1>3, <2>3 DEF SeqMap
  <2>8. ASSUME NEW s \in Nat
        PROVE  /\ bt[s] = "new" <=> s = 0 \/ s > sequence'
               /\ bt[s] = "read" <=> s > 0 /\ s < currentSequence'
               /\ bt[s] = "push" <=> \E x \in DOMAIN pushers' : x.pc = "push" /\ x.seq = s
               /\ bt[s] = "heap" <=> \E j \in pendingHeap' : j.seq = s
               /\ bt[s] = "hand" <=> \E r \in Readers : pc'[r] = "match" /\ loc'[r].seq = s
    <3>1. CASE s = p.seq
      BY <1>2, <1>3, <2>1, <2>2, <2>3, <2>5, <2>6, <3>1 DEF SeqMap
    <3>2. CASE s # p.seq
      <4>1. (\E x \in DOMAIN pushers' : x.pc = "push" /\ x.seq = s) <=>
            (\E x \in DOMAIN pushers : x.pc = "push" /\ x.seq = s)
        BY <2>4, <3>2
      <4>2. (\E j \in pendingHeap' : j.seq = s) <=> (\E j \in pendingHeap : j.seq = s)
        BY <2>1, <2>2, <3>2
      <4> QED BY <1>2, <1>3, <2>1, <2>5, <3>2, <4>1, <4>2 DEF SeqMap
    <3> QED BY <3>1, <3>2
  <2>9. /\ \A x \in DOMAIN pushers' : x.pc = "push" => pushers'[x] = 1
        /\ \A x, y \in DOMAIN pushers' : x.pc = "push" /\ y.pc = "push" /\ x.seq = y.seq => x = y
        /\ \A j, k \in pendingHeap' : j.seq = k.seq => j = k
    BY <1>3, <2>1, <2>2, <2>4, <2>7 DEF SeqMap
  <2>10. SeqMap(bt)'
    BY <1>2, <1>3, <2>1, <2>8, <2>9 DEF SeqMap
  <2> QED BY <2>5, <2>10 DEF SeqInv
<1>8. CASE MeasureBuffer(p)
  <2> DEFINE q == Pusher("notify", None, 0, buf[p.buf].count)
  <2>1. UNCHANGED <<sequence, pendingHeap>> /\ p.pc = "len" /\ Become(p, q)
    BY <1>8 DEF MeasureBuffer, Runs
  <2>2. q.pc = "notify" /\ q # p
    BY <2>1 DEF Pusher
  <2> HIDE DEF q
  <2>3. PushSame
    BY <2>1, <2>2, BecomeFacts DEF PushSame
  <2> QED BY <1>2, <1>5, <2>1, <2>3, SeqSame
<1>9. CASE notify(p)
  <2>1. UNCHANGED <<sequence, pendingHeap>> /\ p.pc = "notify"
        /\ pushers' = pushers (-) SetToBag({p})
    BY <1>9 DEF notify, Runs
  <2>2. PushSame
    <3>1. /\ DOMAIN pushers' \subseteq DOMAIN pushers /\ DOMAIN pushers \ {p} \subseteq DOMAIN pushers'
          /\ \A x \in DOMAIN pushers : x # p => pushers'[x] = pushers[x]
      BY <1>4, <2>1, BagLoses
    <3>2. \A x \in DOMAIN pushers : x.pc # "notify" => x # p
      BY <2>1
    <3> QED BY <3>1, <3>2 DEF PushSame
  <2> QED BY <1>2, <1>5, <2>1, <2>2, SeqSame
<1> QED BY <1>1, <1>6, <1>7, <1>8, <1>9

(* A reader takes a number from the heap, consumes it or pushes it back. *)
LEMMA SeqReader ==
  ASSUME TypeInv, SeqInv, NEW r \in Readers, ReaderAction(r)
  PROVE  SeqInv'
<1>1. /\ pc \in [Threads -> Labels] /\ loc \in [Threads -> Locals] /\ r \in Threads
      /\ sequence \in Nat /\ currentSequence \in Nat
      /\ \A i \in pendingHeap : i.seq \in Nat
      /\ Readers \subseteq Threads
      /\ pc[r] = "match" => loc[r].seq \in Nat \ {0}
  BY ReaderHas, BasicTypes DEF TypeInv, ThreadType, HeapType
<1>2. CASE Panic
  BY <1>2 DEF Panic, SeqInv
<1> SUFFICES ASSUME ~Panic PROVE SeqInv'
  BY <1>2
<1>3. UNCHANGED <<sequence, pushers, state, panicked>> /\ OnlyMoves(r)
  BY ReaderFrame DEF channelVars, closeVars
<1> SUFFICES ASSUME state # ClosedState, ~panicked PROVE SeqInv'
  BY <1>3 DEF SeqInv
<1>4. PICK at \in [Nat -> Carrier] : SeqMap(at)
  BY DEF SeqInv
<1>5. ASSUME UNCHANGED <<currentSequence, pendingHeap>>, pc[r] # "match", pc'[r] # "match"
      PROVE  SeqInv'
  <2>1. PushSame
    BY <1>3 DEF PushSame
  <2>2. HandSame
    BY <1>1, <1>3, <1>5 DEF HandSame, OnlyMoves
  <2> QED BY <1>3, <1>5, <2>1, <2>2, SeqSame
<1>6. CASE PickFromHeap(r) /\ pendingHeap # {}
  <2>1. PICK i \in pendingHeap :
          /\ pendingHeap' = pendingHeap \ {i}
          /\ loc' = [loc EXCEPT ![r].ref = i.buf, ![r].seq = i.seq]
          /\ pc' = [pc EXCEPT ![r] = "match"]
    BY <1>6 DEF PickFromHeap, Goto
  <2>2. UNCHANGED currentSequence /\ pc[r] = "pick"
    BY <1>6 DEF PickFromHeap, At
  <2>3. pc'[r] = "match" /\ loc'[r].seq = i.seq
    BY <1>1, <2>1 DEF Locals
  <2> DEFINE bt == [at EXCEPT ![i.seq] = "hand"]
  <2>4. /\ bt \in [Nat -> Carrier] /\ bt[i.seq] = "hand"
        /\ \A s \in Nat : s # i.seq => bt[s] = at[s]
    BY <1>1, <1>4 DEF Carrier
  <2>5. at[i.seq] = "heap"
    BY <1>1, <1>4 DEF SeqMap
  <2> HIDE DEF bt
  <2>6. \A q \in Readers : q # r => pc'[q] = pc[q] /\ loc'[q] = loc[q]
    BY <1>1, <1>3 DEF OnlyMoves
  <2>7. ASSUME NEW s \in Nat
        PROVE  /\ bt[s] = "new" <=> s = 0 \/ s > sequence'
               /\ bt[s] = "read" <=> s > 0 /\ s < currentSequence'
               /\ bt[s] = "push" <=> \E x \in DOMAIN pushers' : x.pc = "push" /\ x.seq = s
               /\ bt[s] = "heap" <=> \E j \in pendingHeap' : j.seq = s
               /\ bt[s] = "hand" <=> \E q \in Readers : pc'[q] = "match" /\ loc'[q].seq = s
    <3>1. CASE s = i.seq
      <4>1. ~\E j \in pendingHeap' : j.seq = s
        BY <1>4, <2>1, <3>1 DEF SeqMap
      <4> QED BY <1>3, <1>4, <2>2, <2>3, <2>4, <2>5, <3>1, <4>1 DEF SeqMap
    <3>2. CASE s # i.seq
      <4>1. (\E q \in Readers : pc'[q] = "match" /\ loc'[q].seq = s) <=>
            (\E q \in Readers : pc[q] = "match" /\ loc[q].seq = s)
        BY <2>2, <2>3, <2>6, <3>2
      <4>2. (\E j \in pendingHeap' : j.seq = s) <=> (\E j \in pendingHeap : j.seq = s)
        BY <2>1, <3>2
      <4> QED BY <1>3, <1>4, <2>2, <2>4, <3>2, <4>1, <4>2 DEF SeqMap
    <3> QED BY <3>1, <3>2
  <2>8. \A q \in Readers : pc[q] = "match" => loc[q].seq # i.seq
    BY <1>1, <1>4, <2>5 DEF SeqMap
  <2>9. \A q, x \in Readers :
          pc'[q] = "match" /\ pc'[x] = "match" /\ loc'[q].seq = loc'[x].seq => q = x
    BY <1>4, <2>3, <2>6, <2>8 DEF SeqMap
  <2>10. \A j, k \in pendingHeap' : j.seq = k.seq => j = k
    BY <1>4, <2>1 DEF SeqMap
  <2>11. SeqMap(bt)'
    BY <1>3, <1>4, <2>7, <2>9, <2>10 DEF SeqMap
  <2> QED BY <2>4, <2>11 DEF SeqInv
<1>7. CASE MatchSequence(r)
  <2>1. PICK n \in Nat \ {0} : n = loc[r].seq
    BY <1>1, <1>7 DEF MatchSequence, At
  <2>2. pc[r] = "match" /\ at[n] = "hand"
    BY <1>4, <1>7, <2>1 DEF MatchSequence, At, SeqMap
  <2>3. /\ \A q \in Readers : q # r => pc'[q] = pc[q] /\ loc'[q] = loc[q]
        /\ \A q \in Readers : q # r => ~(pc[q] = "match" /\ loc[q].seq = n)
    BY <1>1, <1>3, <1>4, <2>1, <2>2 DEF OnlyMoves, SeqMap
  <2>4. pc'[r] # "match"
    BY <1>1, <1>7 DEF MatchSequence, Goto, ReadFailed
  <2>5. \A s \in Nat : (\E q \in Readers : pc'[q] = "match" /\ loc'[q].seq = s) <=>
                       s # n /\ (\E q \in Readers : pc[q] = "match" /\ loc[q].seq = s)
    BY <2>1, <2>2, <2>3, <2>4
  <2>6. \A q, x \in Readers :
          pc'[q] = "match" /\ pc'[x] = "match" /\ loc'[q].seq = loc'[x].seq => q = x
    BY <1>4, <2>3, <2>4 DEF SeqMap
  <2>7. CASE n = currentSequence
    <3> DEFINE bt == [at EXCEPT ![n] = "read"]
    <3>1. currentSequence' = n + 1 /\ UNCHANGED pendingHeap
      BY <1>7, <2>1, <2>7 DEF MatchSequence
    <3>2. /\ bt \in [Nat -> Carrier] /\ bt[n] = "read"
          /\ \A s \in Nat : s # n => bt[s] = at[s]
      BY <1>4 DEF Carrier
    <3> HIDE DEF bt
    <3>3. ASSUME NEW s \in Nat
          PROVE  /\ bt[s] = "new" <=> s = 0 \/ s > sequence'
                 /\ bt[s] = "read" <=> s > 0 /\ s < currentSequence'
                 /\ bt[s] = "push" <=> \E x \in DOMAIN pushers' : x.pc = "push" /\ x.seq = s
                 /\ bt[s] = "heap" <=> \E j \in pendingHeap' : j.seq = s
                 /\ bt[s] = "hand" <=> \E q \in Readers : pc'[q] = "match" /\ loc'[q].seq = s
      <4>1. CASE s = n
        <5>1. s > 0 /\ s < currentSequence'
          BY <3>1, <4>1
        <5>2. ~(s > sequence') /\ ~(\E j \in pendingHeap' : j.seq = s)
              /\ ~(\E x \in DOMAIN pushers' : x.pc = "push" /\ x.seq = s)
          BY <1>3, <1>4, <2>2, <3>1, <4>1 DEF SeqMap
        <5> QED BY <2>5, <3>2, <4>1, <5>1, <5>2
      <4>2. CASE s # n
        <5>1. s < currentSequence' <=> s < currentSequence
          BY <2>7, <3>1, <4>2
        <5>2. (bt[s] = "hand" <=> \E q \in Readers : pc'[q] = "match" /\ loc'[q].seq = s)
              /\ (bt[s] = "push" <=> \E x \in DOMAIN pushers' : x.pc = "push" /\ x.seq = s)
          <6>1. bt[s] = at[s] /\ pushers' = pushers
            BY <1>3, <3>2, <4>2
          <6>2. /\ at[s] = "push" <=> \E x \in DOMAIN pushers : x.pc = "push" /\ x.seq = s
                /\ at[s] = "hand" <=> \E q \in Readers : pc[q] = "match" /\ loc[q].seq = s
            BY <1>4, Zenon DEF SeqMap
          <6>3. at[s] = "hand" <=> \E q \in Readers : pc'[q] = "match" /\ loc'[q].seq = s
            BY <2>5, <4>2, <6>2
          <6> QED BY <6>1, <6>2, <6>3, Zenon
        <5>3. /\ bt[s] = "new" <=> s = 0 \/ s > sequence'
              /\ bt[s] = "read" <=> s > 0 /\ s < currentSequence'
              /\ bt[s] = "heap" <=> \E j \in pendingHeap' : j.seq = s
          <6>1. bt[s] = at[s] /\ sequence' = sequence /\ pendingHeap' = pendingHeap
            BY <1>3, <3>1, <3>2, <4>2
          <6>2. /\ at[s] = "new" <=> s = 0 \/ s > sequence
                /\ at[s] = "read" <=> s > 0 /\ s < currentSequence
                /\ at[s] = "heap" <=> \E j \in pendingHeap : j.seq = s
            BY <1>4, Zenon DEF SeqMap
          <6>3. at[s] = "read" <=> s > 0 /\ s < currentSequence'
            BY <5>1, <6>2, Zenon
          <6> QED BY <6>1, <6>2, <6>3, Zenon
        <5> QED BY <5>2, <5>3
      <4> QED BY <4>1, <4>2
    <3>4. SeqMap(bt)'
      BY <1>3, <1>4, <2>6, <3>1, <3>3 DEF SeqMap
    <3> QED BY <3>2, <3>4 DEF SeqInv
  <2>8. CASE n # currentSequence
    <3> DEFINE bt == [at EXCEPT ![n] = "heap"]
    <3>1. PICK b : b = loc[r].ref
      OBVIOUS
    <3>2. pendingHeap' = pendingHeap \cup {[seq |-> n, buf |-> b]} /\ UNCHANGED currentSequence
      BY <1>7, <2>1, <2>8, <3>1 DEF MatchSequence
    <3>3. /\ bt \in [Nat -> Carrier] /\ bt[n] = "heap"
          /\ \A s \in Nat : s # n => bt[s] = at[s]
      BY <1>4 DEF Carrier
    <3> HIDE DEF bt
    <3>4. \A j \in pendingHeap : j.seq # n
      BY <1>4, <2>2 DEF SeqMap
    <3>5. ASSUME NEW s \in Nat
          PROVE  /\ bt[s] = "new" <=> s = 0 \/ s > sequence'
                 /\ bt[s] = "read" <=> s > 0 /\ s < currentSequence'
                 /\ bt[s] = "push" <=> \E x \in DOMAIN pushers' : x.pc = "push" /\ x.seq = s
                 /\ bt[s] = "heap" <=> \E j \in pendingHeap' : j.seq = s
                 /\ bt[s] = "hand" <=> \E q \in Readers : pc'[q] = "match" /\ loc'[q].seq = s
      <4>1. CASE s = n
        <5>1. \E j \in pendingHeap' : j.seq = s
          <6>1. [seq |-> n, buf |-> b] \in pendingHeap' /\ [seq |-> n, buf |-> b].seq = s
            BY <3>2, <4>1
          <6> QED BY <6>1
        <5>2. /\ ~(s > sequence') /\ ~(s < currentSequence')
              /\ ~(\E x \in DOMAIN pushers' : x.pc = "push" /\ x.seq = s)
          BY <1>3, <1>4, <2>2, <3>2, <4>1 DEF SeqMap
        <5> QED BY <2>5, <3>3, <4>1, <5>1, <5>2
      <4>2. CASE s # n
        <5>1. (\E j \in pendingHeap' : j.seq = s) <=> (\E j \in pendingHeap : j.seq = s)
          BY <3>2, <4>2
        <5>2. bt[s] = at[s]
          BY <3>3, <4>2
        <5>3. /\ at[s] = "new" <=> s = 0 \/ s > sequence
              /\ at[s] = "read" <=> s > 0 /\ s < currentSequence
              /\ at[s] = "push" <=> \E x \in DOMAIN pushers : x.pc = "push" /\ x.seq = s
              /\ at[s] = "heap" <=> \E j \in pendingHeap : j.seq = s
              /\ at[s] = "hand" <=> \E q \in Readers : pc[q] = "match" /\ loc[q].seq = s
          BY <1>4 DEF SeqMap
        <5>4. bt[s] = "hand" <=> \E q \in Readers : pc'[q] = "match" /\ loc'[q].seq = s
          BY <2>5, <4>2, <5>2, <5>3
        <5>5. bt[s] = "heap" <=> \E j \in pendingHeap' : j.seq = s
          BY <5>1, <5>2, <5>3
        <5>6. /\ bt[s] = "new" <=> s = 0 \/ s > sequence'
              /\ bt[s] = "read" <=> s > 0 /\ s < currentSequence'
              /\ bt[s] = "push" <=> \E x \in DOMAIN pushers' : x.pc = "push" /\ x.seq = s
          BY <1>3, <3>2, <5>2, <5>3
        <5> QED BY <5>4, <5>5, <5>6
      <4> QED BY <4>1, <4>2
    <3>6. \A j, k \in pendingHeap' : j.seq = k.seq => j = k
      BY <1>4, <3>2, <3>4 DEF SeqMap
    <3>7. SeqMap(bt)'
      BY <1>3, <1>4, <2>6, <3>2, <3>5, <3>6 DEF SeqMap
    <3> QED BY <3>3, <3>7 DEF SeqInv
  <2> QED BY <2>7, <2>8
<1>8. CASE PickFromHeap(r) /\ pendingHeap = {}
  BY <1>1, <1>5, <1>8 DEF PickFromHeap, ReadFailed, Goto, At
<1>9. CASE BlockingRead(r) \/ RecycleUseless(r) \/ PopCount(r) \/ PopRead(r) \/ PopClear(r)
  BY <1>1, <1>5, <1>9 DEF BlockingRead, RecycleUseless, PopCount, PopRead, PopClear, tryRead,
     ReadFailed, Goto, At, heapVars
<1>10. CASE register(r) \/ WokenByToken(r) \/ StopSeen(r) \/ unregister(r) \/ ContextDone(r)
  BY <1>1, <1>5, <1>10 DEF register, WokenByToken, StopSeen, unregister, ContextDone,
     tryRead, Return, Goto, At, heapVars
<1> QED BY <1>6, <1>7, <1>8, <1>9, <1>10 DEF ReaderAction, ReaderStep

LEMMA SeqInvNext == TypeInv /\ SwitchInv /\ CloserInv /\ SeqInv /\ [Next]_vars => SeqInv'
<1> SUFFICES ASSUME TypeInv, SwitchInv, CloserInv, SeqInv, [Next]_vars PROVE SeqInv'
  OBVIOUS
<1>1. state = ClosedState => state' = ClosedState
  <2>1. CASE UNCHANGED vars
    BY <2>1 DEF vars, channelVars
  <2> QED BY <2>1, ClosedStep
<1> SUFFICES ASSUME state # ClosedState PROVE SeqInv'
  BY <1>1 DEF SeqInv
<1>2. Readers \subseteq Threads /\ \A r \in Readers : r \notin Writers /\ r \notin Closers /\ r # Monitor
  BY BasicTypes, ThreadsAssumption
<1>3. ASSUME UNCHANGED <<sequence, currentSequence, pendingHeap, panicked>>, PushSame,
             NEW t \in Threads \ Readers, OnlyMoves(t)
      PROVE  SeqInv'
  <2>1. HandSame
    BY <1>2, <1>3 DEF HandSame, OnlyMoves
  <2>2. CASE panicked
    BY <1>3, <2>2 DEF SeqInv
  <2> QED BY <1>3, <2>1, <2>2, SeqSame
<1>4. ASSUME UNCHANGED <<sequence, currentSequence, pendingHeap, pushers, panicked, pc, loc>>
      PROVE  SeqInv'
  <2>1. HandSame /\ PushSame
    BY <1>4 DEF HandSame, PushSame
  <2>2. CASE panicked
    BY <1>4, <2>2 DEF SeqInv
  <2> QED BY <1>4, <2>1, <2>2, SeqSame
<1>5. ASSUME UNCHANGED pushers PROVE PushSame
  BY <1>5 DEF PushSame
<1>6. CASE \E w \in Writers : WriterStep(w)
  <2>1. PICK w \in Writers : WriterStep(w)
    BY <1>6
  <2>2. /\ UNCHANGED <<sequence, currentSequence, pendingHeap, pushers, panicked>>
        /\ OnlyMoves(w) /\ w \in Threads \ Readers
    BY <1>2, <2>1, WriterFrame, BasicTypes DEF heapVars, closeVars
  <2> QED BY <1>3, <1>5, <2>2
<1>7. ASSUME NEW t \in Switchers, SwitchStep(t) PROVE SeqInv'
  <2>1. /\ UNCHANGED <<sequence, currentSequence, pendingHeap, panicked>>
        /\ OnlyMoves(t) /\ t \in Threads \ Readers
    BY <1>2, <1>7, SwitcherFrame, BasicTypes DEF closeVars, Switchers
  <2>2. PushSame
    <3>1. CASE SwitchSwap(t)
      <4>1. PICK q : q = Pusher("sequence", active, 0, 0)
        OBVIOUS
      <4>2. q.pc = "sequence" /\ pushers' = pushers (+) SetToBag({q}) /\ IsABag(pushers)
        BY <3>1, <4>1 DEF SwitchSwap, Pusher, TypeInv, HeapType
      <4> DEFINE C == pushers (+) SetToBag({q})
      <4>3. /\ DOMAIN C = DOMAIN pushers \cup {q}
            /\ \A x \in DOMAIN pushers : x # q => C[x] = pushers[x]
        BY <4>2, BagGets
      <4>4. pushers' = C
        BY <4>2
      <4> HIDE DEF C
      <4> QED BY <4>2, <4>3, <4>4 DEF PushSame
    <3>2. CASE ~SwitchSwap(t)
      BY <1>5, <1>7, <3>2, Zenon DEF SwitchStep, SwitchCas, SwitchSeal, SwitchOpen, heapVars
    <3> QED BY <3>1, <3>2
  <2> QED BY <1>3, <2>1, <2>2
<1>8. CASE PusherStep
  BY <1>8, SeqPusher
<1>9. CASE RegisterReadMode \/ \E g \in Workers : WorkerExit(g)
  BY <1>4, <1>9, Zenon DEF RegisterReadMode, WorkerExit, heapVars, closeVars
<1>10. CASE \E r \in Readers : ReaderAction(r)
  BY <1>10, SeqReader
<1>11. ASSUME NEW c \in Closers, Close(c) \/ CloserStep(c) PROVE SeqInv'
  <2>1. CASE Close(c)
    <3>1. /\ UNCHANGED <<sequence, currentSequence, pendingHeap, pushers, panicked, loc>>
          /\ \A r \in Readers : pc'[r] = pc[r]
      BY <1>2, <2>1, BasicTypes DEF Close, heapVars, closeVars, Goto, TypeInv, ThreadType
    <3>2. HandSame /\ PushSame
      BY <3>1 DEF HandSame, PushSame
    <3>3. CASE panicked
      BY <3>1, <3>3 DEF SeqInv
    <3> QED BY <3>1, <3>2, <3>3, SeqSame
  <2>2. CASE CloserStep(c)
    <3>1. pc[c] \in {"stop", "put", "wait", "drain", "drainPick"}
      BY <2>2 DEF CloserStep, CloseStop, ClosePut, CloseWait, DrainLen, DrainPick, At
    <3> QED BY <3>1 DEF CloserInv
  <2> QED BY <1>11, <2>1, <2>2
<1>12. CASE UNCHANGED vars
  BY <1>4, <1>12 DEF vars, heapVars, closeVars
<1> QED BY <1>6, <1>7, <1>8, <1>9, <1>10, <1>11, <1>12 DEF Next, ReaderAction

LEMMA SeqInvInit == Init => SeqInv
<1> SUFFICES ASSUME Init PROVE SeqInv
  OBVIOUS
<1> DEFINE at == [s \in Nat |-> "new"]
<1>1. at \in [Nat -> Carrier] /\ \A s \in Nat : at[s] = "new"
  BY DEF Carrier
<1>2. /\ sequence = 0 /\ currentSequence = 1 /\ pendingHeap = {} /\ DOMAIN pushers = {}
      /\ \A r \in Readers : pc[r] = "idle"
  BY BasicTypes DEF Init, EmptyBag, SetToBag
<1> HIDE DEF at
<1>3. \A s \in Nat : /\ (at[s] = "new" <=> s = 0 \/ s > sequence)
                     /\ (at[s] = "read" <=> s > 0 /\ s < currentSequence)
  BY <1>1, <1>2
<1>4. SeqMap(at)
  BY <1>1, <1>2, <1>3 DEF SeqMap
<1> QED BY <1>1, <1>4 DEF SeqInv

LEMMA GoroutinesOf ==
  /\ Goroutines({}) = {}
  /\ \A p : pushers[p] = 1 => Goroutines({p}) = {<<"goroutine", p, 1>>}
<1>1. Goroutines({}) = {}
  BY DEF Goroutines
<1>2. ASSUME NEW p, pushers[p] = 1 PROVE Goroutines({p}) = {<<"goroutine", p, 1>>}
  <2>1. 1 .. pushers[p] = {1}
    BY <1>2
  <2>2. {<<"goroutine", p, n>> : n \in 1 .. pushers[p]} = {<<"goroutine", p, 1>>}
    BY <2>1
  <2>3. {{<<"goroutine", q, n>> : n \in 1 .. pushers[q]} : q \in {p}} =
        {{<<"goroutine", p, n>> : n \in 1 .. pushers[p]}}
    OBVIOUS
  <2>4. Goroutines({p}) = UNION {{<<"goroutine", p, 1>>}}
    BY <2>2, <2>3 DEF Goroutines
  <2> QED BY <2>4
<1> QED BY <1>1, <1>2

(* The map of the sequence numbers counts their carriers. *)
LEMMA SeqInvCounts == TypeInv /\ SeqInv => SequenceComplete
<1> SUFFICES ASSUME TypeInv, SeqInv, state # ClosedState, ~panicked, NEW s \in 1 .. sequence
             PROVE  Cardinality(Carriers(s)) = IF s < currentSequence THEN 0 ELSE 1
  BY DEF SequenceComplete
<1>1. PICK at \in [Nat -> Carrier] : SeqMap(at)
  BY DEF SeqInv
<1> DEFINE P == {p \in Pushing : p.pc = "push" /\ p.seq = s}
           H == {i \in pendingHeap : i.seq = s}
           R == {r \in Readers : pc[r] = "match" /\ loc[r].seq = s}
           SH == {<<"pendingHeap", i>> : i \in H}
           SR == {<<"reader", r>> : r \in R}
<1>2. Carriers(s) = Goroutines(P) \cup SH \cup SR
  BY DEF Carriers
<1>3. s \in Nat /\ at[s] \in Carrier /\ at[s] # "new"
  <2>1. sequence \in Nat
    BY DEF TypeInv, HeapType
  <2> QED BY <1>1, <2>1 DEF SeqMap
<1>4. /\ at[s] = "read" <=> s < currentSequence
      /\ at[s] = "push" <=> P # {}
      /\ at[s] = "heap" <=> H # {}
      /\ at[s] = "hand" <=> R # {}
  <2>1. /\ P # {} <=> \E p \in DOMAIN pushers : p.pc = "push" /\ p.seq = s
        /\ H # {} <=> \E i \in pendingHeap : i.seq = s
        /\ R # {} <=> \E r \in Readers : pc[r] = "match" /\ loc[r].seq = s
    BY DEF Pushing, BagToSet
  <2>2. s > 0
    OBVIOUS
  <2> HIDE DEF P, H, R
  <2> QED BY <1>1, <1>3, <2>1, <2>2 DEF SeqMap
<1>5. /\ \A p \in P : pushers[p] = 1 /\ P = {p}
      /\ \A i \in H : H = {i}
      /\ \A r \in R : R = {r}
  BY <1>1 DEF SeqMap, Pushing, BagToSet
<1> HIDE DEF P, H, R
<1>6. /\ H = {} => SH = {}
      /\ \A i : H = {i} => SH = {<<"pendingHeap", i>>}
      /\ R = {} => SR = {}
      /\ \A r : R = {r} => SR = {<<"reader", r>>}
  OBVIOUS
<1> HIDE DEF SH, SR
<1>7. CASE at[s] = "read"
  <2>1. Carriers(s) = {}
    BY <1>2, <1>4, <1>6, <1>7, GoroutinesOf
  <2> QED BY <1>4, <1>7, <2>1, FS_EmptySet
<1>8. CASE at[s] = "push"
  <2>1. PICK p \in P : pushers[p] = 1 /\ P = {p}
    BY <1>4, <1>5, <1>8
  <2>2. Carriers(s) = {<<"goroutine", p, 1>>}
    BY <1>2, <1>4, <1>6, <1>8, <2>1, GoroutinesOf
  <2> QED BY <1>4, <1>8, <2>2, FS_Singleton
<1>9. CASE at[s] = "heap"
  <2>1. PICK i \in H : H = {i}
    BY <1>4, <1>5, <1>9
  <2>2. Carriers(s) = {<<"pendingHeap", i>>}
    BY <1>2, <1>4, <1>6, <1>9, <2>1, GoroutinesOf
  <2> QED BY <1>4, <1>9, <2>2, FS_Singleton
<1>10. CASE at[s] = "hand"
  <2>1. PICK r \in R : R = {r}
    BY <1>4, <1>5, <1>10
  <2>2. Carriers(s) = {<<"reader", r>>}
    BY <1>2, <1>4, <1>6, <1>10, <2>1, GoroutinesOf
  <2> QED BY <1>4, <1>10, <2>2, FS_Singleton
<1> QED BY <1>3, <1>7, <1>8, <1>9, <1>10 DEF Carrier

(* Until Close or a panic, every sequence number given out and not yet     *)
(* consumed has exactly one carrier, and a consumed one none, whatever the *)
(* goroutines of the rotations and any number of readers do in between.    *)
THEOREM NoSequenceIsLost == Spec => []SequenceComplete
<1> QED BY TypeInvInit, TypeInvNext, SwitchInvInit, SwitchInvNext, CloserInvInit,
           CloserInvNext, SeqInvInit, SeqInvNext, SeqInvCounts, PTL
        DEF Spec

-----------------------------------------------------------------------------
(* Ownership of the buffers *)

HeldPush(b) == \E p \in Pushing : p.buf = b
HeldHeap(b) == \E i \in pendingHeap : i.buf = b
HeldHand(b) == \E r \in Readers : pc[r] = "match" /\ loc[r].ref = b

(* k is where b is, and b is nowhere else.  After Close the pool may hold  *)
(* what is also a channel, so that nothing is said of it.                  *)
Kinds == {"new", "active", "passive", "pool", "pushing", "heap", "hand", "current"}
OwnIs(k, b) ==
  /\ k = "new" <=> b > allocated
  /\ k = "active" <=> active = b
  /\ k = "passive" <=> passive = b
  /\ k = "pushing" <=> HeldPush(b)
  /\ k = "heap" <=> HeldHeap(b)
  /\ k = "hand" <=> HeldHand(b)
  /\ k = "current" <=> currentBuffer = b
  /\ state # ClosedState => pool[b] = IF k = "pool" THEN 1 ELSE 0

(* No two goroutines and no two items of the heap have the same buffer. *)
UniqueInv ==
  /\ \A p \in Pushing : pushers[p] = 1
  /\ \A p, q \in Pushing : p.buf = q.buf => p = q
  /\ \A i, j \in pendingHeap : i.buf = j.buf => i = j

(* A reader looks for a buffer only when there is none. *)
PickInv == \A r \in Readers : pc[r] \in {"pick", "match"} => currentBuffer = None

OwnInv == (\A b \in Bufs : \E k \in Kinds : OwnIs(k, b)) /\ UniqueInv /\ PickInv

(* A step does not touch b. *)
Untouched(b) ==
  /\ b > allocated' <=> b > allocated
  /\ active' = b <=> active = b
  /\ passive' = b <=> passive = b
  /\ HeldPush(b)' <=> HeldPush(b)
  /\ HeldHeap(b)' <=> HeldHeap(b)
  /\ HeldHand(b)' <=> HeldHand(b)
  /\ currentBuffer' = b <=> currentBuffer = b
  /\ state' # ClosedState => state # ClosedState /\ pool'[b] = pool[b]

LEMMA UntouchedStays ==
  ASSUME OwnInv, NEW b \in Bufs, Untouched(b)
  PROVE  \E k \in Kinds : OwnIs(k, b)'
<1>1. PICK k \in Kinds : OwnIs(k, b)
  BY DEF OwnInv
<1>2. OwnIs(k, b)'
  BY <1>1 DEF OwnIs, Untouched
<1> QED BY <1>2

(* The goroutines before their push stay the same. *)
PushingSame ==
  /\ \A p \in DOMAIN pushers' : p.pc \in {"sequence", "push"} => p \in DOMAIN pushers
  /\ \A p \in DOMAIN pushers :
       p.pc \in {"sequence", "push"} => p \in DOMAIN pushers' /\ pushers'[p] = pushers[p]

LEMMA PushingKept ==
  ASSUME PushingSame
  PROVE  Pushing' = Pushing /\ \A p \in Pushing : pushers'[p] = pushers[p]
BY DEF PushingSame, Pushing, BagToSet

LEMMA OwnSame ==
  ASSUME OwnInv, PushingSame, HandSame, PickInv',
         UNCHANGED <<active, passive, allocated, pendingHeap, currentBuffer>>,
         state' # ClosedState => state # ClosedState /\ pool' = pool
  PROVE  OwnInv'
<1>1. Pushing' = Pushing /\ \A p \in Pushing : pushers'[p] = pushers[p]
  BY PushingKept
<1>2. \A b : /\ HeldPush(b)' <=> HeldPush(b)
             /\ HeldHeap(b)' <=> HeldHeap(b)
             /\ HeldHand(b)' <=> HeldHand(b)
  BY <1>1 DEF HeldPush, HeldHeap, HeldHand, HandSame
<1>3. \A b \in Bufs : Untouched(b)
  BY <1>2 DEF Untouched
<1>4. UniqueInv'
  BY <1>1 DEF UniqueInv, OwnInv
<1> QED BY <1>3, <1>4, UntouchedStays DEF OwnInv

(* The switch: passive becomes active, the buffer from the pool passive,   *)
(* and the old active goes to the goroutine.                               *)
LEMMA OwnSwap ==
  ASSUME TypeInv, SwitchInv, OwnInv, NEW t \in Switchers, SwitchSwap(t)
  PROVE  OwnInv'
<1>1. /\ pc[t] = "swap" /\ active' = passive
      /\ pushers' = pushers (+) SetToBag({Pusher("sequence", active, 0, 0)})
      /\ UNCHANGED <<state, pendingHeap, currentBuffer, loc>> /\ OnlyMoves(t)
  <2>1. SwitchStep(t)
    BY DEF SwitchStep
  <2> QED BY <2>1, SwitcherFrame DEF SwitchSwap, At, readVars
<1>2. PICK n \in Gettable : Get(n) /\ passive' = n
  BY DEF SwitchSwap
<1>3. PICK a : a = active
  OBVIOUS
<1>4. PICK p : p = passive
  OBVIOUS
<1>5. /\ n \in Bufs /\ a \in Bufs /\ p \in Bufs /\ allocated \in Bufs /\ pool \in [Bufs -> Nat]
      /\ Bufs \subseteq Nat /\ (n = allocated + 1 \/ pool[n] > 0) /\ IsABag(pushers)
  BY <1>2, <1>3, <1>4, BasicTypes
     DEF TypeInv, ChannelType, BufType, HeapType, Gettable, Pooled
<1>6. state # ClosedState /\ state' # ClosedState
  <2>1. t \in Threads
    BY BasicTypes
  <2>2. ~panicked
    BY <1>1, <2>1 DEF SwitchInv
  <2>3. t \in SwitchersInside
    BY <1>1 DEF SwitchersInside
  <2> QED BY <1>1, <2>2, <2>3 DEF SwitchInv, SwitchExclusive, SwitchingState, ClosedState
<1>7. PICK q : q = Pusher("sequence", a, 0, 0)
  OBVIOUS
<1>8. q.pc = "sequence" /\ q.buf = a
  BY <1>7 DEF Pusher
<1>9. OwnIs("active", a) /\ OwnIs("passive", p)
  BY <1>3, <1>4, <1>5 DEF OwnInv, OwnIs
<1>10. n = allocated + 1 => OwnIs("new", n)
  BY <1>5 DEF OwnInv, OwnIs
<1>11. n # allocated + 1 => OwnIs("pool", n)
  <2>1. PICK k \in Kinds : OwnIs(k, n)
    BY <1>5 DEF OwnInv
  <2>2. n # allocated + 1 => k = "pool"
    BY <1>5, <1>6, <2>1 DEF OwnIs
  <2> QED BY <2>1, <2>2
<1>12. ~HeldPush(a) /\ a # p /\ a # n /\ p # n
  BY <1>9, <1>10, <1>11 DEF OwnIs
<1>13. q \notin Pushing
  BY <1>8, <1>12 DEF HeldPush
<1>14. /\ Pushing' = Pushing \cup {q} /\ pushers'[q] = 1
       /\ \A x \in Pushing : pushers'[x] = pushers[x]
  <2> DEFINE C == pushers (+) SetToBag({q})
  <2>1. q \notin DOMAIN pushers
    BY <1>8, <1>13 DEF Pushing, BagToSet
  <2>2. DOMAIN C = DOMAIN pushers \cup {q} /\ C[q] = 1
        /\ \A x \in DOMAIN pushers : x # q => C[x] = pushers[x]
    BY <1>5, <2>1, BagGets
  <2>3. pushers' = C
    BY <1>1, <1>3, <1>7
  <2> HIDE DEF C
  <2> QED BY <1>8, <1>13, <2>1, <2>2, <2>3 DEF Pushing, BagToSet
<1>15. \A b : /\ HeldPush(b)' <=> HeldPush(b) \/ b = a
              /\ HeldHeap(b)' <=> HeldHeap(b)
  BY <1>1, <1>8, <1>14 DEF HeldPush, HeldHeap
<1>16. \A r \in Readers : pc'[r] = pc[r]
  BY <1>1, ThreadsAssumption, BasicTypes DEF OnlyMoves, Switchers
<1>17. \A b : HeldHand(b)' <=> HeldHand(b)
  BY <1>1, <1>16 DEF HeldHand
<1>18. \A b \in Bufs : /\ b > allocated' <=> b > allocated /\ b # n
                       /\ b # n => pool'[b] = pool[b]
                       /\ b = n => pool'[b] = 0
  BY <1>2, <1>5, <1>6, <1>10, <1>11 DEF Get, OwnIs
<1>19. ASSUME NEW b \in Bufs PROVE \E k \in Kinds : OwnIs(k, b)'
  <2>1. CASE b = a
    <3>1. OwnIs("pushing", b)'
      BY <1>1, <1>2, <1>4, <1>6, <1>9, <1>12, <1>15, <1>17, <1>18, <2>1 DEF OwnIs
    <3> QED BY <3>1 DEF Kinds
  <2>2. CASE b = p
    <3>1. OwnIs("active", b)'
      BY <1>1, <1>2, <1>4, <1>6, <1>9, <1>12, <1>15, <1>17, <1>18, <2>2 DEF OwnIs
    <3> QED BY <3>1 DEF Kinds
  <2>3. CASE b = n
    <3>1. OwnIs("passive", b)'
      BY <1>1, <1>2, <1>4, <1>6, <1>10, <1>11, <1>12, <1>15, <1>17, <1>18, <2>3 DEF OwnIs
    <3> QED BY <3>1 DEF Kinds
  <2>4. CASE b \notin {a, p, n}
    <3>1. Untouched(b)
      BY <1>1, <1>2, <1>3, <1>4, <1>6, <1>15, <1>17, <1>18, <2>4 DEF Untouched
    <3> QED BY <3>1, UntouchedStays
  <2> QED BY <2>1, <2>2, <2>3, <2>4
<1>20. UniqueInv'
  BY <1>1, <1>8, <1>12, <1>14 DEF OwnInv, UniqueInv, HeldPush
<1>21. PickInv'
  BY <1>1, <1>16 DEF OwnInv, PickInv
<1> QED BY <1>19, <1>20, <1>21 DEF OwnInv

(* The goroutine keeps its buffer until it has pushed it. *)
LEMMA OwnPusher ==
  ASSUME TypeInv, OwnInv, PusherStep
  PROVE  OwnInv'
<1>1. PICK p \in DOMAIN pushers :
        TakeSequence(p) \/ PushHeap(p) \/ MeasureBuffer(p) \/ notify(p)
  BY Zenon DEF PusherStep, BagToSet
<1>2. UNCHANGED <<active, passive, allocated, pool, currentBuffer, state, pc, loc>>
  BY <1>1, Zenon DEF TakeSequence, PushHeap, MeasureBuffer, notify, channelVars, bufVars, readVars
<1>3. PickInv' /\ HandSame /\ IsABag(pushers)
  BY <1>2 DEF OwnInv, PickInv, HandSame, TypeInv, HeapType
<1>4. \A b : HeldHand(b)' <=> HeldHand(b)
  BY <1>2 DEF HeldHand
<1>5. ASSUME PushingSame, UNCHANGED pendingHeap PROVE OwnInv'
  BY <1>2, <1>3, <1>5, OwnSame
<1>6. CASE TakeSequence(p)
  <2>1. PICK q : q = Pusher("push", p.buf, sequence + 1, 0)
    OBVIOUS
  <2>2. UNCHANGED pendingHeap /\ p.pc = "sequence" /\ Become(p, q)
    BY <1>6, <2>1 DEF TakeSequence, Runs
  <2>3. q.pc = "push" /\ q.buf = p.buf /\ q # p
    BY <2>1, <2>2 DEF Pusher
  <2>4. p \in Pushing /\ pushers[p] = 1
    BY <2>2 DEF Pushing, BagToSet, OwnInv, UniqueInv
  <2>5. q \notin DOMAIN pushers
    BY <2>3, <2>4 DEF Pushing, BagToSet, OwnInv, UniqueInv
  <2>6. /\ Pushing' = (Pushing \ {p}) \cup {q} /\ pushers'[q] = 1
        /\ \A x \in Pushing : x # p => pushers'[x] = pushers[x]
    <3>1. /\ \A x \in DOMAIN pushers : x \notin {p, q} =>
              x \in DOMAIN pushers' /\ pushers'[x] = pushers[x]
          /\ \A x \in DOMAIN pushers' : x = q \/ x \in DOMAIN pushers
          /\ q \in DOMAIN pushers' /\ pushers'[q] = 1 /\ p \notin DOMAIN pushers'
      BY <2>2, <2>3, <2>4, <2>5, BecomeFacts
    <3> QED BY <2>3, <2>5, <3>1 DEF Pushing, BagToSet
  <2>7. \A b : /\ HeldPush(b)' <=> HeldPush(b)
               /\ HeldHeap(b)' <=> HeldHeap(b)
    BY <2>2, <2>3, <2>4, <2>6 DEF HeldPush, HeldHeap
  <2>8. \A b \in Bufs : Untouched(b)
    BY <1>2, <1>4, <2>7 DEF Untouched
  <2>9. UniqueInv'
    BY <2>2, <2>3, <2>4, <2>6 DEF UniqueInv, OwnInv
  <2> QED BY <1>3, <2>8, <2>9, UntouchedStays DEF OwnInv
<1>7. CASE PushHeap(p)
  <2>1. PICK q : q = Pusher("len", p.buf, 0, 0)
    OBVIOUS
  <2>2. PICK i : i = [seq |-> p.seq, buf |-> p.buf]
    OBVIOUS
  <2>3. p.pc = "push" /\ Become(p, q) /\ pendingHeap' = pendingHeap \cup {i}
    BY <1>7, <2>1, <2>2 DEF PushHeap, Runs
  <2>4. q.pc = "len" /\ q # p /\ i.buf = p.buf
    BY <2>1, <2>2, <2>3 DEF Pusher
  <2>5. p \in Pushing /\ pushers[p] = 1
    BY <2>3 DEF Pushing, BagToSet, OwnInv, UniqueInv
  <2>6. Pushing' = Pushing \ {p} /\ \A x \in Pushing : x # p => pushers'[x] = pushers[x]
    <3>1. /\ \A x \in DOMAIN pushers : x \notin {p, q} =>
              x \in DOMAIN pushers' /\ pushers'[x] = pushers[x]
          /\ \A x \in DOMAIN pushers' : x = q \/ x \in DOMAIN pushers
          /\ p \notin DOMAIN pushers'
      BY <2>3, <2>4, <2>5, BecomeFacts
    <3> QED BY <2>4, <3>1 DEF Pushing, BagToSet
  <2>7. p.buf \in Bufs
    BY <2>3 DEF TypeInv, HeapType, PusherOK
  <2>8. OwnIs("pushing", p.buf)
    BY <2>5, <2>7 DEF OwnInv, OwnIs, HeldPush
  <2>9. \A b : /\ HeldPush(b)' <=> HeldPush(b) /\ b # p.buf
               /\ HeldHeap(b)' <=> HeldHeap(b) \/ b = p.buf
    <3>1. \A x \in Pushing : x.buf = p.buf => x = p
      BY <2>5 DEF OwnInv, UniqueInv
    <3> QED BY <2>3, <2>4, <2>5, <2>6, <3>1 DEF HeldPush, HeldHeap
  <2>10. ASSUME NEW b \in Bufs PROVE \E k \in Kinds : OwnIs(k, b)'
    <3>1. CASE b = p.buf
      <4>1. OwnIs("heap", b)'
        BY <1>2, <1>4, <2>8, <2>9, <3>1 DEF OwnIs
      <4> QED BY <4>1 DEF Kinds
    <3>2. CASE b # p.buf
      <4>1. Untouched(b)
        BY <1>2, <1>4, <2>9, <3>2 DEF Untouched
      <4> QED BY <4>1, UntouchedStays
    <3> QED BY <3>1, <3>2
  <2>11. UniqueInv'
    <3>1. \A j \in pendingHeap : j.buf # p.buf
      BY <2>8 DEF OwnIs, HeldHeap
    <3> QED BY <2>3, <2>4, <2>6, <3>1 DEF UniqueInv, OwnInv
  <2> QED BY <1>3, <2>10, <2>11 DEF OwnInv
<1>8. CASE MeasureBuffer(p)
  <2>1. PICK q : q = Pusher("notify", None, 0, buf[p.buf].count)
    OBVIOUS
  <2>2. UNCHANGED pendingHeap /\ p.pc = "len" /\ Become(p, q)
    BY <1>8, <2>1 DEF MeasureBuffer, Runs
  <2>3. q.pc = "notify" /\ q # p
    BY <2>1, <2>2 DEF Pusher
  <2>4. PushingSame
    BY <2>2, <2>3, BecomeFacts DEF PushingSame
  <2> QED BY <1>5, <2>2, <2>4
<1>9. CASE notify(p)
  <2>1. UNCHANGED pendingHeap /\ p.pc = "notify" /\ pushers' = pushers (-) SetToBag({p})
    BY <1>9 DEF notify, Runs
  <2>2. PushingSame
    <3>1. /\ DOMAIN pushers' \subseteq DOMAIN pushers /\ DOMAIN pushers \ {p} \subseteq DOMAIN pushers'
          /\ \A x \in DOMAIN pushers : x # p => pushers'[x] = pushers[x]
      BY <1>3, <2>1, BagLoses
    <3>2. \A x \in DOMAIN pushers : x.pc # "notify" => x # p
      BY <2>1
    <3> QED BY <3>1, <3>2 DEF PushingSame
  <2> QED BY <1>5, <2>1, <2>2
<1> QED BY <1>1, <1>6, <1>7, <1>8, <1>9

(* The single reader takes a buffer from the heap, makes it the current    *)
(* one or puts it back, and recycles the one it has exhausted.             *)
LEMMA OwnReader ==
  ASSUME \A r, s \in Readers : r = s,
         TypeInv, NilOnlyInDrain, OwnInv, NEW r \in Readers, ReaderAction(r)
  PROVE  OwnInv'
<1>1. /\ pc \in [Threads -> Labels] /\ loc \in [Threads -> Locals] /\ r \in Threads
      /\ \A q \in Readers : q = r
      /\ pc[r] = "match" => loc[r].ref \in Bufs
      /\ \A i \in pendingHeap : i.buf \in Bufs
      /\ None \notin Bufs /\ pool \in [Bufs -> Nat] /\ currentBuffer \in BufOrNone
  BY ReaderHas, ThreadsAssumption DEF TypeInv, ThreadType, HeapType, BufType, ReadType
<1>2. UNCHANGED <<active, passive, allocated, state, pushers>>
  BY NilReader, ReaderFrame DEF channelVars
<1>3. Pushing' = Pushing /\ PushingSame /\ \A b : HeldPush(b)' <=> HeldPush(b)
  BY <1>2 DEF Pushing, BagToSet, PushingSame, HeldPush
<1>4. \A b : HeldHand(b) <=> pc[r] = "match" /\ loc[r].ref = b
  BY <1>1 DEF HeldHand
<1>5. \A b : HeldHand(b)' <=> pc'[r] = "match" /\ loc'[r].ref = b
  BY <1>1 DEF HeldHand
<1>6. PickInv' <=> (pc'[r] \in {"pick", "match"} => currentBuffer' = None)
  BY <1>1 DEF PickInv
<1>7. pc[r] \in {"pick", "match"} => currentBuffer = None
  BY DEF OwnInv, PickInv
<1>8. ASSUME UNCHANGED <<pendingHeap, pool, currentBuffer>>, pc[r] # "match",
             pc'[r] # "match", pc'[r] = "pick" => currentBuffer = None
      PROVE  OwnInv'
  <2>1. HandSame
    BY <1>1, <1>8 DEF HandSame
  <2> QED BY <1>2, <1>3, <1>6, <1>8, <2>1, OwnSame
<1>9. CASE PickFromHeap(r) /\ pendingHeap # {}
  <2>1. PICK i \in pendingHeap :
          /\ pendingHeap' = pendingHeap \ {i}
          /\ loc' = [loc EXCEPT ![r].ref = i.buf, ![r].seq = i.seq]
          /\ pc' = [pc EXCEPT ![r] = "match"]
    BY <1>9 DEF PickFromHeap, Goto
  <2>2. UNCHANGED <<pool, currentBuffer>> /\ pc[r] = "pick"
    BY <1>9 DEF PickFromHeap, At, bufVars, readVars
  <2>3. pc'[r] = "match" /\ loc'[r].ref = i.buf
    BY <1>1, <2>1 DEF Locals
  <2>4. i.buf \in Bufs /\ \A j \in pendingHeap : j.buf = i.buf => j = i
    BY <1>1 DEF OwnInv, UniqueInv
  <2>5. \A b : /\ HeldHeap(b)' <=> HeldHeap(b) /\ b # i.buf
               /\ HeldHand(b)' <=> b = i.buf
               /\ ~HeldHand(b)
    BY <1>4, <1>5, <2>1, <2>2, <2>3, <2>4 DEF HeldHeap
  <2>6. OwnIs("heap", i.buf)
    BY <2>4 DEF OwnInv, OwnIs, HeldHeap
  <2>7. ASSUME NEW b \in Bufs PROVE \E k \in Kinds : OwnIs(k, b)'
    <3>1. CASE b = i.buf
      <4>1. OwnIs("hand", b)'
        BY <1>2, <1>3, <2>2, <2>5, <2>6, <3>1 DEF OwnIs
      <4> QED BY <4>1 DEF Kinds
    <3>2. CASE b # i.buf
      <4>1. Untouched(b)
        BY <1>2, <1>3, <2>2, <2>5, <3>2 DEF Untouched
      <4> QED BY <4>1, UntouchedStays
    <3> QED BY <3>1, <3>2
  <2>8. UniqueInv'
    <3>1. \A j, k \in pendingHeap' : j.buf = k.buf => j = k
      BY <2>1 DEF OwnInv, UniqueInv
    <3> QED BY <1>2, <1>3, <3>1 DEF OwnInv, UniqueInv
  <2>9. PickInv'
    BY <1>6, <1>7, <2>2
  <2> QED BY <2>7, <2>8, <2>9 DEF OwnInv
<1>10. CASE MatchSequence(r)
  <2>1. PICK c \in Bufs : c = loc[r].ref
    BY <1>1, <1>10 DEF MatchSequence, At
  <2>2. pc[r] = "match" /\ UNCHANGED pool /\ currentBuffer = None
    BY <1>7, <1>10 DEF MatchSequence, At, bufVars
  <2>3. pc'[r] # "match"
    BY <1>1, <1>10 DEF MatchSequence, Goto, ReadFailed
  <2>4. \A b : (HeldHand(b) <=> b = c) /\ ~HeldHand(b)'
    BY <1>4, <1>5, <2>1, <2>2, <2>3
  <2>5. OwnIs("hand", c)
    BY <2>4 DEF OwnInv, OwnIs
  <2>6. CASE loc[r].seq = currentSequence
    <3>1. currentBuffer' = c /\ UNCHANGED pendingHeap /\ pc'[r] = "popCount"
      BY <1>1, <1>10, <2>1, <2>6 DEF MatchSequence, Goto
    <3>2. \A b : HeldHeap(b)' <=> HeldHeap(b)
      BY <3>1 DEF HeldHeap
    <3>3. ASSUME NEW b \in Bufs PROVE \E k \in Kinds : OwnIs(k, b)'
      <4>1. CASE b = c
        <5>1. OwnIs("current", b)'
          BY <1>2, <1>3, <2>2, <2>4, <2>5, <3>1, <3>2, <4>1 DEF OwnIs
        <5> QED BY <5>1 DEF Kinds
      <4>2. CASE b # c
        <5>1. Untouched(b)
          BY <1>1, <1>2, <1>3, <2>2, <2>4, <3>1, <3>2, <4>2 DEF Untouched
        <5> QED BY <5>1, UntouchedStays
      <4> QED BY <4>1, <4>2
    <3>4. UniqueInv' /\ PickInv'
      BY <1>2, <1>3, <1>6, <3>1 DEF OwnInv, UniqueInv
    <3> QED BY <3>3, <3>4 DEF OwnInv
  <2>7. CASE loc[r].seq # currentSequence
    <3>1. PICK i : i = [seq |-> loc[r].seq, buf |-> c]
      OBVIOUS
    <3>2. pendingHeap' = pendingHeap \cup {i} /\ UNCHANGED currentBuffer /\ i.buf = c
      BY <1>10, <2>1, <2>7, <3>1 DEF MatchSequence
    <3>3. \A b : HeldHeap(b)' <=> HeldHeap(b) \/ b = c
      BY <3>2 DEF HeldHeap
    <3>4. ASSUME NEW b \in Bufs PROVE \E k \in Kinds : OwnIs(k, b)'
      <4>1. CASE b = c
        <5>1. OwnIs("heap", b)'
          BY <1>2, <1>3, <2>2, <2>4, <2>5, <3>2, <3>3, <4>1 DEF OwnIs
        <5> QED BY <5>1 DEF Kinds
      <4>2. CASE b # c
        <5>1. Untouched(b)
          BY <1>2, <1>3, <2>2, <2>4, <3>2, <3>3, <4>2 DEF Untouched
        <5> QED BY <5>1, UntouchedStays
      <4> QED BY <4>1, <4>2
    <3>5. UniqueInv'
      <4>1. \A j \in pendingHeap : j.buf # c
        BY <2>5 DEF OwnIs, HeldHeap
      <4> QED BY <1>2, <1>3, <3>2, <4>1 DEF OwnInv, UniqueInv
    <3>6. PickInv'
      BY <1>6, <2>2, <3>2
    <3> QED BY <3>4, <3>5, <3>6 DEF OwnInv
  <2> QED BY <2>6, <2>7
<1>11. CASE RecycleUseless(r) /\ currentBuffer # None
  <2>1. PICK c \in Bufs : c = currentBuffer
    BY <1>1, <1>11 DEF BufOrNone
  <2>2. /\ pc[r] = "reset" /\ currentBuffer' = None /\ UNCHANGED pendingHeap
        /\ pool' = [pool EXCEPT ![c] = pool[c] + 1] /\ pc'[r] = "pick"
    BY <1>1, <1>11, <2>1 DEF RecycleUseless, At, Goto, Put, heapVars
  <2>3. \A b : /\ HeldHeap(b)' <=> HeldHeap(b)
               /\ ~HeldHand(b) /\ ~HeldHand(b)'
    BY <1>4, <1>5, <2>2 DEF HeldHeap
  <2>4. OwnIs("current", c)
    BY <2>1 DEF OwnInv, OwnIs
  <2>5. ASSUME NEW b \in Bufs PROVE \E k \in Kinds : OwnIs(k, b)'
    <3>1. CASE b = c
      <4>1. OwnIs("pool", b)'
        BY <1>1, <1>2, <1>3, <2>2, <2>3, <2>4, <3>1 DEF OwnIs
      <4> QED BY <4>1 DEF Kinds
    <3>2. CASE b # c
      <4>1. Untouched(b)
        BY <1>1, <1>2, <1>3, <2>1, <2>2, <2>3, <3>2 DEF Untouched
      <4> QED BY <4>1, UntouchedStays
    <3> QED BY <3>1, <3>2
  <2>6. UniqueInv' /\ PickInv'
    BY <1>2, <1>3, <1>6, <2>2 DEF OwnInv, UniqueInv
  <2> QED BY <2>5, <2>6 DEF OwnInv
<1>12. CASE PickFromHeap(r) /\ pendingHeap = {}
  BY <1>1, <1>8, <1>12 DEF PickFromHeap, ReadFailed, Goto, At, bufVars, readVars
<1>13. CASE RecycleUseless(r) /\ currentBuffer = None
  BY <1>1, <1>8, <1>13 DEF RecycleUseless, Goto, At, heapVars
<1>14. CASE PopCount(r)
  BY <1>1, <1>8, <1>14, NilReader DEF PopCount, ReadFailed, Goto, At, heapVars, bufVars, readVars
<1>15. CASE BlockingRead(r) \/ PopRead(r) \/ PopClear(r)
  BY <1>1, <1>8, <1>15 DEF BlockingRead, PopRead, PopClear, tryRead, ReadFailed, Goto, At,
     heapVars, bufVars, readVars
<1>16. CASE register(r) \/ WokenByToken(r) \/ StopSeen(r) \/ unregister(r) \/ ContextDone(r)
  BY <1>1, <1>8, <1>16 DEF register, WokenByToken, StopSeen, unregister, ContextDone,
     tryRead, Return, Goto, At, heapVars, bufVars, readVars
<1> QED BY <1>9, <1>10, <1>11, <1>12, <1>13, <1>14, <1>15, <1>16 DEF ReaderAction, ReaderStep

(* Close puts the channels in the pool as well, when nobody takes from it  *)
(* any more; the drain takes the heap apart.                               *)
LEMMA OwnCloser ==
  ASSUME TypeInv, CloserInv, OwnInv, NEW c \in Closers, Close(c) \/ CloserStep(c)
  PROVE  OwnInv'
<1>1. /\ pc \in [Threads -> Labels] /\ c \in Threads
      /\ Readers \subseteq Threads /\ c \notin Readers
  BY CloserHas, BasicTypes, ThreadsAssumption DEF TypeInv, ThreadType
<1>2. UNCHANGED <<active, passive, allocated, pushers, currentBuffer, loc>>
  BY Zenon DEF Close, CloserStep, CloseStop, ClosePut, CloseWait, DrainLen, DrainPick,
     channelVars, bufVars, heapVars, readVars
<1>3. Pushing' = Pushing /\ PushingSame /\ \A b : HeldPush(b)' <=> HeldPush(b)
  BY <1>2 DEF Pushing, BagToSet, PushingSame, HeldPush
<1>4. ASSUME UNCHANGED pendingHeap, \A r \in Readers : pc'[r] = pc[r],
             state' # ClosedState => state # ClosedState /\ pool' = pool
      PROVE  OwnInv'
  <2>1. HandSame /\ PickInv'
    BY <1>2, <1>4 DEF HandSame, OwnInv, PickInv
  <2> QED BY <1>2, <1>3, <1>4, <2>1, OwnSame
<1>5. CASE Close(c)
  BY <1>1, <1>4, <1>5 DEF Close, Goto, heapVars, bufVars
<1>6. CASE CloserStep(c)
  <2>1. state = ClosedState /\ state' = ClosedState
    <3>1. pc[c] \in {"stop", "put", "wait", "drain", "drainPick"}
      BY <1>6 DEF CloserStep, CloseStop, ClosePut, CloseWait, DrainLen, DrainPick, At
    <3>2. UNCHANGED state
      BY <1>6, Zenon DEF CloserStep, CloseStop, ClosePut, CloseWait, DrainLen, DrainPick,
         channelVars
    <3> QED BY <3>1, <3>2 DEF CloserInv
  <2>2. CASE CloseStop(c) \/ ClosePut(c) \/ CloseWait(c) \/ DrainLen(c)
    <3>1. UNCHANGED pendingHeap
      BY <2>2, Zenon DEF CloseStop, ClosePut, CloseWait, DrainLen, heapVars
    <3>2. \A r \in Readers : pc'[r] = pc[r]
      BY <1>1, <2>2 DEF CloseStop, ClosePut, CloseWait, DrainLen, Goto
    <3> QED BY <1>4, <2>1, <3>1, <3>2
  <2>3. CASE DrainPick(c) /\ pendingHeap = {}
    <3>1. UNCHANGED pendingHeap /\ \A r \in Readers : pc'[r] = "dead"
      BY <1>1, <2>3 DEF DrainPick, Panic
    <3>2. \A b : (HeldHeap(b)' <=> HeldHeap(b)) /\ ~HeldHand(b)'
      BY <3>1 DEF HeldHeap, HeldHand
    <3>3. ASSUME NEW b \in Bufs PROVE \E k \in Kinds : OwnIs(k, b)'
      <4>1. CASE HeldHand(b)
        <5>1. OwnIs("hand", b)
          BY <4>1 DEF OwnInv, OwnIs
        <5>2. OwnIs("pool", b)'
          BY <1>2, <1>3, <2>1, <3>2, <5>1 DEF OwnIs
        <5> QED BY <5>2 DEF Kinds
      <4>2. CASE ~HeldHand(b)
        <5>1. Untouched(b)
          BY <1>2, <1>3, <2>1, <3>2, <4>2 DEF Untouched
        <5> QED BY <5>1, UntouchedStays
      <4> QED BY <4>1, <4>2
    <3>4. UniqueInv' /\ PickInv'
      BY <1>2, <1>3, <3>1 DEF OwnInv, UniqueInv, PickInv
    <3> QED BY <3>3, <3>4 DEF OwnInv
  <2>4. CASE DrainPick(c) /\ pendingHeap # {}
    <3>1. PICK i \in pendingHeap : pendingHeap' = pendingHeap \ {i}
      BY <2>4 DEF DrainPick
    <3>2. \A r \in Readers : pc'[r] = pc[r]
      BY <1>1, <2>4 DEF DrainPick, Goto
    <3>3. i.buf \in Bufs /\ \A j \in pendingHeap : j.buf = i.buf => j = i
      BY DEF TypeInv, HeapType, OwnInv, UniqueInv
    <3>4. \A b : /\ HeldHeap(b)' <=> HeldHeap(b) /\ b # i.buf
                 /\ HeldHand(b)' <=> HeldHand(b)
      BY <1>2, <3>1, <3>2, <3>3 DEF HeldHeap, HeldHand
    <3>5. OwnIs("heap", i.buf)
      BY <3>3 DEF OwnInv, OwnIs, HeldHeap
    <3>6. ASSUME NEW b \in Bufs PROVE \E k \in Kinds : OwnIs(k, b)'
      <4>1. CASE b = i.buf
        <5>1. OwnIs("pool", b)'
          BY <1>2, <1>3, <2>1, <3>4, <3>5, <4>1 DEF OwnIs
        <5> QED BY <5>1 DEF Kinds
      <4>2. CASE b # i.buf
        <5>1. Untouched(b)
          BY <1>2, <1>3, <2>1, <3>4, <4>2 DEF Untouched
        <5> QED BY <5>1, UntouchedStays
      <4> QED BY <4>1, <4>2
    <3>7. UniqueInv' /\ PickInv'
      BY <1>2, <1>3, <3>1, <3>2 DEF OwnInv, UniqueInv, PickInv
    <3> QED BY <3>6, <3>7 DEF OwnInv
  <2> QED BY <1>6, <2>2, <2>3, <2>4 DEF CloserStep
<1> QED BY <1>5, <1>6

LEMMA OwnInvNext ==
  ASSUME \A r, s \in Readers : r = s
  PROVE  TypeInv /\ SwitchInv /\ CloserInv /\ NilOnlyInDrain /\ OwnInv /\ [Next]_vars => OwnInv'
<1> SUFFICES ASSUME TypeInv, SwitchInv, CloserInv, NilOnlyInDrain, OwnInv, [Next]_vars
             PROVE  OwnInv'
  OBVIOUS
<1>1. Readers \subseteq Threads /\ \A r \in Readers : r \notin Writers /\ r # Monitor
  BY BasicTypes, ThreadsAssumption
<1>2. ASSUME UNCHANGED <<active, passive, allocated, pool, pendingHeap, pushers, currentBuffer>>,
             state' # ClosedState => state # ClosedState,
             \A r \in Readers : pc'[r] = pc[r] /\ loc'[r] = loc[r]
      PROVE  OwnInv'
  <2>1. HandSame /\ PickInv' /\ PushingSame
    BY <1>2 DEF HandSame, OwnInv, PickInv, PushingSame
  <2> QED BY <1>2, <2>1, OwnSame
<1>3. CASE \E w \in Writers : WriterStep(w)
  <2>1. PICK w \in Writers : WriterStep(w)
    BY <1>3
  <2>2. UNCHANGED <<channelVars, pool, allocated, heapVars, readVars>> /\ OnlyMoves(w)
    BY <2>1, WriterFrame
  <2> QED BY <1>1, <1>2, <2>2 DEF channelVars, heapVars, readVars, OnlyMoves
<1>4. ASSUME NEW t \in Switchers, SwitchStep(t) PROVE OwnInv'
  <2>1. CASE SwitchSwap(t)
    BY <2>1, OwnSwap
  <2>2. CASE ~SwitchSwap(t)
    <3>1. UNCHANGED <<active, passive, pool, allocated, heapVars, readVars>>
      BY <1>4, <2>2, Zenon DEF SwitchStep, SwitchCas, SwitchSeal, SwitchOpen, channelVars, bufVars
    <3>2. OnlyMoves(t) /\ t \notin Readers
      BY <1>1, <1>4, SwitcherFrame DEF Switchers
    <3>3. state' # ClosedState => state # ClosedState
      BY <1>4, ClosedStep DEF Next
    <3> QED BY <1>1, <1>2, <3>1, <3>2, <3>3 DEF heapVars, readVars, OnlyMoves
  <2> QED BY <2>1, <2>2
<1>5. CASE PusherStep
  BY <1>5, OwnPusher
<1>6. CASE RegisterReadMode \/ \E g \in Workers : WorkerExit(g)
  <2>1. UNCHANGED <<channelVars, bufVars, heapVars, currentBuffer, pc, loc>>
    BY <1>6, Zenon DEF RegisterReadMode, WorkerExit, readVars
  <2> QED BY <1>2, <2>1 DEF channelVars, bufVars, heapVars
<1>7. CASE \E r \in Readers : ReaderAction(r)
  BY <1>7, OwnReader
<1>8. CASE \E c \in Closers : Close(c) \/ CloserStep(c)
  BY <1>8, OwnCloser
<1>9. CASE UNCHANGED vars
  BY <1>2, <1>9 DEF vars, channelVars, bufVars, heapVars, readVars
<1> QED BY <1>3, <1>4, <1>5, <1>6, <1>7, <1>8, <1>9 DEF Next, ReaderAction

LEMMA OwnInvInit == Init => OwnInv
<1> SUFFICES ASSUME Init PROVE OwnInv
  OBVIOUS
<1>1. /\ active = 1 /\ passive = 2 /\ allocated = 2 /\ currentBuffer = None
      /\ pendingHeap = {} /\ Pushing = {} /\ \A b \in Bufs : pool[b] = 0
      /\ \A r \in Readers : pc[r] = "idle"
  BY BasicTypes DEF Init, EmptyBag, SetToBag, Pushing, BagToSet
<1>2. \A b : ~HeldPush(b) /\ ~HeldHeap(b) /\ ~HeldHand(b)
  BY <1>1 DEF HeldPush, HeldHeap, HeldHand
<1>3. ASSUME NEW b \in Bufs PROVE \E k \in Kinds : OwnIs(k, b)
  <2>1. b \in Nat /\ b # 0 /\ b # None
    BY BasicTypes, BoundsAssumption, ThreadsAssumption DEF Bufs
  <2>2. CASE b = 1
    BY <1>1, <1>2, <2>1, <2>2 DEF OwnIs, Kinds
  <2>3. CASE b = 2
    BY <1>1, <1>2, <2>1, <2>3 DEF OwnIs, Kinds
  <2>4. CASE b > 2
    BY <1>1, <1>2, <2>1, <2>4 DEF OwnIs, Kinds
  <2> QED BY <2>1, <2>2, <2>3, <2>4
<1>4. UniqueInv /\ PickInv
  BY <1>1 DEF UniqueInv, PickInv
<1> QED BY <1>3, <1>4 DEF OwnInv

(* The place of each buffer counts its owners. *)
LEMMA OwnInvCounts ==
  ASSUME \A r, s \in Readers : r = s
  PROVE  TypeInv /\ OwnInv => SingleOwner
<1> SUFFICES ASSUME TypeInv, OwnInv, state # ClosedState, NEW b \in 1 .. allocated
             PROVE  Cardinality(Places(b)) = 1
  BY DEF SingleOwner
<1>1. b \in Bufs /\ ~(b > allocated)
  BY BoundsAssumption DEF TypeInv, BufType, Bufs
<1>2. PICK k \in Kinds : OwnIs(k, b)
  BY <1>1 DEF OwnInv
<1> DEFINE A == {<<"active">> : x \in {active} \cap {b}}
           S == {<<"passive">> : x \in {passive} \cap {b}}
           C == {<<"currentBuffer">> : x \in {currentBuffer} \cap {b}}
           L == {<<"pool", n>> : n \in 1 .. pool[b]}
           P == {p \in Pushing : p.buf = b}
           H == {i \in pendingHeap : i.buf = b}
           R == {r \in Readers : pc[r] = "match" /\ loc[r].ref = b}
           SH == {<<"pendingHeap", i>> : i \in H}
           SR == {<<"reader", r>> : r \in R}
<1>3. Places(b) = A \cup S \cup C \cup L \cup Goroutines(P) \cup SH \cup SR
  BY DEF Places
<1>4. /\ A = IF active = b THEN {<<"active">>} ELSE {}
      /\ S = IF passive = b THEN {<<"passive">>} ELSE {}
      /\ C = IF currentBuffer = b THEN {<<"currentBuffer">>} ELSE {}
  OBVIOUS
<1>5. L = IF k = "pool" THEN {<<"pool", 1>>} ELSE {}
  <2>1. pool[b] = IF k = "pool" THEN 1 ELSE 0
    BY <1>2 DEF OwnIs
  <2>2. 1 .. 1 = {1} /\ 1 .. 0 = {}
    OBVIOUS
  <2>3. CASE k = "pool"
    BY <2>1, <2>2, <2>3
  <2>4. CASE k # "pool"
    BY <2>1, <2>2, <2>4
  <2> QED BY <2>3, <2>4
<1>6. /\ P # {} <=> HeldPush(b)
      /\ H # {} <=> HeldHeap(b)
      /\ R # {} <=> HeldHand(b)
  BY DEF HeldPush, HeldHeap, HeldHand
<1>7. /\ \A p \in P : pushers[p] = 1 /\ P = {p}
      /\ \A i \in H : H = {i}
      /\ \A r \in R : R = {r}
  BY DEF OwnInv, UniqueInv
<1> HIDE DEF P, H, R
<1>8. /\ H = {} => SH = {}
      /\ \A i : H = {i} => SH = {<<"pendingHeap", i>>}
      /\ R = {} => SR = {}
      /\ \A r : R = {r} => SR = {<<"reader", r>>}
  OBVIOUS
<1> HIDE DEF A, S, C, L, SH, SR
<1>9. /\ k # "new"
      /\ k = "active" <=> active = b
      /\ k = "passive" <=> passive = b
      /\ k = "current" <=> currentBuffer = b
      /\ k = "pushing" <=> P # {}
      /\ k = "heap" <=> H # {}
      /\ k = "hand" <=> R # {}
  BY <1>1, <1>2, <1>6 DEF OwnIs
<1>10. \E e : Places(b) = {e}
  <2>1. CASE k \in {"active", "passive", "current", "pool"}
    <3>1. Goroutines(P) = {} /\ SH = {} /\ SR = {}
      BY <1>8, <1>9, <2>1, GoroutinesOf
    <3>2. CASE k = "active"
      <4>1. Places(b) = {<<"active">>}
        BY <1>3, <1>4, <1>5, <1>9, <3>1, <3>2
      <4> QED BY <4>1
    <3>3. CASE k = "passive"
      <4>1. Places(b) = {<<"passive">>}
        BY <1>3, <1>4, <1>5, <1>9, <3>1, <3>3
      <4> QED BY <4>1
    <3>4. CASE k = "current"
      <4>1. Places(b) = {<<"currentBuffer">>}
        BY <1>3, <1>4, <1>5, <1>9, <3>1, <3>4
      <4> QED BY <4>1
    <3>5. CASE k = "pool"
      <4>1. Places(b) = {<<"pool", 1>>}
        BY <1>3, <1>4, <1>5, <1>9, <3>1, <3>5
      <4> QED BY <4>1
    <3> QED BY <2>1, <3>2, <3>3, <3>4, <3>5
  <2>2. CASE k \in {"pushing", "heap", "hand"}
    <3>1. Places(b) = Goroutines(P) \cup SH \cup SR
      BY <1>3, <1>4, <1>5, <1>9, <2>2
    <3>2. CASE k = "pushing"
      <4>1. PICK p \in P : pushers[p] = 1 /\ P = {p}
        BY <1>7, <1>9, <3>2
      <4>2. Places(b) = {<<"goroutine", p, 1>>}
        BY <1>8, <1>9, <3>1, <3>2, <4>1, GoroutinesOf
      <4> QED BY <4>2
    <3>3. CASE k = "heap"
      <4>1. PICK i \in H : H = {i}
        BY <1>7, <1>9, <3>3
      <4>2. Places(b) = {<<"pendingHeap", i>>}
        BY <1>8, <1>9, <3>1, <3>3, <4>1, GoroutinesOf
      <4> QED BY <4>2
    <3>4. CASE k = "hand"
      <4>1. PICK r \in R : R = {r}
        BY <1>7, <1>9, <3>4
      <4>2. Places(b) = {<<"reader", r>>}
        BY <1>8, <1>9, <3>1, <3>4, <4>1, GoroutinesOf
      <4> QED BY <4>2
    <3> QED BY <2>2, <3>2, <3>3, <3>4
  <2> QED BY <1>2, <1>9, <2>1, <2>2 DEF Kinds
<1> QED BY <1>10, FS_Singleton

(* With one reader every buffer ever made is in exactly one place until    *)
(* Close, through any number of switches, pushes, recyclings and reuses of *)
(* the pool.                                                               *)
THEOREM EveryBufferHasOneOwner ==
  ASSUME \A r, s \in Readers : r = s
  PROVE  Spec => []SingleOwner
<1>1. TypeInv /\ CloserInv /\ NilOnlyInDrain /\ [Next]_vars => NilOnlyInDrain'
  BY NilNext
<1>2. TypeInv /\ SwitchInv /\ CloserInv /\ NilOnlyInDrain /\ OwnInv /\ [Next]_vars => OwnInv'
  BY OwnInvNext
<1>3. TypeInv /\ OwnInv => SingleOwner
  BY OwnInvCounts
<1> QED BY <1>1, <1>2, <1>3, TypeInvInit, TypeInvNext, SwitchInvInit, SwitchInvNext,
           CloserInvInit, CloserInvNext, NilInit, OwnInvInit, PTL
        DEF Spec

-----------------------------------------------------------------------------
(* The seal of a rotated buffer *)

(* What is rotated is sealed, and so is what a switch is about to rotate.  *)
SealInv ==
  /\ SealedUntilReset
  /\ \A t \in Switchers : pc[t] = "swap" => buf[active].state = ReadOnly

LEMMA RotatedIs ==
  \A b : b \in Rotated <=> \/ HeldPush(b) \/ HeldHeap(b) \/ HeldHand(b)
                           \/ currentBuffer = b /\ b # None
BY DEF Rotated, HeldPush, HeldHeap, HeldHand

LEMMA RotatedAre ==
  ASSUME TypeInv
  PROVE  Rotated \subseteq Bufs
<1>1. \A p \in Pushing : p.buf \in Bufs
  BY DEF Pushing, BagToSet, TypeInv, HeapType, PusherOK
<1>2. \A i \in pendingHeap : i.buf \in Bufs
  BY DEF TypeInv, HeapType
<1>3. \A r \in Readers : pc[r] = "match" => loc[r].ref \in Bufs
  BY ReaderHas
<1>4. currentBuffer \in Bufs \cup {None}
  BY DEF TypeInv, ReadType, BufOrNone
<1> QED BY <1>1, <1>2, <1>3, <1>4 DEF Rotated

LEMMA SealSame ==
  ASSUME TypeInv, SealInv, StaysSealed, UNCHANGED active, Rotated' \subseteq Rotated,
         \A t \in Switchers : pc'[t] = "swap" => pc[t] = "swap"
  PROVE  SealInv'
<1>1. \A b \in Rotated : b \in Bufs /\ buf[b].state = ReadOnly
  BY RotatedAre DEF SealInv, SealedUntilReset
<1>2. active \in Bufs
  BY DEF TypeInv, ChannelType
<1> QED BY <1>1, <1>2 DEF SealInv, SealedUntilReset, StaysSealed

LEMMA SealSwitcher ==
  ASSUME TypeInv, SwitchInv, SealInv, NEW t \in Switchers, SwitchStep(t)
  PROVE  SealInv'
<1>1. UNCHANGED <<pendingHeap, currentBuffer, loc>> /\ OnlyMoves(t)
  BY SwitcherFrame DEF readVars
<1>2. /\ pc \in [Threads -> Labels] /\ t \in Threads /\ Switchers \subseteq Threads
      /\ buf \in [Bufs -> Rings] /\ active \in Bufs /\ IsABag(pushers)
  BY BasicTypes DEF TypeInv, ThreadType, BufType, ChannelType, HeapType
<1>3. \A r \in Readers : pc'[r] = pc[r]
  BY <1>1, ThreadsAssumption, BasicTypes DEF OnlyMoves, Switchers
<1>4. \A b : /\ HeldHeap(b)' <=> HeldHeap(b)
             /\ HeldHand(b)' <=> HeldHand(b)
  BY <1>1, <1>3 DEF HeldHeap, HeldHand
<1>5. ASSUME UNCHANGED pushers PROVE Rotated' = Rotated
  <2>1. \A b : HeldPush(b)' <=> HeldPush(b)
    BY <1>5 DEF HeldPush, Pushing, BagToSet
  <2>2. \A b : b \in Rotated' <=> \/ HeldPush(b)' \/ HeldHeap(b)' \/ HeldHand(b)'
                                  \/ currentBuffer' = b /\ b # None
    BY <1>5 DEF Rotated, HeldPush, HeldHeap, HeldHand
  <2> QED BY <1>1, <1>4, <2>1, <2>2, RotatedIs
<1>6. CASE SwitchCas(t) \/ SwitchOpen(t)
  <2>1. UNCHANGED <<buf, active, pushers>>
    BY <1>6, Zenon DEF SwitchCas, SwitchOpen, bufVars, heapVars
  <2>2. pc'[t] # "swap"
    BY <1>2, <1>6 DEF SwitchCas, SwitchOpen, Goto, Switched
  <2>3. \A u \in Switchers : pc'[u] = "swap" => pc[u] = "swap"
    BY <1>1, <1>2, <2>2 DEF OnlyMoves
  <2> QED BY <1>5, <2>1, <2>3, SealSame DEF StaysSealed
<1>7. CASE SwitchSeal(t)
  <2>1. /\ buf' = [buf EXCEPT ![active] = SetState(buf[active], ReadOnly)]
        /\ UNCHANGED <<active, pushers>>
    BY <1>7 DEF SwitchSeal, channelVars, heapVars
  <2>2. StaysSealed /\ buf'[active].state = ReadOnly
    BY <1>2, <2>1, RingStates DEF StaysSealed
  <2>3. \A b \in Rotated' : b \in Bufs /\ buf[b].state = ReadOnly
    BY <1>5, <2>1, RotatedAre DEF SealInv, SealedUntilReset
  <2> QED BY <2>1, <2>2, <2>3 DEF SealInv, SealedUntilReset, StaysSealed
<1>8. CASE SwitchSwap(t)
  <2>1. PICK q : q = Pusher("sequence", active, 0, 0)
    OBVIOUS
  <2>2. PICK a : a = active
    OBVIOUS
  <2>3. /\ pushers' = pushers (+) SetToBag({q}) /\ UNCHANGED buf /\ pc[t] = "swap"
        /\ pc'[t] = "open" /\ q.buf = a /\ buf[a].state = ReadOnly
    BY <1>2, <1>8, <2>1, <2>2 DEF SwitchSwap, At, Goto, Pusher, SealInv
  <2>4. \A b : HeldPush(b)' => HeldPush(b) \/ b = a
    <3> DEFINE C == pushers (+) SetToBag({q})
    <3>1. DOMAIN C = DOMAIN pushers \cup {q}
      BY <1>2, BagGets
    <3>2. pushers' = C
      BY <2>3
    <3> HIDE DEF C
    <3> QED BY <2>3, <3>1, <3>2 DEF HeldPush, Pushing, BagToSet
  <2>5. \A b : b \in Rotated' => \/ HeldPush(b)' \/ HeldHeap(b)' \/ HeldHand(b)'
                                 \/ currentBuffer' = b /\ b # None
    BY DEF Rotated, HeldPush, HeldHeap, HeldHand
  <2>6. \A b \in Rotated' : b \in Rotated \/ b = a
    BY <1>1, <1>4, <2>4, <2>5, RotatedIs
  <2>7. \A u \in Switchers : pc'[u] # "swap"
    <3>1. ~panicked
      BY <1>2, <2>3 DEF SwitchInv
    <3>2. \A u \in Switchers : pc[u] = "swap" => u = t
      BY <2>3, <3>1 DEF SwitchInv, SwitchExclusive, SwitchersInside
    <3> QED BY <1>1, <1>2, <2>3, <3>2 DEF OnlyMoves
  <2> QED BY <2>3, <2>6, <2>7 DEF SealInv, SealedUntilReset
<1> QED BY <1>6, <1>7, <1>8 DEF SwitchStep

LEMMA SealPusher ==
  ASSUME TypeInv, SealInv, PusherStep
  PROVE  SealInv'
<1>1. PICK p \in DOMAIN pushers :
        TakeSequence(p) \/ PushHeap(p) \/ MeasureBuffer(p) \/ notify(p)
  BY Zenon DEF PusherStep, BagToSet
<1>2. UNCHANGED <<active, buf, currentBuffer, pc, loc>>
  BY <1>1, Zenon DEF TakeSequence, PushHeap, MeasureBuffer, notify, channelVars, bufVars, readVars
<1>3. IsABag(pushers)
  BY DEF TypeInv, HeapType
<1>4. \A x \in Pushing' : HeldPush(x.buf)
  <2>1. CASE TakeSequence(p) \/ PushHeap(p) \/ MeasureBuffer(p)
    <3>1. PICK q : /\ Become(p, q) /\ p # q
                   /\ q.pc \in {"sequence", "push"} => p.pc = "sequence" /\ q.buf = p.buf
      BY <2>1 DEF TakeSequence, PushHeap, MeasureBuffer, Runs, Pusher
    <3>2. \A x \in DOMAIN pushers' : x = q \/ x \in DOMAIN pushers
      BY <3>1, BecomeFacts
    <3> QED BY <3>1, <3>2 DEF HeldPush, Pushing, BagToSet
  <2>2. CASE notify(p)
    <3>1. pushers' = pushers (-) SetToBag({p})
      BY <2>2 DEF notify
    <3>2. DOMAIN pushers' \subseteq DOMAIN pushers
      BY <1>3, <3>1, BagLoses
    <3> QED BY <3>2 DEF HeldPush, Pushing, BagToSet
  <2> QED BY <1>1, <2>1, <2>2
<1>5. \A i \in pendingHeap' : HeldHeap(i.buf) \/ HeldPush(i.buf)
  <2>1. CASE PushHeap(p)
    BY <2>1 DEF PushHeap, Runs, HeldHeap, HeldPush, Pushing, BagToSet
  <2>2. CASE ~PushHeap(p)
    <3>1. UNCHANGED pendingHeap
      BY <1>1, <2>2, Zenon DEF TakeSequence, MeasureBuffer, notify
    <3> QED BY <3>1 DEF HeldHeap
  <2> QED BY <2>1, <2>2
<1>6. Rotated' \subseteq Rotated
  <2>1. \A b \in Rotated' : \/ \E x \in Pushing' : b = x.buf
                            \/ \E i \in pendingHeap' : b = i.buf
                            \/ HeldHand(b)
                            \/ currentBuffer = b /\ b # None
    BY <1>2 DEF Rotated, HeldHand
  <2> QED BY <1>4, <1>5, <2>1, RotatedIs
<1> QED BY <1>2, <1>6, SealSame DEF StaysSealed

(* A Reset hits the current buffer, which is nobody else's. *)
LEMMA SealReader ==
  ASSUME \A r, s \in Readers : r = s,
         TypeInv, NilOnlyInDrain, OwnInv, SealInv, NEW r \in Readers, ReaderAction(r)
  PROVE  SealInv'
<1>1. /\ pc \in [Threads -> Labels] /\ loc \in [Threads -> Locals] /\ r \in Threads
      /\ \A q \in Readers : q = r
      /\ pc[r] \in {"match", "popRead", "popClear"} => loc[r].ref \in Bufs
      /\ buf \in [Bufs -> Rings] /\ currentBuffer \in BufOrNone /\ active \in Bufs
      /\ None \notin Bufs
  BY ReaderHas, ThreadsAssumption
     DEF TypeInv, ThreadType, BufType, ReadType, ChannelType
<1>2. UNCHANGED <<active, pushers>> /\ OnlyMoves(r)
  BY NilReader, ReaderFrame DEF channelVars
<1>3. \A t \in Switchers : pc'[t] = "swap" => pc[t] = "swap"
  BY <1>2, ThreadsAssumption, BasicTypes DEF OnlyMoves, Switchers
<1>4. Pushing' = Pushing
  BY <1>2 DEF Pushing, BagToSet
<1>5. \A b \in Rotated' : \/ HeldPush(b)
                          \/ \E i \in pendingHeap' : b = i.buf
                          \/ pc'[r] = "match" /\ b = loc'[r].ref
                          \/ currentBuffer' = b /\ b # None
  BY <1>1, <1>4 DEF Rotated, HeldPush
<1>6. ASSUME UNCHANGED <<pendingHeap, currentBuffer>>, pc'[r] # "match" PROVE Rotated' \subseteq Rotated
  <2>1. \A i \in pendingHeap' : HeldHeap(i.buf)
    BY <1>6 DEF HeldHeap
  <2> QED BY <1>5, <1>6, <2>1, RotatedIs
<1>7. CASE PickFromHeap(r) /\ pendingHeap # {}
  <2>1. PICK i \in pendingHeap :
          /\ pendingHeap' = pendingHeap \ {i}
          /\ loc' = [loc EXCEPT ![r].ref = i.buf, ![r].seq = i.seq]
          /\ UNCHANGED <<buf, currentBuffer>>
    BY <1>7 DEF PickFromHeap, bufVars, readVars
  <2>2. loc'[r].ref = i.buf
    BY <1>1, <2>1 DEF Locals
  <2>3. HeldHeap(i.buf) /\ \A j \in pendingHeap' : HeldHeap(j.buf)
    BY <2>1 DEF HeldHeap
  <2>4. Rotated' \subseteq Rotated
    BY <1>5, <2>1, <2>2, <2>3, RotatedIs
  <2> QED BY <1>2, <1>3, <2>1, <2>4, SealSame DEF StaysSealed
<1>8. CASE MatchSequence(r)
  <2>1. PICK c : c = loc[r].ref
    OBVIOUS
  <2>2. /\ pc[r] = "match" /\ UNCHANGED buf
        /\ currentBuffer' \in {currentBuffer, c}
        /\ \A i \in pendingHeap' : i \in pendingHeap \/ i.buf = c
    BY <1>8, <2>1 DEF MatchSequence, At, bufVars
  <2>3. pc'[r] # "match"
    BY <1>1, <1>8 DEF MatchSequence, Goto, ReadFailed
  <2>4. HeldHand(c) /\ \A i \in pendingHeap' : HeldHeap(i.buf) \/ i.buf = c
    BY <2>1, <2>2 DEF HeldHand, HeldHeap
  <2>5. Rotated' \subseteq Rotated
    BY <1>5, <2>2, <2>3, <2>4, RotatedIs
  <2> QED BY <1>2, <1>3, <2>2, <2>5, SealSame DEF StaysSealed
<1>9. CASE RecycleUseless(r) /\ currentBuffer # None
  <2>1. PICK c \in Bufs : c = currentBuffer
    BY <1>1, <1>9 DEF BufOrNone
  <2>2. /\ pc[r] = "reset" /\ currentBuffer' = None /\ UNCHANGED pendingHeap
        /\ buf' = [buf EXCEPT ![c] = Reset(buf[c])] /\ pc'[r] = "pick"
    BY <1>1, <1>9, <2>1 DEF RecycleUseless, At, Goto, heapVars
  <2>3. OwnIs("current", c)
    BY <2>1 DEF OwnInv, OwnIs
  <2>4. ~HeldPush(c) /\ ~HeldHeap(c) /\ active # c
    BY <2>3 DEF OwnIs
  <2>5. \A i \in pendingHeap' : HeldHeap(i.buf)
    BY <2>2 DEF HeldHeap
  <2>6. \A b \in Rotated' : b \in Rotated /\ b # c
    BY <1>5, <2>2, <2>4, <2>5, RotatedIs
  <2>7. \A b \in Rotated : b \in Bufs /\ buf[b].state = ReadOnly
    BY RotatedAre DEF SealInv, SealedUntilReset
  <2>8. \A b \in Bufs : b # c => buf'[b] = buf[b]
    BY <1>1, <2>2
  <2> QED BY <1>1, <1>2, <1>3, <2>4, <2>6, <2>7, <2>8 DEF SealInv, SealedUntilReset
<1>10. CASE PopRead(r)
  <2>1. /\ buf' = [buf EXCEPT ![loc[r].ref] = ClaimTail(buf[loc[r].ref])]
        /\ loc[r].ref \in Bufs /\ pc'[r] = "popClear"
        /\ UNCHANGED <<pendingHeap, currentBuffer>>
    BY <1>1, <1>10 DEF PopRead, At, Goto, heapVars, readVars
  <2>2. StaysSealed
    BY <1>1, <2>1, RingStates DEF StaysSealed
  <2> QED BY <1>2, <1>3, <1>6, <2>1, <2>2, SealSame
<1>11. CASE PopClear(r)
  <2> DEFINE ring == AddCount(StoreItem(buf[loc[r].ref], loc[r].pos, EmptyItem), -1)
  <2>1. /\ buf' = [buf EXCEPT ![loc[r].ref] = ring] /\ loc[r].ref \in Bufs
        /\ UNCHANGED <<pendingHeap, currentBuffer>>
    BY <1>1, <1>11 DEF PopClear, At, heapVars, readVars
  <2>2. pc'[r] # "match"
    BY <1>1, <1>11 DEF PopClear, ReadFailed, Goto
  <2>3. ring.state = buf[loc[r].ref].state
    BY <1>1, <2>1, RingStates
  <2> HIDE DEF ring
  <2>4. StaysSealed
    BY <1>1, <2>1, <2>3 DEF StaysSealed
  <2> QED BY <1>2, <1>3, <1>6, <2>1, <2>2, <2>4, SealSame
<1>12. ASSUME UNCHANGED <<buf, pendingHeap, currentBuffer>>, pc'[r] # "match" PROVE SealInv'
  BY <1>2, <1>3, <1>6, <1>12, SealSame DEF StaysSealed
<1>13. CASE PickFromHeap(r) /\ pendingHeap = {}
  BY <1>1, <1>12, <1>13 DEF PickFromHeap, ReadFailed, Goto, At, bufVars, readVars
<1>14. CASE RecycleUseless(r) /\ currentBuffer = None
  BY <1>1, <1>12, <1>14 DEF RecycleUseless, Goto, heapVars
<1>15. CASE PopCount(r)
  BY <1>1, <1>12, <1>15, NilReader DEF PopCount, ReadFailed, Goto, heapVars, bufVars, readVars
<1>16. CASE BlockingRead(r)
  BY <1>1, <1>12, <1>16 DEF BlockingRead, tryRead, Goto, heapVars, bufVars, readVars
<1>17. CASE register(r) \/ WokenByToken(r) \/ StopSeen(r) \/ unregister(r) \/ ContextDone(r)
  BY <1>1, <1>12, <1>17 DEF register, WokenByToken, StopSeen, unregister, ContextDone,
     tryRead, Return, Goto, heapVars, bufVars, readVars
<1> QED BY <1>7, <1>8, <1>9, <1>10, <1>11, <1>13, <1>14, <1>15, <1>16, <1>17
        DEF ReaderAction, ReaderStep

LEMMA SealCloser ==
  ASSUME TypeInv, SealInv, NEW c \in Closers, Close(c) \/ CloserStep(c)
  PROVE  SealInv'
<1>1. UNCHANGED <<active, buf, pushers, currentBuffer, loc>>
  BY Zenon DEF Close, CloserStep, CloseStop, ClosePut, CloseWait, DrainLen, DrainPick,
     channelVars, bufVars, heapVars, readVars
<1>2. pendingHeap' \subseteq pendingHeap
  BY DEF Close, CloserStep, CloseStop, ClosePut, CloseWait, DrainLen, DrainPick, heapVars
<1>3. /\ pc \in [Threads -> Labels] /\ c \in Threads /\ c \notin Readers /\ c \notin Switchers
      /\ Readers \subseteq Threads /\ Switchers \subseteq Threads
  BY BasicTypes, ThreadsAssumption DEF TypeInv, ThreadType, Switchers
<1>4. \A t \in Threads : t # c => pc'[t] = pc[t] \/ pc'[t] = "dead"
  BY <1>3 DEF Close, CloserStep, CloseStop, ClosePut, CloseWait, DrainLen, DrainPick, Goto, Panic
<1>5. Pushing' = Pushing
  BY <1>1 DEF Pushing, BagToSet
<1>6. \A r \in Readers : pc'[r] = "match" => pc[r] = "match"
  BY <1>3, <1>4
<1>7. Rotated' \subseteq Rotated
  BY <1>1, <1>2, <1>5, <1>6 DEF Rotated
<1>8. \A t \in Switchers : pc'[t] = "swap" => pc[t] = "swap"
  BY <1>3, <1>4
<1> QED BY <1>1, <1>7, <1>8, SealSame DEF StaysSealed

LEMMA SealInvNext ==
  ASSUME \A r, s \in Readers : r = s
  PROVE  TypeInv /\ SwitchInv /\ NilOnlyInDrain /\ OwnInv /\ SealInv /\ [Next]_vars => SealInv'
<1> SUFFICES ASSUME TypeInv, SwitchInv, NilOnlyInDrain, OwnInv, SealInv, [Next]_vars
             PROVE  SealInv'
  OBVIOUS
<1>1. CASE \E w \in Writers : WriterStep(w)
  <2>1. PICK w \in Writers : WriterStep(w)
    BY <1>1
  <2>2. /\ UNCHANGED <<active, pendingHeap, pushers, currentBuffer>>
        /\ OnlyMoves(w) /\ StaysSealed /\ pc'[w] \notin Inside
    BY <2>1, WriterFrame DEF channelVars, heapVars, readVars
  <2>3. /\ \A r \in Readers : pc'[r] = pc[r] /\ loc'[r] = loc[r]
        /\ \A t \in Switchers : pc'[t] = "swap" => pc[t] = "swap"
    BY <2>2, ThreadsAssumption, BasicTypes DEF OnlyMoves, Inside
  <2>4. Pushing' = Pushing
    BY <2>2 DEF Pushing, BagToSet
  <2>5. Rotated' \subseteq Rotated
    BY <2>2, <2>3, <2>4 DEF Rotated
  <2> QED BY <2>2, <2>3, <2>5, SealSame
<1>2. CASE \E t \in Switchers : SwitchStep(t)
  BY <1>2, SealSwitcher
<1>3. CASE PusherStep
  BY <1>3, SealPusher
<1>4. ASSUME UNCHANGED <<active, buf, pendingHeap, pushers, currentBuffer, pc, loc>>
      PROVE  SealInv'
  <2>1. Pushing' = Pushing
    BY <1>4 DEF Pushing, BagToSet
  <2>2. Rotated' \subseteq Rotated
    BY <1>4, <2>1 DEF Rotated
  <2> QED BY <1>4, <2>2, SealSame DEF StaysSealed
<1>5. CASE RegisterReadMode \/ \E g \in Workers : WorkerExit(g)
  <2>1. UNCHANGED <<channelVars, bufVars, heapVars, currentBuffer, pc, loc>>
    BY <1>5, Zenon DEF RegisterReadMode, WorkerExit, readVars
  <2> QED BY <1>4, <2>1 DEF channelVars, bufVars, heapVars
<1>6. CASE \E r \in Readers : ReaderAction(r)
  BY <1>6, SealReader
<1>7. CASE \E c \in Closers : Close(c) \/ CloserStep(c)
  BY <1>7, SealCloser
<1>8. CASE UNCHANGED vars
  BY <1>4, <1>8 DEF vars, channelVars, bufVars, heapVars, readVars
<1> QED BY <1>1, <1>2, <1>3, <1>5, <1>6, <1>7, <1>8 DEF Next, ReaderAction

LEMMA SealInvInit == Init => SealInv
<1> SUFFICES ASSUME Init PROVE SealInv
  OBVIOUS
<1>1. /\ pendingHeap = {} /\ Pushing = {} /\ currentBuffer = None
      /\ \A t \in Threads : pc[t] = "idle"
  BY DEF Init, EmptyBag, SetToBag, Pushing, BagToSet
<1>2. Rotated = {}
  BY <1>1, BasicTypes DEF Rotated
<1> QED BY <1>1, <1>2, BasicTypes DEF SealInv, SealedUntilReset

(* With one reader a buffer is read-only from its rotation to the Reset    *)
(* that recycles it, also after Close and while stale writers still hold   *)
(* it: whoever looks at its state in between does not push to it.          *)
THEOREM RotatedBuffersStaySealed ==
  ASSUME \A r, s \in Readers : r = s
  PROVE  Spec => []SealedUntilReset
<1>1. TypeInv /\ CloserInv /\ NilOnlyInDrain /\ [Next]_vars => NilOnlyInDrain'
  BY NilNext
<1>2. TypeInv /\ SwitchInv /\ CloserInv /\ NilOnlyInDrain /\ OwnInv /\ [Next]_vars => OwnInv'
  BY OwnInvNext
<1>3. TypeInv /\ SwitchInv /\ NilOnlyInDrain /\ OwnInv /\ SealInv /\ [Next]_vars => SealInv'
  BY SealInvNext
<1>4. SealInv => SealedUntilReset
  BY DEF SealInv
<1> QED BY <1>1, <1>2, <1>3, <1>4, TypeInvInit, TypeInvNext, SwitchInvInit, SwitchInvNext,
           CloserInvInit, CloserInvNext, NilInit, OwnInvInit, SealInvInit, PTL
        DEF Spec

-----------------------------------------------------------------------------
(* The messages: each is with one writer, then in one slot of one buffer,  *)
(* then in the hand of the reader, which clears that slot, and delivered.  *)

SlotMsg(b, p) == buf[b].buf[p].ptr

(* A message the writers are done with. *)
Stored(m) == m # 0 /\ m <= calls /\ \A w \in Writers : loc[w].val # m

WriterMsgs ==
  /\ \A w \in Writers : loc[w].val <= calls
  /\ \A w, v \in Writers : loc[w].val # 0 /\ loc[w].val = loc[v].val => w = v

SlotMsgs ==
  /\ \A b \in Bufs, p \in Positions : SlotMsg(b, p) # 0 => Stored(SlotMsg(b, p))
  /\ \A b, c \in Bufs, p, q \in Positions :
       SlotMsg(b, p) # 0 /\ SlotMsg(b, p) = SlotMsg(c, q) => b = c /\ p = q

HandMsgs ==
  \A r \in Readers :
    /\ pc[r] \notin {"popClear", "dead"} => loc[r].val = 0
    /\ loc[r].val # 0 =>
         /\ Stored(loc[r].val)
         /\ \A b \in Bufs, p \in Positions :
              SlotMsg(b, p) = loc[r].val => b = loc[r].ref /\ p = loc[r].pos

DeliveredMsgs ==
  \A i \in 1 .. Len(delivered) :
    /\ Stored(delivered[i])
    /\ \A r \in Readers : loc[r].val # delivered[i]
    /\ \A b \in Bufs, p \in Positions : SlotMsg(b, p) # delivered[i]

MessageInv == WriterMsgs /\ SlotMsgs /\ HandMsgs /\ DeliveredMsgs /\ NoDuplicateDelivery

LEMMA MessageTypes ==
  ASSUME TypeInv
  PROVE  /\ calls \in Nat /\ delivered \in Seq(Msgs) /\ Len(delivered) \in Nat
         /\ \A i \in 1 .. Len(delivered) : delivered[i] \in Nat /\ delivered[i] # 0
         /\ \A t \in Threads : loc[t] \in Locals /\ loc[t].val \in Nat
         /\ \A b \in Bufs, p \in Positions : SlotMsg(b, p) \in Nat
         /\ Writers \subseteq Threads /\ Readers \subseteq Threads
         /\ Writers \cap Readers = {}
         /\ pc \in [Threads -> Labels] /\ loc \in [Threads -> Locals] /\ buf \in [Bufs -> Rings]
<1>1. calls \in Nat /\ delivered \in Seq(Msgs)
  BY BoundsAssumption DEF TypeInv, HistoryType
<1>2. Len(delivered) \in Nat /\ \A i \in 1 .. Len(delivered) : delivered[i] \in Msgs
  BY <1>1
<1>3. \A b \in Rings, p \in Positions : b.buf[p].ptr \in Nat
  BY BoundsAssumption DEF Rings, EmptyItem, Item, Msgs
<1>4. loc \in [Threads -> Locals] /\ \A c \in Locals : c.val \in Nat
  BY DEF TypeInv, ThreadType, Locals
<1> QED BY <1>1, <1>2, <1>3, <1>4, BasicTypes, ThreadsAssumption
        DEF TypeInv, BufType, ThreadType, SlotMsg

LEMMA RingSlots ==
  ASSUME NEW b \in Rings, NEW p \in Positions, NEW m, NEW d
  PROVE  /\ SealFull(b).buf = b.buf /\ SetState(b, ReadOnly).buf = b.buf
         /\ ClaimHead(b).buf = b.buf /\ ClaimTail(b).buf = b.buf /\ Reset(b).buf = b.buf
         /\ \A q \in Positions : AddCount(StoreItem(b, p, Item(m)), d).buf[q].ptr =
                                   IF q = p THEN m ELSE b.buf[q].ptr
         /\ \A q \in Positions : AddCount(StoreItem(b, p, EmptyItem), d).buf[q].ptr =
                                   IF q = p THEN 0 ELSE b.buf[q].ptr
<1>1. /\ SealFull(b).buf = b.buf /\ SetState(b, ReadOnly).buf = b.buf
      /\ ClaimHead(b).buf = b.buf /\ ClaimTail(b).buf = b.buf
  BY DEF Rings, SealFull, SetState, ClaimHead, ClaimTail
<1>2. Reset(b).buf = b.buf
  BY DEF Rings, Reset, SetState, ZeroCount, RewindIndexes
<1>3. \A i : AddCount(StoreItem(b, p, i), d).buf = [b.buf EXCEPT ![p] = i]
  BY DEF Rings, AddCount, StoreItem
<1>4. b.buf \in [Positions -> {EmptyItem} \cup {Item(k) : k \in Msgs}]
  BY DEF Rings
<1>5. Item(m).ptr = m /\ EmptyItem.ptr = 0
  BY DEF Item, EmptyItem
<1>6. \A i : \A q \in Positions :
        AddCount(StoreItem(b, p, i), d).buf[q] = IF q = p THEN i ELSE b.buf[q]
  BY <1>3, <1>4
<1> QED BY <1>1, <1>2, <1>5, <1>6

SlotsSame == \A b \in Bufs, p \in Positions : SlotMsg(b, p)' = SlotMsg(b, p)

(* A step that stores, loads and delivers nothing and begins no Write. *)
LEMMA MessageQuiet ==
  ASSUME MessageInv, SlotsSame, UNCHANGED <<calls, delivered>>, calls \in Nat,
         \A w \in Writers : loc'[w].val \in {loc[w].val, 0},
         \A r \in Readers : \/ loc'[r] = loc[r] /\ pc'[r] \in {pc[r], "dead"}
                            \/ loc'[r].val = 0
  PROVE  MessageInv'
<1>1. \A m : Stored(m) => Stored(m)'
  BY DEF Stored
<1>2. WriterMsgs'
  <2>1. \A w \in Writers : loc'[w].val # 0 => loc'[w].val = loc[w].val
    OBVIOUS
  <2>2. \A w \in Writers : loc'[w].val <= calls'
    BY DEF MessageInv, WriterMsgs
  <2> QED BY <2>1, <2>2 DEF MessageInv, WriterMsgs
<1>3. SlotMsgs'
  BY <1>1 DEF MessageInv, SlotMsgs, SlotsSame
<1>4. HandMsgs'
  BY <1>1 DEF MessageInv, HandMsgs, SlotsSame
<1>5. DeliveredMsgs'
  <2>1. \A i \in 1 .. Len(delivered) : delivered[i] # 0
    BY DEF MessageInv, DeliveredMsgs, Stored
  <2> QED BY <1>1, <2>1 DEF MessageInv, DeliveredMsgs, SlotsSame
<1> QED BY <1>2, <1>3, <1>4, <1>5 DEF MessageInv, NoDuplicateDelivery

(* A step that changes at most one ring, and of it no slot. *)
LEMMA SlotsKept ==
  ASSUME TypeInv, NEW b \in Bufs, NEW ring, ring.buf = buf[b].buf,
         buf' = [buf EXCEPT ![b] = ring]
  PROVE  SlotsSame
BY MessageTypes DEF SlotsSame, SlotMsg

LEMMA MessageWriter ==
  ASSUME TypeInv, MessageInv, NEW w \in Writers, WriterStep(w)
  PROVE  MessageInv'
<1>1. /\ pc \in [Threads -> Labels] /\ loc \in [Threads -> Locals] /\ buf \in [Bufs -> Rings]
      /\ w \in Threads /\ calls \in Nat /\ w \notin Readers
      /\ pc[w] \in {"state", "count", "full", "claim", "store", "peek"} => loc[w].ref \in Bufs
      /\ loc[w] \in Locals
  BY MessageTypes, WriterHas
<1>2. OnlyMoves(w)
  BY WriterFrame
<1>3. /\ \A v \in Writers : v # w => loc'[v].val = loc[v].val
      /\ \A r \in Readers : loc'[r] = loc[r] /\ pc'[r] = pc[r]
  BY <1>1, <1>2, MessageTypes DEF OnlyMoves
<1>4. UNCHANGED delivered
  BY Zenon DEF WriterStep, Write, FastPath, LoadActive, PushState, PushCount, PushFull,
     PushClaim, PushStore, SlowPath, PeekActive, history
<1>5. ASSUME SlotsSame, UNCHANGED calls, loc'[w].val \in {loc[w].val, 0} PROVE MessageInv'
  <2>1. \A v \in Writers : loc'[v].val \in {loc[v].val, 0}
    BY <1>3, <1>5
  <2> QED BY <1>1, <1>3, <1>4, <1>5, <2>1, MessageQuiet
<1>6. CASE Write(w)
  <2>1. PICK m \in Nat : m = calls + 1
    BY <1>1
  <2>2. calls' = m /\ UNCHANGED buf /\ loc' = [loc EXCEPT ![w].val = m]
    BY <1>6, <2>1 DEF Write, bufVars
  <2>3. loc'[w].val = m /\ SlotsSame
    BY <1>1, <2>2 DEF Locals, SlotsSame, SlotMsg
  <2>4. \A k \in Nat : Stored(k) => Stored(k)'
    BY <1>1, <1>3, <2>1, <2>2, <2>3 DEF Stored
  <2>5. WriterMsgs'
    <3>1. \A v \in Writers : v # w => loc'[v].val \in Nat /\ loc'[v].val <= calls
      BY <1>3, MessageTypes DEF MessageInv, WriterMsgs
    <3>2. \A v \in Writers : loc'[v].val <= calls'
      BY <1>1, <2>1, <2>2, <2>3, <3>1
    <3>3. \A v \in Writers : v # w => loc'[v].val # m
      BY <1>1, <2>1, <3>1
    <3> QED BY <1>3, <2>3, <3>2, <3>3 DEF MessageInv, WriterMsgs
  <2>6. SlotMsgs'
    BY <2>3, <2>4, MessageTypes DEF MessageInv, SlotMsgs, SlotsSame
  <2>7. HandMsgs'
    BY <1>3, <2>3, <2>4, MessageTypes DEF MessageInv, HandMsgs, SlotsSame
  <2>8. DeliveredMsgs'
    BY <1>3, <1>4, <2>3, <2>4, MessageTypes DEF MessageInv, DeliveredMsgs, SlotsSame
  <2> QED BY <1>4, <2>5, <2>6, <2>7, <2>8 DEF MessageInv, NoDuplicateDelivery
<1>7. CASE PushStore(w)
  <2>1. PICK m \in Nat : m = loc[w].val
    BY <1>1 DEF Locals
  <2>2. PICK c \in Bufs : c = loc[w].ref
    BY <1>1, <1>7 DEF PushStore, At
  <2>3. PICK s \in Positions : s = loc[w].pos
    BY <1>1 DEF Locals
  <2>4. /\ buf' = [buf EXCEPT ![c] = AddCount(StoreItem(buf[c], s, Item(m)), 1)]
        /\ loc' = [loc EXCEPT ![w] = NoLocals] /\ UNCHANGED calls
    BY <1>7, <2>1, <2>2, <2>3 DEF PushStore, Return, history
  <2>5. \A b \in Bufs, p \in Positions :
          SlotMsg(b, p)' = IF b = c /\ p = s THEN m ELSE SlotMsg(b, p)
    <3> DEFINE ring == AddCount(StoreItem(buf[c], s, Item(m)), 1)
    <3>1. \A p \in Positions : ring.buf[p].ptr = IF p = s THEN m ELSE buf[c].buf[p].ptr
      BY <1>1, RingSlots
    <3>2. buf' = [buf EXCEPT ![c] = ring]
      BY <2>4
    <3> HIDE DEF ring
    <3> QED BY <1>1, <3>1, <3>2 DEF SlotMsg
  <2>6. m # 0 /\ loc'[w].val = 0
    <3>1. m \in Msgs
      BY <1>7, <2>1, WriterHas DEF PushStore, At
    <3> QED BY <1>1, <2>4, <3>1, BasicTypes DEF NoLocals
  <2>7. \A k : Stored(k) => Stored(k)' /\ k # m
    BY <1>3, <2>1, <2>4, <2>6 DEF Stored
  <2>8. Stored(m)'
    BY <1>3, <2>1, <2>4, <2>6 DEF Stored, MessageInv, WriterMsgs
  <2>9. WriterMsgs'
    BY <1>1, <1>3, <2>4, <2>6 DEF MessageInv, WriterMsgs
  <2>10. SlotMsgs'
    <3>1. \A b \in Bufs, p \in Positions : SlotMsg(b, p) # m
      BY <2>6, <2>7 DEF MessageInv, SlotMsgs
    <3> QED BY <2>5, <2>7, <2>8, <3>1 DEF MessageInv, SlotMsgs
  <2>11. HandMsgs'
    <3>1. \A r \in Readers : loc[r].val # m
      BY <2>6, <2>7 DEF MessageInv, HandMsgs
    <3> QED BY <1>3, <2>5, <2>7, <3>1 DEF MessageInv, HandMsgs
  <2>12. DeliveredMsgs'
    BY <1>3, <1>4, <2>5, <2>7 DEF MessageInv, DeliveredMsgs
  <2> QED BY <1>4, <2>9, <2>10, <2>11, <2>12 DEF MessageInv, NoDuplicateDelivery
<1>8. CASE FastPath(w) \/ PushCount(w) \/ PeekActive(w)
  <2>1. UNCHANGED <<buf, calls, loc>>
    BY <1>8, Zenon DEF FastPath, PushCount, PeekActive, bufVars, history
  <2> QED BY <1>5, <2>1 DEF SlotsSame, SlotMsg
<1>9. CASE LoadActive(w) \/ SlowPath(w) \/ PushState(w)
  <2>1. UNCHANGED <<buf, calls>>
    BY <1>9, Zenon DEF LoadActive, SlowPath, PushState, bufVars, history
  <2>2. loc'[w].val \in {loc[w].val, 0}
    BY <1>1, <1>9 DEF LoadActive, SlowPath, PushState, PushFailed, Return, NoLocals, Locals
  <2> QED BY <1>5, <2>1, <2>2 DEF SlotsSame, SlotMsg
<1>10. CASE PushFull(w)
  <2>1. /\ buf' = [buf EXCEPT ![loc[w].ref] = SealFull(buf[loc[w].ref])]
        /\ loc[w].ref \in Bufs /\ UNCHANGED calls
    BY <1>1, <1>10 DEF PushFull, At, history
  <2>2. loc'[w].val \in {loc[w].val, 0}
    BY <1>1, <1>10 DEF PushFull, PushFailed, Return, NoLocals, Locals
  <2>3. SealFull(buf[loc[w].ref]).buf = buf[loc[w].ref].buf
    BY <1>1, <2>1 DEF SealFull, Rings
  <2> QED BY <1>5, <2>1, <2>2, <2>3, SlotsKept
<1>11. CASE PushClaim(w)
  <2>1. /\ buf' = [buf EXCEPT ![loc[w].ref] = ClaimHead(buf[loc[w].ref])]
        /\ loc[w].ref \in Bufs /\ UNCHANGED calls
    BY <1>1, <1>11 DEF PushClaim, At, history
  <2>2. loc'[w].val \in {loc[w].val, 0}
    BY <1>1, <1>11 DEF PushClaim, Locals
  <2>3. ClaimHead(buf[loc[w].ref]).buf = buf[loc[w].ref].buf
    BY <1>1, <2>1 DEF ClaimHead, Rings
  <2> QED BY <1>5, <2>1, <2>2, <2>3, SlotsKept
<1> QED BY <1>6, <1>7, <1>8, <1>9, <1>10, <1>11 DEF WriterStep

(* The single reader loads a slot, clears it and returns what it held. *)
LEMMA MessageReader ==
  ASSUME \A r, s \in Readers : r = s,
         TypeInv, MessageInv, NEW r \in Readers, ReaderAction(r)
  PROVE  MessageInv'
<1>1. /\ pc \in [Threads -> Labels] /\ loc \in [Threads -> Locals] /\ buf \in [Bufs -> Rings]
      /\ r \in Threads /\ calls \in Nat /\ r \notin Writers /\ Writers \subseteq Threads
      /\ pc[r] \in {"match", "popRead", "popClear"} => loc[r].ref \in Bufs
      /\ loc[r] \in Locals /\ \A q \in Readers : q = r
      /\ pc[r] \notin {"popClear", "dead"} => loc[r].val = 0
  BY MessageTypes, ReaderHas DEF MessageInv, HandMsgs
<1>2. UNCHANGED calls
  BY Zenon DEF ReaderAction, ReaderStep, BlockingRead, RecycleUseless, PickFromHeap,
     MatchSequence, PopCount, PopRead, PopClear, register, WokenByToken, StopSeen,
     unregister, ContextDone, history
<1>3. CASE PopCount(r)
  <2>1. UNCHANGED <<buf, delivered>> /\ pc[r] = "popCount"
    BY <1>3 DEF PopCount, At, bufVars, history
  <2>2. \A w \in Writers : loc'[w].val = loc[w].val
    BY <1>1, <1>3 DEF PopCount
  <2>3. loc'[r].val = 0
    BY <1>1, <1>3, <2>1 DEF PopCount, Locals
  <2> QED BY <1>1, <1>2, <2>1, <2>2, <2>3, MessageQuiet DEF SlotsSame, SlotMsg
<1>4. \A w \in Writers : loc'[w] = loc[w]
  <2>1. CASE PickFromHeap(r) \/ MatchSequence(r) \/ PopCount(r)
    BY <1>1, <2>1 DEF PickFromHeap, MatchSequence, PopCount
  <2>2. CASE PopRead(r) \/ PopClear(r) \/ BlockingRead(r) \/ RecycleUseless(r)
    BY <1>1, <2>2 DEF PopRead, PopClear, BlockingRead, RecycleUseless
  <2>3. CASE register(r) \/ WokenByToken(r) \/ StopSeen(r) \/ unregister(r) \/ ContextDone(r)
    BY <1>1, <2>3 DEF register, WokenByToken, StopSeen, unregister, ContextDone, Return
  <2> QED BY <2>1, <2>2, <2>3 DEF ReaderAction, ReaderStep
<1>5. \A m : Stored(m)' <=> Stored(m)
  BY <1>2, <1>4 DEF Stored
<1>6. WriterMsgs'
  BY <1>2, <1>4 DEF MessageInv, WriterMsgs
<1>7. CASE PopRead(r)
  <2>1. PICK c \in Bufs : c = loc[r].ref
    BY <1>1, <1>7 DEF PopRead, At
  <2>2. PICK s \in Positions : s = calcPos(buf[c].tail)
    <3>1. buf[c].tail \in Int
      BY <1>1, MaxIndexAssumption DEF Rings, Indexes
    <3> QED BY <3>1, CapacityAssumption DEF calcPos, Positions
  <2>3. PICK m \in Nat : m = SlotMsg(c, s)
    BY MessageTypes
  <2>4. /\ pc[r] = "popRead" /\ UNCHANGED delivered
        /\ buf' = [buf EXCEPT ![c] = ClaimTail(buf[c])]
        /\ loc' = [loc EXCEPT ![r].pos = s, ![r].val = m]
        /\ pc' = [pc EXCEPT ![r] = "popClear"]
    BY <1>7, <2>1, <2>2, <2>3 DEF PopRead, At, Goto, Ref, SlotMsg, history
  <2>5. loc'[r].pos = s /\ loc'[r].val = m /\ loc'[r].ref = c /\ pc'[r] = "popClear"
    BY <1>1, <2>1, <2>4 DEF Locals
  <2>6. SlotsSame
    <3>1. ClaimTail(buf[c]).buf = buf[c].buf
      BY <1>1 DEF ClaimTail, Rings
    <3> QED BY <2>4, <3>1, SlotsKept
  <2>7. SlotMsgs'
    BY <1>5, <2>6 DEF MessageInv, SlotMsgs, SlotsSame
  <2>8. HandMsgs'
    <3>1. m # 0 => Stored(m) /\ \A b \in Bufs, p \in Positions :
                                  SlotMsg(b, p) = m => b = c /\ p = s
      BY <2>3 DEF MessageInv, SlotMsgs
    <3> QED BY <1>1, <1>5, <2>5, <2>6, <3>1 DEF HandMsgs, SlotsSame
  <2>9. DeliveredMsgs'
    <3>1. \A i \in 1 .. Len(delivered) : delivered[i] # m
      BY <2>3 DEF MessageInv, DeliveredMsgs
    <3> QED BY <1>1, <1>5, <2>4, <2>5, <2>6, <3>1 DEF MessageInv, DeliveredMsgs, SlotsSame
  <2> QED BY <1>6, <2>4, <2>7, <2>8, <2>9 DEF MessageInv, NoDuplicateDelivery
<1>8. CASE PopClear(r)
  <2>1. PICK c \in Bufs : c = loc[r].ref
    BY <1>1, <1>8 DEF PopClear, At
  <2>2. PICK s \in Positions : s = loc[r].pos
    BY <1>1 DEF Locals
  <2>3. PICK m \in Nat : m = loc[r].val
    BY <1>1 DEF Locals
  <2>4. /\ buf' = [buf EXCEPT ![c] = AddCount(StoreItem(buf[c], s, EmptyItem), -1)]
        /\ loc' = [loc EXCEPT ![r] = [NoLocals EXCEPT !.slow = loc[r].slow]]
        /\ delivered' = IF m = 0 THEN delivered ELSE Append(delivered, m)
    BY <1>8, <2>1, <2>2, <2>3 DEF PopClear
  <2>5. loc'[r].val = 0
    BY <1>1, <2>4 DEF NoLocals
  <2>6. \A b \in Bufs, p \in Positions :
          SlotMsg(b, p)' = IF b = c /\ p = s THEN 0 ELSE SlotMsg(b, p)
    <3> DEFINE ring == AddCount(StoreItem(buf[c], s, EmptyItem), -1)
    <3>1. \A p \in Positions : ring.buf[p].ptr = IF p = s THEN 0 ELSE buf[c].buf[p].ptr
      <4>1. buf[c] \in Rings
        BY <1>1
      <4>2. ring.buf = [buf[c].buf EXCEPT ![s] = EmptyItem]
        BY <4>1 DEF Rings, AddCount, StoreItem
      <4>3. EmptyItem.ptr = 0
        BY DEF EmptyItem
      <4>4. DOMAIN buf[c].buf = Positions
        BY <4>1 DEF Rings
      <4> HIDE DEF ring
      <4> QED BY <4>2, <4>3, <4>4
    <3>2. buf' = [buf EXCEPT ![c] = ring]
      BY <2>4
    <3> HIDE DEF ring
    <3> QED BY <1>1, <3>1, <3>2 DEF SlotMsg
  <2>7. SlotMsgs'
    BY <1>5, <2>6 DEF MessageInv, SlotMsgs
  <2>8. HandMsgs'
    BY <1>1, <2>5 DEF HandMsgs
  <2>9. \A i \in 1 .. Len(delivered) :
          /\ Stored(delivered[i])' /\ delivered[i] # m /\ delivered[i] # 0
          /\ \A q \in Readers : loc'[q].val # delivered[i]
          /\ \A b \in Bufs, p \in Positions : SlotMsg(b, p)' # delivered[i]
    <3> SUFFICES ASSUME NEW i \in 1 .. Len(delivered)
                 PROVE  /\ Stored(delivered[i])' /\ delivered[i] # m /\ delivered[i] # 0
                        /\ \A q \in Readers : loc'[q].val # delivered[i]
                        /\ \A b \in Bufs, p \in Positions : SlotMsg(b, p)' # delivered[i]
      OBVIOUS
    <3>1. /\ Stored(delivered[i]) /\ loc[r].val # delivered[i]
          /\ \A b \in Bufs, p \in Positions : SlotMsg(b, p) # delivered[i]
      BY DEF MessageInv, DeliveredMsgs
    <3>2. delivered[i] # 0
      BY <3>1 DEF Stored
    <3>3. \A x : Stored(x) => x # 0 /\ x <= calls' /\ \A w \in Writers : loc'[w].val # x
      BY <1>2, <1>4 DEF Stored
    <3>4. UNCHANGED delivered \/ delivered' = Append(delivered, m)
      BY <2>4
    <3>5. delivered'[i] = delivered[i]
      BY <3>4, MessageTypes
    <3>6. Stored(delivered[i])'
      BY <3>1, <3>3, <3>5 DEF Stored
    <3> QED BY <1>1, <2>3, <2>5, <2>6, <3>1, <3>2, <3>6
  <2>10. CASE m = 0
    <3>1. UNCHANGED delivered
      BY <2>4, <2>10
    <3>2. DeliveredMsgs' /\ NoDuplicateDelivery'
      BY <2>9, <3>1 DEF DeliveredMsgs, MessageInv, NoDuplicateDelivery
    <3> QED BY <1>6, <2>7, <2>8, <3>2 DEF MessageInv
  <2>11. CASE m # 0
    <3>1. delivered \in Seq(Msgs) /\ Len(delivered) \in Nat
      BY MessageTypes
    <3>2. delivered' = Append(delivered, m)
      BY <2>4, <2>11
    <3>3. /\ Len(delivered') = Len(delivered) + 1 /\ delivered'[Len(delivered) + 1] = m
          /\ \A k \in 1 .. Len(delivered) : delivered'[k] = delivered[k]
          /\ \A k \in 1 .. Len(delivered') : k \in 1 .. Len(delivered) \/ k = Len(delivered) + 1
      BY <3>1, <3>2
    <3>4. /\ Stored(m)'
          /\ \A q \in Readers : loc'[q].val # m
          /\ \A b \in Bufs, p \in Positions : SlotMsg(b, p)' # m
      <4>1. Stored(m)' /\ \A b \in Bufs, p \in Positions : SlotMsg(b, p) = m => b = c /\ p = s
        BY <1>5, <2>1, <2>2, <2>3, <2>11 DEF MessageInv, HandMsgs
      <4> QED BY <1>1, <2>5, <2>6, <2>11, <4>1
    <3>5. DeliveredMsgs'
      BY <2>9, <3>3, <3>4 DEF DeliveredMsgs
    <3>6. NoDuplicateDelivery'
      BY <2>9, <3>3 DEF MessageInv, NoDuplicateDelivery
    <3> QED BY <1>6, <2>7, <2>8, <3>5, <3>6 DEF MessageInv
  <2> QED BY <2>10, <2>11
<1>9. ASSUME SlotsSame, UNCHANGED delivered, pc[r] \notin {"popClear", "dead"},
             loc'[r].val \in {loc[r].val, 0}
      PROVE  MessageInv'
  BY <1>1, <1>2, <1>4, <1>9, MessageQuiet
<1>10. CASE RecycleUseless(r)
  <2>1. UNCHANGED <<delivered, loc>> /\ pc[r] = "reset"
    BY <1>10 DEF RecycleUseless, At, history
  <2>2. CASE currentBuffer = None
    BY <1>9, <1>10, <2>1, <2>2 DEF RecycleUseless, SlotsSame, SlotMsg
  <2>3. CASE currentBuffer # None
    <3>1. currentBuffer \in Bufs
      BY <2>3 DEF TypeInv, ReadType, BufOrNone
    <3>2. Reset(buf[currentBuffer]).buf = buf[currentBuffer].buf
      BY <1>1, <3>1 DEF Reset, SetState, ZeroCount, RewindIndexes, Rings
    <3>3. buf' = [buf EXCEPT ![currentBuffer] = Reset(buf[currentBuffer])]
      BY <1>10, <2>3 DEF RecycleUseless
    <3>4. SlotsSame
      BY <3>1, <3>2, <3>3, SlotsKept
    <3> QED BY <1>9, <2>1, <3>4
  <2> QED BY <2>2, <2>3
<1>11. ASSUME UNCHANGED <<buf, delivered>>, pc[r] \notin {"popClear", "dead"},
              loc'[r].val \in {loc[r].val, 0}
       PROVE  MessageInv'
  BY <1>9, <1>11 DEF SlotsSame, SlotMsg
<1>12. CASE PickFromHeap(r)
  <2>1. UNCHANGED <<buf, delivered>> /\ pc[r] = "pick"
    BY <1>12, Zenon DEF PickFromHeap, At, bufVars, history
  <2>2. UNCHANGED loc \/ \E i : loc' = [loc EXCEPT ![r].ref = i.buf, ![r].seq = i.seq]
    BY <1>12, Zenon DEF PickFromHeap
  <2>3. loc'[r].val = loc[r].val
    <3>1. CASE UNCHANGED loc
      BY <3>1
    <3>2. ASSUME NEW i, loc' = [loc EXCEPT ![r].ref = i.buf, ![r].seq = i.seq]
          PROVE  loc'[r].val = loc[r].val
      BY <1>1, <3>2 DEF Locals
    <3> QED BY <2>2, <3>1, <3>2
  <2> QED BY <1>11, <2>1, <2>3
<1>13. CASE MatchSequence(r)
  BY <1>1, <1>11, <1>13 DEF MatchSequence, At, bufVars, history, Locals, NoLocals
<1>14. CASE BlockingRead(r)
  BY <1>1, <1>11, <1>14 DEF BlockingRead, At, bufVars, history
<1>15. CASE register(r) \/ WokenByToken(r) \/ StopSeen(r) \/ unregister(r) \/ ContextDone(r)
  BY <1>1, <1>11, <1>15 DEF register, WokenByToken, StopSeen, unregister, ContextDone,
     Return, At, bufVars, history, Locals, NoLocals
<1> QED BY <1>3, <1>7, <1>8, <1>10, <1>12, <1>13, <1>14, <1>15 DEF ReaderAction, ReaderStep

LEMMA MessageInvNext ==
  ASSUME \A r, s \in Readers : r = s
  PROVE  TypeInv /\ MessageInv /\ [Next]_vars => MessageInv'
<1> SUFFICES ASSUME TypeInv, MessageInv, [Next]_vars PROVE MessageInv'
  OBVIOUS
<1>1. ASSUME SlotsSame, UNCHANGED <<calls, delivered, loc>>,
             \A r \in Readers : pc'[r] \in {pc[r], "dead"}
      PROVE  MessageInv'
  BY <1>1, MessageTypes, MessageQuiet
<1>2. ASSUME UNCHANGED <<buf, calls, delivered, loc>>,
             \A r \in Readers : pc'[r] \in {pc[r], "dead"}
      PROVE  MessageInv'
  BY <1>1, <1>2 DEF SlotsSame, SlotMsg
<1>3. CASE \E w \in Writers : WriterStep(w)
  BY <1>3, MessageWriter
<1>4. ASSUME NEW t \in Switchers, SwitchStep(t) PROVE MessageInv'
  <2>1. UNCHANGED <<calls, delivered, loc>>
    BY <1>4, Zenon DEF SwitchStep, SwitchCas, SwitchSeal, SwitchSwap, SwitchOpen, history
  <2>2. \A r \in Readers : pc'[r] = pc[r]
    BY <1>4, SwitcherFrame, ThreadsAssumption, BasicTypes DEF OnlyMoves, Switchers
  <2>3. CASE SwitchSeal(t)
    <3>1. /\ buf' = [buf EXCEPT ![active] = SetState(buf[active], ReadOnly)]
          /\ active \in Bufs /\ buf[active] \in Rings
      BY <2>3 DEF SwitchSeal, TypeInv, ChannelType, BufType
    <3>2. SetState(buf[active], ReadOnly).buf = buf[active].buf
      BY <3>1 DEF SetState, Rings
    <3>3. SlotsSame
      BY <3>1, <3>2, SlotsKept
    <3> QED BY <1>1, <2>1, <2>2, <3>3
  <2>4. CASE ~SwitchSeal(t)
    <3>1. UNCHANGED buf
      BY <1>4, <2>4, Zenon DEF SwitchStep, SwitchCas, SwitchSwap, SwitchOpen, bufVars
    <3> QED BY <1>2, <2>1, <2>2, <3>1
  <2> QED BY <2>3, <2>4
<1>5. CASE PusherStep \/ RegisterReadMode \/ \E g \in Workers : WorkerExit(g)
  <2>1. UNCHANGED <<buf, calls, delivered, loc, pc>>
    BY <1>5, Zenon DEF PusherStep, TakeSequence, PushHeap, MeasureBuffer, notify,
       RegisterReadMode, WorkerExit, bufVars, history
  <2> QED BY <1>2, <2>1
<1>6. CASE \E r \in Readers : ReaderAction(r)
  BY <1>6, MessageReader
<1>7. ASSUME NEW c \in Closers, Close(c) \/ CloserStep(c) PROVE MessageInv'
  <2>1. UNCHANGED <<buf, calls, delivered, loc>>
    BY <1>7, Zenon DEF Close, CloserStep, CloseStop, ClosePut, CloseWait, DrainLen, DrainPick,
       bufVars, history
  <2>2. /\ pc \in [Threads -> Labels] /\ c \in Threads /\ c \notin Readers
        /\ Readers \subseteq Threads
    BY BasicTypes, ThreadsAssumption DEF TypeInv, ThreadType
  <2>3. \A r \in Readers : pc'[r] \in {pc[r], "dead"}
    BY <1>7, <2>2 DEF Close, CloserStep, CloseStop, ClosePut, CloseWait, DrainLen, DrainPick,
       Goto, Panic
  <2> QED BY <1>2, <2>1, <2>3
<1>8. CASE UNCHANGED vars
  BY <1>2, <1>8 DEF vars, bufVars, history
<1> QED BY <1>3, <1>4, <1>5, <1>6, <1>7, <1>8 DEF Next, ReaderAction

LEMMA MessageInvInit == Init => MessageInv
<1> SUFFICES ASSUME Init PROVE MessageInv
  OBVIOUS
<1>1. /\ \A b \in Bufs, p \in Positions : SlotMsg(b, p) = 0
      /\ \A t \in Threads : loc[t].val = 0
      /\ calls = 0 /\ delivered = <<>>
  BY DEF Init, NewSmartBuffer, EmptyItem, SlotMsg, NoLocals
<1> QED BY <1>1, BasicTypes
        DEF MessageInv, WriterMsgs, SlotMsgs, HandMsgs, DeliveredMsgs, NoDuplicateDelivery

(* With one reader no message is returned by two reads, whatever the       *)
(* writers store into a buffer already rotated, recycled or being read,    *)
(* and before and after Close.                                             *)
THEOREM DeliveredOnce ==
  ASSUME \A r, s \in Readers : r = s
  PROVE  Spec => []NoDuplicateDelivery
<1>1. TypeInv /\ MessageInv /\ [Next]_vars => MessageInv'
  BY MessageInvNext
<1>2. MessageInv => NoDuplicateDelivery
  BY DEF MessageInv
<1> QED BY <1>1, <1>2, TypeInvInit, TypeInvNext, SwitchInvInit, SwitchInvNext,
           MessageInvInit, PTL
        DEF Spec

-----------------------------------------------------------------------------
(* What DoubleBuffer asks of the heap *)

(* The sequence numbers in pendingHeap, and the steps of a priority queue  *)
(* on them.  What PriorityQueue returns is kept in loc, not in a variable. *)
PendingNumbers == {i.seq : i \in pendingHeap}
Heap == INSTANCE PriorityQueue
          WITH Items <- Nat \ {0}, pending <- PendingNumbers, picked <- 0

(* DoubleBuffer uses pendingHeap within what WrapHeap is shown to be: every *)
(* change of it is the push of one number that was drawn and is not in the  *)
(* heap, as Push of MinHeap requires, or the pick of the least.             *)
HeapUsedAsQueue ==
  [][ \/ \E n \in 1 .. sequence : Heap!Add(n)
      \/ \E n \in PendingNumbers : Heap!RemoveLeast(n) ]_pendingHeap

(* No number is twice anywhere: at a goroutine about to push, in the heap,  *)
(* or in the hands of a reader that may push it back.                       *)
NumbersInv ==
  /\ \A p \in DOMAIN pushers : p.pc = "push" => pushers[p] = 1
  /\ \A p, q \in DOMAIN pushers : p.pc = "push" /\ q.pc = "push" /\ p.seq = q.seq => p = q
  /\ \A i, j \in pendingHeap : i.seq = j.seq => i = j
  /\ \A r, q \in Readers :
       pc[r] = "match" /\ pc[q] = "match" /\ loc[r].seq = loc[q].seq => r = q
  /\ \A p \in DOMAIN pushers, i \in pendingHeap : p.pc = "push" => p.seq # i.seq
  /\ \A p \in DOMAIN pushers, r \in Readers :
       p.pc = "push" /\ pc[r] = "match" => p.seq # loc[r].seq
  /\ \A i \in pendingHeap, r \in Readers : pc[r] = "match" => i.seq # loc[r].seq

(* Nothing new: the goroutines about to push, the heap and the hands are    *)
(* among those before.                                                      *)
PushFewer ==
  \A p \in DOMAIN pushers' :
    p.pc = "push" => p \in DOMAIN pushers /\ pushers'[p] = pushers[p]
HandFewer ==
  \A r \in Readers : pc'[r] = "match" => pc[r] = "match" /\ loc'[r] = loc[r]

LEMMA NumbersFewer ==
  ASSUME NumbersInv, PushFewer, HandFewer, pendingHeap' \subseteq pendingHeap
  PROVE  NumbersInv'
<1>1. /\ \A p \in DOMAIN pushers' : p.pc = "push" => pushers'[p] = 1
      /\ \A p, q \in DOMAIN pushers' : p.pc = "push" /\ q.pc = "push" /\ p.seq = q.seq => p = q
      /\ \A p \in DOMAIN pushers', i \in pendingHeap' : p.pc = "push" => p.seq # i.seq
  BY DEF NumbersInv, PushFewer
<1>2. \A i, j \in pendingHeap' : i.seq = j.seq => i = j
  BY DEF NumbersInv
<1>3. \A r, q \in Readers :
        pc'[r] = "match" /\ pc'[q] = "match" /\ loc'[r].seq = loc'[q].seq => r = q
  BY DEF NumbersInv, HandFewer
<1>4. \A p \in DOMAIN pushers', r \in Readers :
        p.pc = "push" /\ pc'[r] = "match" => p.seq # loc'[r].seq
  BY DEF NumbersInv, PushFewer, HandFewer
<1>5. \A i \in pendingHeap', r \in Readers : pc'[r] = "match" => i.seq # loc'[r].seq
  BY DEF NumbersInv, HandFewer
<1> QED BY <1>1, <1>2, <1>3, <1>4, <1>5 DEF NumbersInv

(* A goroutine takes a number nobody has, or hands its own to the heap. *)
LEMMA NumbersPusher ==
  ASSUME TypeInv, NumbersInv, PusherStep
  PROVE  /\ NumbersInv'
         /\ \/ UNCHANGED pendingHeap
            \/ \E n \in 1 .. sequence : Heap!Add(n)
<1>1. PICK p \in DOMAIN pushers :
        TakeSequence(p) \/ PushHeap(p) \/ MeasureBuffer(p) \/ notify(p)
  BY Zenon DEF PusherStep, BagToSet
<1>2. UNCHANGED <<pc, loc>>
  BY <1>1, Zenon DEF TakeSequence, PushHeap, MeasureBuffer, notify
<1>3. HandFewer
  BY <1>2 DEF HandFewer
<1>4. /\ sequence \in Nat /\ IsABag(pushers)
      /\ \A x \in DOMAIN pushers : PusherOK(x, sequence)
      /\ \A i \in pendingHeap : i.seq \in 1 .. sequence
      /\ \A r \in Readers : pc[r] = "match" => loc[r].seq \in 1 .. sequence
  BY ReaderHas DEF TypeInv, HeapType
<1>5. CASE TakeSequence(p)
  <2>1. PICK n \in Nat : n = sequence + 1
    BY <1>4
  <2>2. PICK q : q = Pusher("push", p.buf, n, 0)
    OBVIOUS
  <2>3. UNCHANGED pendingHeap /\ p.pc = "sequence" /\ Become(p, q)
    BY <1>5, <2>1, <2>2 DEF TakeSequence, Runs
  <2>4. q.pc = "push" /\ q.seq = n /\ q # p
    BY <2>2, <2>3 DEF Pusher
  <2>5. /\ \A x \in DOMAIN pushers : x.pc = "push" => x.seq # n
        /\ \A i \in pendingHeap : i.seq # n
        /\ \A r \in Readers : pc[r] = "match" => loc[r].seq # n
    BY <1>4, <2>1 DEF PusherOK
  <2>6. /\ \A x \in DOMAIN pushers' :
             x.pc = "push" => x = q \/ (x \in DOMAIN pushers /\ pushers'[x] = pushers[x])
        /\ pushers'[q] = 1
    BY <2>3, <2>4, <2>5, BecomeFacts
  <2>7. /\ \A x \in DOMAIN pushers' : x.pc = "push" => pushers'[x] = 1
        /\ \A x, y \in DOMAIN pushers' : x.pc = "push" /\ y.pc = "push" /\ x.seq = y.seq => x = y
        /\ \A x \in DOMAIN pushers', i \in pendingHeap' : x.pc = "push" => x.seq # i.seq
        /\ \A x \in DOMAIN pushers', r \in Readers :
             x.pc = "push" /\ pc'[r] = "match" => x.seq # loc'[r].seq
    BY <1>2, <2>3, <2>4, <2>5, <2>6 DEF NumbersInv
  <2>8. NumbersInv'
    BY <1>2, <2>3, <2>7 DEF NumbersInv
  <2> QED BY <2>3, <2>8
<1>6. CASE PushHeap(p)
  <2>1. PICK q : q = Pusher("len", p.buf, 0, 0)
    OBVIOUS
  <2>2. PICK i : i = [seq |-> p.seq, buf |-> p.buf]
    OBVIOUS
  <2>3. p.pc = "push" /\ Become(p, q) /\ pendingHeap' = pendingHeap \cup {i}
    BY <1>6, <2>1, <2>2 DEF PushHeap, Runs
  <2>4. q.pc = "len" /\ q # p /\ i.seq = p.seq
    BY <2>1, <2>2, <2>3 DEF Pusher
  <2>5. p.seq \in 1 .. sequence /\ pushers[p] = 1
    BY <1>4, <2>3 DEF NumbersInv, PusherOK
  <2>6. \A x \in DOMAIN pushers' :
          x.pc = "push" => x # p /\ x \in DOMAIN pushers /\ pushers'[x] = pushers[x]
    BY <2>3, <2>4, <2>5, BecomeFacts
  <2>7. /\ \A x \in DOMAIN pushers : x.pc = "push" /\ x # p => x.seq # p.seq
        /\ \A j \in pendingHeap : j.seq # p.seq
        /\ \A r \in Readers : pc[r] = "match" => loc[r].seq # p.seq
    BY <2>3 DEF NumbersInv
  <2>8. /\ \A x \in DOMAIN pushers' : x.pc = "push" => pushers'[x] = 1
        /\ \A x, y \in DOMAIN pushers' : x.pc = "push" /\ y.pc = "push" /\ x.seq = y.seq => x = y
        /\ \A x \in DOMAIN pushers', r \in Readers :
             x.pc = "push" /\ pc'[r] = "match" => x.seq # loc'[r].seq
    BY <1>2, <2>6 DEF NumbersInv
  <2>9. \A x \in DOMAIN pushers', j \in pendingHeap' : x.pc = "push" => x.seq # j.seq
    BY <2>3, <2>4, <2>6, <2>7 DEF NumbersInv
  <2>10. /\ \A j, k \in pendingHeap' : j.seq = k.seq => j = k
         /\ \A j \in pendingHeap', r \in Readers : pc'[r] = "match" => j.seq # loc'[r].seq
    BY <1>2, <2>3, <2>4, <2>7 DEF NumbersInv
  <2>11. NumbersInv'
    BY <1>2, <2>8, <2>9, <2>10 DEF NumbersInv
  <2>12. Heap!Add(p.seq)
    BY <2>3, <2>4, <2>5, <2>7 DEF Heap!Add, PendingNumbers
  <2> QED BY <2>5, <2>11, <2>12
<1>7. CASE MeasureBuffer(p)
  <2>1. PICK q : q = Pusher("notify", None, 0, buf[p.buf].count)
    OBVIOUS
  <2>2. UNCHANGED pendingHeap /\ p.pc = "len" /\ Become(p, q)
    BY <1>7, <2>1 DEF MeasureBuffer, Runs
  <2>3. q.pc = "notify" /\ q # p
    BY <2>1, <2>2 DEF Pusher
  <2>4. PushFewer
    BY <2>2, <2>3, BecomeFacts DEF PushFewer
  <2> QED BY <1>3, <2>2, <2>4, NumbersFewer
<1>8. CASE notify(p)
  <2>1. UNCHANGED pendingHeap /\ p.pc = "notify" /\ pushers' = pushers (-) SetToBag({p})
    BY <1>8 DEF notify, Runs
  <2>2. /\ DOMAIN pushers' \subseteq DOMAIN pushers
        /\ \A x \in DOMAIN pushers : x # p => pushers'[x] = pushers[x]
    BY <1>4, <2>1, BagLoses
  <2>3. PushFewer
    BY <2>1, <2>2 DEF PushFewer
  <2> QED BY <1>3, <2>1, <2>3, NumbersFewer
<1> QED BY <1>1, <1>5, <1>6, <1>7, <1>8

(* What a pick of the least item does to the numbers. *)
LEMMA PickIsRemoveLeast ==
  ASSUME NumbersInv, NEW i \in pendingHeap, pendingHeap' = pendingHeap \ {i},
         \A j \in pendingHeap : i.seq <= j.seq
  PROVE  i.seq \in PendingNumbers /\ Heap!RemoveLeast(i.seq)
<1>1. PendingNumbers' = PendingNumbers \ {i.seq}
  <2>1. \A j \in pendingHeap : j # i => j.seq # i.seq
    BY DEF NumbersInv
  <2> QED BY <2>1 DEF PendingNumbers
<1>2. i.seq \in PendingNumbers /\ \A n \in PendingNumbers : i.seq <= n
  BY DEF PendingNumbers
<1> QED BY <1>1, <1>2 DEF Heap!RemoveLeast

(* A reader takes the least number from the heap, keeps it or puts it back. *)
LEMMA NumbersReader ==
  ASSUME TypeInv, NumbersInv, NEW r \in Readers, ReaderAction(r)
  PROVE  /\ NumbersInv'
         /\ \/ UNCHANGED pendingHeap
            \/ \E n \in 1 .. sequence : Heap!Add(n)
            \/ \E n \in PendingNumbers : Heap!RemoveLeast(n)
<1>1. /\ pc \in [Threads -> Labels] /\ loc \in [Threads -> Locals] /\ r \in Threads
      /\ Readers \subseteq Threads
      /\ pc[r] = "match" => loc[r].seq \in 1 .. sequence
  BY ReaderHas, BasicTypes DEF TypeInv, ThreadType
<1>2. CASE Panic
  <2>1. UNCHANGED <<pushers, pendingHeap>>
    <3>1. ~PickFromHeap(r) /\ ~MatchSequence(r)
      BY <1>1, <1>2 DEF Panic, PickFromHeap, MatchSequence, Goto, ReadFailed
    <3> QED BY <3>1, Zenon DEF ReaderAction, ReaderStep, BlockingRead, RecycleUseless, PopCount,
            PopRead, PopClear, register, WokenByToken, StopSeen, unregister, ContextDone, heapVars
  <2>2. HandFewer /\ PushFewer
    BY <1>1, <1>2, <2>1 DEF Panic, HandFewer, PushFewer
  <2> QED BY <2>1, <2>2, NumbersFewer
<1> SUFFICES ASSUME ~Panic
             PROVE  /\ NumbersInv'
                    /\ \/ UNCHANGED pendingHeap
                       \/ \E n \in 1 .. sequence : Heap!Add(n)
                       \/ \E n \in PendingNumbers : Heap!RemoveLeast(n)
  BY <1>2
<1>3. UNCHANGED pushers /\ OnlyMoves(r)
  BY ReaderFrame
<1>4. PushFewer
  BY <1>3 DEF PushFewer
<1>5. ASSUME pc'[r] # "match" PROVE HandFewer
  BY <1>1, <1>3, <1>5 DEF HandFewer, OnlyMoves
<1>6. CASE PickFromHeap(r) /\ pendingHeap # {}
  <2>1. PICK i \in pendingHeap :
          /\ \A j \in pendingHeap : i.seq <= j.seq
          /\ pendingHeap' = pendingHeap \ {i}
          /\ loc' = [loc EXCEPT ![r].ref = i.buf, ![r].seq = i.seq]
          /\ pc' = [pc EXCEPT ![r] = "match"]
    BY <1>6 DEF PickFromHeap, Goto
  <2>2. pc'[r] = "match" /\ loc'[r].seq = i.seq /\ pc[r] = "pick"
    <3>1. pc[r] = "pick"
      BY <1>6, Zenon DEF PickFromHeap, At
    <3>2. pc'[r] = "match" /\ loc'[r].seq = i.seq
      BY <1>1, <2>1 DEF Locals
    <3> QED BY <3>1, <3>2
  <2>3. \A q \in Readers : q # r => pc'[q] = pc[q] /\ loc'[q] = loc[q]
    BY <1>1, <1>3 DEF OnlyMoves
  <2>4. /\ \A j \in pendingHeap' : j \in pendingHeap /\ j.seq # i.seq
        /\ \A p \in DOMAIN pushers : p.pc = "push" => p.seq # i.seq
        /\ \A q \in Readers : pc[q] = "match" => i.seq # loc[q].seq
    BY <2>1 DEF NumbersInv
  <2>5. \A q, x \in Readers :
          pc'[q] = "match" /\ pc'[x] = "match" /\ loc'[q].seq = loc'[x].seq => q = x
    BY <2>2, <2>3, <2>4 DEF NumbersInv
  <2>6. /\ \A p \in DOMAIN pushers', q \in Readers :
             p.pc = "push" /\ pc'[q] = "match" => p.seq # loc'[q].seq
        /\ \A j \in pendingHeap', q \in Readers : pc'[q] = "match" => j.seq # loc'[q].seq
    BY <1>3, <2>2, <2>3, <2>4 DEF NumbersInv
  <2>7. NumbersInv'
    BY <1>3, <2>4, <2>5, <2>6 DEF NumbersInv
  <2> QED BY <2>1, <2>7, PickIsRemoveLeast
<1>7. CASE MatchSequence(r) /\ UNCHANGED pendingHeap
  <2>1. pc'[r] # "match"
    BY <1>1, <1>7 DEF MatchSequence, Goto, ReadFailed
  <2> QED BY <1>4, <1>5, <1>7, <2>1, NumbersFewer
<1>8. CASE MatchSequence(r) /\ loc[r].seq # currentSequence
  <2>1. PICK n : n = loc[r].seq
    OBVIOUS
  <2>2. PICK i : i = [seq |-> n, buf |-> loc[r].ref]
    OBVIOUS
  <2>3. /\ pendingHeap' = pendingHeap \cup {i} /\ i.seq = n
        /\ pc[r] = "match" /\ n \in 1 .. sequence
    BY <1>1, <1>8, <2>1, <2>2 DEF MatchSequence, At
  <2>4. pc'[r] # "match"
    BY <1>1, <1>8 DEF MatchSequence, Goto, ReadFailed
  <2>5. \A q \in Readers : pc'[q] = "match" => q # r /\ pc[q] = "match" /\ loc'[q] = loc[q]
    BY <2>4, <1>5 DEF HandFewer
  <2>6. /\ \A j \in pendingHeap : j.seq # n
        /\ \A p \in DOMAIN pushers : p.pc = "push" => p.seq # n
        /\ \A q \in Readers : pc[q] = "match" /\ q # r => loc[q].seq # n
    BY <2>1, <2>3 DEF NumbersInv
  <2>7. /\ \A j, k \in pendingHeap' : j.seq = k.seq => j = k
        /\ \A p \in DOMAIN pushers', j \in pendingHeap' : p.pc = "push" => p.seq # j.seq
    BY <1>3, <2>3, <2>6 DEF NumbersInv
  <2>8. /\ \A q, x \in Readers :
             pc'[q] = "match" /\ pc'[x] = "match" /\ loc'[q].seq = loc'[x].seq => q = x
        /\ \A p \in DOMAIN pushers', q \in Readers :
             p.pc = "push" /\ pc'[q] = "match" => p.seq # loc'[q].seq
    BY <1>3, <2>5 DEF NumbersInv
  <2>9. \A j \in pendingHeap', q \in Readers : pc'[q] = "match" => j.seq # loc'[q].seq
    BY <2>3, <2>5, <2>6 DEF NumbersInv
  <2>10. NumbersInv'
    BY <1>3, <2>7, <2>8, <2>9 DEF NumbersInv
  <2>11. Heap!Add(n)
    BY <2>3, <2>6 DEF Heap!Add, PendingNumbers
  <2> QED BY <2>3, <2>10, <2>11
<1>9. CASE UNCHANGED pendingHeap /\ pc'[r] # "match"
  BY <1>4, <1>5, <1>9, NumbersFewer
<1>10. CASE PickFromHeap(r) /\ pendingHeap = {}
  BY <1>1, <1>9, <1>10 DEF PickFromHeap, ReadFailed, Goto
<1>11. CASE BlockingRead(r) \/ RecycleUseless(r) \/ PopCount(r) \/ PopRead(r) \/ PopClear(r)
  BY <1>1, <1>9, <1>11 DEF BlockingRead, RecycleUseless, PopCount, PopRead, PopClear, tryRead,
     ReadFailed, Goto, heapVars
<1>12. CASE register(r) \/ WokenByToken(r) \/ StopSeen(r) \/ unregister(r) \/ ContextDone(r)
  BY <1>1, <1>9, <1>12 DEF register, WokenByToken, StopSeen, unregister, ContextDone,
     tryRead, Return, Goto, heapVars
<1>13. CASE MatchSequence(r)
  BY <1>7, <1>8, <1>13 DEF MatchSequence
<1> QED BY <1>6, <1>10, <1>11, <1>12, <1>13 DEF ReaderAction, ReaderStep

(* Every step keeps the numbers apart and asks the heap for no more than a  *)
(* priority queue does.                                                     *)
LEMMA NumbersNext ==
  ASSUME TypeInv, NumbersInv, [Next]_vars
  PROVE  /\ NumbersInv'
         /\ \/ UNCHANGED pendingHeap
            \/ \E n \in 1 .. sequence : Heap!Add(n)
            \/ \E n \in PendingNumbers : Heap!RemoveLeast(n)
<1>1. Readers \subseteq Threads /\ \A r \in Readers : r \notin Writers /\ r \notin Closers /\ r # Monitor
  BY BasicTypes, ThreadsAssumption
<1>2. ASSUME UNCHANGED pendingHeap, PushFewer, NEW t \in Threads \ Readers, OnlyMoves(t)
      PROVE  NumbersInv'
  <2>1. HandFewer
    BY <1>1, <1>2 DEF HandFewer, OnlyMoves
  <2> QED BY <1>2, <2>1, NumbersFewer
<1>3. ASSUME UNCHANGED pushers PROVE PushFewer
  BY <1>3 DEF PushFewer
<1>4. ASSUME NEW w \in Writers, WriterStep(w) PROVE NumbersInv' /\ UNCHANGED pendingHeap
  <2>1. UNCHANGED <<pendingHeap, pushers>> /\ OnlyMoves(w) /\ w \in Threads \ Readers
    BY <1>1, <1>4, WriterFrame, BasicTypes DEF heapVars
  <2> QED BY <1>2, <1>3, <2>1
<1>5. ASSUME NEW t \in Switchers, SwitchStep(t) PROVE NumbersInv' /\ UNCHANGED pendingHeap
  <2>1. UNCHANGED pendingHeap /\ OnlyMoves(t) /\ t \in Threads \ Readers
    BY <1>1, <1>5, SwitcherFrame, BasicTypes DEF Switchers
  <2>2. PushFewer
    <3>1. CASE SwitchSwap(t)
      <4>1. PICK q : q = Pusher("sequence", active, 0, 0)
        OBVIOUS
      <4>2. q.pc = "sequence" /\ pushers' = pushers (+) SetToBag({q}) /\ IsABag(pushers)
        BY <3>1, <4>1 DEF SwitchSwap, Pusher, TypeInv, HeapType
      <4> DEFINE C == pushers (+) SetToBag({q})
      <4>3. /\ DOMAIN C = DOMAIN pushers \cup {q}
            /\ \A x \in DOMAIN pushers : x # q => C[x] = pushers[x]
        BY <4>2, BagGets
      <4>4. pushers' = C
        BY <4>2
      <4> HIDE DEF C
      <4> QED BY <4>2, <4>3, <4>4 DEF PushFewer
    <3>2. CASE ~SwitchSwap(t)
      BY <1>3, <1>5, <3>2, Zenon DEF SwitchStep, SwitchCas, SwitchSeal, SwitchOpen, heapVars
    <3> QED BY <3>1, <3>2
  <2> QED BY <1>2, <2>1, <2>2
<1>6. CASE PusherStep
  BY <1>6, NumbersPusher
<1>7. CASE RegisterReadMode \/ (\E g \in Workers : WorkerExit(g)) \/ UNCHANGED vars
  <2>1. UNCHANGED <<pendingHeap, pushers, pc, loc>>
    BY <1>7, Zenon DEF RegisterReadMode, WorkerExit, vars, heapVars
  <2>2. HandFewer
    BY <2>1 DEF HandFewer
  <2> QED BY <1>3, <2>1, <2>2, NumbersFewer
<1>8. CASE \E r \in Readers : ReaderAction(r)
  BY <1>8, NumbersReader
<1>9. ASSUME NEW c \in Closers, Close(c) \/ CloserStep(c)
      PROVE  /\ NumbersInv'
             /\ UNCHANGED pendingHeap \/ \E n \in PendingNumbers : Heap!RemoveLeast(n)
  <2>1. UNCHANGED <<pushers, loc>>
    BY <1>9, Zenon DEF Close, CloserStep, CloseStop, ClosePut, CloseWait, DrainLen, DrainPick,
       heapVars
  <2>2. \A r \in Readers : pc'[r] \in {pc[r], "dead"}
    <3>1. pc \in [Threads -> Labels] /\ c \in Threads /\ c \notin Readers
      BY <1>1, BasicTypes DEF TypeInv, ThreadType
    <3> QED BY <1>1, <1>9, <3>1 DEF Close, CloserStep, CloseStop, ClosePut, CloseWait, DrainLen,
            DrainPick, Goto, Panic
  <2>3. HandFewer /\ PushFewer
    BY <1>3, <2>1, <2>2 DEF HandFewer
  <2>4. CASE DrainPick(c) /\ pendingHeap # {}
    <3>1. PICK i \in pendingHeap :
            pendingHeap' = pendingHeap \ {i} /\ \A j \in pendingHeap : i.seq <= j.seq
      BY <2>4 DEF DrainPick
    <3> QED BY <2>3, <3>1, NumbersFewer, PickIsRemoveLeast
  <2>5. CASE ~(DrainPick(c) /\ pendingHeap # {})
    <3>1. UNCHANGED pendingHeap
      BY <1>9, <2>5, Zenon DEF Close, CloserStep, CloseStop, ClosePut, CloseWait, DrainLen,
         DrainPick, heapVars
    <3> QED BY <2>3, <3>1, NumbersFewer
  <2> QED BY <2>4, <2>5
<1> QED BY <1>4, <1>5, <1>6, <1>7, <1>8, <1>9 DEF Next, ReaderAction

(* Every push of DoubleBuffer is of a number that is not in the heap and    *)
(* every pick takes the least, for any number of threads and also after     *)
(* Close.  With HeapIsPriorityQueue of MinHeap_proofs this is why the set   *)
(* pendingHeap may stand for WrapHeap.                                      *)
THEOREM HeapIsUsedAsAQueue == Spec => HeapUsedAsQueue
<1>1. Init => NumbersInv
  <2> SUFFICES ASSUME Init PROVE NumbersInv
    OBVIOUS
  <2>1. pendingHeap = {} /\ DOMAIN pushers = {} /\ \A r \in Readers : pc[r] = "idle"
    BY BasicTypes DEF Init, EmptyBag, SetToBag
  <2> QED BY <2>1 DEF NumbersInv
<1>2. TypeInv /\ NumbersInv /\ [Next]_vars => NumbersInv'
  BY NumbersNext
<1>3. TypeInv /\ NumbersInv /\ [Next]_vars =>
        [ \/ \E n \in 1 .. sequence : Heap!Add(n)
          \/ \E n \in PendingNumbers : Heap!RemoveLeast(n) ]_pendingHeap
  BY NumbersNext
<1> QED BY <1>1, <1>2, <1>3, TypeInvInit, TypeInvNext, SwitchInvInit, SwitchInvNext, PTL
        DEF Spec, HeapUsedAsQueue
=============================================================================
