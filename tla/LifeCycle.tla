----------------------------- MODULE LifeCycle -----------------------------
(***************************************************************************)
(* pools/life_cycle.go as core/double_buffer.go uses it: Write records the *)
(* pointer of a medium or big message in MediumPool or BigDataPool and     *)
(* then pushes it, or is refused; the reads and the Release of the chunk   *)
(* they return take the record out again, and asyncRecycleWorker cleans up *)
(* once per second.  Small messages are copied at both ends and leave no   *)
(* record.  The methods hold the lock of their pool, so each is one step.  *)
(*                                                                         *)
(* The queue between Write and the reads is a bag of pointers here: any    *)
(* message may be read next, and any push may fail, for DoubleBuffer has   *)
(* when they do.  Sizes are 1; time goes in half minutes.                  *)
(***************************************************************************)
EXTENDS Integers, FiniteSets, FiniteSetsExt

CONSTANTS
  MediumPtrs, BigPtrs,  \* the addresses of messages of either class
  ReadModes,            \* the modes a buffer is given, of two
  MaxLive,              \* bound: messages of one pointer from Write to Release
  MaxCleanCounts,       \* 200 in the code
  MaxSize               \* bound: currentSize

ASSUME LifeCycleAssumption ==
  /\ MediumPtrs \cap BigPtrs = {}
  /\ IsFiniteSet(MediumPtrs) /\ IsFiniteSet(BigPtrs)
  /\ ReadModes \subseteq {"SafeRead", "ZeroCopyRead"}
  /\ MaxLive \in Nat /\ MaxCleanCounts \in Nat /\ MaxSize \in Nat

Ptrs == MediumPtrs \cup BigPtrs

Absent        == -1  \* no entry in the map
mediumPoolTTL == 4   \* half minutes
CleanupAge    == 2   \* MediumPool.cleanup deletes what is older

VARIABLES
  cache,         \* MediumPool.cache: the age of each entry
  ref,           \* BigDataPool.pool: the reference count of each entry
  present,       \* the pointers with an entry in BigDataPool.pool
  currentSize,   \* BigDataPool.currentSize
  writing,       \* writes of each pointer between their Put and their push
  queued,        \* messages of each pointer pushed and not read
  held,          \* chunks of each pointer returned and not released
  readMode,      \* registered before the first read
  rewritten,     \* history: pointers whose last Write came while an earlier
                 \* message of theirs was unread or unreleased
  refused        \* history: pointers with a Write refused since the last Put

clientVars == <<writing, queued, held, readMode, rewritten, refused>>

vars == <<cache, ref, present, currentSize, clientVars>>

Init ==
  /\ cache = [p \in MediumPtrs |-> Absent]
  /\ ref = [p \in BigPtrs |-> 0] /\ present = {}
  /\ currentSize = 0
  /\ writing = [p \in Ptrs |-> 0]
  /\ queued = [p \in Ptrs |-> 0] /\ held = [p \in Ptrs |-> 0]
  /\ readMode \in ReadModes /\ rewritten = {} /\ refused = {}

Live(p) == writing[p] + queued[p] + held[p]

(* Write records the message before it tries to push it.  A client may     *)
(* write a slice again at any time.                                        *)
StartWrite(p) ==
  /\ Live(p) < MaxLive
  /\ writing' = [writing EXCEPT ![p] = @ + 1]
  /\ rewritten' = IF Live(p) > 0 THEN rewritten \cup {p} ELSE rewritten \ {p}
  /\ refused' = refused \ {p}

(* One of the two pushes of Write succeeds. *)
PushAccepted(p) ==
  /\ writing[p] > 0
  /\ writing' = [writing EXCEPT ![p] = @ - 1]
  /\ queued' = [queued EXCEPT ![p] = @ + 1]
  /\ UNCHANGED <<cache, ref, present, currentSize, held, readMode, rewritten, refused>>

(* Both fail and Write returns the error; what Put recorded stays. *)
PushRefused(p) ==
  /\ writing[p] > 0
  /\ writing' = [writing EXCEPT ![p] = @ - 1]
  /\ refused' = refused \cup {p}
  /\ UNCHANGED <<cache, ref, present, currentSize, queued, held, readMode, rewritten>>

(* A read hands the message over as a chunk. *)
Deliver(p) ==
  /\ queued[p] > 0
  /\ queued' = [queued EXCEPT ![p] = @ - 1]
  /\ held' = [held EXCEPT ![p] = @ + 1]

(* DataChunk.Release runs free once. *)
LetGo(p) == held[p] > 0 /\ held' = [held EXCEPT ![p] = @ - 1]

-----------------------------------------------------------------------------
(* MediumPool *)

(* Write of a medium message: Put with the time of the call. *)
WriteMedium(p) ==
  /\ StartWrite(p)
  /\ cache' = [cache EXCEPT ![p] = 0]
  /\ UNCHANGED <<ref, present, currentSize, queued, held, readMode>>

IsValid(p) == cache[p] # Absent /\ cache[p] < mediumPoolTTL

(* Both reads; safeRead asks IsValid, which decides only whether the chunk *)
(* is a copy.                                                              *)
ReadMedium(p) ==
  /\ Deliver(p)
  /\ UNCHANGED <<cache, ref, present, currentSize, writing, readMode, rewritten, refused>>

(* The chunk's Release: recycle after a safe read, a BigDataPool.Free that *)
(* finds no entry after a zero-copy one.                                   *)
ReleaseMedium(p) ==
  /\ LetGo(p)
  /\ cache' = IF readMode = "SafeRead" THEN [cache EXCEPT ![p] = Absent] ELSE cache
  /\ UNCHANGED <<ref, present, currentSize, writing, queued, readMode, rewritten, refused>>

(* One more than maxCleanCounts may go in one call, in the order of the map. *)
CleanLimit(n) == Min({n, MaxCleanCounts + 1})

(* Mutant: every entry is thought old. *)
CleanupMedium_All ==
  /\ LET old == {p \in MediumPtrs : cache[p] # Absent} IN
     /\ old # {}
     /\ \E S \in kSubset(CleanLimit(Cardinality(old)), old) :
          cache' = [p \in MediumPtrs |-> IF p \in S THEN Absent ELSE cache[p]]
  /\ UNCHANGED <<ref, present, currentSize, clientVars>>

CleanupMedium ==
  /\ LET old == {p \in MediumPtrs : cache[p] > CleanupAge} IN
     /\ old # {}
     /\ \E S \in kSubset(CleanLimit(Cardinality(old)), old) :
          cache' = [p \in MediumPtrs |-> IF p \in S THEN Absent ELSE cache[p]]
  /\ UNCHANGED <<ref, present, currentSize, clientVars>>

(* Time passes; ages beyond mediumPoolTTL are alike. *)
Pass ==
  /\ \E p \in MediumPtrs : cache[p] \in 0 .. mediumPoolTTL - 1
  /\ cache' = [p \in MediumPtrs |->
                 IF cache[p] \in 0 .. mediumPoolTTL - 1 THEN cache[p] + 1 ELSE cache[p]]
  /\ UNCHANGED <<ref, present, currentSize, clientVars>>

-----------------------------------------------------------------------------
(* BigDataPool *)

(* Write of a big message: Put makes a new entry over any old one. *)
WriteBig(p) ==
  /\ StartWrite(p)
  /\ currentSize < MaxSize
  /\ currentSize' = currentSize + 1
  /\ present' = present \cup {p}
  /\ ref' = [ref EXCEPT ![p] = 1]
  /\ UNCHANGED <<cache, queued, held, readMode>>

(* BigDataPool.Release *)
DropRef(p) == ref' = IF p \in present THEN [ref EXCEPT ![p] = @ - 1] ELSE ref

(* safeRead leaves the reference to the chunk, zeroCopyRead drops it. *)
ReadBig(p) ==
  /\ Deliver(p)
  /\ IF readMode = "SafeRead" THEN UNCHANGED ref ELSE DropRef(p)
  /\ UNCHANGED <<cache, present, currentSize, writing, readMode, rewritten, refused>>

(* Mutant: the entry is not deleted. *)
Free_Kept(p) ==
  /\ UNCHANGED present
  /\ ref' = [ref EXCEPT ![p] = 0]
  /\ currentSize' = IF p \in present THEN currentSize - 1 ELSE currentSize

Free(p) ==
  /\ present' = present \ {p}
  /\ ref' = [ref EXCEPT ![p] = 0]
  /\ currentSize' = IF p \in present THEN currentSize - 1 ELSE currentSize

(* The chunk's Release: recycle drops the reference after a safe read, a   *)
(* zero-copy chunk frees the entry.                                        *)
ReleaseBig(p) ==
  /\ LetGo(p)
  /\ IF readMode = "SafeRead"
       THEN DropRef(p) /\ UNCHANGED <<present, currentSize>>
       ELSE Free(p)
  /\ UNCHANGED <<cache, writing, queued, readMode, rewritten, refused>>

(* Mutant: entries still referenced are taken for useless. *)
CleanupBig_Referenced ==
  /\ present # {}
  /\ \E S \in kSubset(CleanLimit(Cardinality(present)), present) :
       /\ present' = present \ S
       /\ ref' = [p \in BigPtrs |-> IF p \in S THEN 0 ELSE ref[p]]
  /\ UNCHANGED <<cache, currentSize, clientVars>>

(* Mutant: a wrong test for the end of the references. *)
CleanupBig_Negative ==
  /\ LET useless == {p \in present : ref[p] < 0} IN
     /\ useless # {}
     /\ \E S \in kSubset(CleanLimit(Cardinality(useless)), useless) : present' = present \ S
  /\ UNCHANGED <<cache, ref, currentSize, clientVars>>

(* Entries without references go; currentSize stays as it is. *)
CleanupBig ==
  /\ LET useless == {p \in present : ref[p] = 0} IN
     /\ useless # {}
     /\ \E S \in kSubset(CleanLimit(Cardinality(useless)), useless) : present' = present \ S
  /\ UNCHANGED <<cache, ref, currentSize, clientVars>>

-----------------------------------------------------------------------------
Next ==
  \/ \E p \in MediumPtrs : WriteMedium(p) \/ ReadMedium(p) \/ ReleaseMedium(p)
  \/ \E p \in BigPtrs : WriteBig(p) \/ ReadBig(p) \/ ReleaseBig(p)
  \/ \E p \in Ptrs : PushAccepted(p) \/ PushRefused(p)
  \/ CleanupMedium \/ CleanupBig \/ Pass

(* The recycle worker ticks (until Close), and a range over a map starts   *)
(* anywhere, so no useless entry is passed over for ever, whatever the     *)
(* limit of one call.  Nobody has to write, read or release.               *)
Spec == Init /\ [][Next]_vars
          /\ \A p \in BigPtrs : WF_vars(CleanupBig /\ p \in present \ present')

-----------------------------------------------------------------------------
(* Messages that still need their entry: a zero-copy read gives it up. *)
InUse(p) ==
  writing[p] + queued[p] + (IF readMode = "SafeRead" THEN held[p] ELSE 0)

(* Unless a slice was written again before its message was released, the   *)
(* count of its entry is one as long as the message needs it and zero      *)
(* afterwards, so an entry in use is never cleaned up and one no longer    *)
(* used always can be; and a count stays at one without a use in a single  *)
(* case, that of a Write refused after its Put.                            *)
RefMatchesUse ==
  \A p \in BigPtrs \ rewritten :
    LET counted == InUse(p) > 0 \/ p \in refused IN
    /\ counted => p \in present /\ ref[p] = 1
    /\ ~counted /\ p \in present => ref[p] = 0

(* A released big message does not stay in the pool, unless it is written  *)
(* again: its entry is deleted even if its reader's Release did not do it. *)
(* The entry of a refused Write has no release.                            *)
BigReclaimed ==
  \A p \in BigPtrs :
    p \in present \ (rewritten \cup refused) /\ Live(p) = 0
      ~> p \notin present \/ Live(p) > 0

(* safeRead never copies a medium message younger than a minute: neither   *)
(* the cleanup nor time makes its entry invalid, only a release does.      *)
YoungStaysValid ==
  [][\A p \in MediumPtrs :
       cache[p] \in 0 .. CleanupAge /\ ~IsValid(p)' => held'[p] < held[p]]_vars

(* The pool never believes itself smaller than it is, in either mode and   *)
(* when slices are written again: every entry is paid for.                 *)
SizeCoversEntries == currentSize >= Cardinality(present)
=============================================================================
