-------------------------- MODULE LifeCycle_proofs --------------------------
(***************************************************************************)
(* Proofs about LifeCycle, for any pointers, sizes and limits.             *)
(***************************************************************************)
EXTENDS LifeCycle, FiniteSetTheorems, TLAPS

(* The type of every variable; ages stop at mediumPoolTTL. *)
TypeInv ==
  /\ cache \in [MediumPtrs -> -1 .. 4]
  /\ ref \in [BigPtrs -> Int]
  /\ present \subseteq BigPtrs
  /\ currentSize \in Int
  /\ writing \in [Ptrs -> Nat] /\ queued \in [Ptrs -> Nat] /\ held \in [Ptrs -> Nat]
  /\ readMode \in {"SafeRead", "ZeroCopyRead"}
  /\ rewritten \subseteq Ptrs /\ refused \subseteq Ptrs

(* A pointer whose last Write found no earlier message has one at most,    *)
(* and none once that Write was refused.                                   *)
OneLive ==
  \A p \in BigPtrs \ rewritten : Live(p) <= 1 /\ (p \in refused => Live(p) = 0)

(* The clean-ups take only what they found to be useless. *)
LEMMA kSubsetIsSubset ==
  ASSUME NEW T, NEW k, NEW S \in kSubset(k, T)
  PROVE  S \subseteq T
BY DEF kSubset

LEMMA TypeInvInit == Init => TypeInv
BY LifeCycleAssumption DEF Init, TypeInv, Ptrs, Absent

LEMMA TypeInvNext == TypeInv /\ [Next]_vars => TypeInv'
<1> SUFFICES ASSUME TypeInv, [Next]_vars PROVE TypeInv'
  OBVIOUS
<1> USE DEF TypeInv, Ptrs, clientVars
<1>1. ASSUME NEW p \in MediumPtrs, WriteMedium(p) PROVE TypeInv'
  BY <1>1 DEF WriteMedium, StartWrite, Live
<1>2. ASSUME NEW p \in MediumPtrs, ReadMedium(p) PROVE TypeInv'
  BY <1>2 DEF ReadMedium, Deliver
<1>3. ASSUME NEW p \in MediumPtrs, ReleaseMedium(p) PROVE TypeInv'
  BY <1>3 DEF ReleaseMedium, LetGo, Absent
<1>4. ASSUME NEW p \in BigPtrs, WriteBig(p) PROVE TypeInv'
  BY <1>4 DEF WriteBig, StartWrite, Live
<1>5. ASSUME NEW p \in BigPtrs, ReadBig(p) PROVE TypeInv'
  BY <1>5 DEF ReadBig, Deliver, DropRef
<1>6. ASSUME NEW p \in BigPtrs, ReleaseBig(p) PROVE TypeInv'
  BY <1>6 DEF ReleaseBig, LetGo, DropRef, Free
<1>7. CASE CleanupMedium
  <2>1. PICK S : cache' = [p \in MediumPtrs |-> IF p \in S THEN Absent ELSE cache[p]]
    BY <1>7 DEF CleanupMedium
  <2> QED BY <1>7, <2>1 DEF CleanupMedium, Absent
<1>8. CASE CleanupBig
  <2>1. PICK S : present' = present \ S
    BY <1>8 DEF CleanupBig
  <2> QED BY <1>8, <2>1 DEF CleanupBig
<1>9. CASE Pass
  BY <1>9 DEF Pass, mediumPoolTTL
<1>10. CASE UNCHANGED vars
  BY <1>10 DEF vars
<1>11. ASSUME NEW p \in Ptrs, PushAccepted(p) PROVE TypeInv'
  BY <1>11 DEF PushAccepted
<1>12. ASSUME NEW p \in Ptrs, PushRefused(p) PROVE TypeInv'
  BY <1>12 DEF PushRefused
<1> QED BY <1>1, <1>2, <1>3, <1>4, <1>5, <1>6, <1>7, <1>8, <1>9, <1>10, <1>11, <1>12
        DEF Next

(* A big message enters the pool with one reference, which exactly one of  *)
(* its read and its release drops, and a refused Write none.               *)
LEMMA RefMatchesUseStep ==
  TypeInv /\ OneLive /\ RefMatchesUse /\ [Next]_vars => OneLive' /\ RefMatchesUse'
<1> SUFFICES ASSUME TypeInv, OneLive, RefMatchesUse, [Next]_vars
             PROVE  OneLive' /\ RefMatchesUse'
  OBVIOUS
<1> USE DEF OneLive, RefMatchesUse, InUse, Live
<1>1. ASSUME NEW p \in MediumPtrs,
             \/ WriteMedium(p) \/ ReadMedium(p) \/ ReleaseMedium(p)
             \/ PushAccepted(p) \/ PushRefused(p)
      PROVE  OneLive' /\ RefMatchesUse'
  <2>1. /\ \A q \in BigPtrs : q # p /\ q \in Ptrs
        /\ p \in Ptrs
    BY LifeCycleAssumption DEF Ptrs
  <2>2. UNCHANGED <<ref, present, readMode>>
    BY <1>1 DEF WriteMedium, ReadMedium, ReleaseMedium, PushAccepted, PushRefused
  <2>3. \A q \in BigPtrs : /\ q \in rewritten' <=> q \in rewritten
                           /\ q \in refused' <=> q \in refused
                           /\ writing'[q] = writing[q]
                           /\ queued'[q] = queued[q] /\ held'[q] = held[q]
    BY <1>1, <2>1 DEF WriteMedium, ReadMedium, ReleaseMedium, PushAccepted, PushRefused,
       StartWrite, Deliver, LetGo, TypeInv
  <2> QED BY <2>2, <2>3
<1>2. ASSUME NEW p \in BigPtrs,
             \/ WriteBig(p) \/ ReadBig(p) \/ ReleaseBig(p)
             \/ PushAccepted(p) \/ PushRefused(p),
             NEW q \in BigPtrs \ rewritten'
      PROVE  /\ Live(q)' <= 1 /\ (q \in refused' => Live(q)' = 0)
             /\ (InUse(q) > 0 \/ q \in refused)' => q \in present' /\ ref'[q] = 1
             /\ ~(InUse(q) > 0 \/ q \in refused)' /\ q \in present' => ref'[q] = 0
  <2>1. /\ p \in Ptrs /\ q \in Ptrs
        /\ writing[p] \in Nat /\ queued[p] \in Nat /\ held[p] \in Nat
    BY DEF Ptrs, TypeInv
  <2>2. readMode' = readMode
    BY <1>2 DEF WriteBig, ReadBig, ReleaseBig, PushAccepted, PushRefused
  <2>3. CASE q # p
    <3>1. /\ q \notin rewritten /\ (q \in refused' <=> q \in refused)
          /\ writing'[q] = writing[q] /\ queued'[q] = queued[q] /\ held'[q] = held[q]
          /\ ref'[q] = ref[q] /\ (q \in present' <=> q \in present)
      BY <1>2, <2>1, <2>3 DEF WriteBig, ReadBig, ReleaseBig, PushAccepted, PushRefused,
         StartWrite, Deliver, LetGo, DropRef, Free, TypeInv
    <3> QED BY <2>2, <3>1
  <2>4. CASE q = p /\ WriteBig(p)
    <3>1. writing[p] = 0 /\ queued[p] = 0 /\ held[p] = 0
      BY <1>2, <2>1, <2>4 DEF WriteBig, StartWrite, TypeInv
    <3>2. /\ writing'[p] = 1 /\ queued'[p] = 0 /\ held'[p] = 0
          /\ ref'[p] = 1 /\ p \in present' /\ p \notin refused'
      BY <2>1, <2>4, <3>1 DEF WriteBig, StartWrite, TypeInv
    <3> QED BY <2>4, <3>2
  <2>5. ASSUME q = p, PushAccepted(p) \/ PushRefused(p) \/ ReadBig(p) \/ ReleaseBig(p)
        PROVE  /\ q \notin rewritten /\ p \notin refused
               /\ writing[p] + queued[p] + held[p] = 1
               /\ InUse(p) > 0 => p \in present /\ ref[p] = 1
               /\ InUse(p) = 0 /\ p \in present => ref[p] = 0
    <3>1. q \notin rewritten
      BY <1>2, <2>5 DEF PushAccepted, PushRefused, ReadBig, ReleaseBig
    <3>2. writing[p] > 0 \/ queued[p] > 0 \/ held[p] > 0
      BY <2>5 DEF PushAccepted, PushRefused, ReadBig, ReleaseBig, Deliver, LetGo
    <3>3. Live(p) <= 1 /\ (p \in refused => Live(p) = 0)
      BY <2>5, <3>1
    <3>4. p \notin refused /\ writing[p] + queued[p] + held[p] = 1
      BY <2>1, <3>2, <3>3
    <3>5. InUse(p) \in Nat
      BY <2>1
    <3> QED BY <2>5, <3>1, <3>4, <3>5
  <2>6. CASE q = p /\ PushAccepted(p)
    <3>1. writing[p] = 1 /\ queued[p] = 0 /\ held[p] = 0 /\ p \notin refused
      BY <2>1, <2>5, <2>6 DEF PushAccepted
    <3>2. /\ writing'[p] = 0 /\ queued'[p] = 1 /\ held'[p] = 0 /\ p \notin refused'
          /\ UNCHANGED <<present, ref>>
      BY <2>1, <2>6, <3>1 DEF PushAccepted, TypeInv
    <3>3. p \in present /\ ref[p] = 1
      BY <2>5, <2>6, <3>1
    <3> QED BY <2>2, <2>6, <3>2, <3>3
  <2>7. CASE q = p /\ PushRefused(p)
    <3>1. writing[p] = 1 /\ queued[p] = 0 /\ held[p] = 0
      BY <2>1, <2>5, <2>7 DEF PushRefused
    <3>2. /\ writing'[p] = 0 /\ queued'[p] = 0 /\ held'[p] = 0 /\ p \in refused'
          /\ UNCHANGED <<present, ref>>
      BY <2>1, <2>7, <3>1 DEF PushRefused, TypeInv
    <3>3. p \in present /\ ref[p] = 1
      BY <2>5, <2>7, <3>1
    <3> QED BY <2>2, <2>7, <3>2, <3>3
  <2>8. CASE q = p /\ ReadBig(p)
    <3>1. writing[p] = 0 /\ queued[p] = 1 /\ held[p] = 0 /\ p \notin refused
      BY <2>1, <2>5, <2>8 DEF ReadBig, Deliver
    <3>2. p \in present /\ ref[p] = 1
      BY <2>5, <2>8, <3>1
    <3>3. /\ writing'[p] = 0 /\ queued'[p] = 0 /\ held'[p] = 1
          /\ p \in present' /\ p \notin refused'
      BY <2>1, <2>8, <3>1, <3>2 DEF ReadBig, Deliver, TypeInv
    <3>4. ref'[p] = IF readMode = "SafeRead" THEN 1 ELSE 0
      BY <2>8, <3>2 DEF ReadBig, DropRef, TypeInv
    <3> QED BY <2>2, <2>8, <3>3, <3>4 DEF TypeInv
  <2>9. CASE q = p /\ ReleaseBig(p)
    <3>1. writing[p] = 0 /\ queued[p] = 0 /\ held[p] = 1 /\ p \notin refused
      BY <2>1, <2>5, <2>9 DEF ReleaseBig, LetGo
    <3>2. writing'[p] = 0 /\ queued'[p] = 0 /\ held'[p] = 0 /\ p \notin refused'
      BY <2>1, <2>9, <3>1 DEF ReleaseBig, LetGo, TypeInv
    <3>3. p \in present' => ref'[p] = 0
      <4>1. readMode = "SafeRead" => p \in present /\ ref[p] = 1
        BY <2>5, <2>9, <3>1
      <4> QED BY <2>9, <4>1 DEF ReleaseBig, DropRef, Free, TypeInv
    <3> QED BY <2>2, <2>9, <3>2, <3>3 DEF TypeInv
  <2> QED BY <1>2, <2>3, <2>4, <2>6, <2>7, <2>8, <2>9
<1>3. CASE CleanupMedium \/ Pass \/ UNCHANGED vars
  <2>1. UNCHANGED <<ref, present, writing, queued, held, readMode, rewritten, refused>>
    BY <1>3 DEF CleanupMedium, Pass, vars, clientVars
  <2> QED BY <2>1
<1>4. CASE CleanupBig
  <2>1. PICK S : S \subseteq {p \in present : ref[p] = 0} /\ present' = present \ S
    BY <1>4, kSubsetIsSubset DEF CleanupBig
  <2>2. UNCHANGED <<ref, writing, queued, held, readMode, rewritten, refused>>
    BY <1>4 DEF CleanupBig, clientVars
  <2> QED BY <2>1, <2>2
<1>5. CASE \E p \in BigPtrs : \/ WriteBig(p) \/ ReadBig(p) \/ ReleaseBig(p)
                              \/ PushAccepted(p) \/ PushRefused(p)
  BY <1>2, <1>5
<1> QED BY <1>1, <1>3, <1>4, <1>5 DEF Next, Ptrs

(* As long as a big message needs its entry, while it is written, in the   *)
(* queue or, after a safe read, in the hands of its reader,                *)
(* asyncRecycleWorker finds a reference; once nobody does, it finds none,  *)
(* but for a Write that was refused, whose reference nobody drops.         *)
THEOREM ReferencesAreExact == Spec => []RefMatchesUse
<1>1. Init => OneLive /\ RefMatchesUse
  BY LifeCycleAssumption DEF Init, OneLive, RefMatchesUse, Live, InUse, Ptrs
<1> QED BY <1>1, TypeInvInit, TypeInvNext, RefMatchesUseStep, PTL DEF Spec

(* Put pays for an entry, whether or not it replaces one; Free gives the   *)
(* price back only with an entry, and the clean-up never does.             *)
LEMMA SizeStep == TypeInv /\ SizeCoversEntries /\ [Next]_vars => SizeCoversEntries'
<1> SUFFICES ASSUME TypeInv, SizeCoversEntries, [Next]_vars
             PROVE  SizeCoversEntries'
  OBVIOUS
<1> USE DEF SizeCoversEntries
<1>1. IsFiniteSet(present)
  BY LifeCycleAssumption, FS_Subset DEF TypeInv
<1>2. Cardinality(present) \in Nat /\ currentSize \in Int
  BY <1>1, FS_CardinalityType DEF TypeInv
<1>3. ASSUME NEW p \in BigPtrs, WriteBig(p) PROVE SizeCoversEntries'
  BY <1>1, <1>2, <1>3, FS_AddElement DEF WriteBig
<1>4. ASSUME NEW p \in BigPtrs, ReleaseBig(p) PROVE SizeCoversEntries'
  BY <1>1, <1>2, <1>4, FS_RemoveElement DEF ReleaseBig, Free
<1>5. CASE CleanupBig
  <2>1. PICK S : present' = present \ S
    BY <1>5 DEF CleanupBig
  <2>2. Cardinality(present') <= Cardinality(present) /\ IsFiniteSet(present')
    BY <1>1, <2>1, FS_Subset
  <2>3. Cardinality(present') \in Nat /\ currentSize' = currentSize
    BY <1>5, <2>2, FS_CardinalityType DEF CleanupBig
  <2> QED BY <1>2, <2>2, <2>3
<1>6. ASSUME UNCHANGED <<present, currentSize>> PROVE SizeCoversEntries'
  BY <1>6
<1>7. CASE \/ \E p \in MediumPtrs : WriteMedium(p) \/ ReadMedium(p) \/ ReleaseMedium(p)
           \/ \E p \in Ptrs : PushAccepted(p) \/ PushRefused(p)
  BY <1>6, <1>7 DEF WriteMedium, ReadMedium, ReleaseMedium, PushAccepted, PushRefused
<1>8. CASE (\E p \in BigPtrs : ReadBig(p)) \/ CleanupMedium \/ Pass \/ UNCHANGED vars
  BY <1>6, <1>8 DEF ReadBig, CleanupMedium, Pass, vars
<1> QED BY <1>3, <1>4, <1>5, <1>7, <1>8 DEF Next

(* currentSize is never below the number of entries, in both read modes    *)
(* and when slices are written again.                                      *)
THEOREM EveryEntryIsPaidFor == Spec => []SizeCoversEntries
<1>1. Init => SizeCoversEntries
  BY FS_EmptySet DEF Init, SizeCoversEntries
<1> QED BY <1>1, TypeInvInit, TypeInvNext, SizeStep, PTL DEF Spec

(* An entry leaves the cache, or grows too old, only after CleanupAge, and *)
(* the limits of IsValid and cleanup leave no young entry between them.    *)
LEMMA YoungStep ==
  ASSUME TypeInv, Next, NEW p \in MediumPtrs, cache[p] \in 0 .. CleanupAge, ~IsValid(p)'
  PROVE  held'[p] < held[p]
<1> USE DEF IsValid, Absent, CleanupAge, mediumPoolTTL
<1>1. p \in Ptrs /\ cache[p] \in 0 .. 2 /\ held[p] \in Nat
  BY DEF TypeInv, Ptrs
<1>2. ASSUME cache' = cache PROVE FALSE
  BY <1>1, <1>2
<1>3. ASSUME NEW q \in MediumPtrs, WriteMedium(q) PROVE FALSE
  BY <1>1, <1>3 DEF WriteMedium, TypeInv
<1>4. ASSUME NEW q \in MediumPtrs, ReleaseMedium(q) PROVE held'[p] < held[p]
  <2>1. q = p
    BY <1>1, <1>2, <1>4 DEF ReleaseMedium, TypeInv
  <2> QED BY <1>1, <1>4, <2>1 DEF ReleaseMedium, LetGo, TypeInv
<1>5. ASSUME CleanupMedium PROVE FALSE
  <2>1. PICK S : /\ S \subseteq {q \in MediumPtrs : cache[q] > CleanupAge}
                 /\ cache' = [q \in MediumPtrs |-> IF q \in S THEN Absent ELSE cache[q]]
    BY <1>5, kSubsetIsSubset DEF CleanupMedium
  <2>2. p \notin S
    BY <1>1, <2>1
  <2>3. cache'[p] = cache[p]
    BY <2>1, <2>2
  <2> QED BY <1>1, <2>3
<1>6. ASSUME Pass PROVE FALSE
  <2>1. cache'[p] = cache[p] + 1
    BY <1>1, <1>6 DEF Pass
  <2> QED BY <1>1, <2>1
<1>7. ASSUME (\E q \in MediumPtrs : ReadMedium(q)) \/ CleanupBig PROVE FALSE
  BY <1>2, <1>7 DEF ReadMedium, CleanupBig
<1>8. ASSUME \/ \E q \in BigPtrs : WriteBig(q) \/ ReadBig(q) \/ ReleaseBig(q)
             \/ \E q \in Ptrs : PushAccepted(q) \/ PushRefused(q)
      PROVE  FALSE
  BY <1>2, <1>8 DEF WriteBig, ReadBig, ReleaseBig, PushAccepted, PushRefused
<1> QED BY <1>3, <1>4, <1>5, <1>6, <1>7, <1>8 DEF Next

(* The one step that invalidates a young medium message is its release. *)
THEOREM YoungEntriesSurvive == Spec => YoungStaysValid
<1>1. TypeInv /\ [Next]_vars =>
        [\A p \in MediumPtrs :
           cache[p] \in 0 .. CleanupAge /\ ~IsValid(p)' => held'[p] < held[p]]_vars
  BY YoungStep
<1> QED BY <1>1, TypeInvInit, TypeInvNext, PTL DEF Spec, YoungStaysValid
=============================================================================
