--------------------------- MODULE Monitor_proofs ---------------------------
(***************************************************************************)
(* Proofs about Monitor, for one owner and any number of starts,           *)
(* collections, tasks, workers and observers.                              *)
(***************************************************************************)
EXTENDS Monitor, FiniteSetTheorems, SequenceTheorems, TLAPS

N == Len(Tasks)

ColPcs   == {"unborn", "enter", "select", "submit", "wait", "notify", "gone"}
OwnerPcs == {"idle", "run", "cancel", "release", "wait"}
Waits    == {"unborn", "start", "blocked", "released", "done"}

(* A collection under way has a number, and a submission a task. *)
ColOK(c) ==
  /\ c.pc \in ColPcs
  /\ c.pc \in {"submit", "wait"} => c.round \in 1 .. MaxCollections
  /\ c.pc = "submit" => c.next \in 1 .. N

TaskType == [round : 1 .. MaxCollections, task : 1 .. N, pc : {"start", "store"},
             first : BOOLEAN, cur : Int]

(* The type of every variable the properties depend on, by what changes    *)
(* them; counts stay within their bounds.                                  *)
CallType ==
  /\ state \in BOOLEAN /\ stopTimedOut \in BOOLEAN
  /\ starts \in 0 .. MaxStarts /\ stops \in 0 .. MaxStarts
  /\ owner \in [Owners -> [pc : OwnerPcs, stop : Int]]
WaitType == wg \in Int /\ waiter \in [Stops -> Waits] /\ panicked \in BOOLEAN
ColsType ==
  /\ DOMAIN col = Collectors /\ col = [k \in Collectors |-> col[k]]
  /\ \A k \in Collectors : ColOK(col[k])
PoolType ==
  /\ poolOpen \in BOOLEAN /\ running \subseteq TaskType
  /\ left \in [1 .. MaxCollections -> Int] /\ collections \in 0 .. MaxCollections
DataType ==
  /\ metrics \in [1 .. N -> 0 .. MaxCollections]
  /\ meta \in [SuccessCount : Nat, ErrCount : Nat, LastCollectTime : BOOLEAN]
  /\ io \in Nat /\ prevIOCounters \in Int /\ reported \in Int
TypeInv == CallType /\ WaitType /\ ColsType /\ PoolType /\ DataType

-----------------------------------------------------------------------------
(* Start and Stop of the one owner, as long as no Stop gives up: the       *)
(* collector of the last Start is the only one, m.wg counts it, and no     *)
(* goroutine but that of the Stop under way waits for m.wg.                *)
StartStopInv ==
  ~stopTimedOut =>
    /\ ~panicked
    /\ Live \subseteq {starts}
    /\ wg = IF Live = {} THEN 0 ELSE 1
    /\ \A o \in Owners :
         /\ owner[o].pc = "run" => state /\ Live = {}
         /\ owner[o].pc = "idle" /\ ~state => Live = {}
         /\ owner[o].pc = "wait" =>
              /\ owner[o].stop = stops
              /\ stops \in Stops
              /\ waiter[stops] \in {"released", "done"} => Live = {}
         /\ owner[o].pc \in {"cancel", "release", "wait"} => ~state
    /\ \A s \in Stops :
         /\ s > stops => waiter[s] = "unborn"
         /\ waiter[s] \in {"start", "blocked", "released"} =>
              \E o \in Owners : owner[o].pc = "wait" /\ owner[o].stop = s

(* The pool is closed by the first Stop, before the second Start. *)
PoolInv ==
  /\ \A k \in Collectors : k > starts => col[k].pc = "unborn"
  /\ starts > 1 => ~poolOpen
  /\ \A o \in Owners :
       /\ owner[o].pc = "run" => state
       /\ owner[o].pc = "wait" => ~poolOpen
       /\ starts > 0 /\ owner[o].pc = "run" => ~poolOpen
       /\ starts > 0 /\ owner[o].pc = "idle" /\ ~state => ~poolOpen

(* The tasks whose reading in m.metrics is not of collection r. *)
Unread(r) == {i \in 1 .. N : metrics[i] # r}

Collecting(k) == col[k].pc \in {"submit", "wait"}

(* Until a collection times out: tasks run only for the collection that    *)
(* the first collector waits for, each once, and its WaitGroup counts      *)
(* exactly the readings that are missing.  Later collectors find the pool  *)
(* closed, so theirs counts all of them.                                   *)
RoundsInv ==
  /\ \A i \in 1 .. N : metrics[i] <= collections
  /\ \A k \in Collectors : Collecting(k) => col[k].round \in 1 .. collections
FirstInv(k) ==
  /\ Collecting(k) => left[col[k].round] = Cardinality(Unread(col[k].round))
  /\ col[k].pc = "submit" => \A i \in col[k].next .. N : metrics[i] # col[k].round
  /\ col[k].pc = "notify" => \A i \in 1 .. N : metrics[i] = col[k].round
LaterInv(k) ==
  /\ col[k].pc # "notify"
  /\ Collecting(k) => left[col[k].round] = N
  /\ Collecting(k) /\ Collecting(1) => col[k].round # col[1].round
RunningInv ==
  /\ \A x \in running :
       /\ 1 \in Collectors /\ Collecting(1) /\ x.round = col[1].round
       /\ metrics[x.task] # x.round
       /\ col[1].pc = "submit" => x.task < col[1].next
  /\ \A x, y \in running : x.task = y.task => x = y
CollectInv ==
  meta.ErrCount = 0 =>
    /\ ~mixed
    /\ RoundsInv
    /\ 1 \in Collectors => FirstInv(1)
    /\ \A k \in Collectors : k > 1 => LaterInv(k)
    /\ RunningInv

(* And the disk collector: a reading under way is newer than the counters  *)
(* kept, and nothing is reported during the first collection.              *)
DiskInv ==
  meta.ErrCount = 0 =>
    /\ prevIOCounters = Unknown \/ prevIOCounters \in 1 .. io
    /\ \A x \in running :
         x.pc = "store" =>
           /\ Tasks[x.task] = Disk
           /\ x.first <=> ~meta.LastCollectTime
           /\ x.cur = Unknown \/ (x.cur \in 1 .. io /\ prevIOCounters < x.cur)
    /\ reported \in Nat
    /\ ~meta.LastCollectTime => reported = 0
    /\ DiskReportedOnce

-----------------------------------------------------------------------------
LEMMA TasksFacts == N \in Nat /\ N > 0 /\ Tasks \in [1 .. N -> STRING]
BY MonitorAssumption, EmptySeq, LenProperties DEF N

LEMMA TypeInvInit == Init => TypeInv
<1> SUFFICES ASSUME Init PROVE TypeInv
  OBVIOUS
<1>1. \A k \in Collectors : ColOK(col[k])
  BY DEF Init, ColOK, Resting, At, ColPcs
<1>2. /\ waiter \in [Stops -> Waits] /\ owner \in [Owners -> [pc : OwnerPcs, stop : Int]]
      /\ DOMAIN col = Collectors /\ col = [k \in Collectors |-> col[k]]
  BY DEF Init, Waits, OwnerPcs
<1>3. /\ left \in [1 .. MaxCollections -> Int]
      /\ metrics \in [1 .. N -> 0 .. MaxCollections]
      /\ meta \in [SuccessCount : Nat, ErrCount : Nat, LastCollectTime : BOOLEAN]
      /\ running \subseteq TaskType
  BY MonitorAssumption DEF Init, N
<1>4. starts \in 0 .. MaxStarts /\ stops \in 0 .. MaxStarts /\ collections \in 0 .. MaxCollections
  BY MonitorAssumption DEF Init
<1>5. /\ state \in BOOLEAN /\ panicked \in BOOLEAN /\ stopTimedOut \in BOOLEAN
      /\ poolOpen \in BOOLEAN
  BY Zenon DEF Init
<1>6. wg \in Int /\ io \in Nat /\ prevIOCounters \in Int /\ reported \in Int
  BY DEF Init, Unknown
<1> QED BY <1>1, <1>2, <1>3, <1>4, <1>5, <1>6, Zenon
        DEF TypeInv, CallType, WaitType, ColsType, PoolType, DataType

(* The steps of a collector leave a record of a collector. *)
LEMMA ColSet ==
  ASSUME TypeInv, NEW k \in Collectors, NEW c, ColOK(c), col' = [col EXCEPT ![k] = c]
  PROVE  /\ DOMAIN col' = Collectors /\ col' = [j \in Collectors |-> col'[j]]
         /\ \A j \in Collectors : ColOK(col'[j])
         /\ \A j \in Collectors : col'[j] = IF j = k THEN c ELSE col[j]
<1>1. /\ DOMAIN col' = Collectors /\ col' = [j \in Collectors |-> col'[j]]
      /\ \A j \in Collectors : col'[j] = IF j = k THEN c ELSE col[j]
  BY DEF TypeInv, ColsType
<1> QED BY <1>1 DEF TypeInv, ColsType

(* Collector k moves, to one of the labels L. *)
ColMoved(k, L) ==
  /\ DOMAIN col' = Collectors /\ col' = [j \in Collectors |-> col'[j]]
  /\ \A j \in Collectors : ColOK(col'[j])
  /\ \A j \in Collectors : j # k => col'[j] = col[j]
  /\ col'[k].pc \in L

LEMMA RestingOK ==
  ASSUME NEW l \in {"enter", "gone"}
  PROVE  ColOK(Resting(l)) /\ Resting(l).pc = l /\ Resting(l).round = 0
BY DEF ColOK, Resting, At, ColPcs

LEMMA NotifyingOK ==
  ASSUME NEW r, NEW list
  PROVE  /\ ColOK(Notifying(r, list))
         /\ Notifying(r, list).pc \in {"enter", "notify"}
         /\ Notifying(r, list).pc = "notify" => Notifying(r, list).round = r
<1>1. CASE list = <<>>
  BY <1>1, RestingOK DEF Notifying
<1>2. CASE list # <<>>
  BY <1>2 DEF Notifying, ColOK, At, ColPcs
<1> QED BY <1>1, <1>2

LEMMA StartRunCol ==
  ASSUME TypeInv, NEW o \in Owners, StartRun(o)
  PROVE  starts + 1 \in Collectors /\ ColMoved(starts + 1, {"enter"})
<1>1. starts + 1 \in Collectors
  <2>1. starts < MaxStarts /\ starts \in 0 .. MaxStarts /\ MaxStarts \in Nat
    BY MonitorAssumption DEF StartRun, TypeInv, CallType
  <2> QED BY <2>1 DEF Collectors
<1>2. col' = [col EXCEPT ![starts + 1] = Resting("enter")]
  BY DEF StartRun
<1> QED BY <1>1, <1>2, RestingOK, ColSet DEF ColMoved

LEMMA EnterSelectCol ==
  ASSUME TypeInv, NEW k \in Collectors, EnterSelect(k)
  PROVE  ColMoved(k, {"select"})
<1> DEFINE c == At("select", ctx, 0, 0, <<>>)
<1>1. col' = [col EXCEPT ![k] = c]
  BY DEF EnterSelect
<1>2. ColOK(c) /\ c.pc = "select"
  BY DEF ColOK, At, ColPcs
<1> HIDE DEF c
<1> QED BY <1>1, <1>2, ColSet DEF ColMoved

LEMMA CtxDoneCol ==
  ASSUME TypeInv, NEW k \in Collectors, CtxDone(k)
  PROVE  ColMoved(k, {"gone"})
<1>1. col' = [col EXCEPT ![k] = Resting("gone")]
  BY DEF CtxDone, ColRests
<1> QED BY <1>1, RestingOK, ColSet DEF ColMoved

LEMMA TickCol ==
  ASSUME TypeInv, NEW k \in Collectors, Tick(k)
  PROVE  /\ ColMoved(k, {"submit"})
         /\ collections + 1 \in 1 .. MaxCollections
         /\ col'[k].round = collections + 1 /\ col'[k].next = 1
<1> DEFINE c == At("submit", 0, collections + 1, 1, <<>>)
<1>1. col' = [col EXCEPT ![k] = c] /\ collections + 1 \in 1 .. MaxCollections
  BY MonitorAssumption DEF Tick, TypeInv, PoolType
<1>2. ColOK(c) /\ c.pc = "submit" /\ c.round = collections + 1 /\ c.next = 1
  BY <1>1, TasksFacts DEF ColOK, At, ColPcs
<1> HIDE DEF c
<1> QED BY <1>1, <1>2, ColSet DEF ColMoved

LEMMA SubmitCol ==
  ASSUME TypeInv, NEW k \in Collectors, Submit(k)
  PROVE  /\ ColMoved(k, {"submit", "wait"})
         /\ col'[k].round = col[k].round
         /\ col'[k].pc = "submit" => col'[k].next = col[k].next + 1
         /\ col[k].next \in 1 .. N /\ col[k].round \in 1 .. MaxCollections
<1>1. ColOK(col[k]) /\ col[k].pc = "submit"
  BY DEF TypeInv, ColsType, Submit, ColAt
<1>2. col[k].round \in 1 .. MaxCollections /\ col[k].next \in 1 .. N
  BY <1>1 DEF ColOK
<1>3. CASE col[k].next < N
  <2> DEFINE c == At("submit", 0, col[k].round, col[k].next + 1, <<>>)
  <2>2. col' = [col EXCEPT ![k] = c]
    BY <1>3 DEF Submit, N
  <2>3. /\ ColOK(c) /\ c.pc = "submit" /\ c.round = col[k].round
        /\ c.next = col[k].next + 1
    BY <1>2, <1>3, TasksFacts DEF ColOK, At, ColPcs
  <2> HIDE DEF c
  <2> QED BY <1>2, <2>2, <2>3, ColSet DEF ColMoved
<1>4. CASE ~(col[k].next < N)
  <2> DEFINE c == At("wait", 0, col[k].round, 0, <<>>)
  <2>1. col' = [col EXCEPT ![k] = c]
    BY <1>4 DEF Submit, N
  <2>2. ColOK(c) /\ c.pc = "wait" /\ c.round = col[k].round
    BY <1>2 DEF ColOK, At, ColPcs
  <2> HIDE DEF c
  <2> QED BY <1>2, <2>1, <2>2, ColSet DEF ColMoved
<1> QED BY <1>3, <1>4

LEMMA CollectEndCol ==
  ASSUME TypeInv, NEW k \in Collectors,
         CollectDone(k) \/ CollectTimeout(k) \/ Update(k)
  PROVE  /\ ColMoved(k, {"enter", "notify"})
         /\ col'[k].pc = "notify" => col'[k].round = col[k].round
<1>1. CASE CollectDone(k)
  <2>1. col' = [col EXCEPT ![k] = Notifying(col[k].round, observers)]
    BY <1>1 DEF CollectDone
  <2> QED BY <2>1, NotifyingOK, ColSet DEF ColMoved
<1>2. CASE CollectTimeout(k)
  <2>1. col' = [col EXCEPT ![k] = Resting("enter")]
    BY <1>2 DEF CollectTimeout, ColRests
  <2> QED BY <2>1, RestingOK, ColSet DEF ColMoved
<1>3. CASE Update(k)
  <2>1. col' = [col EXCEPT ![k] = Notifying(col[k].round, Tail(col[k].list))]
    BY <1>3 DEF Update
  <2> QED BY <2>1, NotifyingOK, ColSet DEF ColMoved
<1> QED BY <1>1, <1>2, <1>3

-----------------------------------------------------------------------------
LEMMA SameTypes ==
  /\ CallType /\ UNCHANGED callVars => CallType'
  /\ WaitType /\ UNCHANGED waitVars => WaitType'
  /\ ColsType /\ UNCHANGED col => ColsType'
  /\ PoolType /\ UNCHANGED poolVars => PoolType'
  /\ DataType /\ UNCHANGED <<metrics, meta, diskVars>> => DataType'
<1>1. CallType /\ UNCHANGED callVars => CallType'
  BY Zenon DEF CallType, callVars
<1>2. WaitType /\ UNCHANGED waitVars => WaitType'
  BY Zenon DEF WaitType, waitVars
<1>3. ColsType /\ UNCHANGED col => ColsType'
  BY Zenon DEF ColsType
<1>4. PoolType /\ UNCHANGED poolVars => PoolType'
  BY Zenon DEF PoolType, poolVars
<1>5. DataType /\ UNCHANGED <<metrics, meta, diskVars>> => DataType'
  BY Zenon DEF DataType, diskVars
<1> QED BY <1>1, <1>2, <1>3, <1>4, <1>5

LEMMA TypeOwner ==
  ASSUME TypeInv, NEW o \in Owners, Start(o) \/ Stop(o) \/ OwnerStep(o)
  PROVE  TypeInv'
<1> USE SameTypes DEF TypeInv
<1>1. CallType /\ WaitType /\ ColsType /\ PoolType /\ DataType
  OBVIOUS
<1>2. owner[o] \in [pc : OwnerPcs, stop : Int] /\ starts \in Int /\ stops \in Int
  BY <1>1 DEF CallType
<1>3. CASE Start(o) \/ Stop(o)
  <2>1. CallType'
    BY <1>1, <1>2, <1>3 DEF Start, Stop, CallType, OwnerGoto, OwnerPcs
  <2> QED BY <1>1, <1>3, <2>1 DEF Start, Stop, dataVars
<1>4. CASE StartRun(o)
  <2>1. CallType'
    <3>1. starts + 1 \in 0 .. MaxStarts
      BY <1>1, <1>4, MonitorAssumption DEF CallType, StartRun
    <3> QED BY <1>1, <1>2, <1>4, <3>1 DEF StartRun, CallType, OwnerGoto, OwnerPcs
  <2>2. ColsType'
    BY <1>4, StartRunCol DEF ColMoved, ColsType
  <2>3. WaitType'
    BY <1>1, <1>4 DEF StartRun, WaitType
  <2> QED BY <1>1, <1>4, <2>1, <2>2, <2>3 DEF StartRun, dataVars
<1>5. CASE StopCancel(o) \/ StopDone(o) \/ StopTimeout(o)
  <2>1. CallType'
    <3>1. owner' \in [Owners -> [pc : OwnerPcs, stop : Int]]
      BY <1>1, <1>2, <1>5
         DEF StopCancel, StopDone, StopTimeout, CallType, OwnerGoto, OwnerPcs
    <3>2. stopTimedOut' \in BOOLEAN /\ UNCHANGED <<state, starts, stops>>
      BY <1>1, <1>5, Zenon DEF StopCancel, StopDone, StopTimeout, CallType
    <3> QED BY <1>1, <3>1, <3>2, Zenon DEF CallType
  <2> QED BY <1>1, <1>5, <2>1 DEF StopCancel, StopDone, StopTimeout, dataVars
<1>6. CASE StopRelease(o)
  <2>1. stops + 1 \in 0 .. MaxStarts /\ stops + 1 \in Stops
    BY <1>1, <1>6, MonitorAssumption DEF CallType, StopRelease, Stops
  <2>2. CallType'
    <3>1. [pc |-> "wait", stop |-> stops + 1] \in [pc : OwnerPcs, stop : Int]
      BY <1>2 DEF OwnerPcs
    <3> QED BY <1>1, <1>6, <2>1, <3>1 DEF StopRelease, CallType
  <2>3. WaitType'
    BY <1>1, <1>6, <2>1 DEF StopRelease, WaitType, Waits
  <2>4. PoolType'
    BY <1>1, <1>6 DEF StopRelease, PoolType
  <2> QED BY <1>1, <1>6, <2>2, <2>3, <2>4 DEF StopRelease, dataVars
<1> QED BY <1>3, <1>4, <1>5, <1>6 DEF OwnerStep

LEMMA MetaSet ==
  ASSUME NEW m \in [SuccessCount : Nat, ErrCount : Nat, LastCollectTime : BOOLEAN],
         NEW n \in Nat, NEW b \in BOOLEAN
  PROVE  /\ [m EXCEPT !.SuccessCount = n, !.LastCollectTime = b]
              \in [SuccessCount : Nat, ErrCount : Nat, LastCollectTime : BOOLEAN]
         /\ [m EXCEPT !.ErrCount = n, !.LastCollectTime = b]
              \in [SuccessCount : Nat, ErrCount : Nat, LastCollectTime : BOOLEAN]
OBVIOUS

LEMMA TypeCollector ==
  ASSUME TypeInv, NEW k \in Collectors, Tick(k) \/ CtxDone(k) \/ CollectStep(k)
  PROVE  TypeInv'
<1> USE SameTypes DEF TypeInv
<1>1. CallType /\ WaitType /\ ColsType /\ PoolType /\ DataType
  OBVIOUS
<1>2. CASE Tick(k)
  <2>1. ColsType' /\ collections + 1 \in 1 .. MaxCollections
    BY <1>2, TickCol DEF ColMoved, ColsType
  <2>2. PoolType'
    BY <1>1, <1>2, <2>1, TasksFacts DEF PoolType, Tick, N
  <2> QED BY <1>1, <1>2, <2>1, <2>2 DEF Tick, dataVars
<1>3. CASE CtxDone(k)
  <2>1. ColsType'
    BY <1>3, CtxDoneCol DEF ColMoved, ColsType
  <2>2. WaitType'
    BY <1>1, <1>3 DEF WaitType, CtxDone, Waits
  <2> QED BY <1>1, <1>3, <2>1, <2>2 DEF CtxDone, dataVars
<1>4. CASE EnterSelect(k)
  <2>1. ColsType'
    BY <1>4, EnterSelectCol DEF ColMoved, ColsType
  <2> QED BY <1>1, <1>4, <2>1 DEF EnterSelect, dataVars
<1>5. CASE Submit(k)
  <2>1. ColsType' /\ col[k].next \in 1 .. N /\ col[k].round \in 1 .. MaxCollections
    BY <1>5, SubmitCol DEF ColMoved, ColsType
  <2>2. NewTask(col[k].round, col[k].next) \in TaskType
    BY <2>1 DEF NewTask, TaskType, Unknown
  <2>3. PoolType'
    BY <1>1, <1>5, <2>2 DEF PoolType, Submit
  <2> QED BY <1>1, <1>5, <2>1, <2>3 DEF Submit, dataVars
<1>6. CASE CollectDone(k) \/ CollectTimeout(k) \/ Update(k)
  <2>1. ColsType'
    BY <1>6, CollectEndCol DEF ColMoved, ColsType
  <2>2. DataType'
    <3>1. meta' \in [SuccessCount : Nat, ErrCount : Nat, LastCollectTime : BOOLEAN]
      <4>1. CASE CollectDone(k)
        <5>1. meta' = [meta EXCEPT !.SuccessCount = meta.SuccessCount + 1,
                                   !.LastCollectTime = TRUE]
          BY <4>1, Zenon DEF CollectDone
        <5>2. meta.SuccessCount + 1 \in Nat /\ TRUE \in BOOLEAN
          BY <1>1 DEF DataType
        <5> QED BY <1>1, <5>1, <5>2, MetaSet, Zenon DEF DataType
      <4>2. CASE CollectTimeout(k)
        <5>1. meta' = [meta EXCEPT !.ErrCount = meta.ErrCount + 1,
                                   !.LastCollectTime = TRUE]
          BY <4>2, Zenon DEF CollectTimeout
        <5>2. meta.ErrCount + 1 \in Nat /\ TRUE \in BOOLEAN
          BY <1>1 DEF DataType
        <5> QED BY <1>1, <5>1, <5>2, MetaSet, Zenon DEF DataType
      <4>3. CASE Update(k)
        BY <1>1, <4>3 DEF DataType, Update
      <4> QED BY <1>6, <4>1, <4>2, <4>3
    <3>2. UNCHANGED <<metrics, diskVars>>
      BY <1>6 DEF CollectDone, CollectTimeout, Update
    <3> QED BY <1>1, <3>1, <3>2 DEF DataType, diskVars
  <2> QED BY <1>1, <1>6, <2>1, <2>2 DEF CollectDone, CollectTimeout, Update
<1> QED BY <1>2, <1>3, <1>4, <1>5, <1>6 DEF CollectStep

LEMMA TypeTask ==
  ASSUME TypeInv, NEW x \in running, TaskStep(x)
  PROVE  TypeInv'
<1> USE SameTypes DEF TypeInv
<1>1. CallType /\ WaitType /\ ColsType /\ PoolType /\ DataType /\ x \in TaskType
  BY DEF PoolType
<1>2. x.round \in 1 .. MaxCollections /\ x.task \in 1 .. N /\ x.cur \in Int
  BY <1>1 DEF TaskType
<1>3. ASSUME Finish(x), UNCHANGED io, reported' \in Int, prevIOCounters' \in Int
      PROVE  TypeInv'
  <2>1. PoolType'
    BY <1>1, <1>2, <1>3 DEF Finish, PoolType
  <2>2. DataType'
    BY <1>1, <1>2, <1>3 DEF Finish, DataType
  <2> QED BY <1>1, <1>3, <2>1, <2>2 DEF Finish
<1>4. CASE Collect(x)
  <2>1. UNCHANGED io /\ reported' \in Int /\ prevIOCounters' \in Int
    BY <1>1, <1>4 DEF Collect, diskVars, DataType
  <2> QED BY <1>3, <1>4, <2>1 DEF Collect
<1>5. CASE DiskRead(x)
  <2>1. PICK c \in {io + 1, Unknown} :
          running' = (running \ {x}) \cup
            {[x EXCEPT !.pc = "store", !.first = ~meta.LastCollectTime, !.cur = c]}
    BY <1>5 DEF DiskRead
  <2>2. c \in Int /\ (~meta.LastCollectTime) \in BOOLEAN
    BY <1>1 DEF DataType, Unknown
  <2>3. [x EXCEPT !.pc = "store", !.first = ~meta.LastCollectTime, !.cur = c] \in TaskType
    BY <1>1, <2>2 DEF TaskType
  <2>4. PoolType'
    BY <1>1, <1>5, <2>1, <2>3 DEF PoolType, DiskRead
  <2>5. DataType'
    BY <1>1, <1>5 DEF DataType, DiskRead, dataVars
  <2> QED BY <1>1, <1>5, <2>4, <2>5 DEF DiskRead
<1>6. CASE DiskStore(x)
  <2>1. PerDiskIO(x) \in Int
    BY <1>1, <1>2 DEF PerDiskIO, delta, DataType
  <2>2. UNCHANGED io /\ reported' \in Int /\ prevIOCounters' \in Int
    BY <1>1, <1>2, <1>6, <2>1 DEF DiskStore, DataType
  <2> QED BY <1>3, <1>6, <2>2 DEF DiskStore
<1> QED BY <1>4, <1>5, <1>6 DEF TaskStep

LEMMA TypeInvNext == TypeInv /\ [Next]_vars => TypeInv'
<1> SUFFICES ASSUME TypeInv, [Next]_vars PROVE TypeInv'
  OBVIOUS
<1> USE SameTypes DEF TypeInv
<1>1. CallType /\ WaitType /\ ColsType /\ PoolType /\ DataType
  OBVIOUS
<1>2. CASE CancelParent
  <2>1. CallType'
    BY <1>1, <1>2 DEF CancelParent, CallType
  <2> QED BY <1>1, <1>2, <2>1 DEF CancelParent, dataVars
<1>3. CASE \E s \in Stops : WaitEnter(s) \/ WaitReturn(s)
  <2>1. WaitType'
    BY <1>1, <1>3 DEF WaitEnter, WaitReturn, WaitType, Waits
  <2> QED BY <1>1, <1>3, <2>1 DEF WaitEnter, WaitReturn, dataVars
<1>4. CASE \E b \in Observers : Register(b) \/ Unregister(b)
  BY <1>1, <1>4 DEF Register, Unregister
<1>5. CASE UNCHANGED vars
  BY <1>1, <1>5 DEF vars, dataVars
<1> QED BY <1>2, <1>3, <1>4, <1>5, TypeOwner, TypeCollector, TypeTask DEF Next

-----------------------------------------------------------------------------
(* A live collector that moves on stays the live collector. *)
LEMMA LiveSame ==
  ASSUME NEW k \in Collectors, NEW L, ColMoved(k, L),
         L \cap {"unborn", "gone"} = {}, col[k].pc \notin {"unborn", "gone"}
  PROVE  Live' = Live
BY DEF ColMoved, Live

(* Steps that leave the calls, m.wg and the set of live collectors alone. *)
LEMMA StartStopSame ==
  ASSUME StartStopInv, Live' = Live,
         UNCHANGED <<state, starts, stops, owner, stopTimedOut, wg, waiter, panicked>>
  PROVE  StartStopInv'
BY DEF StartStopInv

LEMMA StartStopOwner ==
  ASSUME \A o, p \in Owners : o = p,
         TypeInv, StartStopInv, NEW o \in Owners, Start(o) \/ Stop(o) \/ OwnerStep(o)
  PROVE  StartStopInv'
<1> SUFFICES ASSUME ~stopTimedOut' PROVE StartStopInv'
  BY DEF StartStopInv
<1>1. ~stopTimedOut
  BY Zenon DEF Start, Stop, OwnerStep, StartRun, StopCancel, StopRelease, StopDone, StopTimeout
<1>2. /\ \A p \in Owners : p = o
      /\ starts \in 0 .. MaxStarts /\ stops \in 0 .. MaxStarts /\ MaxStarts \in Nat
      /\ owner \in [Owners -> [pc : OwnerPcs, stop : Int]]
      /\ waiter \in [Stops -> Waits]
  BY MonitorAssumption DEF TypeInv, CallType, WaitType
<1>3. ASSUME UNCHANGED <<col, waitVars, starts, stops>>, ~panicked,
             owner'[o].stop = owner[o].stop,
             owner'[o].pc \in {"run", "idle"} => (Live = {} \/ (owner'[o].pc = "idle" /\ state')),
             owner'[o].pc = "run" => state',
             owner'[o].pc \in {"cancel", "release"} => ~state',
             owner'[o].pc # "wait",
             owner[o].pc = "wait" => waiter[stops] \notin {"start", "blocked", "released"}
      PROVE  StartStopInv'
  <2>1. Live' = Live
    BY <1>3 DEF Live
  <2>2. \A s \in Stops : waiter[s] \notin {"start", "blocked", "released"}
    BY <1>1, <1>2, <1>3 DEF StartStopInv
  <2> QED BY <1>1, <1>2, <1>3, <2>1, <2>2 DEF StartStopInv, waitVars
<1>4. CASE Start(o)
  <2>1. /\ UNCHANGED <<col, waitVars, starts, stops>> /\ ~panicked
        /\ owner[o].pc = "idle" /\ ~state /\ state'
        /\ owner'[o].pc = "run" /\ owner'[o].stop = owner[o].stop
    BY <1>2, <1>4 DEF Start, OwnerAt, OwnerGoto
  <2>2. Live = {}
    BY <1>1, <2>1 DEF StartStopInv
  <2> QED BY <1>3, <2>1, <2>2
<1>5. CASE Stop(o)
  <2>1. /\ UNCHANGED <<col, waitVars, starts, stops>> /\ ~panicked
        /\ owner[o].pc = "idle" /\ ~state'
        /\ owner'[o].pc = "cancel" /\ owner'[o].stop = owner[o].stop
    BY <1>2, <1>5 DEF Stop, OwnerAt, OwnerGoto
  <2> QED BY <1>3, <2>1
<1>6. CASE StartRun(o)
  <2>1. /\ owner[o].pc = "run" /\ owner'[o].pc = "idle" /\ ~panicked
        /\ UNCHANGED <<state, stops, waiter, panicked>>
        /\ starts' = starts + 1 /\ wg' = wg + 1
    BY <1>2, <1>6 DEF StartRun, OwnerAt, OwnerGoto
  <2>2. state /\ Live = {} /\ wg = 0
    BY <1>1, <2>1 DEF StartStopInv
  <2>3. ColMoved(starts + 1, {"enter"}) /\ starts + 1 \in Collectors
    BY <1>6, StartRunCol
  <2>4. Live' = {starts + 1}
    BY <2>2, <2>3 DEF Live, ColMoved
  <2>5. \A s \in Stops : waiter[s] \notin {"start", "blocked", "released"}
    BY <1>1, <1>2, <2>1 DEF StartStopInv
  <2> QED BY <1>1, <1>2, <2>1, <2>2, <2>4, <2>5 DEF StartStopInv
<1>7. CASE StopCancel(o)
  <2>1. /\ UNCHANGED <<col, waitVars, starts, stops, state>> /\ ~panicked
        /\ owner[o].pc = "cancel"
        /\ owner'[o].pc = "release" /\ owner'[o].stop = owner[o].stop
    BY <1>2, <1>7 DEF StopCancel, OwnerAt, OwnerGoto
  <2>2. ~state'
    BY <1>1, <2>1 DEF StartStopInv
  <2> QED BY <1>3, <2>1, <2>2
<1>8. CASE StopRelease(o)
  <2>1. /\ UNCHANGED <<col, state, starts, wg, panicked>> /\ ~panicked
        /\ owner[o].pc = "release" /\ owner'[o].pc = "wait" /\ owner'[o].stop = stops + 1
        /\ stops < MaxStarts /\ stops' = stops + 1
        /\ waiter' = [waiter EXCEPT ![stops + 1] = "start"]
    BY <1>2, <1>8 DEF StopRelease, OwnerAt
  <2>2. stops + 1 \in Stops
    BY <1>2, <2>1 DEF Stops
  <2>3. Live' = Live
    BY <2>1 DEF Live
  <2>4. \A s \in Stops : waiter'[s] = IF s = stops + 1 THEN "start" ELSE waiter[s]
    BY <1>2, <2>1, <2>2
  <2>5. \A s \in Stops : waiter[s] \notin {"start", "blocked", "released"}
    BY <1>1, <1>2, <2>1 DEF StartStopInv
  <2>6. ~state
    BY <1>1, <2>1 DEF StartStopInv
  <2>7. \A s \in Stops : s > stops' => waiter'[s] = "unborn"
    BY <1>1, <1>2, <2>1, <2>4 DEF StartStopInv, Stops
  <2> QED BY <1>1, <1>2, <2>1, <2>2, <2>3, <2>4, <2>5, <2>6, <2>7 DEF StartStopInv
<1>9. CASE StopDone(o)
  <2>1. /\ UNCHANGED <<col, waitVars, starts, stops, state>> /\ ~panicked
        /\ owner[o].pc = "wait" /\ waiter[owner[o].stop] = "done"
        /\ owner'[o].pc = "idle" /\ owner'[o].stop = owner[o].stop
    BY <1>2, <1>9 DEF StopDone, OwnerAt, OwnerGoto
  <2>2. Live = {} /\ owner[o].stop = stops
    BY <1>1, <2>1 DEF StartStopInv
  <2> QED BY <1>3, <2>1, <2>2
<1>10. CASE StopTimeout(o)
  BY <1>10 DEF StopTimeout
<1> QED BY <1>4, <1>5, <1>6, <1>7, <1>8, <1>9, <1>10 DEF OwnerStep

LEMMA StartStopWait ==
  ASSUME TypeInv, StartStopInv, NEW s \in Stops, WaitEnter(s) \/ WaitReturn(s)
  PROVE  StartStopInv'
<1> SUFFICES ASSUME ~stopTimedOut PROVE StartStopInv'
  BY DEF StartStopInv, WaitEnter, WaitReturn, callVars
<1>1. /\ UNCHANGED <<state, starts, stops, owner, stopTimedOut, wg>> /\ Live' = Live
      /\ waiter \in [Stops -> Waits] /\ stops \in Int
  BY DEF WaitEnter, WaitReturn, callVars, Live, TypeInv, WaitType, CallType
<1>2. \E o \in Owners : owner[o].pc = "wait" /\ owner[o].stop = s
  BY DEF WaitEnter, WaitReturn, StartStopInv
<1>3. s = stops
  BY <1>2 DEF StartStopInv
<1>4. /\ ~panicked'
      /\ \/ waiter' = [waiter EXCEPT ![s] = "blocked"]
         \/ waiter' = [waiter EXCEPT ![s] = "done"] /\ Live = {}
  <2>1. CASE WaitEnter(s)
    <3>1. ~panicked'
      BY <2>1, Zenon DEF WaitEnter
    <3>2. waiter' = [waiter EXCEPT ![s] = IF wg = 0 THEN "done" ELSE "blocked"]
      BY <2>1, Zenon DEF WaitEnter
    <3>3. wg = 0 => Live = {}
      BY DEF StartStopInv
    <3> QED BY <3>1, <3>2, <3>3
  <2>2. CASE WaitReturn(s)
    <3>1. Live = {} /\ wg = 0
      BY <1>2, <1>3, <2>2 DEF WaitReturn, StartStopInv
    <3> QED BY <2>2, <3>1 DEF WaitReturn
  <2> QED BY <2>1, <2>2
<1> QED BY <1>1, <1>2, <1>3, <1>4 DEF StartStopInv

LEMMA StartStopCollector ==
  ASSUME TypeInv, StartStopInv, NEW k \in Collectors, Tick(k) \/ CtxDone(k) \/ CollectStep(k)
  PROVE  StartStopInv'
<1>1. CASE CtxDone(k)
  <2> SUFFICES ASSUME ~stopTimedOut PROVE StartStopInv'
    BY <1>1 DEF StartStopInv, CtxDone, callVars
  <2>1. /\ UNCHANGED <<state, starts, stops, owner, stopTimedOut, panicked>>
        /\ col[k].pc = "select" /\ wg' = wg - 1
        /\ waiter' = [s \in Stops |-> IF wg = 1 /\ waiter[s] = "blocked"
                                        THEN "released" ELSE waiter[s]]
    BY <1>1 DEF CtxDone, callVars, ColAt
  <2>2. Live = {starts} /\ k = starts /\ wg = 1
    BY <2>1 DEF StartStopInv, Live
  <2>3. Live' = {}
    BY <1>1, <2>2, CtxDoneCol DEF ColMoved, Live
  <2> QED BY <2>1, <2>2, <2>3 DEF StartStopInv
<1>2. CASE Tick(k) \/ CollectStep(k)
  <2>1. UNCHANGED <<callVars, waitVars>>
    BY <1>2, Zenon DEF Tick, CollectStep, EnterSelect, Submit, CollectDone, CollectTimeout, Update
  <2>2. col[k].pc \notin {"unborn", "gone"}
    BY <1>2 DEF Tick, CollectStep, EnterSelect, Submit, CollectDone, CollectTimeout, Update, ColAt
  <2>3. \E L : L \cap {"unborn", "gone"} = {} /\ ColMoved(k, L)
    <3>1. CASE Tick(k)
      BY <3>1, TickCol
    <3>2. CASE EnterSelect(k)
      BY <3>2, EnterSelectCol
    <3>3. CASE Submit(k)
      BY <3>3, SubmitCol
    <3>4. CASE CollectDone(k) \/ CollectTimeout(k) \/ Update(k)
      BY <3>4, CollectEndCol
    <3> QED BY <1>2, <3>1, <3>2, <3>3, <3>4 DEF CollectStep
  <2>4. Live' = Live
    BY <2>2, <2>3, LiveSame
  <2> QED BY <2>1, <2>4, StartStopSame DEF callVars, waitVars
<1> QED BY <1>1, <1>2

LEMMA StartStopNext ==
  ASSUME \A o, p \in Owners : o = p
  PROVE  TypeInv /\ StartStopInv /\ [Next]_vars => StartStopInv'
<1> SUFFICES ASSUME TypeInv, StartStopInv, [Next]_vars PROVE StartStopInv'
  OBVIOUS
<1>1. ASSUME UNCHANGED <<state, starts, stops, owner, stopTimedOut, wg, waiter, panicked, col>>
      PROVE  StartStopInv'
  BY <1>1, StartStopSame DEF Live
<1>2. CASE CancelParent
  BY <1>1, <1>2 DEF CancelParent, waitVars
<1>3. CASE \E x \in running : TaskStep(x)
  BY <1>1, <1>3 DEF TaskStep, Collect, DiskRead, DiskStore, Finish, callVars, waitVars
<1>4. CASE \E b \in Observers : Register(b) \/ Unregister(b)
  BY <1>1, <1>4 DEF Register, Unregister, callVars, waitVars
<1>5. CASE UNCHANGED vars
  BY <1>1, <1>5 DEF vars, callVars, waitVars
<1> QED BY <1>2, <1>3, <1>4, <1>5, StartStopOwner, StartStopWait, StartStopCollector DEF Next

LEMMA StartStopInit == Init => StartStopInv
<1> SUFFICES ASSUME Init PROVE StartStopInv
  OBVIOUS
<1>1. Live = {}
  BY DEF Init, Live, Resting, At
<1> QED BY <1>1 DEF Init, StartStopInv

(* With one owner, collectors overlap only after a Stop has given up       *)
(* waiting for one.                                                        *)
THEOREM CollectorsDoNotOverlap ==
  ASSUME \A o, p \in Owners : o = p
  PROVE  Spec => []OneCollector
<1>1. TypeInv /\ StartStopInv => OneCollector
  <2> SUFFICES ASSUME StartStopInv, ~stopTimedOut PROVE Cardinality(Live) <= 1
    BY DEF OneCollector
  <2>1. Live = {} \/ Live = {starts}
    BY DEF StartStopInv
  <2>2. Cardinality(Live) = 0 \/ Cardinality(Live) = 1
    BY <2>1, FS_EmptySet, FS_Singleton
  <2> QED BY <2>2
<1>2. TypeInv /\ StartStopInv /\ [Next]_vars => StartStopInv'
  BY StartStopNext
<1> QED BY <1>1, <1>2, TypeInvInit, TypeInvNext, StartStopInit, PTL DEF Spec

(* With one owner, m.wg is reused under a Wait, and the process ended by   *)
(* it, only after a Stop has given up.                                     *)
THEOREM NoReuseUnderWait ==
  ASSUME \A o, p \in Owners : o = p
  PROVE  Spec => []WaitGroupReused
<1>1. TypeInv /\ StartStopInv => WaitGroupReused
  BY DEF StartStopInv, WaitGroupReused
<1>2. TypeInv /\ StartStopInv /\ [Next]_vars => StartStopInv'
  BY StartStopNext
<1> QED BY <1>1, <1>2, TypeInvInit, TypeInvNext, StartStopInit, PTL DEF Spec

-----------------------------------------------------------------------------
LEMMA PoolOwner ==
  ASSUME \A o, p \in Owners : o = p,
         TypeInv, PoolInv, NEW o \in Owners, Start(o) \/ Stop(o) \/ OwnerStep(o)
  PROVE  PoolInv'
<1>1. /\ \A p \in Owners : p = o
      /\ owner \in [Owners -> [pc : OwnerPcs, stop : Int]] /\ starts \in Nat
  BY MonitorAssumption DEF TypeInv, CallType
<1>2. CASE Start(o) \/ Stop(o)
  <2>1. /\ UNCHANGED <<col, starts, poolOpen>>
        /\ owner[o].pc = "idle"
        /\ \/ owner'[o].pc = "run" /\ state' /\ ~state
           \/ owner'[o].pc = "cancel"
    BY <1>1, <1>2 DEF Start, Stop, OwnerAt, OwnerGoto, poolVars
  <2> QED BY <1>1, <2>1 DEF PoolInv
<1>3. CASE StartRun(o)
  <2>1. /\ UNCHANGED <<state, poolOpen>> /\ starts' = starts + 1
        /\ owner[o].pc = "run" /\ owner'[o].pc = "idle"
    BY <1>1, <1>3 DEF StartRun, OwnerAt, OwnerGoto, poolVars
  <2>2. \A k \in Collectors : k # starts + 1 => col'[k] = col[k]
    BY <1>3, StartRunCol DEF ColMoved
  <2>3. \A k \in Collectors : k > starts' => col'[k].pc = "unborn"
    BY <1>1, <2>1, <2>2 DEF PoolInv, Collectors
  <2> QED BY <1>1, <2>1, <2>3 DEF PoolInv
<1>4. CASE StopCancel(o)
  <2>1. UNCHANGED <<col, starts, poolOpen, state>> /\ owner'[o].pc = "release"
    BY <1>1, <1>4 DEF StopCancel, OwnerGoto, poolVars
  <2> QED BY <1>1, <2>1 DEF PoolInv
<1>5. CASE StopRelease(o)
  <2>1. UNCHANGED <<col, starts, state>> /\ ~poolOpen' /\ owner'[o].pc = "wait"
    BY <1>1, <1>5 DEF StopRelease
  <2> QED BY <1>1, <2>1 DEF PoolInv
<1>6. CASE StopDone(o) \/ StopTimeout(o)
  <2>1. /\ UNCHANGED <<col, starts, state, poolOpen>>
        /\ owner[o].pc = "wait" /\ owner'[o].pc = "idle"
    BY <1>1, <1>6 DEF StopDone, StopTimeout, OwnerAt, OwnerGoto, poolVars
  <2> QED BY <1>1, <2>1 DEF PoolInv
<1> QED BY <1>2, <1>3, <1>4, <1>5, <1>6 DEF OwnerStep

LEMMA PoolCollector ==
  ASSUME TypeInv, PoolInv, NEW k \in Collectors, Tick(k) \/ CtxDone(k) \/ CollectStep(k)
  PROVE  PoolInv'
<1>1. UNCHANGED callVars /\ UNCHANGED poolOpen
  BY Zenon DEF Tick, CtxDone, CollectStep, EnterSelect, Submit, CollectDone,
               CollectTimeout, Update, poolVars
<1>2. col[k].pc # "unborn"
  BY DEF Tick, CtxDone, CollectStep, EnterSelect, Submit, CollectDone,
         CollectTimeout, Update, ColAt
<1>3. \E L : ColMoved(k, L)
  BY TickCol, CtxDoneCol, EnterSelectCol, SubmitCol, CollectEndCol DEF CollectStep
<1>4. \A j \in Collectors : j # k => col'[j] = col[j]
  BY <1>3 DEF ColMoved
<1> QED BY <1>1, <1>2, <1>4 DEF PoolInv, callVars

LEMMA PoolNext ==
  ASSUME \A o, p \in Owners : o = p
  PROVE  TypeInv /\ PoolInv /\ [Next]_vars => PoolInv'
<1> SUFFICES ASSUME TypeInv, PoolInv, [Next]_vars PROVE PoolInv'
  OBVIOUS
<1>1. ASSUME UNCHANGED <<state, starts, owner, poolOpen, col>>
      PROVE  PoolInv'
  BY <1>1, Zenon DEF PoolInv
<1>2. CASE CancelParent
  BY <1>1, <1>2 DEF CancelParent, poolVars
<1>3. CASE \E s \in Stops : WaitEnter(s) \/ WaitReturn(s)
  BY <1>1, <1>3 DEF WaitEnter, WaitReturn, callVars, poolVars
<1>4. CASE \E x \in running : TaskStep(x)
  BY <1>1, <1>4 DEF TaskStep, Collect, DiskRead, DiskStore, Finish, callVars, poolVars
<1>5. CASE \E b \in Observers : Register(b) \/ Unregister(b)
  BY <1>1, <1>5 DEF Register, Unregister, callVars, poolVars
<1>6. CASE UNCHANGED vars
  BY <1>1, <1>6 DEF vars, callVars, poolVars
<1> QED BY <1>2, <1>3, <1>4, <1>5, <1>6, PoolOwner, PoolCollector DEF Next

LEMMA PoolInit == Init => PoolInv
BY DEF Init, PoolInv, Resting, At

-----------------------------------------------------------------------------
collectVars == <<meta, mixed, metrics, collections, left, running>>

LEMMA CollectSame ==
  ASSUME CollectInv, UNCHANGED <<collectVars, col>>
  PROVE  CollectInv'
BY Zenon DEF CollectInv, RoundsInv, FirstInv, LaterInv, RunningInv, Collecting, Unread,
             collectVars

(* A collector moves between two collections. *)
LEMMA CollectMoves ==
  ASSUME CollectInv, NEW k \in Collectors, ColMoved(k, {"enter", "select", "gone"}),
         col[k].pc \notin {"submit", "wait"}, UNCHANGED collectVars
  PROVE  CollectInv'
<1> SUFFICES ASSUME meta.ErrCount = 0
             PROVE  ~mixed' /\ RoundsInv' /\ (1 \in Collectors => FirstInv(1)')
                    /\ (\A j \in Collectors : j > 1 => LaterInv(j)') /\ RunningInv'
  BY DEF CollectInv, collectVars
<1>1. /\ \A j \in Collectors : j # k => col'[j] = col[j]
      /\ col'[k].pc \notin {"submit", "wait", "notify"}
      /\ UNCHANGED <<mixed, metrics, collections, left, running>>
  BY DEF ColMoved, collectVars
<1>2. ~mixed'
  BY <1>1 DEF CollectInv
<1>3. RoundsInv'
  BY <1>1 DEF CollectInv, RoundsInv, Collecting
<1>4. 1 \in Collectors => FirstInv(1)'
  BY <1>1 DEF CollectInv, FirstInv, Collecting, Unread
<1>5. ASSUME NEW j \in Collectors, j > 1 PROVE LaterInv(j)'
  <2>1. LaterInv(j) /\ 1 \in Collectors
    BY <1>5, MonitorAssumption DEF CollectInv, Collectors
  <2>2. (j = k \/ col'[j] = col[j]) /\ (1 = k \/ col'[1] = col[1])
    BY <1>1, <2>1
  <2> QED BY <1>1, <2>1, <2>2 DEF LaterInv, Collecting
<1>6. RunningInv'
  BY <1>1 DEF CollectInv, RunningInv, Collecting
<1> QED BY <1>2, <1>3, <1>4, <1>5, <1>6

LEMMA UnreadFinite ==
  ASSUME NEW r
  PROVE  IsFiniteSet(Unread(r)) /\ Cardinality(Unread(r)) \in Nat
<1>1. IsFiniteSet(1 .. N)
  BY TasksFacts, FS_Interval
<1>2. Unread(r) \subseteq 1 .. N
  BY DEF Unread
<1>3. IsFiniteSet(Unread(r))
  BY <1>1, <1>2, FS_Subset
<1> QED BY <1>3, FS_CardinalityType

LEMMA CollectTick ==
  ASSUME TypeInv, CollectInv, NEW k \in Collectors, Tick(k)
  PROVE  CollectInv'
<1> SUFFICES ASSUME meta.ErrCount = 0
             PROVE  ~mixed' /\ RoundsInv' /\ (1 \in Collectors => FirstInv(1)')
                    /\ (\A j \in Collectors : j > 1 => LaterInv(j)') /\ RunningInv'
  BY DEF CollectInv, Tick, dataVars
<1> DEFINE r == collections + 1
<1>1. /\ col[k].pc = "select" /\ UNCHANGED <<mixed, metrics, running>>
      /\ collections' = r /\ left' = [left EXCEPT ![r] = N]
  BY DEF Tick, ColAt, dataVars, N
<1>2. /\ \A j \in Collectors : j # k => col'[j] = col[j]
      /\ col'[k].pc = "submit" /\ col'[k].round = r /\ col'[k].next = 1
      /\ r \in 1 .. MaxCollections
  BY TickCol DEF ColMoved
<1>3. /\ collections \in Nat /\ left \in [1 .. MaxCollections -> Int]
      /\ metrics \in [1 .. N -> 0 .. MaxCollections]
  BY MonitorAssumption DEF TypeInv, PoolType, DataType
<1>4. left'[r] = N /\ \A q \in 1 .. collections : left'[q] = left[q]
  <2>1. \A q \in 1 .. collections : q \in 1 .. MaxCollections /\ q # r
    BY <1>2, <1>3, MonitorAssumption
  <2> QED BY <1>1, <1>2, <1>3, <2>1
<1>5. RoundsInv /\ RunningInv
  BY DEF CollectInv
<1> HIDE DEF r
<1>6. r \in Nat /\ r > collections /\ r >= 1
  BY <1>3 DEF r
<1>7. \A i \in 1 .. N : metrics[i] # r
  BY <1>3, <1>5, <1>6 DEF RoundsInv
<1>8. ~mixed'
  BY <1>1 DEF CollectInv
<1>9. RoundsInv'
  <2>1. \A i \in 1 .. N : metrics'[i] <= collections'
    BY <1>1, <1>3, <1>5, <1>6 DEF RoundsInv
  <2>2. \A j \in Collectors : Collecting(j)' => col'[j].round \in 1 .. collections'
    BY <1>1, <1>2, <1>3, <1>5, <1>6 DEF RoundsInv, Collecting
  <2> QED BY <2>1, <2>2 DEF RoundsInv
<1>10. ASSUME 1 \in Collectors PROVE FirstInv(1)'
  <2>1. CASE k = 1
    <3>1. {i \in 1 .. N : metrics'[i] # r} = 1 .. N
      BY <1>1, <1>7
    <3>2. Cardinality(1 .. N) = N
      BY TasksFacts, FS_Interval
    <3> QED BY <1>1, <1>2, <1>4, <1>7, <2>1, <3>1, <3>2 DEF FirstInv, Collecting, Unread
  <2>2. CASE k # 1
    <3>1. col'[1] = col[1] /\ FirstInv(1)
      BY <1>2, <1>10, <2>2 DEF CollectInv
    <3>2. Collecting(1) => left'[col[1].round] = left[col[1].round]
      BY <1>4, <1>5, <1>10 DEF RoundsInv
    <3> QED BY <1>1, <3>1, <3>2 DEF FirstInv, Collecting, Unread
  <2> QED BY <2>1, <2>2
<1>11. ASSUME NEW j \in Collectors, j > 1 PROVE LaterInv(j)'
  <2>1. LaterInv(j) /\ 1 \in Collectors
    BY <1>11, MonitorAssumption DEF CollectInv, Collectors
  <2>2. CASE k = j
    <3>1. col'[1] = col[1]
      BY <1>2, <1>11, <2>1, <2>2
    <3>2. Collecting(1) => col[1].round # r
      BY <1>3, <1>5, <1>6, <2>1 DEF RoundsInv
    <3> QED BY <1>2, <1>4, <2>2, <3>1, <3>2 DEF LaterInv, Collecting
  <2>3. CASE k # j
    <3>1. col'[j] = col[j]
      BY <1>2, <2>3
    <3>2. Collecting(j) => /\ left'[col[j].round] = left[col[j].round]
                           /\ col[j].round # r
      BY <1>3, <1>4, <1>5, <1>6 DEF RoundsInv
    <3>3. k = 1 \/ col'[1] = col[1]
      BY <1>2, <2>1
    <3> QED BY <1>2, <2>1, <3>1, <3>2, <3>3 DEF LaterInv, Collecting
  <2> QED BY <2>2, <2>3
<1>12. RunningInv'
  <2>1. \A x \in running : k # 1 /\ col'[1] = col[1]
    BY <1>1, <1>2, <1>5 DEF RunningInv, Collecting
  <2> QED BY <1>1, <1>5, <2>1 DEF RunningInv, Collecting
<1> QED BY <1>8, <1>9, <1>10, <1>11, <1>12

LEMMA CollectSubmit ==
  ASSUME TypeInv, PoolInv, CollectInv, NEW k \in Collectors, Submit(k)
  PROVE  CollectInv'
<1> SUFFICES ASSUME meta.ErrCount = 0
             PROVE  ~mixed' /\ RoundsInv' /\ (1 \in Collectors => FirstInv(1)')
                    /\ (\A j \in Collectors : j > 1 => LaterInv(j)') /\ RunningInv'
  BY DEF CollectInv, Submit, dataVars
<1>1. /\ col[k].pc = "submit" /\ UNCHANGED <<mixed, metrics, left, collections>>
      /\ running' \in {running, running \cup {NewTask(col[k].round, col[k].next)}}
      /\ ~poolOpen => running' = running
  BY DEF Submit, ColAt, dataVars
<1>2. /\ \A j \in Collectors : j # k => col'[j] = col[j]
      /\ col'[k].pc \in {"submit", "wait"} /\ col'[k].round = col[k].round
      /\ col'[k].pc = "submit" => col'[k].next = col[k].next + 1
      /\ col[k].next \in 1 .. N
  BY SubmitCol DEF ColMoved
<1>3. RoundsInv /\ RunningInv
  BY DEF CollectInv
<1>4. \A j \in Collectors : Collecting(j)' = Collecting(j) /\ col'[j].round = col[j].round
                            /\ (j # k => col'[j] = col[j])
  BY <1>1, <1>2 DEF Collecting
<1>5. ~mixed'
  BY <1>1 DEF CollectInv
<1>6. RoundsInv'
  BY <1>1, <1>3, <1>4 DEF RoundsInv
<1>7. ASSUME 1 \in Collectors PROVE FirstInv(1)'
  <2>1. FirstInv(1)
    BY <1>7 DEF CollectInv
  <2>2. CASE k = 1
    <3>1. /\ col'[1].round = col[1].round /\ Collecting(1) /\ col'[1].pc # "notify"
          /\ col'[1].pc = "submit" => \A i \in col'[1].next .. N : i \in col[1].next .. N
      BY <1>1, <1>2, <2>2, TasksFacts DEF Collecting
    <3> QED BY <1>1, <2>1, <2>2, <3>1 DEF FirstInv, Collecting, Unread
  <2>3. CASE k # 1
    BY <1>1, <1>2, <1>7, <2>1, <2>3 DEF FirstInv, Collecting, Unread
  <2> QED BY <2>2, <2>3
<1>8. ASSUME NEW j \in Collectors, j > 1 PROVE LaterInv(j)'
  <2>1. LaterInv(j) /\ 1 \in Collectors
    BY <1>8, MonitorAssumption DEF CollectInv, Collectors
  <2>2. col'[j].pc # "notify"
    BY <1>2, <2>1 DEF LaterInv
  <2> QED BY <1>1, <1>4, <2>1, <2>2 DEF LaterInv
<1>9. RunningInv'
  <2>1. CASE k = 1
    <3> DEFINE t == NewTask(col[1].round, col[1].next)
    <3>1. /\ t.round = col[1].round /\ t.task = col[1].next
      BY DEF NewTask
    <3>2. FirstInv(1)
      BY <2>1 DEF CollectInv
    <3>3. metrics[t.task] # t.round
      BY <1>1, <1>2, <2>1, <3>1, <3>2, TasksFacts DEF FirstInv
    <3>4. \A x \in running : x.task < col[1].next /\ x.task # t.task /\ x.round = col[1].round
                             /\ metrics[x.task] # x.round
      BY <1>1, <1>2, <1>3, <2>1, <3>1 DEF RunningInv
    <3>5. \A x \in running : x.task \in 1 .. N
      BY DEF TypeInv, PoolType, TaskType
    <3> HIDE DEF t
    <3>6. \A x \in running' : x \in running \/ x = t
      BY <1>1, <2>1 DEF t
    <3>7. \A x \in running' :
             /\ 1 \in Collectors /\ Collecting(1)' /\ x.round = col'[1].round
             /\ metrics'[x.task] # x.round
      BY <1>1, <1>2, <2>1, <3>1, <3>3, <3>4, <3>6 DEF Collecting
    <3>8. \A x \in running' : col'[1].pc = "submit" => x.task < col'[1].next
      BY <1>2, <2>1, <3>1, <3>4, <3>5, <3>6, TasksFacts
    <3>9. \A x, y \in running' : x.task = y.task => x = y
      BY <1>3, <3>4, <3>6 DEF RunningInv
    <3> QED BY <3>7, <3>8, <3>9 DEF RunningInv
  <2>2. CASE k # 1
    <3>1. k > 1 /\ k <= starts /\ starts \in Int
      BY <1>1, <2>2, MonitorAssumption DEF PoolInv, Collectors, TypeInv, CallType
    <3>2. ~poolOpen
      BY <3>1, MonitorAssumption DEF PoolInv, Collectors
    <3>3. running' = running
      BY <1>1, <3>2
    <3> QED BY <1>1, <1>2, <1>3, <2>2, <3>3 DEF RunningInv, Collecting
  <2> QED BY <2>1, <2>2
<1> QED BY <1>5, <1>6, <1>7, <1>8, <1>9

(* A collection that is done holds a reading of every task, and none runs; *)
(* only the first collector gets there.                                    *)
LEMMA CollectIsDone ==
  ASSUME TypeInv, CollectInv, NEW k \in Collectors, CollectDone(k), meta.ErrCount = 0
  PROVE  k = 1 /\ running = {} /\ \A i \in 1 .. N : metrics[i] = col[k].round
<1>1. col[k].pc = "wait" /\ left[col[k].round] = 0
  BY DEF CollectDone, ColAt
<1>2. k = 1
  <2>1. k > 1 => LaterInv(k)
    BY DEF CollectInv
  <2> QED BY <1>1, <2>1, TasksFacts, MonitorAssumption DEF LaterInv, Collecting, Collectors
<1>3. Cardinality(Unread(col[1].round)) = 0
  BY <1>1, <1>2 DEF CollectInv, FirstInv, Collecting
<1>4. Unread(col[1].round) = {}
  BY <1>3, UnreadFinite, FS_EmptySet
<1>5. \A i \in 1 .. N : metrics[i] = col[k].round
  BY <1>2, <1>4 DEF Unread
<1>6. \A x \in running : x.task \in 1 .. N
  BY DEF TypeInv, PoolType, TaskType
<1>7. running = {}
  BY <1>2, <1>5, <1>6 DEF CollectInv, RunningInv
<1> QED BY <1>2, <1>5, <1>7

LEMMA CollectEnds ==
  ASSUME TypeInv, CollectInv, NEW k \in Collectors,
         CollectDone(k) \/ CollectTimeout(k) \/ Update(k)
  PROVE  CollectInv'
<1>1. CASE CollectTimeout(k)
  <2>1. meta.ErrCount \in Nat /\ meta'.ErrCount = meta.ErrCount + 1
    BY <1>1 DEF TypeInv, DataType, CollectTimeout
  <2>2. meta'.ErrCount # 0
    BY <2>1
  <2> QED BY <2>2 DEF CollectInv
<1>2. CASE CollectDone(k) \/ Update(k)
  <2>1. meta'.ErrCount = meta.ErrCount
    BY <1>2 DEF CollectDone, Update, TypeInv, DataType
  <2> SUFFICES ASSUME meta.ErrCount = 0
               PROVE  ~mixed' /\ RoundsInv' /\ (1 \in Collectors => FirstInv(1)')
                      /\ (\A j \in Collectors : j > 1 => LaterInv(j)') /\ RunningInv'
    BY <2>1 DEF CollectInv
  <2>2. UNCHANGED <<metrics, left, collections, running>>
    BY <1>2, Zenon DEF CollectDone, Update, poolVars
  <2>3. /\ \A j \in Collectors : j # k => col'[j] = col[j]
        /\ col'[k].pc \in {"enter", "notify"}
        /\ col'[k].pc = "notify" => col'[k].round = col[k].round
    BY <1>2, CollectEndCol DEF ColMoved
  <2>4. RoundsInv /\ RunningInv /\ ~mixed
    BY DEF CollectInv
  <2>5. k = 1 /\ running = {} /\ \A i \in 1 .. N : metrics[i] = col[k].round
    <3>1. CASE CollectDone(k)
      BY <3>1, CollectIsDone
    <3>2. CASE Update(k)
      <4>1. col[k].pc = "notify"
        BY <3>2 DEF Update, ColAt
      <4>2. k = 1
        BY <4>1, MonitorAssumption DEF CollectInv, LaterInv, Collectors
      <4> QED BY <2>4, <4>1, <4>2 DEF CollectInv, FirstInv, RunningInv, Collecting
    <3> QED BY <1>2, <3>1, <3>2
  <2>6. ~mixed'
    <3>1. CASE CollectDone(k)
      BY <2>4, <3>1, Zenon DEF CollectDone
    <3>2. CASE Update(k)
      <4>1. DOMAIN metrics = 1 .. N
        BY DEF TypeInv, DataType
      <4>2. mixed' = (mixed \/ \E i \in DOMAIN metrics : metrics[i] # col[k].round)
        BY <3>2, Zenon DEF Update
      <4> QED BY <2>4, <2>5, <4>1, <4>2
    <3> QED BY <1>2, <3>1, <3>2
  <2>7. RoundsInv'
    BY <2>2, <2>3, <2>4 DEF RoundsInv, Collecting
  <2>8. FirstInv(1)'
    BY <2>2, <2>3, <2>5 DEF FirstInv, Collecting
  <2>9. \A j \in Collectors : j > 1 => LaterInv(j)'
    BY <2>2, <2>3, <2>5 DEF CollectInv, LaterInv, Collecting, Collectors
  <2>10. RunningInv'
    BY <2>2, <2>5 DEF RunningInv
  <2> QED BY <2>6, <2>7, <2>8, <2>9, <2>10
<1> QED BY <1>1, <1>2

LEMMA CollectFinish ==
  ASSUME TypeInv, CollectInv, NEW x \in running, Finish(x)
  PROVE  CollectInv'
<1> SUFFICES ASSUME meta.ErrCount = 0
             PROVE  ~mixed' /\ RoundsInv' /\ (1 \in Collectors => FirstInv(1)')
                    /\ (\A j \in Collectors : j > 1 => LaterInv(j)') /\ RunningInv'
  BY DEF CollectInv, Finish
<1> DEFINE r == x.round
           t == x.task
<1>1. /\ running' = running \ {x} /\ metrics' = [metrics EXCEPT ![t] = r]
      /\ left' = [left EXCEPT ![r] = left[r] - 1] /\ UNCHANGED <<mixed, collections, col>>
  BY DEF Finish
<1>2. /\ r \in 1 .. MaxCollections /\ t \in 1 .. N
      /\ \A y \in running : y.task \in 1 .. N
      /\ metrics \in [1 .. N -> 0 .. MaxCollections]
      /\ left \in [1 .. MaxCollections -> Int]
      /\ \A j \in Collectors : Collecting(j) => col[j].round \in 1 .. MaxCollections
  BY DEF TypeInv, PoolType, TaskType, DataType, ColsType, ColOK, Collecting
<1>3. /\ RoundsInv /\ RunningInv /\ ~mixed
      /\ 1 \in Collectors /\ Collecting(1) /\ r = col[1].round /\ metrics[t] # r
      /\ col[1].pc = "submit" => t < col[1].next
      /\ FirstInv(1)
  BY DEF CollectInv, RunningInv
<1> HIDE DEF r, t
<1>4. /\ \A i \in 1 .. N : metrics'[i] = IF i = t THEN r ELSE metrics[i]
      /\ \A q \in 1 .. MaxCollections : left'[q] = IF q = r THEN left[r] - 1 ELSE left[q]
  BY <1>1, <1>2
<1>5. ~mixed'
  BY <1>1, <1>3
<1>6. RoundsInv'
  <2>1. r <= collections
    BY <1>3 DEF RoundsInv
  <2> QED BY <1>1, <1>3, <1>4, <2>1 DEF RoundsInv, Collecting
<1>7. FirstInv(1)'
  <2>1. Unread(r)' = Unread(r) \ {t}
    BY <1>2, <1>4 DEF Unread
  <2>2. t \in Unread(r)
    BY <1>2, <1>3 DEF Unread
  <2>3. Cardinality(Unread(r)') = Cardinality(Unread(r)) - 1
    BY <2>1, <2>2, UnreadFinite, FS_RemoveElement
  <2>4. left'[r] = Cardinality(Unread(r)')
    BY <1>2, <1>3, <1>4, <2>3 DEF FirstInv
  <2>5. col[1].pc = "submit" => \A i \in col[1].next .. N : metrics'[i] # r
    <3> SUFFICES ASSUME col[1].pc = "submit", NEW i \in col[1].next .. N
                 PROVE  metrics'[i] # r
      OBVIOUS
    <3>1. col[1].next \in 1 .. N
      BY <1>3 DEF TypeInv, ColsType, ColOK
    <3>2. i \in 1 .. N /\ i # t
      BY <1>2, <1>3, <3>1, TasksFacts
    <3> QED BY <1>3, <1>4, <3>2 DEF FirstInv
  <2>6. col[1].pc # "notify"
    BY <1>3 DEF Collecting
  <2> QED BY <1>1, <1>3, <2>4, <2>5, <2>6 DEF FirstInv, Collecting, Unread
<1>8. ASSUME NEW j \in Collectors, j > 1 PROVE LaterInv(j)'
  <2>1. LaterInv(j)
    BY <1>8 DEF CollectInv
  <2>2. Collecting(j) => col[j].round # r /\ col[j].round \in 1 .. MaxCollections
    BY <1>2, <1>3, <2>1 DEF LaterInv
  <2> QED BY <1>1, <1>4, <2>1, <2>2 DEF LaterInv, Collecting
<1>9. RunningInv'
  <2>1. \A y \in running' : y \in running /\ y.task # t
    BY <1>1, <1>3 DEF RunningInv, t
  <2>2. \A y \in running' : metrics'[y.task] = metrics[y.task]
    BY <1>2, <1>4, <2>1
  <2> QED BY <1>1, <1>3, <2>1, <2>2 DEF RunningInv, Collecting
<1> QED BY <1>5, <1>6, <1>7, <1>8, <1>9

LEMMA CollectDisk ==
  ASSUME TypeInv, CollectInv, NEW x \in running, DiskRead(x)
  PROVE  CollectInv'
<1> SUFFICES ASSUME meta.ErrCount = 0
             PROVE  ~mixed' /\ RoundsInv' /\ (1 \in Collectors => FirstInv(1)')
                    /\ (\A j \in Collectors : j > 1 => LaterInv(j)') /\ RunningInv'
  BY DEF CollectInv, DiskRead, dataVars
<1>1. UNCHANGED <<mixed, metrics, left, collections, col>>
  BY DEF DiskRead, dataVars
<1>2. PICK y : running' = (running \ {x}) \cup {y} /\ y.round = x.round /\ y.task = x.task
  <2>1. PICK c \in {io + 1, Unknown} :
          running' = (running \ {x}) \cup
            {[x EXCEPT !.pc = "store", !.first = ~meta.LastCollectTime, !.cur = c]}
    BY DEF DiskRead
  <2> DEFINE y == [x EXCEPT !.pc = "store", !.first = ~meta.LastCollectTime, !.cur = c]
  <2>2. y.round = x.round /\ y.task = x.task
    BY DEF TypeInv, PoolType, TaskType
  <2>3. running' = (running \ {x}) \cup {y}
    BY <2>1
  <2> HIDE DEF y
  <2> QED BY <2>2, <2>3
<1>3. RunningInv'
  BY <1>1, <1>2 DEF CollectInv, RunningInv, Collecting
<1>4. ~mixed' /\ RoundsInv' /\ (1 \in Collectors => FirstInv(1)')
      /\ (\A j \in Collectors : j > 1 => LaterInv(j)')
  BY <1>1, Zenon DEF CollectInv, RoundsInv, FirstInv, LaterInv, Collecting, Unread
<1> QED BY <1>3, <1>4

LEMMA CollectNext == TypeInv /\ PoolInv /\ CollectInv /\ [Next]_vars => CollectInv'
<1> SUFFICES ASSUME TypeInv, PoolInv, CollectInv, [Next]_vars PROVE CollectInv'
  OBVIOUS
<1>1. CASE \E o \in Owners : Start(o) \/ Stop(o) \/ OwnerStep(o)
  <2>1. PICK o \in Owners : Start(o) \/ Stop(o) \/ OwnerStep(o)
    BY <1>1
  <2>2. CASE StartRun(o)
    <3>1. starts + 1 \in Collectors /\ ColMoved(starts + 1, {"enter"})
      BY <2>2, StartRunCol
    <3>2. col[starts + 1].pc = "unborn"
      BY <3>1 DEF PoolInv, TypeInv, CallType
    <3>3. ColMoved(starts + 1, {"enter", "select", "gone"}) /\ UNCHANGED collectVars
      BY <2>2, <3>1 DEF ColMoved, StartRun, collectVars, poolVars, dataVars
    <3> QED BY <3>1, <3>2, <3>3, CollectMoves
  <2>3. CASE ~StartRun(o)
    BY <2>1, <2>3, CollectSame
       DEF Start, Stop, OwnerStep, StopCancel, StopRelease, StopDone, StopTimeout,
           collectVars, poolVars, dataVars
  <2> QED BY <2>2, <2>3
<1>2. CASE CancelParent
  BY <1>2, CollectSame DEF CancelParent, collectVars, poolVars, dataVars
<1>3. CASE \E s \in Stops : WaitEnter(s) \/ WaitReturn(s)
  BY <1>3, CollectSame DEF WaitEnter, WaitReturn, collectVars, poolVars, dataVars
<1>4. ASSUME NEW k \in Collectors, Tick(k) \/ CtxDone(k) \/ CollectStep(k)
      PROVE  CollectInv'
  <2>1. CASE CtxDone(k) \/ EnterSelect(k)
    <3>1. ColMoved(k, {"enter", "select", "gone"})
      BY <2>1, CtxDoneCol, EnterSelectCol DEF ColMoved
    <3>2. col[k].pc \notin {"submit", "wait"} /\ UNCHANGED collectVars
      BY <2>1 DEF CtxDone, EnterSelect, ColAt, collectVars, poolVars, dataVars
    <3> QED BY <3>1, <3>2, CollectMoves
  <2> QED BY <1>4, <2>1, CollectTick, CollectSubmit, CollectEnds DEF CollectStep
<1>5. CASE \E x \in running : TaskStep(x)
  BY <1>5, CollectFinish, CollectDisk DEF TaskStep, Collect, DiskStore
<1>6. CASE \E b \in Observers : Register(b) \/ Unregister(b)
  BY <1>6, CollectSame DEF Register, Unregister, collectVars, poolVars
<1>7. CASE UNCHANGED vars
  BY <1>7, CollectSame DEF vars, collectVars, poolVars, dataVars
<1> QED BY <1>1, <1>2, <1>3, <1>4, <1>5, <1>6, <1>7 DEF Next

LEMMA CollectInit == Init => CollectInv
<1> SUFFICES ASSUME Init PROVE CollectInv
  OBVIOUS
<1>1. ~mixed /\ running = {} /\ collections = 0
  BY Zenon DEF Init
<1>2. \A k \in Collectors : col[k].pc = "unborn"
  BY DEF Init, Resting, At
<1>3. \A i \in 1 .. N : metrics[i] <= collections
  BY DEF Init, N
<1> QED BY <1>1, <1>2, <1>3
        DEF CollectInv, RoundsInv, FirstInv, LaterInv, RunningInv, Collecting

(* With one owner, an observer is given readings of two collections only   *)
(* after a collection has timed out.                                       *)
THEOREM UpdatesAreCoherent ==
  ASSUME \A o, p \in Owners : o = p
  PROVE  Spec => []CoherentUpdates
<1>1. TypeInv /\ CollectInv => CoherentUpdates
  <2> SUFFICES ASSUME TypeInv, CollectInv, mixed PROVE meta.ErrCount > 0
    BY DEF CoherentUpdates
  <2>1. meta.ErrCount \in Nat
    BY DEF TypeInv, DataType
  <2>2. meta.ErrCount # 0
    BY DEF CollectInv
  <2> QED BY <2>1, <2>2
<1>2. TypeInv /\ PoolInv /\ [Next]_vars => PoolInv'
  BY PoolNext
<1> QED BY <1>1, <1>2, TypeInvInit, TypeInvNext, PoolInit, CollectInit, CollectNext, PTL
        DEF Spec

-----------------------------------------------------------------------------
LEMMA DiskSame ==
  ASSUME DiskInv, UNCHANGED <<meta, diskVars>>,
         \A x \in running' : x \in running \/ x.pc = "start"
  PROVE  DiskInv'
BY DEF DiskInv, DiskReportedOnce, diskVars

(* There is one disk reading at a time. *)
LEMMA OneDiskTask ==
  ASSUME TypeInv, CollectInv, meta.ErrCount = 0,
         NEW x \in running, NEW y \in running, Tasks[x.task] = Disk, Tasks[y.task] = Disk
  PROVE  x = y
<1>1. x.task \in 1 .. Len(Tasks) /\ y.task \in 1 .. Len(Tasks)
  BY DEF TypeInv, PoolType, TaskType, N
<1>2. x.task = y.task
  BY <1>1, MonitorAssumption
<1> QED BY <1>2 DEF CollectInv, RunningInv

LEMMA DiskTask ==
  ASSUME TypeInv, CollectInv, DiskInv, NEW x \in running, TaskStep(x)
  PROVE  DiskInv'
<1>1. CASE Collect(x)
  BY <1>1, DiskSame DEF Collect, Finish
<1>2. UNCHANGED meta
  BY Zenon DEF TaskStep, Collect, DiskRead, DiskStore, Finish, dataVars
<1> SUFFICES ASSUME meta.ErrCount = 0, DiskRead(x) \/ DiskStore(x) PROVE DiskInv'
  BY <1>1, <1>2 DEF DiskInv, TaskStep
<1>3. /\ io \in Nat /\ prevIOCounters \in Int /\ reported \in Int /\ x \in TaskType
      /\ x.cur \in Int
  BY DEF TypeInv, DataType, PoolType, TaskType
<1>4. Tasks[x.task] = Disk
  BY DEF DiskRead, DiskStore, DiskInv, TaskAt
<1>5. \A y \in running : y.pc = "store" => y = x
  BY <1>4, OneDiskTask DEF DiskInv
<1>6. CASE DiskRead(x)
  <2>1. PICK c \in {io + 1, Unknown} :
          running' = (running \ {x}) \cup
            {[x EXCEPT !.pc = "store", !.first = ~meta.LastCollectTime, !.cur = c]}
    BY <1>6 DEF DiskRead
  <2> DEFINE y == [x EXCEPT !.pc = "store", !.first = ~meta.LastCollectTime, !.cur = c]
  <2>2. y.task = x.task /\ y.cur = c
    BY <1>3 DEF TaskType
  <2>3. y.first = ~meta.LastCollectTime
    BY <1>3, Zenon DEF TaskType
  <2>4. \A z \in running' : z.pc = "store" => z = y
    BY <1>5, <2>1
  <2> HIDE DEF y
  <2>5. UNCHANGED <<meta, prevIOCounters, reported>> /\ io' = io + 1
    BY <1>6 DEF DiskRead, dataVars
  <2>6. c = Unknown \/ (c \in 1 .. io' /\ prevIOCounters' < c)
    BY <1>3, <2>5 DEF DiskInv, Unknown
  <2>7. prevIOCounters' = Unknown \/ prevIOCounters' \in 1 .. io'
    BY <1>3, <2>5 DEF DiskInv, Unknown
  <2>8. \A z \in running' : z.pc = "store" =>
           /\ Tasks[z.task] = Disk
           /\ z.first <=> ~meta'.LastCollectTime
           /\ z.cur = Unknown \/ (z.cur \in 1 .. io' /\ prevIOCounters' < z.cur)
    BY <1>4, <2>2, <2>3, <2>4, <2>5, <2>6
  <2> QED BY <2>5, <2>7, <2>8 DEF DiskInv, DiskReportedOnce
<1>7. CASE DiskStore(x)
  <2>1. /\ reported' = reported + PerDiskIO(x) /\ UNCHANGED io
        /\ prevIOCounters' = IF x.first \/ x.cur # Unknown THEN x.cur ELSE prevIOCounters
        /\ x.pc = "store" /\ running' = running \ {x}
    BY <1>7 DEF DiskStore, Finish, TaskAt
  <2>2. /\ x.first <=> ~meta.LastCollectTime
        /\ x.cur = Unknown \/ (x.cur \in 1 .. io /\ prevIOCounters < x.cur)
        /\ prevIOCounters = Unknown \/ prevIOCounters \in 1 .. io
        /\ reported \in Nat
        /\ ~meta.LastCollectTime => reported = 0
        /\ reported > 0 => reported < prevIOCounters
    BY <2>1 DEF DiskInv, DiskReportedOnce
  <2>3. \A z \in running' : z.pc # "store"
    BY <1>5, <2>1
  <2>4. prevIOCounters' = Unknown \/ prevIOCounters' \in 1 .. io'
    BY <2>1, <2>2
  <2>5. /\ reported' \in Nat
        /\ reported' > 0 => reported' < prevIOCounters'
        /\ x.first => reported' = reported
    <3>1. CASE x.first \/ x.cur = Unknown \/ prevIOCounters = Unknown
      <4>1. reported' = reported
        BY <1>3, <2>1, <3>1 DEF PerDiskIO
      <4> QED BY <1>3, <2>1, <2>2, <3>1, <4>1 DEF Unknown
    <3>2. CASE ~(x.first \/ x.cur = Unknown \/ prevIOCounters = Unknown)
      BY <1>3, <2>1, <2>2, <3>2 DEF PerDiskIO, delta
    <3> QED BY <3>1, <3>2
  <2> QED BY <1>2, <2>2, <2>3, <2>4, <2>5 DEF DiskInv, DiskReportedOnce
<1> QED BY <1>6, <1>7

LEMMA DiskNext == TypeInv /\ CollectInv /\ DiskInv /\ [Next]_vars => DiskInv'
<1> SUFFICES ASSUME TypeInv, CollectInv, DiskInv, [Next]_vars PROVE DiskInv'
  OBVIOUS
<1>1. ASSUME UNCHANGED <<meta, diskVars, running>> PROVE DiskInv'
  BY <1>1, DiskSame
<1>2. CASE \E o \in Owners : Start(o) \/ Stop(o) \/ OwnerStep(o)
  BY <1>1, <1>2
     DEF Start, Stop, OwnerStep, StartRun, StopCancel, StopRelease, StopDone, StopTimeout,
         poolVars, dataVars
<1>3. CASE CancelParent
  BY <1>1, <1>3 DEF CancelParent, poolVars, dataVars
<1>4. CASE \E s \in Stops : WaitEnter(s) \/ WaitReturn(s)
  BY <1>1, <1>4 DEF WaitEnter, WaitReturn, poolVars, dataVars
<1>5. ASSUME NEW k \in Collectors, Tick(k) \/ CtxDone(k) \/ CollectStep(k)
      PROVE  DiskInv'
  <2>1. CASE Tick(k) \/ CtxDone(k) \/ EnterSelect(k) \/ Update(k)
    BY <1>1, <2>1 DEF Tick, CtxDone, EnterSelect, Update, poolVars, dataVars
  <2>2. CASE Submit(k)
    <3>1. \A x \in running' : x \in running \/ x.pc = "start"
      BY <2>2 DEF Submit, NewTask
    <3> QED BY <2>2, <3>1, DiskSame DEF Submit, dataVars
  <2>3. CASE CollectDone(k)
    <3>1. /\ meta'.ErrCount = meta.ErrCount /\ meta'.LastCollectTime
          /\ UNCHANGED <<diskVars, running>>
      BY <2>3 DEF CollectDone, poolVars, TypeInv, DataType
    <3>2. meta.ErrCount = 0 => running = {}
      BY <2>3, CollectIsDone
    <3> QED BY <3>1, <3>2 DEF DiskInv, DiskReportedOnce, diskVars
  <2>4. CASE CollectTimeout(k)
    <3>1. meta.ErrCount \in Nat /\ meta'.ErrCount = meta.ErrCount + 1
      BY <2>4 DEF TypeInv, DataType, CollectTimeout
    <3>2. meta'.ErrCount # 0
      BY <3>1
    <3> QED BY <3>2 DEF DiskInv
  <2> QED BY <1>5, <2>1, <2>2, <2>3, <2>4 DEF CollectStep
<1>6. CASE \E b \in Observers : Register(b) \/ Unregister(b)
  BY <1>1, <1>6 DEF Register, Unregister, poolVars
<1>7. CASE UNCHANGED vars
  BY <1>1, <1>7 DEF vars, poolVars, dataVars
<1> QED BY <1>2, <1>3, <1>4, <1>5, <1>6, <1>7, DiskTask DEF Next

LEMMA DiskInit == Init => DiskInv
BY DEF Init, DiskInv, DiskReportedOnce, Unknown

(* With one owner and before a collection times out, the disk collector    *)
(* reports no operation twice, whichever of its readings fail.             *)
THEOREM DiskIsReportedOnce ==
  ASSUME \A o, p \in Owners : o = p
  PROVE  Spec => []DiskReportedOnce
<1>1. DiskInv => DiskReportedOnce
  BY DEF DiskInv, DiskReportedOnce
<1>2. TypeInv /\ PoolInv /\ [Next]_vars => PoolInv'
  BY PoolNext
<1> QED BY <1>1, <1>2, TypeInvInit, TypeInvNext, PoolInit, CollectInit, CollectNext,
           DiskInit, DiskNext, PTL
        DEF Spec
=============================================================================
