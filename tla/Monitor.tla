------------------------------ MODULE Monitor ------------------------------
(***************************************************************************)
(* metrics/monitor.go with the collectors and observers it calls: Start    *)
(* runs a goroutine that at every tick submits one task per reading to a   *)
(* nonblocking worker pool, waits for all of them or for a timeout, and    *)
(* passes m.metrics to the observers.  Stop cancels the context, releases  *)
(* the pool and waits for the goroutine, or for a timeout.                 *)
(*                                                                         *)
(* A reading is the number of the collection that took it, but for the     *)
(* disk, whose collector keeps the counters of the last call and reports   *)
(* differences; the division by the elapsed time is left out.  Time is     *)
(* not a variable: a tick may come, and a timeout fire, at any moment.     *)
(***************************************************************************)
EXTENDS Integers, Sequences, FiniteSets, SequencesExt

CONSTANTS
  Tasks,           \* the readings, in the order of their submission
  PoolSize,        \* workerPoolSize
  Observers,
  Owners,          \* threads calling Start and Stop
  FixedRatio, ReportInterval, MaxDuration,  \* of the timeout controller
  MaxStarts,       \* bound: calls of Start
  MaxCollections   \* bound: ticks served

ASSUME MonitorAssumption ==
  /\ Tasks \in Seq(STRING) /\ Tasks # <<>>
  /\ \A i, j \in 1 .. Len(Tasks) : Tasks[i] = Tasks[j] => i = j
  /\ PoolSize \in Nat
  /\ FixedRatio \in Nat /\ ReportInterval \in Nat /\ MaxDuration \in Nat
  /\ MaxStarts \in Nat /\ MaxCollections \in Nat

Disk       == "Disk"
Collectors == 1 .. MaxStarts       \* collector k runs from the k-th Start
Stops      == 1 .. MaxStarts
Unknown    == -1                   \* no counters

VARIABLES
  state,               \* m.state
  ctx, cancelled,      \* m.ctx, a number of Start or 0 for nil; the cancelled ones
  starts, stops, collections,  \* calls so far
  wg, waiter,          \* m.wg; the goroutine of each Stop that waits for it
  poolOpen, running,   \* the pool and the tasks its workers run
  col,                 \* control point and locals of each collector
  left,                \* the WaitGroup of each collection
  metrics, meta,       \* m.metrics: the collection each field is of; m.meta
  observers,
  prevIOCounters, io,  \* of the disk collector; what the system counts
  owner,               \* control point of each owner and the Stop it is in
  timeout,             \* what timeoutCtrl.Timeout returns on this machine
  panicked,
  stopTimedOut,        \* history: a Stop ended by its timeout
  mixed, reported      \* history: an update mixed collections; the disk
                       \* operations reported so far

callVars == <<state, ctx, cancelled, starts, stops, owner, stopTimedOut>>
waitVars == <<wg, waiter, panicked>>
poolVars == <<poolOpen, running, left, collections>>
dataVars == <<metrics, meta, observers, mixed>>
diskVars == <<prevIOCounters, io, reported>>
vars == <<callVars, waitVars, poolVars, col, dataVars, diskVars, timeout>>

(* The product is a float64 converted to int64: what does not fit becomes  *)
(* the least value on amd64 and the largest on arm64.                      *)
Timeout(collectInterval) ==
  LET product == collectInterval * FixedRatio IN
  IF product <= MaxDuration THEN {product} ELSE {-MaxDuration - 1, MaxDuration}

(* time.After of the largest duration, 292 years, does not fire. *)
Fires == timeout < MaxDuration

(* Control point and locals of a collector: the context its select waits   *)
(* for, the collection, the next task to submit, the observers to update.  *)
At(l, c, r, n, list) == [pc |-> l, ctx |-> c, round |-> r, next |-> n, list |-> list]
Resting(l)           == At(l, 0, 0, 0, <<>>)

(* NewMonitor, with the observers a client has registered. *)
Init ==
  /\ state = FALSE
  /\ ctx = 0 /\ cancelled = {} /\ starts = 0 /\ stops = 0 /\ collections = 0
  /\ wg = 0 /\ waiter = [s \in Stops |-> "unborn"]
  /\ poolOpen = TRUE /\ running = {}
  /\ col = [k \in Collectors |-> Resting("unborn")]
  /\ left = [r \in 1 .. MaxCollections |-> 0]
  /\ metrics = [i \in 1 .. Len(Tasks) |-> 0]
  /\ meta = [SuccessCount |-> 0, ErrCount |-> 0, LastCollectTime |-> FALSE]
  /\ observers = <<>>
  /\ prevIOCounters = Unknown /\ io = 0
  /\ owner = [o \in Owners |-> [pc |-> "idle", stop |-> 0]]
  /\ timeout \in Timeout(ReportInterval)
  /\ panicked = FALSE /\ stopTimedOut = FALSE
  /\ mixed = FALSE /\ reported = 0

-----------------------------------------------------------------------------
(* Start and Stop *)

OwnerAt(o, l)   == ~panicked /\ owner[o].pc = l
OwnerGoto(o, l) == owner' = [owner EXCEPT ![o].pc = l]

(* The CAS; a Start of a running monitor returns. *)
Start(o) ==
  /\ OwnerAt(o, "idle") /\ starts < MaxStarts
  /\ ~state /\ state' = TRUE
  /\ OwnerGoto(o, "run")
  /\ UNCHANGED <<ctx, cancelled, starts, stops, stopTimedOut, waitVars, poolVars,
                 col, dataVars, diskVars, timeout>>

(* m.ctx and m.cancelFunc, wg.Add and the go statement. *)
StartRun(o) ==
  /\ OwnerAt(o, "run") /\ starts < MaxStarts
  /\ OwnerGoto(o, "idle")
  /\ starts' = starts + 1 /\ ctx' = starts + 1
  /\ wg' = wg + 1
  /\ col' = [col EXCEPT ![starts + 1] = Resting("enter")]
  /\ UNCHANGED <<state, cancelled, stops, stopTimedOut, waiter, panicked, poolVars,
                 dataVars, diskVars, timeout>>

(* The caller may cancel the context it passed to Start itself. *)
CancelParent ==
  /\ ~panicked /\ ctx # 0
  /\ cancelled' = cancelled \cup {ctx}
  /\ UNCHANGED <<state, ctx, starts, stops, owner, stopTimedOut, waitVars, poolVars,
                 col, dataVars, diskVars, timeout>>

Stop(o) ==
  /\ OwnerAt(o, "idle")
  /\ state /\ state' = FALSE
  /\ OwnerGoto(o, "cancel")
  /\ UNCHANGED <<ctx, cancelled, starts, stops, stopTimedOut, waitVars, poolVars,
                 col, dataVars, diskVars, timeout>>

(* Mutant: Stop does not cancel the context. *)
StopCancel_Forgotten(o) ==
  /\ OwnerAt(o, "cancel")
  /\ OwnerGoto(o, "release")
  /\ UNCHANGED <<state, ctx, cancelled, starts, stops, stopTimedOut, waitVars,
                 poolVars, col, dataVars, diskVars, timeout>>

StopCancel(o) ==
  /\ OwnerAt(o, "cancel")
  /\ OwnerGoto(o, "release")
  /\ cancelled' = cancelled \cup ({ctx} \ {0})
  /\ UNCHANGED <<state, ctx, starts, stops, stopTimedOut, waitVars, poolVars, col,
                 dataVars, diskVars, timeout>>

(* pool.Release, and the goroutine that waits for m.wg. *)
StopRelease(o) ==
  /\ OwnerAt(o, "release") /\ stops < MaxStarts
  /\ poolOpen' = FALSE
  /\ stops' = stops + 1
  /\ waiter' = [waiter EXCEPT ![stops + 1] = "start"]
  /\ owner' = [owner EXCEPT ![o] = [pc |-> "wait", stop |-> stops + 1]]
  /\ UNCHANGED <<state, ctx, cancelled, starts, stopTimedOut, wg, panicked, running,
                 left, collections, col, dataVars, diskVars, timeout>>

(* Mutant: Stop does not wait. *)
StopDone_NoWait(o) ==
  /\ OwnerAt(o, "wait")
  /\ OwnerGoto(o, "idle")
  /\ UNCHANGED <<state, ctx, cancelled, starts, stops, stopTimedOut, waitVars,
                 poolVars, col, dataVars, diskVars, timeout>>

StopDone(o) ==
  /\ OwnerAt(o, "wait") /\ waiter[owner[o].stop] = "done"
  /\ OwnerGoto(o, "idle")
  /\ UNCHANGED <<state, ctx, cancelled, starts, stops, stopTimedOut, waitVars,
                 poolVars, col, dataVars, diskVars, timeout>>

StopTimeout(o) ==
  /\ OwnerAt(o, "wait") /\ Fires
  /\ OwnerGoto(o, "idle")
  /\ stopTimedOut' = TRUE
  /\ UNCHANGED <<state, ctx, cancelled, starts, stops, waitVars, poolVars, col,
                 dataVars, diskVars, timeout>>

(* m.wg.Wait of a Stop's goroutine: it blocks unless the count is zero. *)
WaitEnter(s) ==
  /\ ~panicked /\ waiter[s] = "start"
  /\ waiter' = [waiter EXCEPT ![s] = IF wg = 0 THEN "done" ELSE "blocked"]
  /\ UNCHANGED <<callVars, wg, panicked, poolVars, col, dataVars, diskVars, timeout>>

(* Once released it looks at the count again: "WaitGroup is reused before  *)
(* previous Wait has returned" ends the process.                           *)
WaitReturn(s) ==
  /\ ~panicked /\ waiter[s] = "released"
  /\ IF wg = 0
       THEN waiter' = [waiter EXCEPT ![s] = "done"] /\ UNCHANGED panicked
       ELSE panicked' = TRUE /\ UNCHANGED waiter
  /\ UNCHANGED <<callVars, wg, poolVars, col, dataVars, diskVars, timeout>>

-----------------------------------------------------------------------------
(* runCollector and collectAllMetrics *)

ColAt(k, l)    == ~panicked /\ col[k].pc = l
ColRests(k, l) == col' = [col EXCEPT ![k] = Resting(l)]

(* The select evaluates m.ctx.Done() each time it is entered. *)
EnterSelect(k) ==
  /\ ColAt(k, "enter") /\ ctx # 0
  /\ col' = [col EXCEPT ![k] = At("select", ctx, 0, 0, <<>>)]
  /\ UNCHANGED <<callVars, waitVars, poolVars, dataVars, diskVars, timeout>>

(* Mutant: the deferred wg.Done is missing. *)
CtxDone_NotCounted(k) ==
  /\ ColAt(k, "select") /\ col[k].ctx \in cancelled
  /\ ColRests(k, "gone")
  /\ UNCHANGED <<callVars, waitVars, poolVars, dataVars, diskVars, timeout>>

(* The collector returns; the last one out releases who waits. *)
CtxDone(k) ==
  /\ ColAt(k, "select") /\ col[k].ctx \in cancelled
  /\ ColRests(k, "gone")
  /\ wg' = wg - 1
  /\ waiter' = [s \in Stops |-> IF wg = 1 /\ waiter[s] = "blocked"
                                  THEN "released" ELSE waiter[s]]
  /\ UNCHANGED <<callVars, panicked, poolVars, dataVars, diskVars, timeout>>

(* Mutant: wg.Add with one less than there are tasks. *)
Tick_OneShort(k) ==
  /\ ColAt(k, "select") /\ collections < MaxCollections
  /\ collections' = collections + 1
  /\ left' = [left EXCEPT ![collections + 1] = Len(Tasks) - 1]
  /\ col' = [col EXCEPT ![k] = At("submit", 0, collections + 1, 1, <<>>)]
  /\ UNCHANGED <<callVars, waitVars, poolOpen, running, dataVars, diskVars, timeout>>

Tick(k) ==
  /\ ColAt(k, "select") /\ collections < MaxCollections
  /\ collections' = collections + 1
  /\ left' = [left EXCEPT ![collections + 1] = Len(Tasks)]
  /\ col' = [col EXCEPT ![k] = At("submit", 0, collections + 1, 1, <<>>)]
  /\ UNCHANGED <<callVars, waitVars, poolOpen, running, dataVars, diskVars, timeout>>

NewTask(r, i) ==
  [round |-> r, task |-> i, pc |-> "start", first |-> FALSE, cur |-> Unknown]

(* pool.Submit: refused by a released pool and when all workers are busy;  *)
(* the error is dropped, and nobody calls Done for the task.               *)
Submit(k) ==
  /\ ColAt(k, "submit")
  /\ running' = IF poolOpen /\ Cardinality(running) < PoolSize
                  THEN running \cup {NewTask(col[k].round, col[k].next)}
                  ELSE running
  /\ col' = [col EXCEPT ![k] = IF @.next < Len(Tasks)
                                 THEN At("submit", 0, @.round, @.next + 1, <<>>)
                                 ELSE At("wait", 0, @.round, 0, <<>>)]
  /\ UNCHANGED <<callVars, waitVars, poolOpen, left, collections, dataVars, diskVars, timeout>>

(* In the loop of NotifyAll, or past its end. *)
Notifying(r, list) ==
  IF list = <<>> THEN Resting("enter") ELSE At("notify", 0, r, 0, list)

(* All tasks are done; NotifyAll takes a copy of the observers. *)
CollectDone(k) ==
  /\ ColAt(k, "wait") /\ left[col[k].round] = 0
  /\ meta' = [meta EXCEPT !.SuccessCount = @ + 1, !.LastCollectTime = TRUE]
  /\ col' = [col EXCEPT ![k] = Notifying(@.round, observers)]
  /\ UNCHANGED <<callVars, waitVars, poolVars, metrics, observers, mixed, diskVars,
                 timeout>>

CollectTimeout(k) ==
  /\ ColAt(k, "wait") /\ Fires
  /\ meta' = [meta EXCEPT !.ErrCount = @ + 1, !.LastCollectTime = TRUE]
  /\ ColRests(k, "enter")
  /\ UNCHANGED <<callVars, waitVars, poolVars, metrics, observers, mixed, diskVars,
                 timeout>>

(* observer.Update(m.metrics), for one observer of the copy. *)
Update(k) ==
  /\ ColAt(k, "notify")
  /\ mixed' = (mixed \/ \E i \in DOMAIN metrics : metrics[i] # col[k].round)
  /\ col' = [col EXCEPT ![k] = Notifying(@.round, Tail(@.list))]
  /\ UNCHANGED <<callVars, waitVars, poolVars, metrics, meta, observers, diskVars,
                 timeout>>

(* A client registers an observer once. *)
Register(b) ==
  /\ ~panicked /\ b \notin Range(observers)
  /\ observers' = Append(observers, b)
  /\ UNCHANGED <<callVars, waitVars, poolVars, col, metrics, meta, mixed, diskVars,
                 timeout>>

Unregister(b) ==
  /\ ~panicked /\ b \in Range(observers)
  /\ observers' = Remove(observers, b)
  /\ UNCHANGED <<callVars, waitVars, poolVars, col, metrics, meta, mixed, diskVars,
                 timeout>>

-----------------------------------------------------------------------------
(* The tasks *)

TaskAt(x, l) == ~panicked /\ x.pc = l

(* The task stores its reading, calls Done and frees its worker. *)
Finish(x) ==
  /\ running' = running \ {x}
  /\ metrics' = [metrics EXCEPT ![x.task] = x.round]
  /\ left' = [left EXCEPT ![x.round] = @ - 1]
  /\ UNCHANGED <<callVars, waitVars, poolOpen, collections, col, meta, observers, mixed,
                 timeout>>

(* Collect of the CPU, memory, network and runtime collectors: a reading   *)
(* of the system, or an empty one when it fails.                           *)
Collect(x) ==
  /\ TaskAt(x, "start") /\ Tasks[x.task] # Disk
  /\ Finish(x)
  /\ UNCHANGED diskVars

TaskGoto(x, y) ==
  /\ running' = (running \ {x}) \cup {y}
  /\ UNCHANGED <<callVars, waitVars, poolOpen, left, collections, col, dataVars, timeout>>

(* DiskCollector.Collect: is it the first time, and what do the counters   *)
(* of the system say (Unknown: the call fails).  The disk is used between  *)
(* two readings.                                                           *)
DiskRead(x) ==
  /\ TaskAt(x, "start") /\ Tasks[x.task] = Disk
  /\ io' = io + 1
  /\ \E c \in {io + 1, Unknown} :
       running' = (running \ {x}) \cup
         {[x EXCEPT !.pc = "store", !.first = ~meta.LastCollectTime, !.cur = c]}
  /\ UNCHANGED <<callVars, waitVars, poolOpen, left, collections, col, dataVars,
                 prevIOCounters, reported, timeout>>

(* A counter below the previous one has been reset. *)
delta(current, prev) == IF current < prev THEN current ELSE current - prev

(* What a call adds to the disk operations reported: nothing the first     *)
(* time, when it failed, or without previous counters.                     *)
PerDiskIO(x) ==
  IF x.first \/ x.cur = Unknown \/ prevIOCounters = Unknown
    THEN 0 ELSE delta(x.cur, prevIOCounters)

(* Mutant: the counters are not kept. *)
DiskStore_NotKept(x) ==
  /\ TaskAt(x, "store")
  /\ reported' = reported + PerDiskIO(x)
  /\ prevIOCounters' = IF x.first THEN x.cur ELSE prevIOCounters
  /\ Finish(x)
  /\ UNCHANGED io

(* Only a failed call that is not the first keeps the old counters. *)
DiskStore(x) ==
  /\ TaskAt(x, "store")
  /\ reported' = reported + PerDiskIO(x)
  /\ prevIOCounters' = IF x.first \/ x.cur # Unknown THEN x.cur ELSE prevIOCounters
  /\ Finish(x)
  /\ UNCHANGED io

-----------------------------------------------------------------------------
OwnerStep(o) ==
  \/ StartRun(o) \/ StopCancel(o) \/ StopRelease(o) \/ StopDone(o) \/ StopTimeout(o)

CollectStep(k) ==
  EnterSelect(k) \/ Submit(k) \/ CollectDone(k) \/ CollectTimeout(k) \/ Update(k)

TaskStep(x) == Collect(x) \/ DiskRead(x) \/ DiskStore(x)

Next ==
  \/ \E o \in Owners : Start(o) \/ Stop(o) \/ OwnerStep(o)
  \/ CancelParent
  \/ \E s \in Stops : WaitEnter(s) \/ WaitReturn(s)
  \/ \E k \in Collectors : Tick(k) \/ CtxDone(k) \/ CollectStep(k)
  \/ \E x \in running : TaskStep(x)
  \/ \E b \in Observers : Register(b) \/ Unregister(b)

Spec == Init /\ [][Next]_vars

(* Goroutines that can run are scheduled, readings of the system end,      *)
(* timers fire, and a select whose context is done does not take the tick  *)
(* for ever.  Nobody has to call Start or Stop.  Each of the sets of       *)
(* goroutines takes finitely many steps, so one formula each is enough.    *)
FairSpec ==
  /\ Spec
  /\ \A o \in Owners : WF_vars(OwnerStep(o))
  /\ WF_vars(\E s \in Stops : WaitEnter(s) \/ WaitReturn(s))
  /\ WF_vars(\E k \in Collectors : CollectStep(k))
  /\ WF_vars(\E k \in Collectors : CtxDone(k))
  /\ WF_vars(\E x \in running : TaskStep(x))

-----------------------------------------------------------------------------
(* Safety *)

Live == {k \in Collectors : col[k].pc \notin {"unborn", "gone"}}

(* As long as no collection and no Stop has timed out, an observer gets    *)
(* the readings of one collection: NotifyAll passes m.metrics without a    *)
(* lock, and only the WaitGroup of the collection keeps tasks from storing *)
(* into it meanwhile.  (One owner.)                                        *)
CoherentUpdates == mixed => meta.ErrCount > 0

(* Until the first timeout, what has been reported of the disk lies below  *)
(* the counters kept, whatever readings fail, so that the next difference  *)
(* reports no operation twice.  (A task that outlives its collection takes *)
(* the counters of the next for a reset and reports them all again.)       *)
(* (One owner.)                                                            *)
DiskReportedOnce == meta.ErrCount = 0 /\ reported > 0 => reported < prevIOCounters

(* Only a Stop that gave up leaves its collector behind: until then a new  *)
(* Start never has two of them.  (One owner.)                              *)
OneCollector == ~stopTimedOut => Cardinality(Live) <= 1

(* Start reuses m.wg; it meets a Wait that has not returned only after a   *)
(* Stop that gave up.  (One owner.)                                        *)
WaitGroupReused == panicked => stopTimedOut

-----------------------------------------------------------------------------
(* Liveness *)

(* A collector that waits for a task nobody runs, without a timeout. *)
Hung ==
  /\ ~Fires
  /\ \E k \in Live : /\ col[k].pc = "wait"
                     /\ left[col[k].round] >
                          Cardinality({x \in running : x.round = col[k].round})

(* Stop returns, though the timeout may not fire, unless its own release   *)
(* of the pool made a submission of the collection under way fail.         *)
StopReturns ==
  \A o \in Owners : OwnerAt(o, "cancel") ~> OwnerAt(o, "idle") \/ panicked \/ Hung

(* When nobody starts the monitor again, all its collectors end, those     *)
(* included that an earlier Stop left behind and that have gone over to    *)
(* the context of a later Start.  (One owner.)                             *)
CollectorsEnd ==
  ~state /\ (\A o \in Owners : OwnerAt(o, "idle"))
    ~> Live = {} \/ state \/ panicked \/ Hung
=============================================================================
