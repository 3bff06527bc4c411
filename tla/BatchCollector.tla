--------------------------- MODULE BatchCollector ---------------------------
(***************************************************************************)
(* core/metrics/batch_collector.go: callers add to atomic counters, and    *)
(* report (called by asyncWorker at every tick, and by Flush) loads them,  *)
(* passes them to the Prometheus collector of core/metrics/prometheus.go   *)
(* and stores zero.  Every Add, load and store is a step.  Sizes and       *)
(* latencies are 1 a call; switchLatency, which is stored and not added    *)
(* to, is left out.                                                        *)
(***************************************************************************)
EXTENDS Integers, Sequences, FiniteSets, Functions

CONSTANTS
  Recorders,    \* threads calling the Record methods
  Reporters,    \* asyncWorker, and threads calling Flush
  Calls,        \* the calls the recorders make, of DOMAIN Adds
  MaxCalls,     \* bound: calls of the Record methods
  MaxReports    \* bound: calls of report

ASSUME BatchAssumption == MaxCalls \in Nat /\ MaxReports \in Nat

(* The counters each call adds to, in order. *)
Adds ==
  [ write      |-> <<"writeCounts", "writeSizes", "activeCounts", "activeSizes">>,
    writeError |-> <<"writeErrors">>,
    read       |-> <<"readCounts", "readSizes">>,
    readError  |-> <<"readErrors">>,
    switch     |-> <<"switchCounts">>,
    skip       |-> <<"skipSwitchCounts">>,
    workerInc  |-> <<"asyncWorkerIncCounts">>,
    workerDec  |-> <<"asyncWorkerDecCounts">>,
    alloc      |-> <<"poolAlloc">> ]

ASSUME CallsAssumption == Calls \subseteq DOMAIN Adds

Fields == UNION {Range(Adds[c]) : c \in DOMAIN Adds}

Load(f)    == [op |-> "load", what |-> {f}]
Observe(S) == [op |-> "observe", what |-> S]
Zero(f)    == [op |-> "zero", what |-> {f}]

(* The accesses of report, in order; each Reset in the order of its type.  *)

(* Mutant: Write.Reset forgets the errors. *)
reportWrite_ErrorsKept ==
  << Load("writeCounts"), Load("writeSizes"), Load("writeErrors"),
     Observe({"writeCounts", "writeSizes", "writeErrors"}),
     Load("activeCounts"), Load("activeSizes"), Observe({"activeCounts", "activeSizes"}),
     Zero("activeCounts"), Zero("activeSizes"), Zero("writeSizes"), Zero("writeCounts") >>

reportWrite ==
  << Load("writeCounts"), Load("writeSizes"), Load("writeErrors"),
     Observe({"writeCounts", "writeSizes", "writeErrors"}),
     Load("activeCounts"), Load("activeSizes"), Observe({"activeCounts", "activeSizes"}),
     Zero("activeCounts"), Zero("activeSizes"), Zero("writeSizes"), Zero("writeCounts"),
     Zero("writeErrors") >>

(* Mutant: the counters are reset before they are passed on. *)
reportRead_ResetFirst ==
  << Zero("readCounts"), Zero("readSizes"), Zero("readErrors"),
     Load("readCounts"), Load("readSizes"), Load("readErrors"),
     Observe({"readCounts", "readSizes", "readErrors"}) >>

reportRead ==
  << Load("readCounts"), Load("readSizes"), Load("readErrors"),
     Observe({"readCounts", "readSizes", "readErrors"}),
     Zero("readCounts"), Zero("readSizes"), Zero("readErrors") >>

reportSupporting ==
  << Load("asyncWorkerIncCounts"), Observe({"asyncWorkerIncCounts"}),
     Load("asyncWorkerDecCounts"), Observe({"asyncWorkerDecCounts"}),
     Load("poolAlloc"), Observe({"poolAlloc"}),
     Load("switchCounts"), Observe({"switchCounts"}),
     Load("skipSwitchCounts"), Observe({"skipSwitchCounts"}),
     Zero("asyncWorkerIncCounts"), Zero("asyncWorkerDecCounts"), Zero("switchCounts"),
     Zero("skipSwitchCounts"), Zero("poolAlloc") >>

report == reportWrite \o reportRead \o reportSupporting

VARIABLES
  counter,        \* the atomic counters
  total,          \* what the collector has been given, for each counter
  todo,           \* the counters a recorder's call has yet to add to
  at, loaded,     \* a reporter's place in report (0: not in it); its loads
  stopped,        \* the channel sem is closed
  exited,         \* asyncWorker has returned
  reports,        \* calls of report so far
  calls, recorded, \* history: calls so far; what was added to each counter
  missed          \* history: what was added to each counter between its
                  \* load and its store of zero

vars == <<counter, total, todo, at, loaded, stopped, exited, reports, calls, recorded, missed>>

NoCounts == [f \in Fields |-> 0]

Init ==
  /\ counter = NoCounts /\ total = NoCounts /\ recorded = NoCounts /\ missed = NoCounts
  /\ todo = [r \in Recorders |-> <<>>]
  /\ at = [p \in Reporters |-> 0] /\ loaded = [p \in Reporters |-> NoCounts]
  /\ stopped = FALSE /\ exited = FALSE /\ reports = 0 /\ calls = 0

-----------------------------------------------------------------------------
Record(r) ==
  /\ todo[r] = <<>> /\ calls < MaxCalls
  /\ \E c \in Calls : todo' = [todo EXCEPT ![r] = Adds[c]]
  /\ calls' = calls + 1
  /\ UNCHANGED <<counter, total, at, loaded, stopped, exited, reports, recorded, missed>>

(* Reporter p has loaded f and has yet to store zero to it. *)
InWindow(p, f) ==
  /\ at[p] > 0
  /\ \E i \in 1 .. at[p] - 1 : report[i] = Load(f)
  /\ \E i \in at[p] .. Len(report) : report[i] = Zero(f)

Add(r) ==
  /\ todo[r] # <<>>
  /\ counter' = [counter EXCEPT ![Head(todo[r])] = @ + 1]
  /\ recorded' = [recorded EXCEPT ![Head(todo[r])] = @ + 1]
  /\ missed' = [missed EXCEPT ![Head(todo[r])] =
                  IF \E p \in Reporters : InWindow(p, Head(todo[r])) THEN @ + 1 ELSE @]
  /\ todo' = [todo EXCEPT ![r] = Tail(@)]
  /\ UNCHANGED <<total, at, loaded, stopped, exited, reports, calls>>

(* A tick of asyncWorker, or a Flush. *)
Report(p) ==
  /\ at[p] = 0 /\ reports < MaxReports
  /\ p = "asyncWorker" => ~exited
  /\ at' = [at EXCEPT ![p] = 1]
  /\ reports' = reports + 1
  /\ UNCHANGED <<counter, total, todo, loaded, stopped, exited, calls, recorded, missed>>

(* What the collector makes of its new values v: counters grow by them;    *)
(* SwitchSkip is Inc() whatever the count; the gauges of the active channel *)
(* are set to zero when both are.                                          *)
Observed(v, S) ==
  [f \in Fields |->
     CASE f \notin S             -> total[f]
       [] f = "skipSwitchCounts" -> total[f] + 1
       [] f \in {"activeCounts", "activeSizes"} /\ v["activeCounts"] = 0
          /\ v["activeSizes"] = 0 -> 0
       [] OTHER                  -> total[f] + v[f]]

(* The next access of a report. *)
ReportStep(p) ==
  /\ at[p] > 0
  /\ LET s == report[at[p]] IN
     /\ loaded' = IF s.op = "load"
                    THEN [loaded EXCEPT ![p] = [f \in Fields |->
                            IF f \in s.what THEN counter[f] ELSE @[f]]]
                    ELSE loaded
     /\ total' = IF s.op = "observe" THEN Observed(loaded[p], s.what) ELSE total
     /\ counter' = IF s.op = "zero"
                     THEN [f \in Fields |-> IF f \in s.what THEN 0 ELSE counter[f]]
                     ELSE counter
  /\ at' = [at EXCEPT ![p] = IF @ = Len(report) THEN 0 ELSE @ + 1]
  /\ UNCHANGED <<todo, stopped, exited, reports, calls, recorded, missed>>

(* Stop closes sem; what is in the counters then is not reported. *)
Stop ==
  /\ ~stopped
  /\ stopped' = TRUE
  /\ UNCHANGED <<counter, total, todo, at, loaded, exited, reports, calls, recorded, missed>>

(* select takes either channel that is ready: a tick may still be served   *)
(* after Stop.                                                             *)
WorkerExit ==
  /\ stopped /\ ~exited /\ "asyncWorker" \in Reporters /\ at["asyncWorker"] = 0
  /\ exited' = TRUE
  /\ UNCHANGED <<counter, total, todo, at, loaded, stopped, reports, calls, recorded, missed>>

Next ==
  \/ \E r \in Recorders : Record(r) \/ Add(r)
  \/ \E p \in Reporters : Report(p) \/ ReportStep(p)
  \/ Stop \/ WorkerExit

Spec == Init /\ [][Next]_vars

-----------------------------------------------------------------------------
Gauges   == {"activeCounts", "activeSizes"}
Counters == Fields \ (Gauges \cup {"skipSwitchCounts"})

(* No event is reported twice: the collector never has more than was       *)
(* recorded, whatever callers add between the loads, the observation and   *)
(* the stores of zero.  (One reporter.)                                    *)
NeverOverReported == \A f \in Counters : total[f] <= recorded[f]

Quiet == (\A r \in Recorders : todo[r] = <<>>) /\ (\A p \in Reporters : at[p] = 0)

(* When nobody is in a call, every event recorded has been reported or is  *)
(* still in its counter, except those added between the load of their      *)
(* counter and its store of zero: these are lost, and only these, however  *)
(* the calls fall between the steps of the reports.  (One reporter.)       *)
OnlyWindowLost ==
  Quiet => \A f \in Counters : total[f] + counter[f] + missed[f] = recorded[f]
=============================================================================
