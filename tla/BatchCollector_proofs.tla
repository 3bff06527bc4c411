----------------------- MODULE BatchCollector_proofs -----------------------
(***************************************************************************)
(* Proofs about BatchCollector, for one reporter and any number of         *)
(* recorders, calls and reports.                                           *)
(***************************************************************************)
EXTENDS BatchCollector, SequenceTheorems, TLAPS

(* The accesses report is made of. *)
Accesses == {reportWrite[i] : i \in 1 .. 12} \cup {reportRead[i] : i \in 1 .. 7}
            \cup {reportSupporting[i] : i \in 1 .. 15}

(* Where the elements of a concatenation are. *)
LEMMA Concat ==
  ASSUME NEW S, NEW s \in Seq(S), NEW t \in Seq(S)
  PROVE  /\ s \o t \in Seq(S) /\ Len(s \o t) = Len(s) + Len(t)
         /\ \A i \in 1 .. Len(s) : (s \o t)[i] = s[i]
         /\ \A i \in Len(s) + 1 .. Len(s) + Len(t) : (s \o t)[i] = t[i - Len(s)]
<1>1. Len(s) \in Nat /\ Len(t) \in Nat
  OBVIOUS
<1>2. \A i \in Len(s) + 1 .. Len(s) + Len(t) : (s \o t)[i] = t[i - Len(s)]
  BY <1>1, ConcatProperties
<1> QED BY <1>2, ConcatProperties

(* The accesses of report, by number. *)
LEMMA ReportAt ==
  /\ Len(report) = 34
  /\ \A i \in 1 .. 12 : report[i] = reportWrite[i]
  /\ \A i \in 13 .. 19 : report[i] = reportRead[i - 12]
  /\ \A i \in 20 .. 34 : report[i] = reportSupporting[i - 19]
<1>1. reportWrite \in Seq(Accesses) /\ Len(reportWrite) = 12
  <2>1. \A i \in 1 .. 12 : reportWrite[i] \in Accesses
    BY DEF Accesses
  <2>2. reportWrite = [i \in 1 .. 12 |-> reportWrite[i]] /\ Len(reportWrite) = 12
    BY DEF reportWrite
  <2> QED BY <2>1, <2>2
<1>2. reportRead \in Seq(Accesses) /\ Len(reportRead) = 7
  <2>1. \A i \in 1 .. 7 : reportRead[i] \in Accesses
    BY DEF Accesses
  <2>2. reportRead = [i \in 1 .. 7 |-> reportRead[i]] /\ Len(reportRead) = 7
    BY DEF reportRead
  <2> QED BY <2>1, <2>2
<1>3. reportSupporting \in Seq(Accesses) /\ Len(reportSupporting) = 15
  <2>1. \A i \in 1 .. 15 : reportSupporting[i] \in Accesses
    BY DEF Accesses
  <2>2. reportSupporting = [i \in 1 .. 15 |-> reportSupporting[i]] /\ Len(reportSupporting) = 15
    BY DEF reportSupporting
  <2> QED BY <2>1, <2>2
<1> DEFINE first == reportWrite \o reportRead
<1>4. /\ first \in Seq(Accesses)
      /\ Len(first) = Len(reportWrite) + Len(reportRead)
      /\ \A i \in 1 .. Len(reportWrite) : first[i] = reportWrite[i]
      /\ \A i \in Len(reportWrite) + 1 .. Len(reportWrite) + Len(reportRead) :
            first[i] = reportRead[i - Len(reportWrite)]
  <2>1. reportWrite \in Seq(Accesses) /\ reportRead \in Seq(Accesses)
    BY <1>1, <1>2
  <2> QED BY <2>1, Concat
<1>5. report = first \o reportSupporting
  BY DEF report
<1> HIDE DEF first
<1>6. first \in Seq(Accesses) /\ reportSupporting \in Seq(Accesses)
  BY <1>3, <1>4
<1>7. /\ first \o reportSupporting \in Seq(Accesses)
      /\ Len(first \o reportSupporting) = Len(first) + Len(reportSupporting)
      /\ \A i \in 1 .. Len(first) : (first \o reportSupporting)[i] = first[i]
      /\ \A i \in Len(first) + 1 .. Len(first) + Len(reportSupporting) :
            (first \o reportSupporting)[i] = reportSupporting[i - Len(first)]
  BY <1>6, Concat
<1>8. /\ Len(report) = Len(first) + Len(reportSupporting)
      /\ \A i \in 1 .. Len(first) : report[i] = first[i]
      /\ \A i \in Len(first) + 1 .. Len(first) + Len(reportSupporting) :
            report[i] = reportSupporting[i - Len(first)]
  BY <1>5, <1>7
<1>9. Len(first) = 19 /\ Len(report) = 34
  BY <1>1, <1>2, <1>3, <1>4, <1>8
<1>10. \A i \in 1 .. 19 : report[i] = first[i]
  BY <1>8, <1>9
<1>11. /\ \A i \in 1 .. 12 : first[i] = reportWrite[i]
      /\ \A i \in 13 .. 19 : first[i] = reportRead[i - 12]
  BY <1>1, <1>2, <1>4
<1>12. \A i \in 20 .. 34 : report[i] = reportSupporting[i - 19]
  <2>1. Len(first) + 1 = 20 /\ Len(first) + Len(reportSupporting) = 34
    BY <1>3, <1>9
  <2> QED BY <1>8, <1>9, <2>1
<1> QED BY <1>9, <1>10, <1>11, <1>12

-----------------------------------------------------------------------------
(* report loads f at l, passes it on at o and stores zero to it at z, and  *)
(* does nothing else with it.                                              *)
Shape(f, l, o, z) ==
  /\ l \in 1 .. 34 /\ o \in 1 .. 34 /\ z \in 1 .. 34
  /\ l < o /\ o < z
  /\ report[l] = Load(f)
  /\ report[o].op = "observe" /\ f \in report[o].what
  /\ report[z] = Zero(f)
  /\ \A i \in (1 .. 34) \ {l, o, z} : f \notin report[i].what

LEMMA WriteShape ==
  /\ Shape("writeCounts", 1, 4, 11)
  /\ Shape("writeSizes", 2, 4, 10)
  /\ Shape("writeErrors", 3, 4, 12)
<1> DEFINE W == {"writeCounts", "writeSizes", "writeErrors"}
<1>1. /\ \A f \in W : \A i \in 1 .. 7 : f \notin reportRead[i].what
      /\ \A f \in W : \A i \in 1 .. 15 : f \notin reportSupporting[i].what
  BY DEF reportRead, reportSupporting, Load, Observe, Zero
<1>2. \A i \in 13 .. 34 : \/ i \in 13 .. 19 /\ i - 12 \in 1 .. 7
                          \/ i \in 20 .. 34 /\ i - 19 \in 1 .. 15
  OBVIOUS
<1>3. \A f \in W : \A i \in 13 .. 34 : f \notin report[i].what
  BY <1>1, <1>2, ReportAt
<1>4. /\ report[1] = Load("writeCounts") /\ report[2] = Load("writeSizes")
      /\ report[3] = Load("writeErrors") /\ report[4] = Observe(W)
      /\ report[10] = Zero("writeSizes") /\ report[11] = Zero("writeCounts")
      /\ report[12] = Zero("writeErrors")
  BY ReportAt DEF reportWrite
<1>5. \A i \in 5 .. 9 : report[i].what \cap W = {}
  <2>1. \A i \in 5 .. 9 : reportWrite[i].what \cap W = {}
    BY DEF reportWrite, Load, Observe, Zero
  <2> QED BY <2>1, ReportAt
<1>6. \A i \in 1 .. 34 : i \in {1, 2, 3, 4, 10, 11, 12} \/ i \in 5 .. 9 \/ i \in 13 .. 34
  OBVIOUS
<1>7. Shape("writeCounts", 1, 4, 11)
  BY <1>3, <1>4, <1>5, <1>6 DEF Shape, Load, Observe, Zero
<1>8. Shape("writeSizes", 2, 4, 10)
  BY <1>3, <1>4, <1>5, <1>6 DEF Shape, Load, Observe, Zero
<1>9. Shape("writeErrors", 3, 4, 12)
  BY <1>3, <1>4, <1>5, <1>6 DEF Shape, Load, Observe, Zero
<1> QED BY <1>7, <1>8, <1>9

LEMMA ReadShape ==
  /\ Shape("readCounts", 13, 16, 17)
  /\ Shape("readSizes", 14, 16, 18)
  /\ Shape("readErrors", 15, 16, 19)
<1> DEFINE R == {"readCounts", "readSizes", "readErrors"}
<1>1. /\ \A f \in R : \A i \in 1 .. 12 : f \notin reportWrite[i].what
      /\ \A f \in R : \A i \in 1 .. 15 : f \notin reportSupporting[i].what
  BY DEF reportWrite, reportSupporting, Load, Observe, Zero
<1>2. \A i \in 20 .. 34 : i - 19 \in 1 .. 15
  OBVIOUS
<1>3. \A f \in R : \A i \in 1 .. 34 : i \in 13 .. 19 \/ f \notin report[i].what
  <2>1. \A i \in 1 .. 34 : i \in 1 .. 12 \/ i \in 13 .. 19 \/ i \in 20 .. 34
    OBVIOUS
  <2> QED BY <1>1, <1>2, <2>1, ReportAt
<1>4. /\ report[13] = Load("readCounts") /\ report[14] = Load("readSizes")
      /\ report[15] = Load("readErrors") /\ report[16] = Observe(R)
      /\ report[17] = Zero("readCounts") /\ report[18] = Zero("readSizes")
      /\ report[19] = Zero("readErrors")
  BY ReportAt DEF reportRead
<1>5. \A i \in 13 .. 19 : i \in {13, 14, 15, 16, 17, 18, 19}
  OBVIOUS
<1>6. Shape("readCounts", 13, 16, 17)
  BY <1>3, <1>4, <1>5 DEF Shape, Load, Observe, Zero
<1>7. Shape("readSizes", 14, 16, 18)
  BY <1>3, <1>4, <1>5 DEF Shape, Load, Observe, Zero
<1>8. Shape("readErrors", 15, 16, 19)
  BY <1>3, <1>4, <1>5 DEF Shape, Load, Observe, Zero
<1> QED BY <1>6, <1>7, <1>8

LEMMA SupportingShape ==
  /\ Shape("asyncWorkerIncCounts", 20, 21, 30)
  /\ Shape("asyncWorkerDecCounts", 22, 23, 31)
  /\ Shape("poolAlloc", 24, 25, 34)
  /\ Shape("switchCounts", 26, 27, 32)
<1> DEFINE S == {"asyncWorkerIncCounts", "asyncWorkerDecCounts", "poolAlloc", "switchCounts"}
<1>1. /\ \A f \in S : \A i \in 1 .. 12 : f \notin reportWrite[i].what
      /\ \A f \in S : \A i \in 1 .. 7 : f \notin reportRead[i].what
  BY DEF reportWrite, reportRead, Load, Observe, Zero
<1>2. \A i \in 1 .. 34 : \/ i \in 1 .. 12
                         \/ i \in 13 .. 19 /\ i - 12 \in 1 .. 7
                         \/ i \in 20 .. 34
  OBVIOUS
<1>3. \A f \in S : \A i \in 1 .. 34 : i \in 20 .. 34 \/ f \notin report[i].what
  BY <1>1, <1>2, ReportAt
<1>4. /\ report[20] = Load("asyncWorkerIncCounts") /\ report[21] = Observe({"asyncWorkerIncCounts"})
      /\ report[22] = Load("asyncWorkerDecCounts") /\ report[23] = Observe({"asyncWorkerDecCounts"})
      /\ report[24] = Load("poolAlloc") /\ report[25] = Observe({"poolAlloc"})
      /\ report[26] = Load("switchCounts") /\ report[27] = Observe({"switchCounts"})
      /\ report[28] = Load("skipSwitchCounts") /\ report[29] = Observe({"skipSwitchCounts"})
      /\ report[30] = Zero("asyncWorkerIncCounts") /\ report[31] = Zero("asyncWorkerDecCounts")
      /\ report[32] = Zero("switchCounts") /\ report[33] = Zero("skipSwitchCounts")
      /\ report[34] = Zero("poolAlloc")
  BY ReportAt DEF reportSupporting
<1>5. \A i \in 20 .. 34 : i \in {20, 21, 22, 23, 24, 25, 26, 27, 28, 29, 30, 31, 32, 33, 34}
  OBVIOUS
<1>6. Shape("asyncWorkerIncCounts", 20, 21, 30)
  BY <1>3, <1>4, <1>5 DEF Shape, Load, Observe, Zero
<1>7. Shape("asyncWorkerDecCounts", 22, 23, 31)
  BY <1>3, <1>4, <1>5 DEF Shape, Load, Observe, Zero
<1>8. Shape("poolAlloc", 24, 25, 34)
  BY <1>3, <1>4, <1>5 DEF Shape, Load, Observe, Zero
<1>9. Shape("switchCounts", 26, 27, 32)
  BY <1>3, <1>4, <1>5 DEF Shape, Load, Observe, Zero
<1> QED BY <1>6, <1>7, <1>8, <1>9

Names ==
  {"writeCounts", "writeSizes", "writeErrors", "activeCounts", "activeSizes", "readCounts",
   "readSizes", "readErrors", "switchCounts", "skipSwitchCounts", "asyncWorkerIncCounts",
   "asyncWorkerDecCounts", "poolAlloc"}

(* The counters of the Record methods. *)
LEMMA AddsAre == \A c \in DOMAIN Adds : Adds[c] \in Seq(Names)
<1>1. DOMAIN Adds = {"write", "writeError", "read", "readError", "switch", "skip",
                     "workerInc", "workerDec", "alloc"}
  BY DEF Adds
<1>2. Adds["write"] \in Seq(Names)
  <2>1. Adds["write"] = <<"writeCounts", "writeSizes", "activeCounts", "activeSizes">>
    BY DEF Adds
  <2> QED BY <2>1 DEF Names
<1>3. Adds["read"] \in Seq(Names)
  <2>1. Adds["read"] = <<"readCounts", "readSizes">>
    BY DEF Adds
  <2> QED BY <2>1 DEF Names
<1>4. /\ Adds["writeError"] = <<"writeErrors">> /\ Adds["readError"] = <<"readErrors">>
      /\ Adds["switch"] = <<"switchCounts">> /\ Adds["skip"] = <<"skipSwitchCounts">>
      /\ Adds["workerInc"] = <<"asyncWorkerIncCounts">>
      /\ Adds["workerDec"] = <<"asyncWorkerDecCounts">> /\ Adds["alloc"] = <<"poolAlloc">>
  BY DEF Adds
<1>5. \A n \in Names : <<n>> \in Seq(Names)
  OBVIOUS
<1> QED BY <1>1, <1>2, <1>3, <1>4, <1>5 DEF Names

(* Every counter is loaded, passed on and zeroed, in this order. *)
LEMMA EveryCounterHasShape ==
  \A f \in Counters : \E l, o, z : Shape(f, l, o, z)
<1>1. \A f \in Fields : f \in Names
  BY AddsAre DEF Fields, Range
<1> QED BY <1>1, WriteShape, ReadShape, SupportingShape DEF Names, Counters, Gauges

-----------------------------------------------------------------------------
(* The type of every variable the properties depend on. *)
TypeInv ==
  /\ counter \in [Fields -> Nat] /\ total \in [Fields -> Nat]
  /\ recorded \in [Fields -> Nat] /\ missed \in [Fields -> Nat]
  /\ todo \in [Recorders -> Seq(Fields)]
  /\ at \in [Reporters -> 0 .. 34]
  /\ loaded \in [Reporters -> [Fields -> Nat]]

(* What has been recorded in f, by the reporter's place in report: with    *)
(* the collector, and in the counter, in the reporter's load of it, or     *)
(* with the collector already; and always what fell into the window.       *)
Balanced(f, l, o, z) ==
  /\ (\A p \in Reporters : at[p] \notin l + 1 .. z)
       => total[f] + counter[f] + missed[f] = recorded[f]
  /\ \A p \in Reporters :
       /\ at[p] \in l + 1 .. o => total[f] + loaded[p][f] + missed[f] = recorded[f]
       /\ at[p] \in o + 1 .. z => total[f] + missed[f] = recorded[f]

AllBalanced ==
  \A f \in Counters : \A l, o, z : Shape(f, l, o, z) => Balanced(f, l, o, z)

LEMMA TypeInvInit == Init => TypeInv
BY DEF Init, TypeInv, NoCounts

LEMMA AddsOfFields == \A c \in DOMAIN Adds : Adds[c] \in Seq(Fields)
<1> SUFFICES ASSUME NEW c \in DOMAIN Adds PROVE Adds[c] \in Seq(Fields)
  OBVIOUS
<1>1. Adds[c] \in Seq(Names)
  BY AddsAre
<1>2. Adds[c] \in [1 .. Len(Adds[c]) -> Names] /\ Len(Adds[c]) \in Nat
  BY <1>1, LenProperties
<1>3. \A i \in 1 .. Len(Adds[c]) : Adds[c][i] \in Fields
  BY <1>2 DEF Fields, Range
<1>4. Adds[c] \in [1 .. Len(Adds[c]) -> Fields]
  BY <1>2, <1>3
<1> QED BY <1>2, <1>4

LEMMA ObservedType ==
  ASSUME total \in [Fields -> Nat], NEW v \in [Fields -> Nat], NEW S
  PROVE  /\ Observed(v, S) \in [Fields -> Nat]
         /\ \A f \in Counters : Observed(v, S)[f] = IF f \in S THEN total[f] + v[f] ELSE total[f]
<1>1. \A f \in Fields : total[f] \in Nat /\ v[f] \in Nat
  OBVIOUS
<1>2. \A f \in Fields : Observed(v, S)[f] \in {total[f], total[f] + 1, 0, total[f] + v[f]}
  BY DEF Observed
<1>3. Observed(v, S) \in [Fields -> Nat]
  <2>1. \A f \in Fields : Observed(v, S)[f] \in Nat
    BY <1>1, <1>2
  <2> QED BY <2>1 DEF Observed
<1>4. ASSUME NEW f \in Counters
      PROVE  Observed(v, S)[f] = IF f \in S THEN total[f] + v[f] ELSE total[f]
  BY DEF Observed, Counters, Gauges
<1> QED BY <1>3, <1>4

LEMMA TypeInvNext == TypeInv /\ [Next]_vars => TypeInv'
<1> SUFFICES ASSUME TypeInv, [Next]_vars PROVE TypeInv'
  OBVIOUS
<1> USE DEF TypeInv
<1>1. ASSUME NEW r \in Recorders, Record(r) PROVE TypeInv'
  BY <1>1, CallsAssumption, AddsOfFields DEF Record
<1>2. ASSUME NEW r \in Recorders, Add(r) PROVE TypeInv'
  <2>1. Head(todo[r]) \in Fields /\ Tail(todo[r]) \in Seq(Fields)
    BY <1>2, HeadTailProperties DEF Add
  <2> DEFINE g == Head(todo[r])
  <2>2. /\ counter' = [counter EXCEPT ![g] = counter[g] + 1]
        /\ recorded' = [recorded EXCEPT ![g] = recorded[g] + 1]
        /\ \E n \in {0, 1} : missed' = [missed EXCEPT ![g] = missed[g] + n]
    <3>1. missed[g] = missed[g] + 0
      BY <2>1
    <3> QED BY <1>2, <3>1, Zenon DEF Add
  <2>3. counter' \in [Fields -> Nat] /\ recorded' \in [Fields -> Nat] /\ missed' \in [Fields -> Nat]
    <3>1. g \in Fields
      BY <2>1
    <3> HIDE DEF g
    <3> QED BY <2>2, <3>1
  <2>4. todo' \in [Recorders -> Seq(Fields)]
    BY <1>2, <2>1 DEF Add
  <2> QED BY <1>2, <2>3, <2>4 DEF Add
<1>3. ASSUME NEW p \in Reporters, Report(p) PROVE TypeInv'
  BY <1>3 DEF Report
<1>4. ASSUME NEW p \in Reporters, ReportStep(p) PROVE TypeInv'
  <2>1. at' \in [Reporters -> 0 .. 34]
    <3>1. at[p] \in 0 .. 34 /\ at[p] > 0 /\ Len(report) = 34
      BY <1>4, ReportAt DEF ReportStep
    <3>2. at' = [at EXCEPT ![p] = IF at[p] = 34 THEN 0 ELSE at[p] + 1]
      BY <1>4, <3>1 DEF ReportStep
    <3>3. \A n \in 0 .. 34 : (IF n = 34 THEN 0 ELSE n + 1) \in 0 .. 34
      OBVIOUS
    <3> QED BY <3>1, <3>2, <3>3
  <2>2. loaded' \in [Reporters -> [Fields -> Nat]]
    <3>1. loaded[p] \in [Fields -> Nat]
      OBVIOUS
    <3>2. [f \in Fields |-> IF f \in report[at[p]].what THEN counter[f] ELSE loaded[p][f]]
            \in [Fields -> Nat]
      BY <3>1
    <3> QED BY <1>4, <3>2 DEF ReportStep
  <2>3. total' \in [Fields -> Nat]
    <3>1. total \in [Fields -> Nat] /\ loaded[p] \in [Fields -> Nat]
      OBVIOUS
    <3> HIDE DEF TypeInv
    <3>2. Observed(loaded[p], report[at[p]].what) \in [Fields -> Nat]
      BY <3>1, ObservedType
    <3> QED BY <1>4, <3>1, <3>2 DEF ReportStep
  <2>4. counter' \in [Fields -> Nat]
    BY <1>4 DEF ReportStep
  <2> QED BY <1>4, <2>1, <2>2, <2>3, <2>4 DEF ReportStep
<1>5. CASE Stop \/ WorkerExit \/ UNCHANGED vars
  BY <1>5 DEF Stop, WorkerExit, vars
<1> QED BY <1>1, <1>2, <1>3, <1>4, <1>5 DEF Next

(* An Add is missed when the reporter is past the load and not past the    *)
(* store of zero.                                                          *)
LEMMA WindowIs ==
  ASSUME TypeInv, NEW f, NEW l, NEW o, NEW z, Shape(f, l, o, z), NEW p \in Reporters
  PROVE  InWindow(p, f) <=> at[p] \in l + 1 .. z
<1>1. /\ l \in 1 .. 34 /\ o \in 1 .. 34 /\ z \in 1 .. 34 /\ l < o /\ o < z
      /\ at[p] \in 0 .. 34 /\ Len(report) = 34
  BY ReportAt DEF Shape, TypeInv
<1>2. \A i \in 1 .. 34 : report[i] = Load(f) <=> i = l
  <2>1. report[o] # Load(f) /\ report[z] # Load(f) /\ report[l] = Load(f) /\ f \in Load(f).what
    BY DEF Shape, Load, Zero
  <2> QED BY <2>1 DEF Shape
<1>3. \A i \in 1 .. 34 : report[i] = Zero(f) <=> i = z
  <2>1. report[o] # Zero(f) /\ report[l] # Zero(f) /\ report[z] = Zero(f) /\ f \in Zero(f).what
    BY DEF Shape, Load, Zero
  <2> QED BY <2>1 DEF Shape
<1>4. (\E i \in 1 .. at[p] - 1 : report[i] = Load(f)) <=> l <= at[p] - 1
  BY <1>1, <1>2
<1>5. at[p] > 0 => ((\E i \in at[p] .. Len(report) : report[i] = Zero(f)) <=> at[p] <= z)
  BY <1>1, <1>3
<1> QED BY <1>1, <1>4, <1>5 DEF InWindow

(* The balance of one counter over one step. *)
LEMMA BalancedStep ==
  ASSUME \A p, q \in Reporters : p = q,
         TypeInv, TypeInv', [Next]_vars,
         NEW f \in Counters, NEW l, NEW o, NEW z, Shape(f, l, o, z), Balanced(f, l, o, z)
  PROVE  Balanced(f, l, o, z)'
<1>1. /\ l \in 1 .. 34 /\ o \in 1 .. 34 /\ z \in 1 .. 34 /\ l < o /\ o < z
      /\ f \in Fields
  BY DEF Shape, Counters
<1>2. /\ total[f] \in Nat /\ counter[f] \in Nat /\ missed[f] \in Nat /\ recorded[f] \in Nat
      /\ total'[f] \in Nat /\ counter'[f] \in Nat /\ missed'[f] \in Nat /\ recorded'[f] \in Nat
      /\ \A p \in Reporters : at[p] \in 0 .. 34 /\ loaded[p][f] \in Nat /\ loaded'[p][f] \in Nat
  BY <1>1 DEF TypeInv
<1>3. ASSUME UNCHANGED <<total, counter, missed, recorded, at, loaded>>
      PROVE  Balanced(f, l, o, z)'
  BY <1>3 DEF Balanced
<1>4. ASSUME NEW r \in Recorders, Add(r) PROVE Balanced(f, l, o, z)'
  <2>1. Head(todo[r]) \in Fields
    BY <1>4, HeadTailProperties DEF Add, TypeInv
  <2>2. UNCHANGED <<total, at, loaded>>
    BY <1>4 DEF Add
  <2>3. CASE Head(todo[r]) # f
    <3>1. counter'[f] = counter[f] /\ recorded'[f] = recorded[f] /\ missed'[f] = missed[f]
      BY <1>1, <1>4, <2>1, <2>3 DEF Add, TypeInv
    <3> QED BY <2>2, <3>1 DEF Balanced
  <2>4. CASE Head(todo[r]) = f
    <3>1. counter'[f] = counter[f] + 1 /\ recorded'[f] = recorded[f] + 1
      BY <1>1, <1>4, <2>4 DEF Add, TypeInv
    <3>2. missed'[f] = IF \E p \in Reporters : at[p] \in l + 1 .. z
                         THEN missed[f] + 1 ELSE missed[f]
      BY <1>1, <1>4, <2>4, WindowIs DEF Add, TypeInv
    <3>3. CASE \A p \in Reporters : at[p] \notin l + 1 .. z
      BY <1>1, <1>2, <2>2, <3>1, <3>2, <3>3 DEF Balanced
    <3>4. CASE \E p \in Reporters : at[p] \in l + 1 .. z
      BY <1>1, <1>2, <2>2, <3>1, <3>2, <3>4 DEF Balanced
    <3> QED BY <3>3, <3>4
  <2> QED BY <2>3, <2>4
<1>5. ASSUME NEW p \in Reporters, Report(p) PROVE Balanced(f, l, o, z)'
  <2>1. at[p] = 0 /\ at'[p] = 1 /\ UNCHANGED <<total, counter, missed, recorded, loaded>>
    BY <1>5 DEF Report, TypeInv
  <2> QED BY <1>1, <1>2, <2>1 DEF Balanced
<1>6. ASSUME NEW p \in Reporters, ReportStep(p) PROVE Balanced(f, l, o, z)'
  <2>1. /\ at[p] \in 1 .. 34 /\ at'[p] = IF at[p] = 34 THEN 0 ELSE at[p] + 1
        /\ UNCHANGED <<missed, recorded>>
    <3>1. at[p] \in 0 .. 34 /\ at[p] > 0 /\ Len(report) = 34
      BY <1>2, <1>6, ReportAt DEF ReportStep
    <3> QED BY <1>6, <3>1 DEF ReportStep, TypeInv
  <2>2. \A q \in Reporters : q = p
    OBVIOUS
  <2>3. CASE at[p] = l
    <3>1. loaded'[p][f] = counter[f] /\ total' = total /\ counter' = counter
      <4>1. report[at[p]].op = "load" /\ f \in report[at[p]].what
        BY <2>3 DEF Shape, Load
      <4> QED BY <1>1, <1>6, <4>1 DEF ReportStep, TypeInv
    <3> QED BY <1>1, <1>2, <2>1, <2>2, <2>3, <3>1 DEF Balanced
  <2>4. CASE at[p] = o
    <3>1. total'[f] = total[f] + loaded[p][f] /\ loaded' = loaded /\ counter' = counter
      <4>1. report[at[p]].op = "observe" /\ f \in report[at[p]].what
        BY <2>4 DEF Shape
      <4>2. total' = Observed(loaded[p], report[at[p]].what)
        BY <1>6, <4>1 DEF ReportStep
      <4>3. total'[f] = total[f] + loaded[p][f]
        <5>1. total \in [Fields -> Nat] /\ loaded[p] \in [Fields -> Nat]
          BY DEF TypeInv
        <5> QED BY <4>1, <4>2, <5>1, ObservedType
      <4> QED BY <1>6, <4>1, <4>3 DEF ReportStep
    <3> QED BY <1>1, <1>2, <2>1, <2>2, <2>4, <3>1 DEF Balanced
  <2>5. CASE at[p] = z
    <3>1. counter'[f] = 0 /\ total' = total
      <4>1. report[at[p]].op = "zero" /\ f \in report[at[p]].what
        BY <2>5 DEF Shape, Zero
      <4> QED BY <1>1, <1>6, <4>1 DEF ReportStep, TypeInv
    <3>2. at'[p] \notin l + 1 .. z
      BY <1>1, <2>1, <2>5
    <3> QED BY <1>1, <1>2, <2>1, <2>2, <2>5, <3>1, <3>2 DEF Balanced
  <2>6. CASE at[p] \notin {l, o, z}
    <3>1. f \notin report[at[p]].what
      BY <2>1, <2>6 DEF Shape
    <3>2. loaded'[p][f] = loaded[p][f]
      BY <1>1, <1>6, <3>1 DEF ReportStep, TypeInv
    <3>3. total'[f] = total[f]
      <4>1. total' \in {total, Observed(loaded[p], report[at[p]].what)}
        BY <1>6 DEF ReportStep
      <4>2. total \in [Fields -> Nat] /\ loaded[p] \in [Fields -> Nat]
        BY DEF TypeInv
      <4>3. Observed(loaded[p], report[at[p]].what)[f] = total[f]
        BY <3>1, <4>2, ObservedType
      <4> QED BY <4>1, <4>3
    <3>4. counter'[f] = counter[f]
      BY <1>1, <1>6, <3>1 DEF ReportStep, TypeInv
    <3>5. /\ at'[p] \in l + 1 .. o <=> at[p] \in l + 1 .. o
          /\ at'[p] \in o + 1 .. z <=> at[p] \in o + 1 .. z
          /\ at'[p] \in l + 1 .. z <=> at[p] \in l + 1 .. z
      BY <1>1, <2>1, <2>6
    <3> QED BY <2>1, <2>2, <3>2, <3>3, <3>4, <3>5 DEF Balanced
  <2> QED BY <2>3, <2>4, <2>5, <2>6
<1>7. CASE \E r \in Recorders : Record(r)
  BY <1>3, <1>7 DEF Record
<1>8. CASE Stop \/ WorkerExit \/ UNCHANGED vars
  BY <1>3, <1>8 DEF Stop, WorkerExit, vars
<1> QED BY <1>4, <1>5, <1>6, <1>7, <1>8 DEF Next

LEMMA AllBalancedNext ==
  ASSUME \A p, q \in Reporters : p = q
  PROVE  TypeInv /\ TypeInv' /\ AllBalanced /\ [Next]_vars => AllBalanced'
<1> SUFFICES ASSUME TypeInv, TypeInv', AllBalanced, [Next]_vars,
                    NEW f \in Counters, NEW l, NEW o, NEW z, Shape(f, l, o, z)
             PROVE  Balanced(f, l, o, z)'
  BY DEF AllBalanced
<1>1. Balanced(f, l, o, z)
  BY DEF AllBalanced
<1> QED BY <1>1, BalancedStep

LEMMA AllBalancedInit == Init => AllBalanced
<1> SUFFICES ASSUME Init, NEW f \in Counters, NEW l, NEW o, NEW z, Shape(f, l, o, z)
             PROVE  Balanced(f, l, o, z)
  BY DEF AllBalanced
<1>1. /\ f \in Fields /\ l \in 1 .. 34 /\ o \in 1 .. 34
  BY DEF Counters, Shape
<1>2. total[f] = 0 /\ counter[f] = 0 /\ missed[f] = 0 /\ recorded[f] = 0
  BY <1>1 DEF Init, NoCounts
<1>3. \A p \in Reporters : at[p] = 0
  BY DEF Init
<1> QED BY <1>1, <1>2, <1>3 DEF Balanced

(* What each counter's balance says of the collector's total. *)
LEMMA BalancedBounds ==
  ASSUME TypeInv, AllBalanced, NEW f \in Counters
  PROVE  /\ total[f] <= recorded[f]
         /\ (\A p \in Reporters : at[p] = 0) => total[f] + counter[f] + missed[f] = recorded[f]
<1>1. PICK l, o, z : Shape(f, l, o, z)
  BY EveryCounterHasShape
<1>2. Balanced(f, l, o, z)
  BY <1>1 DEF AllBalanced
<1>3. l \in 1 .. 34 /\ o \in 1 .. 34 /\ z \in 1 .. 34 /\ l < o /\ o < z /\ f \in Fields
  BY <1>1 DEF Shape, Counters
<1>4. /\ total[f] \in Nat /\ counter[f] \in Nat /\ missed[f] \in Nat /\ recorded[f] \in Nat
      /\ \A p \in Reporters : at[p] \in 0 .. 34 /\ loaded[p][f] \in Nat
  BY <1>3 DEF TypeInv
<1>5. CASE \A p \in Reporters : at[p] \notin l + 1 .. z
  BY <1>2, <1>4, <1>5 DEF Balanced
<1>6. CASE \E p \in Reporters : at[p] \in l + 1 .. z
  <2>1. PICK p \in Reporters : at[p] \in l + 1 .. z
    BY <1>6
  <2>2. at[p] \in l + 1 .. o \/ at[p] \in o + 1 .. z
    BY <1>3, <2>1
  <2>3. at[p] # 0
    BY <1>3, <2>1
  <2> QED BY <1>2, <1>4, <2>1, <2>2, <2>3 DEF Balanced
<1> QED BY <1>5, <1>6

(* With one reporter the collector is never given more of a counter than   *)
(* was recorded in it, wherever callers fall between load and zero.        *)
THEOREM NothingReportedTwice ==
  ASSUME \A p, q \in Reporters : p = q
  PROVE  Spec => []NeverOverReported
<1>1. TypeInv /\ AllBalanced => NeverOverReported
  BY BalancedBounds DEF NeverOverReported
<1>2. TypeInv /\ TypeInv' /\ AllBalanced /\ [Next]_vars => AllBalanced'
  BY AllBalancedNext
<1> QED BY <1>1, <1>2, TypeInvInit, TypeInvNext, AllBalancedInit, PTL DEF Spec

(* What is lost is exactly what was added between a counter's load and its *)
(* store of zero, for every interleaving of calls and reports.             *)
THEOREM LossIsTheWindow ==
  ASSUME \A p, q \in Reporters : p = q
  PROVE  Spec => []OnlyWindowLost
<1>1. TypeInv /\ AllBalanced => OnlyWindowLost
  BY BalancedBounds DEF OnlyWindowLost, Quiet
<1>2. TypeInv /\ TypeInv' /\ AllBalanced /\ [Next]_vars => AllBalanced'
  BY AllBalancedNext
<1> QED BY <1>1, <1>2, TypeInvInit, TypeInvNext, AllBalancedInit, PTL DEF Spec
=============================================================================
