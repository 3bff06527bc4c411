------------------------ MODULE SwitchTrigger_proofs ------------------------
(***************************************************************************)
(* Proofs about SwitchTrigger, for any thresholds, sizes and strategies.   *)
(***************************************************************************)
EXTENDS SwitchTrigger, TLAPS

Configs == [version : Nat, percent : Int, time : Nat]
MonitorPcs == {"idle", "get", "decide", "switch"}

(* The type of what the two properties read; a configuration that is in    *)
(* use has passed validate.                                                *)
TypeInv ==
  /\ config \in Configs
  /\ sc \in [Buffers -> Configs]
  /\ mpc \in [Buffers -> MonitorPcs]
  /\ switching \in [Buffers -> {"none", "swap", "zero", "stamp"}]
  /\ count \in [Buffers -> Nat]
  /\ elapsed \in [Buffers -> 0 .. MaxElapsed]

LEMMA TypeInvInit == Init => TypeInv
<1> SUFFICES ASSUME Init PROVE TypeInv
  OBVIOUS
<1>1. config \in Configs
  BY TriggerAssumption DEF Init, Configs
<1> QED BY <1>1, TriggerAssumption DEF Init, TypeInv, MonitorPcs

LEMMA TypeInvNext == TypeInv /\ [Next]_vars => TypeInv'
<1> SUFFICES ASSUME TypeInv, [Next]_vars PROVE TypeInv'
  OBVIOUS
<1> USE DEF TypeInv, conditionVars, monitorVars, channelVars
<1>1. ASSUME NEW u \in Updaters, UpdateConfig(u) PROVE TypeInv'
  <2>1. config' \in Configs
    BY <1>1, TriggerAssumption DEF UpdateConfig, validate, Configs
  <2> QED BY <1>1, <2>1 DEF UpdateConfig
<1>2. ASSUME NEW u \in Updaters, Notify(u) PROVE TypeInv'
  BY <1>2 DEF Notify
<1>3. ASSUME NEW d \in Buffers, MonitorStep(d) PROVE TypeInv'
  BY <1>3 DEF MonitorStep, Tick, GetConfig, Decide, MonitorPcs
<1>4. ASSUME NEW d \in Buffers, SwitchStep(d) PROVE TypeInv'
  BY <1>4, TriggerAssumption
     DEF SwitchStep, SwapChannels, ZeroCount, StampSwitch, MonitorPcs
<1>5. ASSUME NEW d \in Buffers, Write(d) \/ CountAdd(d) \/ WriterSwitch(d)
      PROVE  TypeInv'
  BY <1>5 DEF Write, CountAdd, WriterSwitch
<1>6. CASE Pass
  BY <1>6, TriggerAssumption DEF Pass
<1>7. CASE UNCHANGED vars
  BY <1>7 DEF vars
<1> QED BY <1>1, <1>2, <1>3, <1>4, <1>5, <1>6, <1>7 DEF Next

-----------------------------------------------------------------------------
(* With one buffer on the condition nobody else takes its notification. *)
LEMMA FreshConfigStep ==
  ASSUME \A d, e \in Buffers : d = e
  PROVE  TypeInv /\ FreshConfig /\ [Next]_vars => FreshConfig'
<1> SUFFICES ASSUME TypeInv, FreshConfig, [Next]_vars PROVE FreshConfig'
  OBVIOUS
<1> USE DEF FreshConfig, TypeInv, conditionVars, monitorVars, channelVars
<1>1. ASSUME NEW u \in Updaters, UpdateConfig(u) \/ Notify(u) PROVE FreshConfig'
  BY <1>1, TriggerAssumption DEF UpdateConfig, Notify
<1>2. ASSUME NEW d \in Buffers, Tick(d) PROVE FreshConfig'
  BY <1>2 DEF Tick
<1>3. ASSUME NEW d \in Buffers, GetConfig(d) PROVE FreshConfig'
  BY <1>3 DEF GetConfig
<1>4. ASSUME NEW d \in Buffers, Decide(d) PROVE FreshConfig'
  BY <1>4 DEF Decide
<1>5. ASSUME NEW d \in Buffers, StampSwitch(d) PROVE FreshConfig'
  BY <1>5 DEF StampSwitch
<1>6. ASSUME UNCHANGED <<conditionVars, monitorVars>> PROVE FreshConfig'
  BY <1>6
<1>7. ASSUME NEW d \in Buffers,
             SwapChannels(d) \/ ZeroCount(d) \/ Write(d) \/ CountAdd(d) \/ WriterSwitch(d)
      PROVE  FreshConfig'
  BY <1>6, <1>7, Zenon DEF SwapChannels, ZeroCount, Write, CountAdd, WriterSwitch
<1>8. CASE Pass \/ UNCHANGED vars
  BY <1>6, <1>8, Zenon DEF Pass, vars
<1> QED BY <1>1, <1>2, <1>3, <1>4, <1>5, <1>7, <1>8 DEF Next, MonitorStep, SwitchStep

(* Of any number of UpdateConfig calls, however they are merged in the one *)
(* slot of the channel, the last is the configuration the monitor reads.   *)
THEOREM NoUpdateIsMissed ==
  ASSUME \A d, e \in Buffers : d = e
  PROVE  Spec => []FreshConfig
<1>1. Init => FreshConfig
  BY DEF Init, FreshConfig
<1>2. TypeInv /\ FreshConfig /\ [Next]_vars => FreshConfig'
  BY FreshConfigStep
<1> QED BY <1>1, <1>2, TypeInvInit, TypeInvNext, PTL DEF Spec

-----------------------------------------------------------------------------
LEMMA ProductMonotone ==
  ASSUME NEW k \in Nat, NEW a \in Nat, NEW b \in Nat, a <= b
  PROVE  k * a \in Nat /\ k * b \in Nat /\ k * a <= k * b
<1>1. k * (b - a) \in Nat
  OBVIOUS
<1>2. k * b = k * a + k * (b - a)
  OBVIOUS
<1>3. k * a \in Nat /\ k * b \in Nat
  OBVIOUS
<1> QED BY <1>1, <1>2, <1>3

(* The weighted sum of the two factors grows with each of them. *)
LEMMA CombinedMonotone ==
  ASSUME NEW c1 \in Nat, NEW c2 \in Nat, c1 <= c2,
         NEW e1 \in Nat, NEW e2 \in Nat, e1 <= e2,
         NEW size \in Nat, NEW interval \in Nat
  PROVE  /\ Combined(c1, size, e1, interval) \in Nat
         /\ Combined(c2, size, e2, interval) \in Nat
         /\ Combined(c1, size, e1, interval) <= Combined(c2, size, e2, interval)
<1>1. /\ size * e1 \in Nat /\ size * e2 \in Nat /\ size * e1 <= size * e2
      /\ interval * c1 \in Nat /\ interval * c2 \in Nat /\ interval * c1 <= interval * c2
  BY ProductMonotone
<1>2. /\ Combined(c1, size, e1, interval) = 40 * (size * e1) + 60 * (interval * c1)
      /\ Combined(c2, size, e2, interval) = 40 * (size * e2) + 60 * (interval * c2)
  BY DEF Combined, TimeWeight, SizeWeight
<1> QED BY <1>1, <1>2

(* With more messages and more time, no strategy changes its mind. *)
LEMMA needSwitchMonotone ==
  ASSUME NEW c1 \in Nat, NEW c2 \in Nat, c1 <= c2,
         NEW e1 \in Nat, NEW e2 \in Nat, e1 <= e2,
         NEW interval \in Nat, needSwitch(c1, e1, interval)
  PROVE  needSwitch(c2, e2, interval)
<1> DEFINE size  == AtLeastMin(Size)
           limit == FullCapacity * size * interval
<1>1. size \in Nat
  BY TriggerAssumption DEF AtLeastMin, MinBufferSize
<1>2. limit \in Int
  <2>1. size * interval \in Int
    BY <1>1
  <2> HIDE DEF size
  <2> QED BY <1>1, <2>1 DEF FullCapacity
<1>3. CASE Strategy = "Default"
  <2>1. DefaultNeedSwitch(c1, Size, e1, interval)
    BY <1>3 DEF needSwitch
  <2>2. \/ c1 >= size \/ e1 >= interval \/ Combined(c1, size, e1, interval) >= limit
    BY <2>1 DEF DefaultNeedSwitch
  <2>3. \/ c2 >= size \/ e2 >= interval \/ Combined(c2, size, e2, interval) >= limit
    <3> HIDE DEF size, limit
    <3>1. /\ Combined(c1, size, e1, interval) \in Nat
          /\ Combined(c2, size, e2, interval) \in Nat
          /\ Combined(c1, size, e1, interval) <= Combined(c2, size, e2, interval)
      BY <1>1, CombinedMonotone
    <3> QED BY <1>1, <1>2, <2>2, <3>1
  <2>4. DefaultNeedSwitch(c2, Size, e2, interval)
    BY <2>3 DEF DefaultNeedSwitch
  <2> QED BY <1>3, <2>4 DEF needSwitch
<1>4. CASE Strategy = "SizeOnly"
  BY <1>4, TriggerAssumption DEF needSwitch, SizeOnlyNeedSwitch
<1>5. CASE Strategy = "TimeWindow"
  BY <1>5 DEF needSwitch, TimeWindowNeedSwitch
<1> QED BY <1>3, <1>4, <1>5, TriggerAssumption

(* Outside of a switch neither count nor the elapsed time goes back. *)
LEMMA DueStep ==
  ASSUME TypeInv, Next, NEW d \in Buffers, switching[d] = "none"
  PROVE  count[d] <= count'[d] /\ elapsed[d] <= elapsed'[d]
<1> USE DEF TypeInv, conditionVars, monitorVars, channelVars
<1>1. count[d] \in Nat /\ elapsed[d] \in 0 .. MaxElapsed
  OBVIOUS
<1>2. ASSUME UNCHANGED <<count, elapsed>>
      PROVE  count[d] <= count'[d] /\ elapsed[d] <= elapsed'[d]
  BY <1>1, <1>2, TriggerAssumption
<1>3. CASE \E u \in Updaters : UpdateConfig(u) \/ Notify(u)
  BY <1>2, <1>3 DEF UpdateConfig, Notify
<1>4. CASE \E e \in Buffers : MonitorStep(e)
  BY <1>2, <1>4 DEF MonitorStep, Tick, GetConfig, Decide
<1>5. CASE \E e \in Buffers : SwitchStep(e)
  BY <1>1, <1>5, TriggerAssumption DEF SwitchStep, SwapChannels, ZeroCount, StampSwitch
<1>6. CASE \E e \in Buffers : Write(e) \/ CountAdd(e) \/ WriterSwitch(e)
  BY <1>1, <1>6, TriggerAssumption DEF Write, CountAdd, WriterSwitch
<1>7. CASE Pass
  BY <1>1, <1>7, TriggerAssumption DEF Pass
<1> QED BY <1>3, <1>4, <1>5, <1>6, <1>7 DEF Next

(* What any of the three strategies has found due stays due until the      *)
(* switch or another configuration, for every size and threshold.          *)
THEOREM DueUntilSwitched == Spec => DueStaysDue
<1>1. ASSUME TypeInv, TypeInv', Next, NEW d \in Buffers, due(d), switching[d] = "none",
             sc'[d] = sc[d]
      PROVE  due(d)'
  <2>1. /\ count[d] \in Nat /\ count'[d] \in Nat /\ elapsed[d] \in Nat
        /\ elapsed'[d] \in Nat /\ sc[d].time \in Nat
    BY <1>1, TriggerAssumption DEF TypeInv, Configs
  <2>2. needSwitch(count'[d], elapsed'[d], sc[d].time)
    BY <1>1, <2>1, DueStep, needSwitchMonotone DEF due
  <2> QED BY <1>1, <2>2 DEF due
<1>2. TypeInv /\ TypeInv' /\ [Next]_vars =>
        [\A d \in Buffers :
           due(d) /\ switching[d] = "none" /\ switching'[d] = "none" /\ sc'[d] = sc[d]
             => due(d)']_vars
  BY <1>1
<1> QED BY <1>2, TypeInvInit, TypeInvNext, PTL DEF Spec, DueStaysDue
=============================================================================
