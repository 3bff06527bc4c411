--------------------------- MODULE SwitchTrigger ---------------------------
(***************************************************************************)
(* What makes a DoubleBuffer switch: the SwitchCondition of                *)
(* config/config.go, whose configuration can be replaced at run time, and  *)
(* the needSwitch of core/double_buffer.go, which the monitor evaluates at *)
(* every tick from d.count, d.lastSwitch and its copy of the configuration.*)
(*                                                                         *)
(* DoubleBuffer abstracts all of this to "a switch may be due at any tick";*)
(* here the channels are abstracted to the number of messages in the       *)
(* active one.  Several buffers may share one SwitchCondition, and then    *)
(* share its notification channel, of one slot.                            *)
(***************************************************************************)
EXTENDS SwitchStrategy, FiniteSets

CONSTANTS
  Buffers,       \* DoubleBuffers built on the same SwitchCondition
  Updaters,      \* threads calling UpdateConfig
  None,
  Strategy,      \* "Default", "SizeOnly" or "TimeWindow"
  Size,          \* d.size
  Percents,      \* the percentages UpdateConfig is called with
  Times,         \* the time thresholds it is called with, in ticks
  InitialTime,   \* the time threshold of NewSwitchCondition
  MaxInFlight,   \* bound: writers between their push and their count.Add
  MaxVersion,    \* bound: versions of the configuration
  MaxElapsed     \* bound: from here on the time since a switch stands still

ASSUME TriggerAssumption ==
  /\ Strategy \in {"Default", "SizeOnly", "TimeWindow"}
  /\ Size \in Nat /\ MaxInFlight \in Nat /\ MaxVersion \in Nat /\ MaxElapsed \in Nat
  /\ Percents \subseteq Int /\ Times \subseteq Int
  /\ InitialTime \in Nat
  /\ None \notin Updaters

VARIABLES
  config, notify, mu,   \* SwitchCondition: configuration, the slot of its
                        \* channel, the thread that holds mu for writing
  sc,                   \* d.sc, the copy of each buffer
  mpc, seen,            \* its monitor: control point; count and elapsed read
  switching,            \* its switch under way: "none", "swap", "zero", "stamp"
  count, elapsed,       \* d.count; the time since d.lastSwitch
  stored, adding        \* messages in the active channel; writers that have
                        \* pushed and not yet called count.Add

conditionVars == <<config, notify, mu>>
monitorVars   == <<sc, mpc, seen>>
channelVars   == <<switching, count, elapsed, stored, adding>>
vars == <<conditionVars, monitorVars, channelVars>>

NothingSeen == [count |-> 0, elapsed |-> 0]

(* NewSwitchCondition leaves one token in the channel; each NewDoubleBuffer *)
(* copies the configuration.                                               *)
Init ==
  /\ config = [version |-> 1, percent |-> 0, time |-> InitialTime]
  /\ notify = TRUE /\ mu = None
  /\ sc = [d \in Buffers |-> config]
  /\ mpc = [d \in Buffers |-> "idle"] /\ seen = [d \in Buffers |-> NothingSeen]
  /\ switching = [d \in Buffers |-> "none"]
  /\ count = [d \in Buffers |-> 0] /\ elapsed = [d \in Buffers |-> 0]
  /\ stored = [d \in Buffers |-> 0] /\ adding = [d \in Buffers |-> 0]

-----------------------------------------------------------------------------
(* SwitchCondition *)

validate(percent, time) == percent \in 0 .. 100 /\ time >= 0

(* UpdateConfig locks and stores the next version (an invalid one is       *)
(* refused and changes nothing).                                           *)
UpdateConfig(u) ==
  /\ mu = None /\ config.version < MaxVersion
  /\ mu' = u
  /\ \E percent \in Percents, time \in Times :
       /\ validate(percent, time)
       /\ config' = [version |-> config.version + 1, percent |-> percent, time |-> time]
  /\ UNCHANGED <<notify, monitorVars, channelVars>>

(* It sends to the channel, or finds it full, and unlocks. *)
Notify(u) ==
  /\ mu = u
  /\ mu' = None
  /\ notify' = TRUE
  /\ UNCHANGED <<config, monitorVars, channelVars>>

-----------------------------------------------------------------------------
(* swapMonitor and needSwitch *)

(* Mutant: the notification is taken and the configuration not read. *)
Tick_NoReload(d) ==
  /\ mpc[d] = "idle"
  /\ seen' = [seen EXCEPT ![d] = [count |-> count[d], elapsed |-> elapsed[d]]]
  /\ mpc' = [mpc EXCEPT ![d] = "decide"]
  /\ notify' = FALSE
  /\ UNCHANGED <<config, mu, sc, channelVars>>

(* A tick: count and the elapsed time are read, then a notification is     *)
(* taken if there is one.                                                  *)
Tick(d) ==
  /\ mpc[d] = "idle"
  /\ seen' = [seen EXCEPT ![d] = [count |-> count[d], elapsed |-> elapsed[d]]]
  /\ mpc' = [mpc EXCEPT ![d] = IF notify THEN "get" ELSE "decide"]
  /\ notify' = FALSE
  /\ UNCHANGED <<config, mu, sc, channelVars>>

GetConfig(d) ==
  /\ mpc[d] = "get" /\ mu = None
  /\ mpc' = [mpc EXCEPT ![d] = "decide"]
  /\ sc' = [sc EXCEPT ![d] = config]
  /\ UNCHANGED <<conditionVars, seen, channelVars>>

needSwitch(currentCount, since, interval) ==
  CASE Strategy = "Default"    -> DefaultNeedSwitch(currentCount, Size, since, interval)
    [] Strategy = "SizeOnly"   -> SizeOnlyNeedSwitch(currentCount, Size)
    [] Strategy = "TimeWindow" -> TimeWindowNeedSwitch(since, interval)

(* The strategy decides on what was read at the tick; a switch that is     *)
(* already under way makes switchChannel return.                           *)
Decide(d) ==
  /\ mpc[d] = "decide"
  /\ seen' = [seen EXCEPT ![d] = NothingSeen]
  /\ IF needSwitch(seen[d].count, seen[d].elapsed, sc[d].time) /\ switching[d] = "none"
       THEN /\ mpc' = [mpc EXCEPT ![d] = "switch"]
            /\ switching' = [switching EXCEPT ![d] = "swap"]
       ELSE /\ mpc' = [mpc EXCEPT ![d] = "idle"]
            /\ UNCHANGED switching
  /\ UNCHANGED <<conditionVars, sc, count, elapsed, stored, adding>>

-----------------------------------------------------------------------------
(* Write and switchChannel *)

(* The push of a message into an active channel that is open and not full. *)
Write(d) ==
  /\ switching[d] # "swap"
  /\ stored[d] < Size /\ adding[d] < MaxInFlight
  /\ stored' = [stored EXCEPT ![d] = @ + 1]
  /\ adding' = [adding EXCEPT ![d] = @ + 1]
  /\ UNCHANGED <<conditionVars, monitorVars, switching, count, elapsed>>

CountAdd(d) ==
  /\ adding[d] > 0
  /\ count' = [count EXCEPT ![d] = @ + 1]
  /\ adding' = [adding EXCEPT ![d] = @ - 1]
  /\ UNCHANGED <<conditionVars, monitorVars, switching, elapsed, stored>>

(* A writer that finds the active channel full switches it. *)
WriterSwitch(d) ==
  /\ stored[d] >= Size /\ switching[d] = "none"
  /\ switching' = [switching EXCEPT ![d] = "swap"]
  /\ UNCHANGED <<conditionVars, monitorVars, count, elapsed, stored, adding>>

SwapChannels(d) ==
  /\ switching[d] = "swap"
  /\ switching' = [switching EXCEPT ![d] = "zero"]
  /\ stored' = [stored EXCEPT ![d] = 0]
  /\ UNCHANGED <<conditionVars, monitorVars, count, elapsed, adding>>

ZeroCount(d) ==
  /\ switching[d] = "zero"
  /\ switching' = [switching EXCEPT ![d] = "stamp"]
  /\ count' = [count EXCEPT ![d] = 0]
  /\ UNCHANGED <<conditionVars, monitorVars, elapsed, stored, adding>>

(* lastSwitch is set and the state goes back to Writing. *)
StampSwitch(d) ==
  /\ switching[d] = "stamp"
  /\ switching' = [switching EXCEPT ![d] = "none"]
  /\ elapsed' = [elapsed EXCEPT ![d] = 0]
  /\ mpc' = [mpc EXCEPT ![d] = IF @ = "switch" THEN "idle" ELSE @]
  /\ UNCHANGED <<conditionVars, sc, seen, count, stored, adding>>

(* Time passes. *)
Pass ==
  /\ \E d \in Buffers : elapsed[d] < MaxElapsed
  /\ elapsed' = [d \in Buffers |-> IF elapsed[d] < MaxElapsed THEN elapsed[d] + 1
                                   ELSE MaxElapsed]
  /\ UNCHANGED <<conditionVars, monitorVars, switching, count, stored, adding>>

-----------------------------------------------------------------------------
MonitorStep(d) == Tick(d) \/ GetConfig(d) \/ Decide(d)
SwitchStep(d)  == SwapChannels(d) \/ ZeroCount(d) \/ StampSwitch(d)

Next ==
  \/ \E u \in Updaters : UpdateConfig(u) \/ Notify(u)
  \/ \E d \in Buffers :
       MonitorStep(d) \/ SwitchStep(d) \/ Write(d) \/ CountAdd(d) \/ WriterSwitch(d)
  \/ Pass

(* Time passes, the ticker ticks, and every call that has begun goes on;   *)
(* nobody has to write or to update the configuration.                     *)
Fairness ==
  /\ WF_vars(Pass)
  /\ \A d \in Buffers : WF_vars(MonitorStep(d)) /\ WF_vars(SwitchStep(d))
  /\ \A d \in Buffers : WF_vars(CountAdd(d))
  /\ \A u \in Updaters : WF_vars(Notify(u))

Spec == Init /\ [][Next]_vars /\ Fairness

-----------------------------------------------------------------------------
(* Properties *)

(* A buffer's copy is old only while a notification is on its way: in the  *)
(* channel, about to be sent, or taken by its monitor.  Updates that find  *)
(* the channel full are merged, none is missed.  (One buffer.)             *)
FreshConfig ==
  \A d \in Buffers : ~notify /\ mu = None /\ mpc[d] # "get" => sc[d] = config

due(d) == needSwitch(count[d], elapsed[d], sc[d].time)

(* Messages and time only bring a switch nearer: what the strategy finds   *)
(* due stays due until the switch is made or the configuration changes,    *)
(* although count passes the size when late writers add to it.             *)
DueStaysDue ==
  [][\A d \in Buffers :
       due(d) /\ switching[d] = "none" /\ switching'[d] = "none" /\ sc'[d] = sc[d]
         => due(d)']_vars

(* A message does not stay in the active channel: the time window rotates  *)
(* it even when nobody writes any more, count has lost its increment, or   *)
(* the configuration changes meanwhile.                                    *)
DataRotated == \A d \in Buffers : stored[d] > 0 ~> stored[d] = 0
=============================================================================
