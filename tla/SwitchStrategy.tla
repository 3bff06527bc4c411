--------------------------- MODULE SwitchStrategy ---------------------------
(***************************************************************************)
(* core/switch_strategy.go: when a channel switch is due.  The factors are *)
(* ratios in the code; here both sides of the comparison are multiplied by *)
(* 100 * bufferSize * interval, which leaves integers.                     *)
(***************************************************************************)
EXTENDS Integers

SizeWeight    == 60    \* per cent, const.go
TimeWeight    == 40
FullCapacity  == 85
MinBufferSize == 1

AtLeastMin(bufferSize) == IF bufferSize < MinBufferSize THEN MinBufferSize ELSE bufferSize

Combined(currentCount, bufferSize, elapsed, interval) ==
  TimeWeight * elapsed * bufferSize + SizeWeight * currentCount * interval

(* Mutant: full only when the count is exact. *)
DefaultNeedSwitch_Exact(currentCount, size, elapsed, interval) ==
  LET bufferSize == AtLeastMin(size) IN
  \/ currentCount = bufferSize
  \/ elapsed >= interval
  \/ /\ currentCount < bufferSize
     /\ Combined(currentCount, bufferSize, elapsed, interval)
          >= FullCapacity * bufferSize * interval

(* Mutant: the time window alone is not enough. *)
DefaultNeedSwitch_NoWindow(currentCount, size, elapsed, interval) ==
  LET bufferSize == AtLeastMin(size) IN
  \/ currentCount >= bufferSize
  \/ Combined(currentCount, bufferSize, elapsed, interval)
       >= FullCapacity * bufferSize * interval

(* DefaultStrategy: full, or overdue, or the weighted sum of both factors. *)
DefaultNeedSwitch(currentCount, size, elapsed, interval) ==
  LET bufferSize == AtLeastMin(size) IN
  \/ currentCount >= bufferSize
  \/ elapsed >= interval
  \/ Combined(currentCount, bufferSize, elapsed, interval)
       >= FullCapacity * bufferSize * interval

SizeOnlyNeedSwitch(currentCount, bufferSize) == currentCount >= bufferSize

TimeWindowNeedSwitch(elapsed, interval) == elapsed >= interval
=============================================================================
