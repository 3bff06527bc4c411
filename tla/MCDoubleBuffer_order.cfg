\* Sequence numbers are drawn by the goroutines, not by the switches.
CONSTANTS
  w1 = w1
  w2 = w2
  r1 = r1
  r2 = r2
  c1 = c1
  c2 = c2
  None = None
  Writers = {w1}
  Readers = {r1}
  Closers = {}
  ReadModes = {"SafeRead"}
  Capacity = 1
  MaxIndex = 7
  PoolForgets = FALSE
  MaxMsgs = 2
  MaxRotations = 2
  MaxPushers = 2
SPECIFICATION Spec
INVARIANTS GlobalMessageOrder
SYMMETRY ThreadSymmetry
CHECK_DEADLOCK FALSE
