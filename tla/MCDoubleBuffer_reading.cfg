\* A client that keeps reading, and rotations whose goroutines overtake each other.
CONSTANTS
  w1 = w1
  w2 = w2
  r1 = r1
  r2 = r2
  c1 = c1
  c2 = c2
  None = None
  Writers = {w1}
  Readers = {r1}
  Closers = {}
  ReadModes = {"SafeRead"}
  Capacity = 1
  MaxIndex = 7
  PoolForgets = FALSE
  MaxMsgs = 1
  MaxRotations = 2
  MaxPushers = 2
SPECIFICATION ReadingSpec
INVARIANTS TypeOK SequenceComplete
PROPERTIES EveryRotationConsumed BlockingReadReturns
CHECK_DEADLOCK FALSE
