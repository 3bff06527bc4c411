\* Close against a writer, the monitor and a reader, none of which needs a timeout to end.
CONSTANTS
  w1 = w1
  w2 = w2
  r1 = r1
  r2 = r2
  c1 = c1
  c2 = c2
  None = None
  Writers = {w1}
  Readers = {r1}
  Closers = {c1}
  ReadModes = {"SafeRead"}
  Capacity = 1
  MaxIndex = 7
  PoolForgets = FALSE
  MaxMsgs = 2
  MaxRotations = 1
  MaxPushers = 1
SPECIFICATION FairSpec
INVARIANTS NilOnlyInDrain
PROPERTIES ClosedIsFinal CloseReturns CloseReleasesReaders WriteReturns
CHECK_DEADLOCK FALSE
