\* One writer, the monitor and one reader, over a pool that may be emptied: buffers come
\* back as the active channel.
CONSTANTS
  w1 = w1
  w2 = w2
  r1 = r1
  r2 = r2
  c1 = c1
  c2 = c2
  None = None
  Writers = {w1}
  Readers = {r1}
  Closers = {}
  ReadModes = {"SafeRead"}
  Capacity = 1
  MaxIndex = 7
  PoolForgets = TRUE
  MaxMsgs = 3
  MaxRotations = 3
  MaxPushers = 1
SPECIFICATION Spec
INVARIANTS SingleOwner NoDuplicateDelivery SwitchExclusive SealedUntilReset
SYMMETRY ThreadSymmetry
CHECK_DEADLOCK FALSE
