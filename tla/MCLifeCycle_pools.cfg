\* Both read modes, slices written again while in use, refused writes; a cleanup
\* takes one entry at a time.
CONSTANTS
  m1 = m1
  b1 = b1
  b2 = b2
  MediumPtrs = {m1}
  BigPtrs = {b1, b2}
  ReadModes = {"SafeRead", "ZeroCopyRead"}
  MaxLive = 2
  MaxCleanCounts = 0
  MaxSize = 4
SPECIFICATION Spec
INVARIANTS RefMatchesUse SizeCoversEntries
PROPERTIES BigReclaimed YoungStaysValid
CHECK_DEADLOCK FALSE
