\* Two writers that overrun a ring of one slot, a reader that also recycles it, an owner
\* that stores every state.
CONSTANTS
  w1 = w1
  w2 = w2
  r1 = r1
  r2 = r2
  Writers = {w1, w2}
  Readers = {r1}
  Capacity = 1
  MaxIndex = 0
  MaxMsgs = 3
  OwnerStates = {"ReadOnly", "Switching"}
  Recycling = TRUE
SPECIFICATION Spec
INVARIANTS TypeOK CountBounded CountNeverNegative NoDuplicate
