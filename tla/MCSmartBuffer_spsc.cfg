\* One writer, one reader: the ring is a bounded FIFO.
CONSTANTS
  w1 = w1
  w2 = w2
  r1 = r1
  r2 = r2
  Writers = {w1}
  Readers = {r1}
  Capacity = 2
  MaxIndex = 1
  MaxMsgs = 6
  OwnerStates = {"WriteOnly", "ReadOnly", "Switching"}
  Recycling = FALSE
SPECIFICATION Spec
PROPERTIES ImplementsFifo
