\* One buffer, two updaters, writers whose count.Add comes late.
CONSTANTS
  d1 = d1
  d2 = d2
  u1 = u1
  u2 = u2
  None = None
  Buffers = {d1}
  Updaters = {u1, u2}
  Strategy = "Default"
  Size = 2
  Percents <- MCPercents
  Times <- MCTimes
  InitialTime = 1
  MaxInFlight = 2
  MaxVersion = 3
  MaxElapsed = 2
SPECIFICATION Spec
INVARIANTS FreshConfig
PROPERTIES DueStaysDue DataRotated
