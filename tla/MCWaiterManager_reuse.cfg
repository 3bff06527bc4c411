\* Three clients over channels that are reused and channels that are dropped.
CONSTANTS
  c1 = c1
  c2 = c2
  c3 = c3
  h1 = h1
  h2 = h2
  h3 = h3
  h4 = h4
  None = None
  Clients = {c1, c2, c3}
  Channels = {h1, h2, h3, h4}
  Sizes = {0, 1, 2, 3}
  MaxWaitersPerBatch = 2
  MaxTotalWaiters = 3
SPECIFICATION Spec
INVARIANTS TypeOK NoSharedChannel ChannelsClean NoForgottenWaiter
SYMMETRY Symmetry
CHECK_DEADLOCK FALSE
