\* One owner that starts the monitor twice, a pool with a worker for each task of one
\* collection, and the default controller, whose timeout overflows.
CONSTANTS
  o1 = o1
  o2 = o2
  b1 = b1
  Tasks <- TwoTasks
  PoolSize = 2
  Observers = {b1}
  Owners = {o1}
  FixedRatio = 5
  ReportInterval = 5
  MaxDuration = 9
  MaxStarts = 2
  MaxCollections = 2
SPECIFICATION FairSpec
INVARIANTS CoherentUpdates DiskReportedOnce OneCollector WaitGroupReused
PROPERTIES StopReturns CollectorsEnd
CHECK_DEADLOCK FALSE
