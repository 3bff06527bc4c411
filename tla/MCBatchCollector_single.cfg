\* Two callers against the worker, over two reports.
CONSTANTS
  c1 = c1
  c2 = c2
  Recorders = {c1, c2}
  Reporters = {"asyncWorker"}
  Calls = {"write", "writeError", "read", "readError", "switch", "skip", "workerInc", "workerDec", "alloc"}
  MaxCalls = 2
  MaxReports = 2
SPECIFICATION Spec
INVARIANTS NeverOverReported OnlyWindowLost
CHECK_DEADLOCK FALSE
