SPECIFICATION Spec
CONSTANTS
  Threads = {t1, t2, t3}
  nJobs = 4
  NoJob = NoJob
INVARIANTS QueueTypeOK EachJobOnce NothingLeftBehind
PROPERTY RunReturns
CHECK_DEADLOCK FALSE
