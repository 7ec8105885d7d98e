SPECIFICATION Spec
CONSTANTS
  Threads = {t1, t2}
  nJobs = 3
  NoJob = NoJob
  nPartitionSize = 2
  nPartitionSizeMin = 1
  nParallelPartitions = 3
  Calls <- CallsAll
INVARIANTS TypeOK FunctionsKept IntsTopological BestCopyKept
PROPERTY QueueSpec
CHECK_DEADLOCK FALSE
