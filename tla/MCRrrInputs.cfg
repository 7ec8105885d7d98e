SPECIFICATION Spec
CONSTANTS
  Threads = {t1, t2}
  nJobs = 3
  NoJob = NoJob
  nPartitionSize = 2
  nPartitionSizeMin = 1
  nParallelPartitions = 3
  Calls <- CallsSerial
INVARIANT InputsAlive
CHECK_DEADLOCK FALSE
