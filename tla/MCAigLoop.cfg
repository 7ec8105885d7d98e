SPECIFICATION Spec
CONSTANTS
  nPis = 2
  nObjMax = 12
  Starts <- LoopStarts
INVARIANT NoLoop
CHECK_DEADLOCK FALSE
