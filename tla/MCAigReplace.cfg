SPECIFICATION Spec
CONSTANTS
  nPis = 2
  nObjMax = 6
  Starts <- MCStarts
INVARIANTS NothingStale AigCheck LoopsTakeOverlap
PROPERTIES FunctionsKept ReplaceReturns
CHECK_DEADLOCK FALSE
