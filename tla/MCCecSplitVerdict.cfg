CONSTANTS
  Vars = {"x", "y"}
  nProcs = 3
  IterMaxes = {0, 2}
  NULL = NULL
SPECIFICATION FairSpec
INVARIANTS TypeOK VerdictRight NothingLost NotFreedInUse
PROPERTY Returns
CHECK_DEADLOCK FALSE
