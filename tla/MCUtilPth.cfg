CONSTANTS
  nItems = 5
  MaxProcs = 5
SPECIFICATION FairSpec
INVARIANTS IInv SlotOwned NoThreadLeft
PROPERTIES LoopSpec Returns
CHECK_DEADLOCK FALSE
