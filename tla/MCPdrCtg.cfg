CONSTANTS
  Flops = {"a", "b", "c"}
  Flop0 = "a"
  Inputs = {"x"}
  nPos = 2
  Problems <- CtgProblems
  Cubes <- FewCubes
  Worn = {1, 2}
  nFrameMax = 5
SPECIFICATION CtgFairSpec
INVARIANTS PendingSound UnsatUntilDrop
PROPERTY Terminates
CHECK_DEADLOCK FALSE
