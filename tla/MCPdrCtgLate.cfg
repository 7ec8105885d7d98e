CONSTANTS
  Flops = {"a", "b", "c"}
  Flop0 = "a"
  Inputs = {"x"}
  nPos = 2
  Problems <- LateProblems
  Cubes <- LateCubes
  Worn = {}
  nFrameMax = 5
SPECIFICATION CtgSpec
INVARIANT UnsatNeverFails
CHECK_DEADLOCK FALSE
