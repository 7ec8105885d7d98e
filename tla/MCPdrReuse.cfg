CONSTANTS
  Flops = {"a", "b"}
  Flop0 = "a"
  Inputs = {"x"}
  nPos = 2
  Problems <- ReuseProblems
  Cubes <- AllCubes
  Worn = {}
  nFrameMax = 5
SPECIFICATION Spec
INVARIANT CexesReal
CHECK_DEADLOCK FALSE
