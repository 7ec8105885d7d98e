CONSTANTS
  Flops = {"a", "b"}
  Flop0 = "a"
  Inputs = {"x"}
  nPos = 2
  Problems <- FramesProblems
  Cubes <- AllCubes
  Worn = {0, 1, 2}
  nFrameMax = 3
SPECIFICATION Spec
INVARIANTS IInv FramesInductive SolversSound LastSolverExact ObligationsAhead ProofIsInductive CexesReal
PROPERTY FramesShrink
CHECK_DEADLOCK FALSE
