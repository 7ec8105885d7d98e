-------------------------------- MODULE MCPdr --------------------------------
(* Instances of Pdr for TLC.                                                *)
EXTENDS PdrInvariant, TLC

Default == [fSolveAll |-> FALSE, fReuseProofOblig |-> FALSE,
            fShortest |-> FALSE, fShiftStart |-> FALSE, fUsePropOut |-> TRUE,
            nRestLimit |-> 0, nTimeOut |-> FALSE, nTimeOutOne |-> FALSE]
ShiftStart == [Default EXCEPT !.fShiftStart = TRUE, !.fShortest = TRUE,
                              !.nTimeOut = TRUE]
SolveAll == [Default EXCEPT !.fSolveAll = TRUE, !.nTimeOutOne = TRUE]
Restart  == [Default EXCEPT !.nRestLimit = 2, !.fUsePropOut = FALSE]
Reuse    == [Default EXCEPT !.fReuseProofOblig = TRUE]

\* Every circuit with flops a and b, one input valuation and a first step to
\* state a, whose output 0 fails in state ab and whose output 1 in state b; and
\* those whose output 1 never fails, on which obligations can be reused.
TwoFlops(bad) == {c \in AigType :
  /\ \A x \in Inputs : c.next[<<{}, x>>] = {"a"}
  /\ c.po = [o \in Outputs |-> bad[o] \X Inputs]}
BothFail == TwoFlops(<<{{"b"}}>> @@ 0 :> {{"a", "b"}})
OneFails == TwoFlops(<<{}>> @@ 0 :> {{"a", "b"}})
FramesProblems == (BothFail \X {ShiftStart, SolveAll, Restart})
                  \cup (OneFails \X {Reuse})
ReuseProblems == BothFail \X {Reuse}

AllCubes == Cube
=============================================================================
