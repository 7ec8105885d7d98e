------------------------------- MODULE MCPdrCtg -------------------------------
(* Instances of PdrCtg for TLC: circuits with 3 flops.                      *)
EXTENDS PdrCtg, TLC

SolveAll == [fSolveAll |-> TRUE, fReuseProofOblig |-> FALSE,
             fShortest |-> FALSE, fShiftStart |-> FALSE, fUsePropOut |-> TRUE,
             nRestLimit |-> 0, nTimeOut |-> FALSE, nTimeOutOne |-> TRUE]
Limited == [SolveAll EXCEPT !.fSolveAll = FALSE, !.nTimeOut = TRUE, !.nTimeOutOne = FALSE]
Shortest == [SolveAll EXCEPT !.fShortest = TRUE, !.nTimeOutOne = FALSE]

\* The states that follow {}, a, b, c, ab, ac, bc and abc.
Circuit(nx, bad) ==
  [next |-> [m \in States \X Inputs |->
     CASE m[1] = {} -> nx[1] [] m[1] = {"a"} -> nx[2] [] m[1] = {"b"} -> nx[3]
       [] m[1] = {"c"} -> nx[4] [] m[1] = {"a", "b"} -> nx[5]
       [] m[1] = {"a", "c"} -> nx[6] [] m[1] = {"b", "c"} -> nx[7] [] OTHER -> nx[8]],
   po |-> [o \in Outputs |-> bad[o + 1] \X Inputs]]
\* A counter-example to generalization occurs while the first output is blocked,
\* and the solver of frame 1 is then all that keeps the failure of that output out
\* of the frames the second output is proved with.
Detour == Circuit(<<{"a", "c"}, {}, {"c"}, {}, Flops, {"b"}, {"a", "c"}, {}>>,
                  <<{Flops}, {{"b", "c"}}>>)
\* One is blocked, and its cube shrunk, while the first output is.
Blocked == Circuit(<<{"b", "c"}, {"a"}, {"b"}, Flops, {}, {"c"}, {"a"}, {"a", "b"}>>,
                   <<{{"b"}}, {Flops}>>)
\* All states are reached one after the other.
Path == Circuit(<<{"c"}, Flops, {"a", "b"}, {"a"}, {"a", "b"}, {"b"}, {"a", "c"}, {"b", "c"}>>,
                <<{{"a", "c"}}, {{"a", "b"}}>>)
\* The time of the first output may end while a counter-example to generalization
\* is pushed to higher levels, before its run comes through or after it.
Still == Circuit(<<{"c"}, {"b"}, {"a"}, {}, {"a", "c"}, {"a"}, {"b", "c"}, {"c"}>>,
                 <<{Flops}, {{"c"}}>>)
Stuck == Circuit(<<{"c"}, Flops, {}, {"c"}, {"a", "b"}, {}, {"c"}, {"a"}>>,
                 <<{{"b", "c"}}, {{"a"}}>>)
\* A clause shrunk while being pushed hides a predecessor from its frame but not
\* from the frame's solver.
Hiding == Circuit(<<{}, {"c"}, {}, {"c"}, {"c"}, {}, {"a", "b"}, {"a"}>>,
                  <<{{"c"}}, {{"c"}}>>)
CtgProblems == {<<Detour, SolveAll>>, <<Still, SolveAll>>, <<Stuck, SolveAll>>,
                <<Blocked, Limited>>, <<Path, Shortest>>, <<Hiding, Shortest>>}
\* The first output cannot fail, and its time may end while a CTG is pushed; the
\* second one fails after four steps.
Late == Circuit(<<{"b"}, {"a", "b"}, {"a", "b"}, {"a"}, {"a", "c"}, {"b", "c"}, {"c"}, {"a", "b"}>>,
                <<{Flops}, {{"b", "c"}}>>)
LateProblems == {<<Late, SolveAll>>}

LateCubes == Minterms \cup
  {[pos |-> {"a"}, neg |-> {}], [pos |-> {"c"}, neg |-> {}],
   [pos |-> {"b", "c"}, neg |-> {}]}
FewCubes == Minterms \cup
  {[pos |-> {"a"}, neg |-> {}], [pos |-> {"c"}, neg |-> {"a"}],
   [pos |-> {"a", "c"}, neg |-> {}], [pos |-> {"b", "c"}, neg |-> {}]}
=============================================================================
