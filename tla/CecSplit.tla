------------------------------- MODULE CecSplit -------------------------------
(***************************************************************************)
(* Cec_GiaSplitTestInt (src/proof/cec/cecSplit.c), the parallel proof of   *)
(* one output by case-splitting (&splitprove): a manager keeps a stack of  *)
(* cofactors, hands them to threads through one slot per thread, splits    *)
(* the ones left undecided and collects a verdict.                         *)
(*                                                                         *)
(* The problem is the set of input assignments that satisfy the output.  A *)
(* cofactor is known by the inputs it fixes and by the literals recorded   *)
(* in vCofVars.  The SAT solver returns the right answer or none within    *)
(* its time limit.  Between raising and clearing a flag a slot belongs to  *)
(* its thread, so that one visit of the manager to a slot is one step.     *)
(***************************************************************************)
EXTENDS Integers, FiniteSets, Sequences

CONSTANTS Vars,      \* primary inputs of the AIG
          nProcs,    \* processes: the manager and its threads
          IterMaxes, \* values of nIterMax to run with (0: no limit)
          NULL

Threads == 0 .. (nProcs - 2)
Assignments == [Vars -> BOOLEAN]
Valuations  == UNION {[V -> BOOLEAN] : V \in SUBSET Vars}
Cofactors   == {c \in [fixed : Valuations, vCofVars : Valuations] :
                  DOMAIN c.fixed = DOMAIN c.vCofVars}

ASSUME CecSplitAssumption ==
  /\ IsFiniteSet(Vars)
  /\ nProcs \in 2 .. 101  \* PAR_THR_MAX = 100
  /\ IterMaxes \subseteq Nat
  /\ NULL \notin Cofactors \cup Assignments

VARIABLES
  sat, nIterMax,               \* the problem and the parameter
  vStack,                      \* cofactors still to solve
  p, Result, fWorking,         \* the slots (pCnf is allocated along with p)
  nIter, fWorkToDo, RetValue,  \* the manager's counters and verdict
  pCexComb,                    \* the counter-example given to the caller
  mpc, i,                      \* the manager and its loop counter
  wpc                          \* the threads

problem == <<sat, nIterMax>>
slots   == <<p, Result, fWorking>>
vars == <<sat, nIterMax, vStack, p, Result, fWorking, nIter, fWorkToDo, RetValue,
          pCexComb, mpc, i, wpc>>

-----------------------------------------------------------------------------
(* Cofactors and the SAT solver.                                           *)

Whole == [fixed |-> <<>>, vCofVars |-> <<>>]
In(c) == {a \in Assignments : \A v \in DOMAIN c.fixed : a[v] = c.fixed[v]}

With(f, v, b) == [w \in DOMAIN f \cup {v} |-> IF w = v THEN b ELSE f[w]]

\* Gia_ManDupCofactorVar, and the literal pushed to vCofVars: Abc_Var2Lit(iVar, 1)
\* whatever the value.
Cofactor(c, v, b) == [fixed    |-> With(c.fixed, v, b),
                      vCofVars |-> With(c.vCofVars, v, FALSE)]

\* Cnf_GiaSolveOne: unsatisfiable, satisfiable, or out of time while some input
\* is still open.
Answers(c) == (IF In(c) \cap sat = {} THEN {1} ELSE {0})
              \cup (IF DOMAIN c.fixed = Vars THEN {} ELSE {-1})

\* Cec_SplitDeriveModel: the cofactored inputs take the recorded literals.
Model(c, a) == [v \in Vars |-> IF v \in DOMAIN c.vCofVars THEN c.vCofVars[v] ELSE a[v]]
Models(c) == {Model(c, a) : a \in In(c) \cap sat}

-----------------------------------------------------------------------------
Init ==
  /\ sat \in SUBSET Assignments /\ nIterMax \in IterMaxes
  /\ vStack = <<>>
  /\ p = [t \in Threads |-> NULL] /\ Result = [t \in Threads |-> -1]
  /\ fWorking = [t \in Threads |-> FALSE]
  /\ nIter = 0 /\ fWorkToDo = TRUE /\ RetValue = -1 /\ pCexComb = NULL
  /\ mpc = "check" /\ i = 0
  /\ wpc = [t \in Threads |-> "none"]

\* The problem is tried as it is; undecided, it starts the stack and the threads.
Check ==
  /\ mpc = "check"
  /\ \E status \in Answers(Whole) :
       /\ RetValue' = status
       /\ IF status = -1
          THEN /\ vStack' = <<Whole>>
               /\ wpc' = [t \in Threads |-> "spin"]
               /\ mpc' = "loop"
          ELSE mpc' = "return" /\ UNCHANGED <<vStack, wpc>>
       /\ IF status = 0 THEN pCexComb' \in Models(Whole) ELSE UNCHANGED pCexComb
  /\ UNCHANGED <<problem, slots, nIter, fWorkToDo, i>>

\* A round over the slots begins.
Round ==
  /\ mpc = "loop"
  /\ fWorkToDo' = (vStack # <<>>)
  /\ i' = 0 /\ mpc' = "scan"
  /\ UNCHANGED <<problem, slots, vStack, nIter, RetValue, pCexComb, wpc>>

Scanning == mpc = "scan" /\ i \in Threads

\* Slip: a busy slot is no reason to go on.
ScanBusyForgotten ==
  /\ Scanning /\ fWorking[i]
  /\ i' = i + 1
  /\ UNCHANGED <<problem, slots, vStack, nIter, fWorkToDo, RetValue, pCexComb, mpc, wpc>>

ScanBusy ==
  /\ Scanning /\ fWorking[i]
  /\ fWorkToDo' = TRUE /\ i' = i + 1
  /\ UNCHANGED <<problem, slots, vStack, nIter, RetValue, pCexComb, mpc, wpc>>

Finished(status) == Scanning /\ ~fWorking[i] /\ p[i] # NULL /\ Result[i] = status

\* A satisfiable cofactor ends the search.
ScanSat ==
  /\ Finished(0)
  /\ pCexComb' \in Models(p[i])
  /\ RetValue' = 0
  /\ i' = 0 /\ mpc' = "wait"
  /\ UNCHANGED <<problem, slots, vStack, nIter, fWorkToDo, wpc>>

\* The slot, its cofactor freed, takes the top of the stack, if there is one.
StartThread(stack) ==
  /\ IF stack = <<>>
     THEN /\ p' = [p EXCEPT ![i] = NULL] /\ vStack' = stack
          /\ UNCHANGED fWorking
     ELSE /\ p' = [p EXCEPT ![i] = stack[Len(stack)]]
          /\ vStack' = SubSeq(stack, 1, Len(stack) - 1)
          /\ fWorking' = [fWorking EXCEPT ![i] = TRUE]
  /\ i' = i + 1
  /\ UNCHANGED <<problem, Result, RetValue, pCexComb, mpc, wpc>>

ScanUnsat == Finished(1) /\ StartThread(vStack) /\ UNCHANGED <<nIter, fWorkToDo>>

\* Slip: both halves are taken for the same value.
SplitSame(c, v) == <<Cofactor(c, v, FALSE), Cofactor(c, v, FALSE)>>
Split(c, v) == <<Cofactor(c, v, FALSE), Cofactor(c, v, TRUE)>>

\* Slip: an input may be cofactored again.
SplitVarsAll(c) == Vars
SplitVars(c) == Vars \ DOMAIN c.fixed

ScanUndecided ==
  /\ Finished(-1)
  /\ \E v \in SplitVars(p[i]) : StartThread(vStack \o Split(p[i], v))
  /\ nIter' = nIter + 1 /\ fWorkToDo' = TRUE

ScanIdle ==
  /\ Scanning /\ ~fWorking[i] /\ p[i] = NULL
  /\ StartThread(vStack)
  /\ UNCHANGED <<nIter, fWorkToDo>>

\* The round is over: the search ends at the iteration limit or without work.
RoundOver ==
  /\ mpc = "scan" /\ i \notin Threads
  /\ IF (nIterMax # 0 /\ nIter >= nIterMax) \/ ~fWorkToDo
     THEN mpc' = "wait" /\ i' = 0 /\ RetValue' = (IF fWorkToDo THEN RetValue ELSE 1)
     ELSE mpc' = "loop" /\ UNCHANGED <<i, RetValue>>
  /\ UNCHANGED <<problem, slots, vStack, nIter, fWorkToDo, pCexComb, wpc>>

NextSlot(stage, after) ==
  IF i + 1 \in Threads THEN i' = i + 1 /\ mpc' = stage ELSE i' = 0 /\ mpc' = after

\* Slip: the wait does not start over when it meets a busy slot.
WaitOnce ==
  /\ mpc = "wait" /\ NextSlot("wait", "stop")
  /\ UNCHANGED <<problem, slots, vStack, nIter, fWorkToDo, RetValue, pCexComb, wpc>>

Wait ==
  /\ mpc = "wait"
  /\ IF fWorking[i] THEN i' = 0 /\ UNCHANGED mpc ELSE NextSlot("wait", "stop")
  /\ UNCHANGED <<problem, slots, vStack, nIter, fWorkToDo, RetValue, pCexComb, wpc>>

\* Only a thread whose slot still holds a cofactor is told to stop; after the
\* last one the stack is cleaned and the procedure returns.
Stop ==
  /\ mpc = "stop"
  /\ p' = [p EXCEPT ![i] = NULL]
  /\ fWorking' = (IF p[i] = NULL THEN fWorking ELSE [fWorking EXCEPT ![i] = TRUE])
  /\ NextSlot("stop", "return")
  /\ vStack' = (IF mpc' = "return" THEN <<>> ELSE vStack)
  /\ UNCHANGED <<problem, Result, nIter, fWorkToDo, RetValue, pCexComb, wpc>>

-----------------------------------------------------------------------------
(* Cec_GiaSplitWorkerThread.                                               *)

Wake(t) ==
  /\ wpc[t] = "spin" /\ fWorking[t]
  /\ wpc' = [wpc EXCEPT ![t] = IF p[t] = NULL THEN "exit" ELSE "solve"]
  /\ UNCHANGED <<problem, slots, vStack, nIter, fWorkToDo, RetValue, pCexComb, mpc, i>>

Solve(t) ==
  /\ wpc[t] = "solve"
  /\ \E status \in Answers(p[t]) : Result' = [Result EXCEPT ![t] = status]
  /\ wpc' = [wpc EXCEPT ![t] = "clear"]
  /\ UNCHANGED <<problem, vStack, p, fWorking, nIter, fWorkToDo, RetValue, pCexComb, mpc, i>>

\* Slip: the flag stays up.
ClearForgotten(t) ==
  /\ wpc[t] = "clear"
  /\ wpc' = [wpc EXCEPT ![t] = "spin"]
  /\ UNCHANGED <<problem, slots, vStack, nIter, fWorkToDo, RetValue, pCexComb, mpc, i>>

Clear(t) ==
  /\ wpc[t] = "clear"
  /\ fWorking' = [fWorking EXCEPT ![t] = FALSE]
  /\ wpc' = [wpc EXCEPT ![t] = "spin"]
  /\ UNCHANGED <<problem, vStack, p, Result, nIter, fWorkToDo, RetValue, pCexComb, mpc, i>>

WorkerThread(t) == Wake(t) \/ Solve(t) \/ Clear(t)

Manager == \/ Check \/ Round \/ ScanBusy \/ ScanSat \/ ScanUnsat \/ ScanUndecided
           \/ ScanIdle \/ RoundOver \/ Wait \/ Stop

Next == Manager \/ \E t \in Threads : WorkerThread(t)

Spec == Init /\ [][Next]_vars

\* The scheduler runs every thread, and the SAT solver has a time limit.
FairSpec == Spec /\ WF_vars(Manager) /\ \A t \in Threads : WF_vars(WorkerThread(t))

-----------------------------------------------------------------------------
(* Properties.                                                             *)

Status == {-1, 0, 1}
Slots  == Cofactors \cup {NULL}

\* Every variable keeps its type, and no input is cofactored twice on a path:
\* there are at most 2^|Vars| - 1 splits.
TypeOK ==
  /\ sat \subseteq Assignments /\ nIterMax \in IterMaxes
  /\ vStack \in Seq(Cofactors)
  /\ p \in [Threads -> Slots] /\ Result \in [Threads -> Status]
  /\ fWorking \in [Threads -> BOOLEAN]
  /\ nIter \in 0 .. (2 ^ Cardinality(Vars) - 1)
  /\ fWorkToDo \in BOOLEAN /\ RetValue \in Status
  /\ pCexComb \in Assignments \cup {NULL}
  /\ mpc \in {"check", "loop", "scan", "wait", "stop", "return"} /\ i \in 0 .. (nProcs - 1)
  /\ wpc \in [Threads -> {"none", "spin", "solve", "clear", "exit"}]

\* The verdict is right, and left open only at the limit on iterations.
VerdictRight ==
  mpc = "return" => CASE RetValue = 1  -> sat = {}
                      [] RetValue = 0  -> sat # {}
                      [] RetValue = -1 -> nIterMax # 0 /\ nIter >= nIterMax

\* Until the search is cut short, every satisfying assignment is in a cofactor
\* on the stack or in a slot: splitting, freeing and handing over lose none.
NothingLost ==
  mpc \in {"loop", "scan"} =>
    \A a \in sat : \/ \E k \in 1 .. Len(vStack) : a \in In(vStack[k])
                   \/ \E t \in Threads : p[t] # NULL /\ a \in In(p[t])

\* A cofactor is not freed while a thread works on it, however the search ends.
NotFreedInUse == \A t \in Threads : wpc[t] = "solve" => fWorking[t] /\ p[t] # NULL

\* The procedure returns.
Returns == <>(mpc = "return")
=============================================================================
