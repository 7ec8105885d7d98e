--------------------------------- MODULE Pdr ---------------------------------
(***************************************************************************)
(* The property-directed reachability engine of src/proof/pdr (the ABC     *)
(* command "pdr"): frames of blocked cubes, one incremental SAT solver per *)
(* frame, the queue of proof obligations, generalization, clause pushing   *)
(* and the verdicts handed back to the caller.                             *)
(*                                                                         *)
(* A state of the circuit is the set of flops that hold 1 (Aig_Man_t is    *)
(* normalised so that the initial state is all-0).  A cube is a set of     *)
(* positive and negative flop literals.  A call of the SAT solver is       *)
(* replaced by its specification: the set of <<state, input>> pairs that   *)
(* satisfy the clauses added to that solver; which model, which core and   *)
(* which generalization come back is left open.                            *)
(***************************************************************************)
EXTENDS Integers, FiniteSets, Sequences

CONSTANTS
  Flops,      \* registers of the AIG
  Flop0,      \* the flop with index 0
  Inputs,     \* valuations of the primary inputs
  nPos,       \* number of property outputs
  Problems,   \* circuits, each with settings of Pdr_Par_t, to run on
  Cubes,      \* cubes that widening and generalization may return
  Worn,       \* frames whose solver may be called nRecycle times and rebuilt
  nFrameMax   \* pPars->nFrameMax

States  == SUBSET Flops
Outputs == 0 .. (nPos - 1)
Frames  == 0 .. nFrameMax

AigType == [next : [States \X Inputs -> States],
            po   : [Outputs -> SUBSET (States \X Inputs)]]
ParType == [fSolveAll : BOOLEAN, fReuseProofOblig : BOOLEAN,
            fShortest : BOOLEAN, fShiftStart : BOOLEAN, fUsePropOut : BOOLEAN,
            nRestLimit : Nat, nTimeOut : BOOLEAN, nTimeOutOne : BOOLEAN]

Cube == {c \in [pos : SUBSET Flops, neg : SUBSET Flops] : c.pos \cap c.neg = {}}
Minterms == {[pos |-> s, neg |-> Flops \ s] : s \in States}

ASSUME PdrAssumption ==
  /\ IsFiniteSet(Flops) /\ Flop0 \in Flops
  /\ nPos \in Nat \ {0}
  /\ nFrameMax \in Nat \ {0}
  /\ Problems \subseteq AigType \X ParType
  /\ Worn \subseteq Frames
  /\ Minterms \subseteq Cubes /\ Cubes \subseteq Cube

VARIABLES
  pAig, pPars,    \* the problem, fixed when the manager starts
  vClauses,       \* cubes blocked at each level (level k holds in frames 1..k)
  vSolvers,       \* clauses and asserted outputs of each frame's SAT solver
  pQueue,         \* proof obligations
  iFrame,         \* last open frame (Vec_PtrSize(p->vSolvers) - 1)
  iOutCur,        \* output under work
  iUseFrame,      \* lowest frame touched since the frame was opened
  nQueLim,        \* obligations after which blocking restarts (0: never)
  iPush, vDone,   \* level being pushed and its cubes already tried
  fInv,           \* pushing has emptied a level
  vOutMap,        \* per output: -2 unknown, -1 undecided, 0 failed, 1 proved
  vCexes,         \* per output: the obligation chain of its counter-example
  RetValue, pc

problem == <<pAig, pPars>>
frames  == <<vClauses, vSolvers>>
pushing == <<iPush, vDone, fInv>>
verdict == <<vOutMap, vCexes, RetValue>>
vars == <<pAig, pPars, vClauses, vSolvers, pQueue, iFrame, iOutCur, iUseFrame,
          nQueLim, iPush, vDone, fInv, vOutMap, vCexes, RetValue, pc>>

-----------------------------------------------------------------------------
(* Cubes (Pdr_Set_t).                                                      *)

Holds(s, c) == c.pos \subseteq s /\ c.neg \cap s = {}
Pdr_SetIsInit(c) == c.pos = {}
Pdr_SetContains(old, new) == new.pos \subseteq old.pos /\ new.neg \subseteq old.neg

(* Frames.  F(k) is what the clauses of levels k and above admit.          *)
Frame(C, k) == IF k = 0 THEN {{}}
               ELSE {s \in States : \A j \in k .. nFrameMax :
                                       \A c \in C[j] : ~Holds(s, c)}
F(k) == Frame(vClauses, k)

(* Outputs whose negation Pdr_ManSetPropertyOutput asserts.                *)
LiveOutputsAll == IF pPars.fUsePropOut THEN Outputs ELSE {} \* slip: disproved ones too
LiveOutputs == IF pPars.fUsePropOut
               THEN {o \in Outputs : vOutMap[o] \notin {0, -1}} ELSE {}

-----------------------------------------------------------------------------
(* SAT solvers.                                                            *)

NewSolver == [cubes |-> {}, props |-> {}]

\* Slip: the restarted solver is given back as it was.
RebuiltStale(k) == vSolvers[k]

\* A recycled solver: Pdr_ManFetchSolver reloads the levels k and above.
Rebuilt(k) == [cubes |-> UNION {vClauses[j] : j \in k .. nFrameMax},
               props |-> LiveOutputs]

\* Pdr_ManSolverAddClause: the clause that blocks g.
WithClause(solver, g) ==
  [cubes |-> solver.cubes \cup {g}, props |-> solver.props]

\* The clause of cube g is added to the solvers of frames 1..k (slip: one short).
LearnedShort(S, k, g) == [i \in Frames |->
  IF i \in 1 .. (k - 1) THEN WithClause(S[i], g) ELSE S[i]]
Learned(S, k, g) == [i \in Frames |->
  IF i \in 1 .. k THEN WithClause(S[i], g) ELSE S[i]]

\* The solvers after a step consulted those of K; only a solver that is not
\* the last may have spent its activation variables and be recycled.
Fetched(R) == [k \in Frames |-> IF k \in R THEN Rebuilt(k) ELSE vSolvers[k]]
Recyclable(K) == SUBSET {k \in K : k < iFrame /\ k \in Worn}

Models(k, S) ==
  {m \in States \X Inputs :
     /\ k = 0 => m[1] = {}
     /\ \A c \in S.cubes : ~Holds(m[1], c)
     /\ \A o \in S.props : m \notin pAig.po[o]}

\* Pdr_ManCheckCube(p, k, c) is UNSAT: no step leads from outside "hyp" to g.
Unreachable(k, S, hyp, g) ==
  \A m \in Models(k, S) : Holds(m[1], hyp) \/ ~Holds(pAig.next[m], g)

\* Slip: the literal that keeps the initial state out is not put back.
ShrunkToInit(c) == {g \in Cubes : Pdr_SetContains(c, g)}

\* Sub-cubes of c that an UNSAT core may leave, a positive literal being put back.
Shrunk(c) == {g \in Cubes : Pdr_SetContains(c, g) /\ ~Pdr_SetIsInit(g)}

\* Slip: flops are removed from the cube without simulating the result.
WidenBlind(M, goal) ==
  {w \in [cube : Cubes, pis : Inputs] :
     \E m \in M \cap goal : Holds(m[1], w.cube) /\ m[2] = w.pis}

\* Pdr_ManTernarySim: a satisfying state is widened to a cube all of whose
\* states meet the same goal under the same input; an empty cube becomes the
\* positive literal of flop 0.
Widen(M, goal) ==
  LET wide(c, x) == \A s \in States : Holds(s, c) => <<s, x>> \in goal
      all == [pos |-> {}, neg |-> {}]
  IN  {w \in [cube : Cubes \ {all}, pis : Inputs] :
         /\ wide(w.cube, w.pis)
         /\ \E m \in M \cap goal : Holds(m[1], w.cube) /\ m[2] = w.pis}
      \cup {w \in [cube : {[pos |-> {Flop0}, neg |-> {}]}, pis : Inputs] :
         wide(all, w.pis) /\ \E m \in M \cap goal : m[2] = w.pis}

-----------------------------------------------------------------------------
Init ==
  /\ \E problem0 \in Problems : pAig = problem0[1] /\ pPars = problem0[2]
  /\ vClauses = [k \in Frames |-> {}]
  /\ vSolvers = [k \in Frames |-> NewSolver]
  /\ pQueue = {}
  /\ iFrame = 0 /\ iOutCur = 0 /\ iUseFrame = 1 /\ nQueLim = 0
  /\ iPush = 0 /\ vDone = {} /\ fInv = FALSE
  /\ vOutMap = [o \in Outputs |-> -2]
  /\ vCexes = [o \in Outputs |-> <<>>]
  /\ RetValue = -1 /\ pc = "output"

NextOutput == iOutCur' = iOutCur + 1 /\ pc' = "output"
Return(r)  == RetValue' = r /\ pc' = "return"

-----------------------------------------------------------------------------
(* Pdr_ManSolveInt: the loop over the outputs of the last frame.           *)

\* Outputs already disproved or timed out are passed over.
SkipOutput ==
  /\ pc = "output" /\ iOutCur < nPos /\ vOutMap[iOutCur] \in {0, -1}
  /\ NextOutput
  /\ UNCHANGED <<problem, frames, pQueue, iFrame, iUseFrame, nQueLim, pushing,
                 verdict>>

Attempted == pc = "output" /\ iOutCur < nPos /\ vOutMap[iOutCur] \notin {0, -1}
BadModels == Models(iFrame, vSolvers[iFrame]) \cap pAig.po[iOutCur]

OutputHolds ==
  /\ Attempted /\ BadModels = {}
  /\ NextOutput
  /\ UNCHANGED <<problem, frames, pQueue, iFrame, iUseFrame, nQueLim, pushing,
                 verdict>>

\* A bad cube is found in the last frame: it becomes the first obligation.
OutputFails ==
  /\ Attempted
  /\ \E w \in Widen(Models(iFrame, vSolvers[iFrame]), pAig.po[iOutCur]) :
       pQueue' = pQueue \cup {[iFrame |-> iFrame, path |-> <<w>>]}
  /\ pc' = "block"
  /\ UNCHANGED <<problem, frames, iFrame, iOutCur, iUseFrame, nQueLim, pushing,
                 verdict>>

\* All outputs hold in the frame: assert them there and open the next frame.
OpenFrame ==
  /\ pc = "output" /\ iOutCur = nPos
  /\ vSolvers' = [vSolvers EXCEPT
       ![iFrame] = [cubes |-> @.cubes, props |-> LiveOutputs],
       ![iFrame + 1] = NewSolver]
  /\ iFrame' = iFrame + 1
  /\ nQueLim' = pPars.nRestLimit
  /\ iPush' = IF pPars.fShiftStart THEN iUseFrame ELSE 1
  /\ vDone' = {} /\ fInv' = FALSE
  /\ pc' = "push"
  /\ UNCHANGED <<problem, vClauses, pQueue, iOutCur, iUseFrame, verdict>>

-----------------------------------------------------------------------------
(* Pdr_ManBlockCube: one action per way an iteration of its loop can go.   *)

Heads == {o \in pQueue : \A o2 \in pQueue : o.iFrame <= o2.iFrame}
Target(o) == o.path[1].cube
QueueFull == nQueLim # 0 /\ Cardinality(pQueue) >= nQueLim

\* The queue is empty, or only holds obligations of a frame not yet open.
BlockDone ==
  /\ pc = "block" /\ \A o \in pQueue : o.iFrame > iFrame
  /\ pc' = "output"
  /\ UNCHANGED <<problem, frames, pQueue, iFrame, iOutCur, iUseFrame, nQueLim,
                 pushing, verdict>>

\* An obligation reached frame 0: iOutCur is disproved.
BlockFailed ==
  /\ pc = "block"
  /\ \E o \in Heads :
       /\ o.iFrame = 0
       /\ vCexes' = [vCexes EXCEPT ![iOutCur] = o.path]
       /\ IF ~pPars.fSolveAll
          THEN Return(0) /\ UNCHANGED <<pQueue, iOutCur, vOutMap>>
          ELSE /\ vOutMap' = [vOutMap EXCEPT ![iOutCur] = 0]
               /\ IF \A p \in Outputs : vOutMap'[p] = 0
                  THEN Return(0) /\ UNCHANGED <<pQueue, iOutCur>>
                  ELSE pQueue' = {} /\ NextOutput /\ UNCHANGED RetValue
  /\ UNCHANGED <<problem, frames, iFrame, iUseFrame, nQueLim, pushing>>

\* The queue limit is hit: all obligations are dropped, the limit grows.
BlockRestart ==
  /\ pc = "block" /\ QueueFull
  /\ \E o \in Heads : o.iFrame \in 1 .. iFrame
  /\ nQueLim' = (nQueLim * 3) \div 2
  /\ pQueue' = {}
  /\ pc' = "output"
  /\ UNCHANGED <<problem, frames, iFrame, iOutCur, iUseFrame, pushing, verdict>>

Lowest(o) == IF o.iFrame < iUseFrame THEN o.iFrame ELSE iUseFrame

Popped(o) ==
  /\ pc = "block" /\ ~QueueFull
  /\ o \in Heads /\ o.iFrame \in 1 .. iFrame
  /\ iUseFrame' = Lowest(o)
  /\ UNCHANGED <<problem, iFrame, iOutCur, nQueLim, pushing, verdict>>

\* Pdr_ManCheckContainment: a cube of this or a higher level subsumes it.
Contained(o) == \E j \in o.iFrame .. iFrame :
                  \E c \in vClauses[j] : Pdr_SetContains(Target(o), c)

\* Pdr_ManCheckCubeCs, UNSAT: the solver of the frame excludes the cube.
CoveredBy(S, o) == \A m \in Models(o.iFrame, S) : ~Holds(m[1], Target(o))

BlockContained(o) ==
  /\ Popped(o) /\ Contained(o)
  /\ pQueue' = pQueue \ {o}
  /\ UNCHANGED <<frames, pc>>

BlockCovered(o, R) ==
  /\ Popped(o) /\ ~Contained(o)
  /\ R \in Recyclable({o.iFrame})
  /\ vSolvers' = Fetched(R)
  /\ CoveredBy(vSolvers'[o.iFrame], o)
  /\ pQueue' = pQueue \ {o}
  /\ UNCHANGED <<vClauses, pc>>

\* A blocked obligation is tried again one frame up (slip: two).
PostponedTwice(o, k) == [o EXCEPT !.iFrame = k + 2]
Postponed(o, k) == [o EXCEPT !.iFrame = k + 1]

\* Pdr_ManGeneralize: literals of the core are dropped, never the last positive
\* one, while the solver of the frame below admits no step to the cube from
\* outside it.
Generalized(o, S) ==
  {g \in Shrunk(Target(o)) : Unreachable(o.iFrame - 1, S[o.iFrame - 1], g, g)}

\* The cube is blocked: its generalization g is pushed to the last frame k it
\* holds in, and the obligation is postponed to frame k + 1 or dropped.
BlockLearn(o, R) ==
  /\ Popped(o) /\ ~Contained(o) /\ ~CoveredBy(vSolvers[o.iFrame], o)
  /\ R \in Recyclable((o.iFrame - 1) .. iFrame)
  /\ \E g \in Generalized(o, Fetched(R)), k \in o.iFrame .. iFrame :
       LET S == Fetched(R)
       IN /\ \A i \in o.iFrame .. (k - 1) : Unreachable(i, S[i], g, g)
          /\ k < iFrame => ~Unreachable(k, S[k], g, g)
          /\ \A i \in R : i <= k
          /\ vClauses' = [vClauses EXCEPT ![k] = @ \cup {g}]
          /\ vSolvers' = Learned(S, k, g)
          /\ pQueue' = (pQueue \ {o}) \cup
               IF (k < iFrame \/ pPars.fReuseProofOblig) /\ ~pPars.fShortest
               THEN {Postponed(o, k)} ELSE {}
  /\ UNCHANGED pc

\* The cube has a predecessor: that becomes an obligation one frame below.
BlockPredecessor(o, R) ==
  /\ Popped(o) /\ ~Contained(o)
  /\ R \in Recyclable({o.iFrame - 1, o.iFrame})
  /\ vSolvers' = Fetched(R)
  /\ ~CoveredBy(vSolvers'[o.iFrame], o)
  /\ LET S == vSolvers'[o.iFrame - 1]
         outside == {m \in Models(o.iFrame - 1, S) : ~Holds(m[1], Target(o))}
         goal == {m \in States \X Inputs : Holds(pAig.next[m], Target(o))}
     IN \E w \in Widen(outside, goal) :
          pQueue' = pQueue \cup {[iFrame |-> o.iFrame - 1, path |-> <<w>> \o o.path]}
  /\ UNCHANGED <<vClauses, pc>>

-----------------------------------------------------------------------------
(* Pdr_ManPushClauses: one action per cube, per level, and the final one.  *)

\* Later cubes of the level that c subsumes are dropped when c is tried.
Thinned(c) == {d \in vClauses[iPush] :
                 d = c \/ d \in vDone \/ ~Pdr_SetContains(d, c)}

PushKept(c, R) ==
  /\ pc = "push" /\ iPush < iFrame
  /\ c \in vClauses[iPush] \ vDone
  /\ R \in Recyclable({iPush})
  /\ vSolvers' = Fetched(R)
  /\ ~Unreachable(iPush, vSolvers'[iPush], c, c)
  /\ vClauses' = [vClauses EXCEPT ![iPush] = Thinned(c)]
  /\ vDone' = vDone \cup {c}
  /\ UNCHANGED <<problem, pQueue, iFrame, iOutCur, iUseFrame, nQueLim, iPush,
                 fInv, verdict, pc>>

\* Cube g enters a level and replaces the cubes it subsumes (slip: the test the
\* other way round).
AbsorbedBy(level, g) == {d \in level : ~Pdr_SetContains(g, d)} \cup {g}
Absorb(level, g) == {d \in level : ~Pdr_SetContains(d, g)} \cup {g}

\* The cube holds one frame further: shrunk to its core, it moves there.  Only
\* the solver of that frame learns the shrunk cube.
PushMoved(c, R) ==
  /\ pc = "push" /\ iPush < iFrame
  /\ c \in vClauses[iPush] \ vDone
  /\ R \in Recyclable({iPush})
  /\ LET S == Fetched(R)
     IN \E g \in Shrunk(c) :
          /\ Unreachable(iPush, S[iPush], c, g)
          /\ vSolvers' = [S EXCEPT ![iPush + 1] = WithClause(@, g)]
          /\ vClauses' = [vClauses EXCEPT
               ![iPush] = Thinned(c) \ {c},
               ![iPush + 1] = Absorb(@, g)]
  /\ UNCHANGED <<problem, pQueue, iFrame, iOutCur, iUseFrame, nQueLim, pushing,
                 verdict, pc>>

PushLevelDone ==
  /\ pc = "push" /\ iPush < iFrame /\ vClauses[iPush] \subseteq vDone
  /\ fInv' = (fInv \/ vClauses[iPush] = {})
  /\ iPush' = iPush + 1 /\ vDone' = {}
  /\ UNCHANGED <<problem, frames, pQueue, iFrame, iOutCur, iUseFrame, nQueLim,
                 verdict, pc>>

LastFrame == iFrame >= nFrameMax

\* The new frame's cubes are thinned as well; then the run stops with a proof
\* or at the frame limit, or turns to the new frame.
PushDone ==
  /\ pc = "push" /\ iPush >= iFrame
  /\ \E kept \in SUBSET vClauses[iFrame] :
       /\ \A d \in vClauses[iFrame] \ kept : \E c \in kept : Pdr_SetContains(d, c)
       /\ vClauses' = [vClauses EXCEPT ![iFrame] = kept]
  /\ IF fInv
     THEN /\ vOutMap' = IF pPars.fSolveAll
                        THEN [o \in Outputs |-> IF vOutMap[o] = -2 THEN 1
                                                ELSE vOutMap[o]]
                        ELSE vOutMap
          /\ Return(IF \A o \in Outputs : vOutMap[o] = -2 THEN 1
                    ELSE IF \E o \in Outputs : vOutMap[o] = 0 THEN 0 ELSE -1)
          /\ UNCHANGED <<iOutCur, iUseFrame>>
     ELSE /\ UNCHANGED vOutMap
          /\ IF LastFrame
             THEN Return(-1) /\ UNCHANGED <<iOutCur, iUseFrame>>
             ELSE /\ iOutCur' = 0 /\ iUseFrame' = iFrame /\ pc' = "output"
                  /\ UNCHANGED RetValue
  /\ UNCHANGED <<problem, vSolvers, pQueue, iFrame, nQueLim, pushing, vCexes>>

-----------------------------------------------------------------------------
(* Limits, and the end of Pdr_ManSolve.                                    *)

\* The runtime, conflict or gap limit, or pFuncStop, ends the run undecided.
GiveUp ==
  /\ pPars.nTimeOut /\ pc \in {"output", "block", "push"}
  /\ Return(-1)
  /\ UNCHANGED <<problem, frames, pQueue, iFrame, iOutCur, iUseFrame, nQueLim,
                 pushing, vOutMap, vCexes>>

\* Slip: the output is left unknown.
OutputTimeOutUnmarked ==
  /\ pPars.fSolveAll /\ pPars.nTimeOutOne
  /\ pc \in {"output", "block"}
  /\ iOutCur < nPos /\ vOutMap[iOutCur] = -2
  /\ pQueue' = {}
  /\ NextOutput
  /\ UNCHANGED <<problem, frames, iFrame, iUseFrame, nQueLim, pushing, verdict>>

\* The output under work is dropped, and its obligations with it unless it has
\* just been found to hold in the frame.
DropOutput ==
  /\ pPars.fSolveAll /\ pPars.nTimeOutOne
  /\ pc \in {"output", "block"}
  /\ iOutCur < nPos /\ vOutMap[iOutCur] = -2
  /\ \/ pQueue' = {}
     \/ pc = "output" /\ BadModels = {} /\ UNCHANGED pQueue
  /\ vOutMap' = [vOutMap EXCEPT ![iOutCur] = -1]
  /\ NextOutput
  /\ UNCHANGED <<problem, iFrame, nQueLim, pushing, vCexes, RetValue>>

\* The time slice of the output runs out: between two obligations, or when one
\* has just been taken from the queue.
OutputTimeOut ==
  /\ DropOutput /\ UNCHANGED frames
  /\ \/ UNCHANGED iUseFrame
     \/ /\ pc = "block" /\ ~QueueFull
        /\ \E o \in Heads : o.iFrame \in 1 .. iFrame /\ iUseFrame' = Lowest(o)

\* The manager stops; outputs still unknown are reported undecided.
Finish ==
  /\ pc = "return" /\ pc' = "done"
  /\ vOutMap' = IF pPars.fSolveAll
                THEN [o \in Outputs |-> IF vOutMap[o] = -2 THEN -1 ELSE vOutMap[o]]
                ELSE vOutMap
  /\ UNCHANGED <<problem, frames, pQueue, iFrame, iOutCur, iUseFrame, nQueLim,
                 pushing, vCexes, RetValue>>

-----------------------------------------------------------------------------
\* The steps that consult SAT solvers, those of R being recycled on the way.
Consult(R) ==
  \/ \E o \in pQueue : BlockCovered(o, R) \/ BlockLearn(o, R) \/ BlockPredecessor(o, R)
  \/ \E c \in vClauses[iPush] : PushKept(c, R) \/ PushMoved(c, R)

Next ==
  \/ SkipOutput \/ OutputHolds \/ OutputFails \/ OpenFrame
  \/ BlockDone \/ BlockFailed \/ BlockRestart
  \/ \E o \in pQueue : BlockContained(o)
  \/ \E R \in SUBSET (0 .. iFrame) : Consult(R)
  \/ PushLevelDone \/ PushDone
  \/ GiveUp \/ OutputTimeOut \/ Finish

Spec == Init /\ [][Next]_vars

-----------------------------------------------------------------------------
(* Properties.                                                             *)

Chain == Seq([cube : Cube, pis : Inputs])
Obligation == [iFrame : Frames, path : Chain \ {<<>>}]

\* Every variable keeps its type; obligations never lead past the last frame.
TypeOK ==
  /\ <<pAig, pPars>> \in Problems
  /\ vClauses \in [Frames -> SUBSET Cube]
  /\ vSolvers \in [Frames -> [cubes : SUBSET Cube, props : SUBSET Outputs]]
  /\ pQueue \subseteq Obligation
  /\ iFrame \in Frames /\ iOutCur \in 0 .. nPos
  /\ iUseFrame \in Nat \ {0} /\ nQueLim \in Nat
  /\ iPush \in Nat /\ vDone \subseteq Cube /\ fInv \in BOOLEAN
  /\ vOutMap \in [Outputs -> {-2, -1, 0, 1}]
  /\ vCexes \in [Outputs -> Chain]
  /\ RetValue \in {-1, 0, 1}
  /\ pc \in {"output", "block", "push", "return", "done"}

\* Every frame contains the initial state and the successors of the frame
\* before it, however clauses were learned, shrunk, moved or dropped.
FramesInductive ==
  \A k \in 0 .. iFrame :
    /\ {} \in F(k)
    /\ k < iFrame => \A s \in F(k), x \in Inputs : pAig.next[<<s, x>>] \in F(k + 1)

\* A solver never knows more than its frame: every clause in it, and every
\* output it asserts (fUsePropOut), is implied by the clauses of the frame, so
\* asserting outputs and recycling change no verdict.
SolversSound ==
  \A k \in 0 .. iFrame : \A s \in F(k) :
    /\ \A c \in vSolvers[k].cubes : ~Holds(s, c)
    /\ \A o \in vSolvers[k].props, x \in Inputs : <<s, x>> \notin pAig.po[o]

\* The last solver is never recycled (the assert in Pdr_ManFetchSolver), and it
\* need not be: it holds exactly the clauses of the last frame.
LastSolverExact ==
  \A s \in States :
    (\A c \in vSolvers[iFrame].cubes : ~Holds(s, c)) =>
      \A c \in vClauses[iFrame] : ~Holds(s, c)

\* No state of an obligation is reachable before its frame; with it the assert
\* !Pdr_SetIsInit(pThis->pState) of Pdr_ManBlockCube holds for every obligation
\* that can be popped, though the same assert in the ternary simulator is off.
ObligationsAhead ==
  \A o \in pQueue : o.iFrame > 0 =>
    /\ \A s \in F(o.iFrame - 1) : ~Holds(s, Target(o))
    /\ ~Pdr_SetIsInit(Target(o))

\* Pdr_ManFindInvariantStart: the lowest empty level.
InvariantStart == CHOOSE k \in 1 .. iFrame :
  vClauses[k] = {} /\ \A j \in 1 .. (k - 1) : vClauses[j] # {}

Inductive(I) ==
  {} \in I /\ \A s \in I, x \in Inputs : pAig.next[<<s, x>>] \in I
Proved(o) == RetValue = 1 \/ vOutMap[o] = 1

\* When a level empties, the clauses from the lowest empty level on are what
\* Pdr_ManVerifyInvariant expects, an inductive invariant, and it excludes the
\* failure of every output reported proved.
ProofIsInductive ==
  /\ fInv /\ pc \in {"return", "done"} => Inductive(F(InvariantStart))
  /\ \A o \in Outputs : Proved(o) =>
       /\ fInv
       /\ \A s \in F(InvariantStart), x \in Inputs : <<s, x>> \notin pAig.po[o]

\* Pdr_ManDeriveCex: replaying the inputs of a chain from the initial state.
Replay(p) ==
  LET at[j \in 1 .. Len(p)] ==
        IF j = 1 THEN {} ELSE pAig.next[<<at[j - 1], p[j - 1].pis>>]
  IN  at[Len(p)]

\* Every counter-example recorded for an output fails that output in its last
\* frame: the check by Saig_ManVerifyCex in Pdr_ManDeriveCex never prints
\* "CEX for output %d is not valid."
CexesReal ==
  \A o \in Outputs : vCexes[o] # <<>> =>
    <<Replay(vCexes[o]), vCexes[o][Len(vCexes[o])].pis>> \in pAig.po[o]

\* A step gives no blocked state of an open frame back.
NoFrameGrows == \A k \in 1 .. iFrame : F(k)' \subseteq F(k)

\* Frames only shrink: moving a clause up, dropping subsumed ones and opening
\* a frame never give a blocked state back.
FramesShrink == [][NoFrameGrows]_vars

\* The run ends.  A solver may miss clauses of its frame, and then returns the
\* same predecessor although a higher clause already contains it: only the
\* rebuilding of solvers breaks that loop.
Terminates == <>(pc = "done")
=============================================================================
