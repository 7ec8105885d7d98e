-------------------------------- MODULE PdrCtg --------------------------------
(***************************************************************************)
(* The engine of Pdr with generalization by "down" and counter-examples to *)
(* generalization (pdr -n -c: fSkipDown = 0, fCtgs = 1).                   *)
(*                                                                         *)
(* While a cube is generalized, a state that spoils the attempt (a CTG)    *)
(* may be blocked as well: it is learned at once, in a level of its own.   *)
(* To make that easier the cube under work is first given to the solvers   *)
(* of the lower frames, although it enters a level only when its           *)
(* generalization is over.                                                 *)
(***************************************************************************)
EXTENDS Pdr

VARIABLE down  \* <<>>, or the cube under work: obligation, cube, flag "added"

ctgVars == <<vars, down>>

-----------------------------------------------------------------------------
(* Pdr_ManGeneralize, the loop over the literals.                          *)

obl == down[1].obl
pCubeMin == down[1].cube
k == obl.iFrame - 1  \* the frame the queries are made in

Smaller == Shrunk(pCubeMin) \ {pCubeMin}

\* What the queries of a step find unchanged.
During(R, K) ==
  /\ down # <<>> /\ pc = "block" /\ R \in Recyclable(K)
  /\ UNCHANGED <<problem, pQueue, iFrame, iOutCur, iUseFrame, nQueLim, pushing,
                 verdict, pc>>

\* An obligation is popped whose cube has no predecessor; CTGs are handled above
\* frame 1 only.
DownStart(o, R) ==
  /\ down = <<>> /\ Popped(o) /\ o.iFrame > 2
  /\ ~Contained(o) /\ ~CoveredBy(vSolvers[o.iFrame], o)
  /\ R \in Recyclable({o.iFrame - 1, o.iFrame})
  /\ vSolvers' = Fetched(R)
  /\ \E g \in Generalized(o, vSolvers') :
       down' = <<[obl |-> o, cube |-> g, added |-> FALSE]>>
  /\ pQueue' = pQueue \ {o}
  /\ UNCHANGED <<vClauses, pc>>

\* A smaller cube holds: a literal is dropped, or "down" has found it.
DownShrink(R) ==
  /\ During(R, {k})
  /\ vSolvers' = Fetched(R)
  /\ \E g \in Smaller :
       /\ Unreachable(k, vSolvers'[k], g, g)
       /\ down' = <<[obl |-> obl, cube |-> g, added |-> FALSE]>>
  /\ UNCHANGED vClauses

\* CTGs: cubes, not initial, that lead to the smaller cube g from outside it.
CtgsOf(S, g) ==
  {w.cube : w \in {w \in Widen({m \in Models(k, S[k]) : ~Holds(m[1], g)},
                              {m \in States \X Inputs : Holds(pAig.next[m], g)}) :
                     ~Pdr_SetIsInit(w.cube)}}
Ctgs(S) == UNION {CtgsOf(S, g) : g \in Smaller}

\* The solvers after R was recycled, the cube under work given to the lower
\* frames, and Q recycled.
Prepared(R, Q) ==
  LET S == IF down[1].added THEN Fetched(R) ELSE Learned(Fetched(R), k, pCubeMin)
  IN  [i \in Frames |-> IF i \in Q THEN Rebuilt(i) ELSE S[i]]

Added == down' = <<[obl |-> obl, cube |-> pCubeMin, added |-> TRUE]>>

\* The CTG may be reached itself, or the query hits a limit; what has been added
\* stays.
CtgKept(R, Q) ==
  /\ During(R, {k}) /\ Q \in Recyclable({k - 1})
  /\ vSolvers' = Prepared(R, Q)
  /\ \E c \in Ctgs(Fetched(R)) :
       \/ pPars.nTimeOut \/ pPars.nTimeOutOne
       \/ ~Unreachable(k - 1, vSolvers'[k - 1], c, c)
  /\ Added /\ UNCHANGED vClauses

\* Slip: the frame the cube may be reached in is counted as one it is blocked in.
LevelTooHigh(g, S, from) ==
  {l \in from .. iFrame :
     /\ \A i \in from .. (l - 2) : Unreachable(i, S[i], g, g)
     /\ l < iFrame => ~Unreachable(l - 1, S[l - 1], g, g)}

\* The level where cube g, unreachable from frame "from", is to be learned: one
\* above the last frame it is found unreachable from.
Level(g, S, from) ==
  {l \in from .. iFrame :
     /\ \A i \in from .. (l - 1) : Unreachable(i, S[i], g, g)
     /\ l < iFrame => ~Unreachable(l, S[l], g, g)}

\* The CTG is blocked: its core is pushed to level l, shrunk there, and learned.
CtgLearn(R, Q) ==
  /\ During(R, {k}) /\ Q \in Recyclable((k - 1) .. iFrame)
  /\ LET S == Prepared(R, Q)
     IN \E c \in Ctgs(Fetched(R)) :
        \E core \in Shrunk(c) : \E h \in Shrunk(core) : \E l \in Level(core, S, k) :
          /\ Unreachable(k - 1, S[k - 1], core, core)
          /\ Unreachable(l - 1, S[l - 1], h, h)
          /\ vClauses' = [vClauses EXCEPT ![l] = @ \cup {h}]
          /\ vSolvers' = Learned(S, l, h)
  /\ Added

\* The time slice of the output ends while a CTG is pushed.  The answer -1 counts
\* as "holds" there, so the core goes to the last level.  The run comes through if
\* the smaller cube g is then found to hold by propagation; before the output is
\* dropped, g is learned too unless something is left to ask.
CtgLearnLate(R, Q) ==
  /\ down # <<>> /\ R \in Recyclable({k}) /\ Q \in Recyclable((k - 1) .. iFrame)
  /\ LET S == Prepared(R, Q)
     IN \E g \in Smaller : \E c \in CtgsOf(Fetched(R), g) : \E f \in c.pos :
          LET core == [pos |-> {f}, neg |-> {}]
              T == Learned(S, iFrame, core)
          IN /\ core \in Cubes
             /\ Unreachable(k - 1, S[k - 1], core, core)
             /\ Unreachable(k, T[k], g, g)
             /\ \/ /\ Cardinality(g.pos \cup g.neg) > 1 \/ obl.iFrame < iFrame
                   /\ vClauses' = [vClauses EXCEPT ![iFrame] = @ \cup {core}]
                   /\ vSolvers' = T
                \/ \E l \in Level(g, T, obl.iFrame) :
                     /\ vClauses' = [vClauses EXCEPT ![iFrame] = @ \cup {core},
                                                     ![l] = @ \cup {g}]
                     /\ vSolvers' = Learned(T, l, g)
  /\ DropOutput /\ UNCHANGED iUseFrame /\ down' = <<>>

\* The generalization is over, and the cube is learned as in BlockLearn.
DownDone(R) ==
  /\ down # <<>> /\ pc = "block" /\ R \in Recyclable(obl.iFrame .. iFrame)
  /\ \E l \in Level(pCubeMin, Fetched(R), obl.iFrame) :
       /\ vClauses' = [vClauses EXCEPT ![l] = @ \cup {pCubeMin}]
       /\ vSolvers' = Learned(Fetched(R), l, pCubeMin)
       /\ pQueue' = pQueue \cup
            IF (l < iFrame \/ pPars.fReuseProofOblig) /\ ~pPars.fShortest
            THEN {Postponed(obl, l)} ELSE {}
  /\ down' = <<>>
  /\ UNCHANGED <<problem, iFrame, iOutCur, iUseFrame, nQueLim, pushing, verdict, pc>>

\* A limit is hit in the middle: the cube under work is forgotten, but not by
\* the solvers it was added to.
DownGiveUp  == down # <<>> /\ GiveUp /\ down' = <<>>
DownTimeOut ==
  down # <<>> /\ DropOutput /\ UNCHANGED <<frames, iUseFrame>> /\ down' = <<>>

-----------------------------------------------------------------------------
CtgInit == Init /\ down = <<>>

Engine == down = <<>> /\ Next /\ UNCHANGED down

DownStep(R) ==
  (\E o \in pQueue : DownStart(o, R)) \/ DownShrink(R) \/ DownDone(R)

CtgNext ==
  \/ Engine
  \/ \E R \in SUBSET Worn : DownStep(R)
  \/ /\ down # <<>>
     /\ \E R \in SUBSET Worn, Q \in SUBSET Worn :
          CtgKept(R, Q) \/ CtgLearn(R, Q) \/ CtgLearnLate(R, Q)
  \/ DownGiveUp \/ DownTimeOut

CtgSpec == CtgInit /\ [][CtgNext]_ctgVars

\* The engine runs, and a solver consulted again and again, to block a cube, to
\* push or in a generalization, uses up its nRecycle activation variables and is
\* rebuilt.
CtgRecycleStep(i) ==
  \E R \in SUBSET Worn :
    /\ i \in R
    /\ (down = <<>> /\ Consult(R) /\ UNCHANGED down) \/ DownStep(R)
CtgFairness == WF_ctgVars(CtgNext) /\ \A i \in Worn : SF_ctgVars(CtgRecycleStep(i))
CtgFairSpec == CtgSpec /\ CtgFairness

-----------------------------------------------------------------------------
(* Properties.                                                             *)

\* The levels with the cube under work counted as learned at its frame.
Pending == IF down = <<>> THEN vClauses
           ELSE [vClauses EXCEPT ![obl.iFrame] = @ \cup {pCubeMin}]

\* No output has run out of its time slice.
NoneDropped == \A o \in Outputs : vOutMap[o] # -1

\* As long as no output has been dropped, the frames with the cube under work
\* counted hold the initial state and the successors of the frame before, and no
\* solver knows more than they do: what is added ahead of its frame, and the CTGs
\* learned with its help, are made good when the cube is learned.
PendingSound ==
  pc \in {"output", "block", "push"} /\ NoneDropped =>
    \A i \in 0 .. iFrame :
      /\ {} \in Frame(Pending, i)
      /\ \A s \in Frame(Pending, i) :
           /\ \A c \in vSolvers[i].cubes : ~Holds(s, c)
           /\ i < iFrame => \A x \in Inputs : pAig.next[<<s, x>>] \in Frame(Pending, i + 1)

\* The states reachable in n steps or fewer.
Reach[n \in Nat] ==
  IF n = 0 THEN {{}}
  ELSE Reach[n - 1] \cup {pAig.next[<<s, x>>] : s \in Reach[n - 1], x \in Inputs}

\* vOutMap, "status for each PO (0 = sat; 1 = unsat; negative = undecided)": no
\* reachable state fails an output that is reported proved.
UnsatNeverFails ==
  \A o \in Outputs : Proved(o) =>
    \A s \in Reach[Cardinality(States)], x \in Inputs : <<s, x>> \notin pAig.po[o]

\* The same for as long as no output was dropped: CTGs learned while a cube is
\* generalized, with clauses in the solvers that no level has yet, lead to no wrong
\* proof.
UnsatUntilDrop == NoneDropped => UnsatNeverFails
=============================================================================
