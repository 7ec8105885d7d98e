----------------------------- MODULE PdrInvariant -----------------------------
(***************************************************************************)
(* The inductive invariant behind the safety properties of Pdr.            *)
(***************************************************************************)
EXTENDS Pdr

\* Outputs the run still has to decide.
Undecided(o) == vOutMap[o] \notin {0, -1}
Safe(k, o) == \A s \in F(k), x \in Inputs : <<s, x>> \notin pAig.po[o]

\* Which levels may hold cubes, which cubes, and how far obligations reach.
Layout ==
  /\ pc \in {"output", "block"} => iFrame < nFrameMax
  /\ pc = "block" => iOutCur < nPos
  /\ pc = "push" => iFrame >= 1 /\ iPush >= 1
  /\ vClauses[0] = {} /\ \A k \in (iFrame + 1) .. nFrameMax : vClauses[k] = {}
  /\ \A k \in Frames : \A c \in vClauses[k] : ~Pdr_SetIsInit(c)
  /\ \A o \in pQueue : o.iFrame <= iFrame + 1

\* A frame is closed only when no output still to be decided fails in it.
ClosedFramesSafe ==
  /\ \A k \in 0 .. (iFrame - 1), o \in Outputs : Undecided(o) => Safe(k, o)
  /\ pc \in {"output", "block"} =>
       \A o \in 0 .. (iOutCur - 1) : Undecided(o) => Safe(iFrame, o)

\* fInv is set by a level below the one being pushed, which stays empty.
PushingEmptied ==
  fInv => /\ pc \in {"push", "return", "done"}
          /\ \E k \in 1 .. (iFrame - 1) : k < iPush /\ vClauses[k] = {}

\* A proof is reported only for outputs neither disproved nor dropped.
ProofsFromPushing ==
  /\ RetValue = 1 =>
       /\ fInv /\ pc \in {"return", "done"}
       /\ \A o \in Outputs : vOutMap[o] = IF pPars.fSolveAll THEN 1 ELSE -2
  /\ \A o \in Outputs : vOutMap[o] = 1 => fInv /\ pc \in {"return", "done"}

LastSolverFull == vClauses[iFrame] \subseteq vSolvers[iFrame].cubes

\* FramesInductive for given frames C of circuit A up to frame n.
Ind(A, C, n) == \A k \in 0 .. n :
  /\ {} \in Frame(C, k)
  /\ k < n => \A s \in Frame(C, k), x \in Inputs :
                A.next[<<s, x>>] \in Frame(C, k + 1)

\* SolversSound for the solvers S over the frames C.
Sound(A, S, C, n) == \A k \in 0 .. n : \A s \in Frame(C, k) :
  /\ \A c \in S[k].cubes : ~Holds(s, c)
  /\ \A o \in S[k].props, x \in Inputs : <<s, x>> \notin A.po[o]

\* The inductive invariant: frames, solvers and obligations support each other,
\* the order of the conjuncts being the order in which they are re-established.
IInv ==
  /\ TypeOK /\ Layout
  /\ FramesInductive /\ SolversSound /\ LastSolverFull
  /\ ClosedFramesSafe /\ ObligationsAhead
  /\ PushingEmptied /\ ProofsFromPushing

-----------------------------------------------------------------------------
(* The counter-examples.  Without fReuseProofOblig, or with one output, the *)
(* queue only holds obligations made for the output under work.             *)

\* Step j of path p, taken from state s, ends where the path says: in the next
\* cube, or in a failure of output o.
Leads(p, j, s, o) ==
  LET m == <<s, p[j].pis>>
  IN  IF j = Len(p) THEN m \in pAig.po[o] ELSE Holds(pAig.next[m], p[j + 1].cube)

\* Every state of a cube of the obligation's chain leads on to a failure of
\* output o; one that reached frame 0 starts at the initial state, although its
\* first cube may have been given a positive literal.
ChainFails(ob, o) ==
  /\ \A j \in 1 .. Len(ob.path) : \A s \in States :
       Holds(s, ob.path[j].cube) => Leads(ob.path, j, s, o)
  /\ ob.iFrame = 0 => Leads(ob.path, 1, {}, o)

QueueForOutput ==
  /\ \A ob \in pQueue : ChainFails(ob, IF nPos = 1 THEN 0 ELSE iOutCur)
  /\ nPos # 1 => /\ pc \in {"output", "push"} => pQueue = {}
                 /\ \A ob \in pQueue : ob.iFrame <= iFrame

OwnObligations == nPos = 1 \/ ~pPars.fReuseProofOblig
CexInv == OwnObligations => QueueForOutput /\ CexesReal
=============================================================================
