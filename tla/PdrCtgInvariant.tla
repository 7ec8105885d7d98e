---------------------------- MODULE PdrCtgInvariant ----------------------------
(***************************************************************************)
(* The inductive invariant behind PendingSound of PdrCtg: the invariant of *)
(* Pdr, with the cube under work counted as learned at its frame, for as   *)
(* long as no output was dropped and the run is not over.                  *)
(***************************************************************************)
EXTENDS PdrCtg, PdrInvariant

\* The obligation under work is above frame 2, and the cube that generalizes its
\* target keeps the initial state out.
DownOK ==
  down # <<>> =>
    /\ pc = "block" /\ Len(down) = 1
    /\ down \in Seq([obl : Obligation, cube : Cube, added : BOOLEAN])
    /\ obl.iFrame \in 3 .. iFrame
    /\ Pdr_SetContains(Target(obl), pCubeMin) /\ ~Pdr_SetIsInit(pCubeMin)

\* ClosedFramesSafe and ObligationsAhead over the levels C.
ClosedIn(C) ==
  LET safe(i, o) == \A s \in Frame(C, i), x \in Inputs : <<s, x>> \notin pAig.po[o]
  IN  /\ \A i \in 0 .. (iFrame - 1), o \in Outputs : Undecided(o) => safe(i, o)
      /\ pc \in {"output", "block"} =>
           \A o \in 0 .. (iOutCur - 1) : Undecided(o) => safe(iFrame, o)
AheadIn(C) == \A o \in pQueue : o.iFrame > 0 =>
  /\ \A s \in Frame(C, o.iFrame - 1) : ~Holds(s, Target(o))
  /\ ~Pdr_SetIsInit(Target(o))

\* What the engine relies on, over the levels C.
SoundOver(C) ==
  /\ Ind(pAig, C, iFrame) /\ Sound(pAig, vSolvers, C, iFrame) /\ LastSolverFull
  /\ ClosedIn(C) /\ AheadIn(C) /\ PushingEmptied /\ ProofsFromPushing

\* Only an output still to be decided is worked on.
WorkOpen == pc = "block" => Undecided(iOutCur)

\* No output has run out of its time slice, and the run goes on.
Live == pc \in {"output", "block", "push"} /\ NoneDropped
Ended == pc \in {"return", "done"}

\* Nothing is reported as proved.
Unproved == ~fInv /\ \A o \in Outputs : ~Proved(o)

\* A run that no output was dropped in ends in a state of the engine, unless it
\* gave up while a cube was under work.
EndsWell == Ended /\ NoneDropped => IInv \/ Unproved

CtgInv == TypeOK /\ Layout /\ DownOK /\ WorkOpen /\ (Live => SoundOver(Pending)) /\ EndsWell
=============================================================================
