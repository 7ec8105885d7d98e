------------------------------ MODULE PdrProofs ------------------------------
(***************************************************************************)
(* Type correctness of Pdr and its inductive invariant IInv, proved for     *)
(* every circuit, every choice of the cubes the engine may return and every *)
(* bound on the frames; and, at the end, of the engine with generalization  *)
(* by counter-examples (PdrCtg): it keeps types, and until an output is     *)
(* dropped it keeps what the engine of Pdr relies on, PendingSound.         *)
(***************************************************************************)
EXTENDS PdrCtgInvariant, FiniteSetTheorems, WellFoundedInduction, TLAPS

-----------------------------------------------------------------------------
(* Induction over numbers, about the members of a set instead of an        *)
(* operator.                                                               *)

\* A set of numbers has a least element.
LEMMA LeastOf ==
  ASSUME NEW T \in SUBSET Nat, T # {}
  PROVE  \E m \in T : \A l \in T : m <= l
<1>1. PICK m \in T : \A l \in T : <<l, m>> \notin OpToRel(<, Nat)
  BY NatLessThanWellFounded, WFMin
<1>2. \A l \in T : ~(l < m)
  BY <1>1 DEF OpToRel
<1> QED BY <1>2

\* Induction over an interval.
LEMMA IntervalInduction ==
  ASSUME NEW S, NEW lo \in Nat, NEW hi \in Nat, lo \in S,
         \A n \in lo .. (hi - 1) : n \in S => n + 1 \in S
  PROVE  lo .. hi \subseteq S
<1> SUFFICES ASSUME (lo .. hi) \ S # {} PROVE FALSE
  OBVIOUS
<1>1. (lo .. hi) \ S \in SUBSET Nat
  OBVIOUS
<1>2. PICK m \in (lo .. hi) \ S : \A l \in (lo .. hi) \ S : m <= l
  BY <1>1, LeastOf
<1>3. m # lo /\ m - 1 \in lo .. (hi - 1) /\ m - 1 \in S
  BY <1>2
<1> QED BY <1>2, <1>3

\* Induction over the numbers.
LEMMA NumberInduction ==
  ASSUME NEW S, 0 \in S, \A n \in Nat : n \in S => n + 1 \in S
  PROVE  Nat \subseteq S
<1> SUFFICES ASSUME Nat \ S # {} PROVE FALSE
  OBVIOUS
<1>1. PICK m \in Nat \ S : \A l \in Nat \ S : m <= l
  BY LeastOf
<1>2. m # 0 /\ m - 1 \in Nat /\ m - 1 \in S
  BY <1>1
<1> QED BY <1>1, <1>2

\* A function of the numbers that starts with a and goes on with G exists: its
\* beginnings do, and they agree.
LEMMA RecursionExists ==
  ASSUME NEW D, NEW a \in D, NEW G \in [D -> D]
  PROVE  \E f \in [Nat -> D] : f[0] = a /\ \A n \in Nat : f[n + 1] = G[f[n]]
<1> DEFINE Begins(h, n) == /\ h \in [0 .. n -> D] /\ h[0] = a
                           /\ \A j \in 1 .. n : h[j] = G[h[j - 1]]
           H(n) == CHOOSE h : Begins(h, n)
           S == {n \in Nat : \E h : Begins(h, n)}
           f == [n \in Nat |-> H(n)[n]]
<1>1. 0 \in S
  <2>1. Begins([j \in 0 .. 0 |-> a], 0)
    OBVIOUS
  <2> QED BY <2>1
<1>2. ASSUME NEW n \in Nat, n \in S PROVE n + 1 \in S
  <2>1. PICK h : Begins(h, n)
    BY <1>2
  <2> DEFINE g == [j \in 0 .. (n + 1) |-> IF j = n + 1 THEN G[h[n]] ELSE h[j]]
  <2>2. /\ g[0] = a /\ g[n + 1] = G[h[n]]
        /\ \A j \in 0 .. n : g[j] = h[j]
    BY <2>1
  <2>3. g \in [0 .. (n + 1) -> D]
    BY <2>1
  <2> HIDE DEF g
  <2>4. ASSUME NEW j \in 1 .. (n + 1) PROVE g[j] = G[g[j - 1]]
    <3>1. CASE j = n + 1
      BY <2>2, <3>1
    <3>2. CASE j # n + 1
      <4>1. j \in 1 .. n /\ j \in 0 .. n /\ j - 1 \in 0 .. n
        BY <3>2
      <4> QED BY <2>1, <2>2, <4>1
    <3> QED BY <3>1, <3>2
  <2> QED BY <2>2, <2>3, <2>4
<1>3. \A n \in Nat : Begins(H(n), n)
  <2>1. Nat \subseteq S
    <3> HIDE DEF S
    <3> QED BY <1>1, <1>2, NumberInduction
  <2> QED BY <2>1
<1> HIDE DEF H
<1>4. ASSUME NEW n \in Nat PROVE H(n + 1)[n] = H(n)[n]
  <2> DEFINE T == {j \in 0 .. n : H(n + 1)[j] = H(n)[j]}
  <2>1. Begins(H(n), n) /\ Begins(H(n + 1), n + 1)
    BY <1>3
  <2>2. 0 \in T
    BY <2>1
  <2>3. ASSUME NEW j \in 0 .. (n - 1), j \in T PROVE j + 1 \in T
    <3>1. j + 1 \in 1 .. n /\ j + 1 \in 1 .. (n + 1) /\ (j + 1) - 1 = j /\ j + 1 \in 0 .. n
      OBVIOUS
    <3>2. H(n)[j + 1] = G[H(n)[j]] /\ H(n + 1)[j + 1] = G[H(n + 1)[j]]
      BY <2>1, <3>1
    <3> QED BY <2>3, <3>1, <3>2
  <2>4. 0 .. n \subseteq T
    <3> HIDE DEF T
    <3> QED BY <2>2, <2>3, IntervalInduction
  <2> QED BY <2>4
<1>5. ASSUME NEW n \in Nat, n # 0 PROVE H(n)[n] = G[H(n - 1)[n - 1]]
  <2>1. n - 1 \in Nat /\ (n - 1) + 1 = n /\ n \in 1 .. n
    BY <1>5
  <2>2. H(n)[n] = G[H(n)[n - 1]]
    BY <1>3, <2>1
  <2>3. H(n)[n - 1] = H(n - 1)[n - 1]
    BY <1>4, <2>1
  <2> QED BY <2>2, <2>3
<1>6. \A n \in Nat : H(n)[n] \in D /\ H(0)[0] = a
  BY <1>3
<1>7. f \in [Nat -> D] /\ \A n \in Nat : f[n] = H(n)[n]
  BY <1>6
<1> HIDE DEF f
<1>8. ASSUME NEW n \in Nat PROVE f[n + 1] = G[f[n]]
  <2>1. n + 1 \in Nat /\ n + 1 # 0 /\ (n + 1) - 1 = n
    OBVIOUS
  <2>2. H(n + 1)[n + 1] = G[H((n + 1) - 1)[(n + 1) - 1]]
    BY <1>5, <2>1
  <2> QED BY <1>7, <2>1, <2>2
<1> QED BY <1>6, <1>7, <1>8

USE PdrAssumption

-----------------------------------------------------------------------------
(* Cubes and frames.                                                       *)

\* A state of a cube is a state of every cube with fewer literals.
LEMMA ContainsHolds ==
  ASSUME NEW s, NEW c, NEW g, Pdr_SetContains(c, g), Holds(s, c)
  PROVE  Holds(s, g)
BY DEF Pdr_SetContains, Holds

\* The initial state is in a cube exactly when the cube has no positive literal.
LEMMA InitHolds ==
  ASSUME NEW c
  PROVE  Holds({}, c) <=> Pdr_SetIsInit(c)
BY DEF Holds, Pdr_SetIsInit

\* Frames above frame 0 grow with their index.
LEMMA FrameMonotone ==
  ASSUME NEW C, NEW i \in Nat, NEW j \in Nat, i <= j,
         {} \in Frame(C, j)
  PROVE  Frame(C, i) \subseteq Frame(C, j)
BY DEF Frame

\* D blocks at least what C blocks: every cube of a level of C is contained in
\* a cube of D, at the same level or above.
Covers(D, C) == \A l \in Frames : \A c \in C[l] :
  \E j \in l .. nFrameMax : \E d \in D[j] : Pdr_SetContains(c, d)

\* Levels that cover the old ones admit no state the old ones blocked.
LEMMA CoversShrinks ==
  ASSUME NEW C, NEW D, Covers(D, C), NEW l \in Frames
  PROVE  Frame(D, l) \subseteq Frame(C, l)
<1>1. CASE l = 0
  BY <1>1 DEF Frame
<1>2. CASE l # 0
  <2> SUFFICES ASSUME NEW s \in Frame(D, l), NEW j \in l .. nFrameMax,
                      NEW c \in C[j], Holds(s, c)
               PROVE  FALSE
    BY <1>2 DEF Frame
  <2>1. j \in Frames
    BY DEF Frames
  <2>2. PICK i \in j .. nFrameMax : \E d \in D[i] : Pdr_SetContains(c, d)
    BY <2>1 DEF Covers
  <2>3. PICK d \in D[i] : Pdr_SetContains(c, d)
    BY <2>2
  <2>4. Holds(s, d)
    BY <2>3, ContainsHolds
  <2>5. i \in l .. nFrameMax
    BY DEF Frames
  <2> QED BY <1>2, <2>3, <2>4, <2>5 DEF Frame
<1> QED BY <1>1, <1>2

\* Frames stay inductive when cubes G outside the initial state are added to
\* level l, the frame below l having no step into them.
LEMMA FramesStep ==
  ASSUME NEW A, A.next \in [States \X Inputs -> States],
         NEW C, NEW D, NEW n \in Frames, Ind(A, C, n), Covers(D, C),
         NEW G, NEW l \in 1 .. nFrameMax,
         \A j \in Frames : \A c \in D[j] : ~Pdr_SetIsInit(c),
         \A j \in Frames : D[j] \subseteq C[j] \cup (IF j = l THEN G ELSE {}),
         \A g \in G, s \in Frame(D, l - 1), x \in Inputs :
            ~Holds(A.next[<<s, x>>], g)
  PROVE  Ind(A, D, n)
<1>1. \A j \in Frames : {} \in Frame(D, j)
  BY InitHolds DEF Frame, Frames, States
<1>2. ASSUME NEW i \in 0 .. n, i < n, NEW s \in Frame(D, i), NEW x \in Inputs,
             NEW j \in (i + 1) .. nFrameMax, NEW c \in D[j],
             Holds(A.next[<<s, x>>], c)
      PROVE  FALSE
  <2>0. i \in Frames /\ j \in Frames /\ i + 1 \in Frames /\ l \in Frames /\ l - 1 \in Frames
    BY DEF Frames
  <2>1. CASE c \in C[j]
    <3>1. s \in Frame(C, i)
      BY <2>0, CoversShrinks
    <3>2. A.next[<<s, x>>] \in Frame(C, i + 1)
      BY <1>2, <3>1 DEF Ind
    <3> QED BY <1>2, <2>1, <3>2, <2>0 DEF Frame, Frames
  <2>2. CASE j = l /\ c \in G
    <3>1. {} \in Frame(D, l - 1)
      BY <1>1, <2>0
    <3>2. i <= l - 1 /\ i \in Nat /\ l - 1 \in Nat
      BY <2>2, <2>0 DEF Frames
    <3>3. Frame(D, i) \subseteq Frame(D, l - 1)
      BY <3>1, <3>2, FrameMonotone
    <3> QED BY <1>2, <2>2, <3>3
  <2> QED BY <2>0, <2>1, <2>2
<1>3. ASSUME NEW i \in 0 .. n, i < n, NEW s \in Frame(D, i), NEW x \in Inputs
      PROVE  A.next[<<s, x>>] \in Frame(D, i + 1)
  <2>1. s \in States
    BY DEF Frame, States
  <2>2. A.next[<<s, x>>] \in States
    BY <2>1
  <2> QED BY <1>2, <1>3, <2>2 DEF Frame
<1> QED BY <1>1, <1>3 DEF Ind, Frames

-----------------------------------------------------------------------------
(* Solvers.                                                                *)

\* A sound solver has every state of its frame among its models.
LEMMA SoundModels ==
  ASSUME NEW S, NEW n \in Frames, Sound(pAig, S, vClauses, n), NEW l \in 0 .. n,
         NEW s \in F(l), NEW x \in Inputs
  PROVE  <<s, x>> \in Models(l, S[l])
<1>1. s \in States /\ (l = 0 => s = {})
  BY DEF F, Frame, States
<1> QED BY <1>1 DEF Sound, Models, F

\* Solvers stay sound while frames shrink.
LEMMA SoundShrinks ==
  ASSUME NEW A, NEW S, NEW C, NEW D, NEW n \in Frames, Sound(A, S, C, n),
         Covers(D, C)
  PROVE  Sound(A, S, D, n)
BY CoversShrinks DEF Sound, Frames

\* Recycling solvers of closed frames keeps every solver sound.
LEMMA FetchedSound ==
  ASSUME IInv, NEW K, NEW R \in Recyclable(K)
  PROVE  Sound(pAig, Fetched(R), vClauses, iFrame)
<1>1. iFrame \in Frames /\ vSolvers \in [Frames -> [cubes : SUBSET Cube, props : SUBSET Outputs]]
  BY DEF IInv, TypeOK
<1>2. ASSUME NEW l \in 0 .. iFrame, NEW s \in F(l)
      PROVE  /\ \A c \in Fetched(R)[l].cubes : ~Holds(s, c)
             /\ \A o \in Fetched(R)[l].props, x \in Inputs : <<s, x>> \notin pAig.po[o]
  <2>0. l \in Frames
    BY <1>1 DEF Frames
  <2>1. CASE l \notin R
    BY <2>0, <2>1 DEF Fetched, IInv, SolversSound
  <2>2. CASE l \in R
    <3>1. l < iFrame /\ Fetched(R)[l] = Rebuilt(l)
      BY <2>0, <2>2 DEF Fetched, Recyclable
    <3>2. \A c \in Rebuilt(l).cubes : ~Holds(s, c)
      <4>1. CASE l = 0
        <5>1. s = {}
          BY <4>1 DEF F, Frame
        <5>2. \A j \in Frames : \A c \in vClauses[j] : ~Pdr_SetIsInit(c)
          BY DEF IInv, Layout
        <5> QED BY <4>1, <5>1, <5>2, InitHolds DEF Rebuilt, Frames
      <4>2. CASE l # 0
        BY <4>2 DEF F, Frame, Rebuilt
      <4> QED BY <4>1, <4>2
    <3>3. \A o \in LiveOutputs, x \in Inputs : <<s, x>> \notin pAig.po[o]
      <4>1. l \in 0 .. (iFrame - 1)
        BY <1>1, <3>1 DEF Frames
      <4> QED BY <4>1 DEF IInv, ClosedFramesSafe, Safe, LiveOutputs, Undecided
    <3> QED BY <3>1, <3>2, <3>3 DEF Rebuilt
  <2> QED BY <2>1, <2>2
<1> QED BY <1>2 DEF Sound, F

-----------------------------------------------------------------------------
(* Types, and the layout of levels and obligations.                        *)

\* Pdr_ManTernarySim returns a cube and an input valuation.
LEMMA WidenType ==
  ASSUME NEW M, NEW goal, NEW w \in Widen(M, goal)
  PROVE  w \in [cube : Cube, pis : Inputs]
<1>1. [pos |-> {Flop0}, neg |-> {}] \in Cube
  BY DEF Cube
<1> QED BY <1>1 DEF Widen

\* Recycling (Pdr_ManFetchSolver) keeps the solvers well typed.
LEMMA FetchedType ==
  ASSUME TypeOK, NEW R
  PROVE  Fetched(R) \in [Frames -> [cubes : SUBSET Cube, props : SUBSET Outputs]]
<1>1. ASSUME NEW l \in Frames
      PROVE  Rebuilt(l) \in [cubes : SUBSET Cube, props : SUBSET Outputs]
  <2>1. UNION {vClauses[j] : j \in l .. nFrameMax} \in SUBSET Cube
    BY DEF TypeOK, Frames
  <2>2. LiveOutputs \in SUBSET Outputs
    BY DEF LiveOutputs
  <2> QED BY <2>1, <2>2 DEF Rebuilt
<1> QED BY <1>1 DEF Fetched, TypeOK

\* The manager starts well typed and laid out (Pdr_ManStart).
LEMMA InitTypes == Init => TypeOK /\ Layout
<1> SUFFICES ASSUME Init PROVE TypeOK /\ Layout
  OBVIOUS
<1>1. <<pAig, pPars>> \in Problems
  <2>1. PICK q \in Problems : pAig = q[1] /\ pPars = q[2]
    BY DEF Init
  <2>2. q = <<q[1], q[2]>>
    BY <2>1
  <2> QED BY <2>1, <2>2
<1>2. 0 \in Frames /\ 0 \in 0 .. nPos
  BY DEF Frames
<1>3. <<>> \in Chain
  BY DEF Chain
<1>4. /\ vClauses \in [Frames -> SUBSET Cube]
      /\ vSolvers \in [Frames -> [cubes : SUBSET Cube, props : SUBSET Outputs]]
      /\ vOutMap \in [Outputs -> {-2, -1, 0, 1}] /\ vCexes \in [Outputs -> Chain]
      /\ pQueue \subseteq Obligation /\ vDone \subseteq Cube /\ fInv \in BOOLEAN
  BY <1>3 DEF Init, NewSolver
<1>5. TypeOK
  BY <1>1, <1>2, <1>4 DEF Init, TypeOK
<1>6. Layout
  BY <1>2 DEF Init, Layout, Frames
<1> QED BY <1>5, <1>6

\* The steps of the output loop.
LEMMA TypesOutput ==
  ASSUME TypeOK, Layout,
         SkipOutput \/ OutputHolds \/ OutputFails \/ OpenFrame
  PROVE  TypeOK' /\ Layout'
<1>1. CASE SkipOutput \/ OutputHolds
  BY <1>1 DEF SkipOutput, OutputHolds, Attempted, NextOutput, problem, frames,
     pushing, verdict, TypeOK, Layout
<1>2. CASE OutputFails
  <2>1. PICK w \in Widen(Models(iFrame, vSolvers[iFrame]), pAig.po[iOutCur]) :
          pQueue' = pQueue \cup {[iFrame |-> iFrame, path |-> <<w>>]}
    BY <1>2 DEF OutputFails
  <2>2. w \in [cube : Cube, pis : Inputs]
    BY <2>1, WidenType
  <2>3. [iFrame |-> iFrame, path |-> <<w>>] \in Obligation
    BY <2>2 DEF Obligation, Chain, TypeOK
  <2>4. pQueue' \subseteq Obligation /\ \A o \in pQueue' : o.iFrame <= iFrame + 1
    BY <2>1, <2>3 DEF TypeOK, Layout, Frames
  <2> QED BY <1>2, <2>4 DEF OutputFails, Attempted, problem, frames,
     pushing, verdict, TypeOK, Layout
<1>3. CASE OpenFrame
  <2>1. iFrame + 1 \in Frames
    BY <1>3 DEF OpenFrame, TypeOK, Layout, Frames
  <2>2. vSolvers' \in [Frames -> [cubes : SUBSET Cube, props : SUBSET Outputs]]
    BY <1>3, <2>1 DEF OpenFrame, TypeOK, NewSolver, LiveOutputs
  <2>3. pPars.nRestLimit \in Nat
    BY DEF TypeOK, ParType
  <2>4. TypeOK'
    BY <1>3, <2>1, <2>2, <2>3 DEF OpenFrame, TypeOK, problem, verdict
  <2>5. Layout'
    BY <1>3, <2>1 DEF OpenFrame, TypeOK, Layout, problem, verdict, Frames, Obligation
  <2> QED BY <2>4, <2>5
<1> QED BY <1>1, <1>2, <1>3

\* What a popped obligation is.
LEMMA PoppedFacts ==
  ASSUME TypeOK, Layout, NEW o \in pQueue, Popped(o)
  PROVE  /\ o \in Obligation /\ o.path \in Chain /\ o.path # <<>>
         /\ o.iFrame \in 1 .. iFrame /\ iFrame < nFrameMax /\ iFrame \in Frames
         /\ pc = "block" /\ iOutCur < nPos
         /\ iUseFrame' \in Nat \ {0}
BY DEF Popped, Lowest, TypeOK, Layout, Obligation

\* Cubes that generalization or an UNSAT core leaves.
LEMMA ShrunkFacts ==
  ASSUME NEW c, NEW g \in Shrunk(c)
  PROVE  g \in Cube /\ Pdr_SetContains(c, g) /\ ~Pdr_SetIsInit(g)
BY DEF Shrunk

\* The steps of Pdr_ManBlockCube that pop no obligation.
LEMMA TypesBlock ==
  ASSUME TypeOK, Layout, BlockDone \/ BlockFailed \/ BlockRestart
  PROVE  TypeOK' /\ Layout'
<1>1. CASE BlockDone
  BY <1>1 DEF BlockDone, problem, frames, pushing, verdict, TypeOK, Layout
<1>2. CASE BlockRestart
  <2>1. (nQueLim * 3) \div 2 \in Nat
    BY DEF TypeOK
  <2> QED BY <1>2, <2>1 DEF BlockRestart, problem, frames, pushing, verdict, TypeOK, Layout
<1>3. CASE BlockFailed
  <2>1. PICK o \in Heads :
          vCexes' = [vCexes EXCEPT ![iOutCur] = o.path]
    BY <1>3 DEF BlockFailed
  <2>2. o.path \in Chain
    BY <2>1 DEF Heads, TypeOK, Obligation
  <2>3. pc = "block" /\ iOutCur \in Outputs /\ iOutCur + 1 \in 0 .. nPos
    BY <1>3 DEF BlockFailed, Layout, TypeOK, Outputs
  <2>4. vCexes' \in [Outputs -> Chain]
    BY <2>1, <2>2, <2>3 DEF TypeOK
  <2>5. /\ vOutMap' \in [Outputs -> {-2, -1, 0, 1}]
        /\ pQueue' \subseteq pQueue
        /\ RetValue' \in {-1, 0, 1}
        /\ iOutCur' \in 0 .. nPos
        /\ pc' \in {"return", "output"}
    BY <1>3, <2>3 DEF BlockFailed, TypeOK, Return, NextOutput
  <2> QED BY <1>3, <2>3, <2>4, <2>5 DEF BlockFailed, problem, frames, pushing, TypeOK, Layout
<1> QED BY <1>1, <1>2, <1>3

\* Dropping a subsumed obligation (Pdr_ManCheckContainment) keeps types and layout.
LEMMA TypesContained ==
  ASSUME TypeOK, Layout, NEW o \in pQueue, BlockContained(o)
  PROVE  TypeOK' /\ Layout'
BY PoppedFacts DEF BlockContained, Popped, problem, frames, pushing, verdict, TypeOK, Layout

\* Dropping an obligation its solver excludes keeps types and layout.
LEMMA TypesCovered ==
  ASSUME TypeOK, Layout, NEW o \in pQueue, NEW R, BlockCovered(o, R)
  PROVE  TypeOK' /\ Layout'
BY PoppedFacts, FetchedType DEF BlockCovered, Popped, problem, pushing, verdict, TypeOK, Layout

\* A predecessor obligation is well typed and lies in an open frame.
LEMMA TypesPredecessor ==
  ASSUME TypeOK, Layout, NEW o \in pQueue, NEW R, BlockPredecessor(o, R)
  PROVE  TypeOK' /\ Layout'
<1>1. Popped(o)
  BY DEF BlockPredecessor
<1>2. PICK w \in [cube : Cube, pis : Inputs] :
        pQueue' = pQueue \cup {[iFrame |-> o.iFrame - 1, path |-> <<w>> \o o.path]}
  BY WidenType DEF BlockPredecessor
<1>3. w \in [cube : Cube, pis : Inputs]
  OBVIOUS
<1>4. o.path \in Chain /\ o.iFrame \in 1 .. iFrame /\ iFrame \in Frames
  BY <1>1, PoppedFacts
<1>5. <<w>> \o o.path \in Chain \ {<<>>}
  BY <1>3, <1>4 DEF Chain
<1>6. [iFrame |-> o.iFrame - 1, path |-> <<w>> \o o.path] \in Obligation
  BY <1>4, <1>5 DEF Obligation, Frames
<1>7. pQueue' \subseteq Obligation
  BY <1>2, <1>6 DEF TypeOK
<1>8. \A q \in pQueue' : q.iFrame <= iFrame + 1
  <2>1. o.iFrame - 1 <= iFrame + 1
    BY <1>4 DEF Frames
  <2>2. \A q \in pQueue' : q \in pQueue \/ q.iFrame = o.iFrame - 1
    BY <1>2
  <2> QED BY <2>1, <2>2 DEF Layout
<1> QED BY <1>1, <1>7, <1>8, PoppedFacts, FetchedType
     DEF BlockPredecessor, Popped, problem, pushing, verdict, TypeOK, Layout

\* A learned cube has a positive literal and enters an open level; the obligation
\* is postponed by one frame at most past the last.
LEMMA TypesLearn ==
  ASSUME TypeOK, Layout, NEW o \in pQueue, NEW R, BlockLearn(o, R)
  PROVE  TypeOK' /\ Layout'
<1>1. Popped(o)
  BY DEF BlockLearn
<1>2. PICK g \in Shrunk(Target(o)), l \in o.iFrame .. iFrame :
        /\ vClauses' = [vClauses EXCEPT ![l] = @ \cup {g}]
        /\ vSolvers' = Learned(Fetched(R), l, g)
        /\ pQueue' \subseteq pQueue \cup {Postponed(o, l)}
  BY DEF BlockLearn, Generalized
<1>3. o \in Obligation /\ o.iFrame \in 1 .. iFrame /\ iFrame \in Frames /\ iFrame < nFrameMax
  BY <1>1, PoppedFacts
<1>4. g \in Cube /\ ~Pdr_SetIsInit(g)
  BY <1>2, ShrunkFacts
<1>5. l \in Frames /\ l # 0 /\ l + 1 \in Frames /\ l <= iFrame
  BY <1>3 DEF Frames
<1>6. Postponed(o, l) \in Obligation /\ Postponed(o, l).iFrame = l + 1
  BY <1>3, <1>5 DEF Postponed, Obligation
<1>7. vSolvers' \in [Frames -> [cubes : SUBSET Cube, props : SUBSET Outputs]]
  BY <1>2, <1>4, FetchedType DEF Learned, WithClause
<1>8. vClauses' \in [Frames -> SUBSET Cube]
  BY <1>2, <1>4, <1>5 DEF TypeOK
<1>9. TypeOK'
  <2>1. pQueue' \subseteq Obligation
    BY <1>2, <1>6 DEF TypeOK
  <2> QED BY <1>1, <1>7, <1>8, <2>1, PoppedFacts
       DEF BlockLearn, Popped, problem, pushing, verdict, TypeOK
<1>10. Layout'
  <2>1. \A q \in pQueue' : q.iFrame <= iFrame + 1
    BY <1>2, <1>5, <1>6, <1>3 DEF Layout, Frames
  <2>2. vClauses'[0] = {} /\ \A j \in (iFrame + 1) .. nFrameMax : vClauses'[j] = {}
    BY <1>2, <1>3, <1>5 DEF Layout, TypeOK, Frames
  <2>3. \A j \in Frames : \A c \in vClauses'[j] : ~Pdr_SetIsInit(c)
    BY <1>2, <1>4, <1>5 DEF Layout, TypeOK
  <2> QED BY <1>1, <2>1, <2>2, <2>3 DEF BlockLearn, Popped, Layout
<1> QED BY <1>9, <1>10

\* The steps of Pdr_ManPushClauses, and the end of a frame.
LEMMA TypesKept ==
  ASSUME TypeOK, Layout, NEW c, NEW R, PushKept(c, R)
  PROVE  TypeOK' /\ Layout'
<1>1. iPush \in Frames /\ iPush >= 1 /\ c \in vClauses[iPush] /\ c \in Cube
  BY DEF PushKept, TypeOK, Layout, Frames
<1>2. vClauses' = [vClauses EXCEPT ![iPush] = Thinned(c)] /\ Thinned(c) \subseteq vClauses[iPush]
  BY DEF PushKept, Thinned
<1>3. TypeOK'
  BY <1>1, <1>2, FetchedType DEF PushKept, problem, verdict, TypeOK
<1>4. Layout'
  BY <1>1, <1>2 DEF PushKept, problem, verdict, TypeOK, Layout
<1> QED BY <1>3, <1>4

\* A pushed cube enters an open level.
LEMMA TypesMoved ==
  ASSUME TypeOK, Layout, NEW c, NEW R, PushMoved(c, R)
  PROVE  TypeOK' /\ Layout'
<1>1. /\ iPush \in Frames /\ iPush >= 1 /\ iPush < iFrame /\ iPush + 1 \in Frames
      /\ c \in vClauses[iPush] /\ iFrame \in Frames
  BY DEF PushMoved, TypeOK, Layout, Frames
<1>2. PICK g \in Shrunk(c) :
        /\ vSolvers' = [Fetched(R) EXCEPT ![iPush + 1] = WithClause(@, g)]
        /\ vClauses' = [vClauses EXCEPT ![iPush] = Thinned(c) \ {c},
                                        ![iPush + 1] = Absorb(@, g)]
  BY DEF PushMoved
<1>3. g \in Cube /\ ~Pdr_SetIsInit(g)
  BY <1>2, ShrunkFacts
<1>4. vSolvers' \in [Frames -> [cubes : SUBSET Cube, props : SUBSET Outputs]]
  BY <1>1, <1>2, <1>3, FetchedType DEF WithClause
<1>5. \A l \in Frames : vClauses'[l] \subseteq vClauses[l] \cup (IF l = iPush + 1 THEN {g} ELSE {})
  BY <1>1, <1>2 DEF Thinned, Absorb, TypeOK
<1>6. vClauses' \in [Frames -> SUBSET Cube]
  <2>1. Thinned(c) \ {c} \in SUBSET Cube /\ Absorb(vClauses[iPush + 1], g) \in SUBSET Cube
    BY <1>1, <1>3 DEF Thinned, Absorb, TypeOK
  <2> QED BY <1>1, <1>2, <2>1 DEF TypeOK
<1>7. TypeOK'
  BY <1>4, <1>6 DEF PushMoved, problem, verdict, pushing, TypeOK
<1>8. Layout'
  <2>1. vClauses'[0] = {} /\ \A l \in (iFrame + 1) .. nFrameMax : vClauses'[l] = {}
    BY <1>1, <1>5 DEF Layout, Frames
  <2>2. \A l \in Frames : \A d \in vClauses'[l] : ~Pdr_SetIsInit(d)
    BY <1>3, <1>5 DEF Layout
  <2> QED BY <2>1, <2>2 DEF PushMoved, problem, verdict, pushing, Layout
<1> QED BY <1>7, <1>8

\* Ending a level, and ending the pushing, keep types and layout.
LEMMA TypesPushed ==
  ASSUME TypeOK, Layout, PushLevelDone \/ PushDone
  PROVE  TypeOK' /\ Layout'
<1>1. CASE PushLevelDone
  BY <1>1 DEF PushLevelDone, problem, frames, verdict, TypeOK, Layout
<1>2. CASE PushDone
  <2>1. PICK kept \in SUBSET vClauses[iFrame] :
          vClauses' = [vClauses EXCEPT ![iFrame] = kept]
    BY <1>2 DEF PushDone
  <2>2. iFrame \in Frames /\ iFrame >= 1 /\ iFrame \in Nat
    BY <1>2 DEF PushDone, TypeOK, Layout, Frames
  <2>3. vClauses' \in [Frames -> SUBSET Cube]
    BY <2>1, <2>2 DEF TypeOK
  <2>4. \A l \in Frames : vClauses'[l] \subseteq vClauses[l]
    BY <2>1, <2>2 DEF TypeOK
  <2>5. /\ vOutMap' \in [Outputs -> {-2, -1, 0, 1}]
        /\ RetValue' \in {-1, 0, 1}
        /\ iOutCur' \in 0 .. nPos
        /\ iUseFrame' \in Nat \ {0}
        /\ pc' = "return" \/ (pc' = "output" /\ iFrame < nFrameMax)
    <3>1. CASE fInv
      BY <1>2, <3>1 DEF PushDone, TypeOK, Return
    <3>2. CASE ~fInv /\ LastFrame
      BY <1>2, <3>2 DEF PushDone, TypeOK, Return
    <3>3. CASE ~fInv /\ ~LastFrame
      BY <1>2, <2>2, <3>3 DEF PushDone, TypeOK, LastFrame, Frames
    <3> QED BY <3>1, <3>2, <3>3
  <2>6. TypeOK'
    BY <1>2, <2>3, <2>5 DEF PushDone, problem, pushing, TypeOK
  <2>7. Layout'
    BY <1>2, <2>2, <2>4, <2>5 DEF PushDone, problem, pushing, Layout, Frames
  <2> QED BY <2>6, <2>7
<1> QED BY <1>1, <1>2

\* Limits and the final step keep types and layout.
LEMMA TypesEnd ==
  ASSUME TypeOK, Layout, GiveUp \/ OutputTimeOut \/ Finish
  PROVE  TypeOK' /\ Layout'
<1>1. CASE GiveUp
  BY <1>1 DEF GiveUp, Return, problem, frames, pushing, TypeOK, Layout
<1>2. CASE OutputTimeOut
  <2>1. iUseFrame' \in Nat \ {0}
    BY <1>2 DEF OutputTimeOut, Lowest, Heads, TypeOK
  <2> QED BY <1>2, <2>1 DEF OutputTimeOut, DropOutput, NextOutput, problem, frames, pushing, TypeOK,
                          Layout, Outputs
<1>3. CASE Finish
  BY <1>3 DEF Finish, problem, frames, pushing, TypeOK, Layout
<1> QED BY <1>1, <1>2, <1>3

\* Every step keeps types and layout.
LEMMA NextTypes ==
  ASSUME TypeOK, Layout, [Next]_vars
  PROVE  TypeOK' /\ Layout'
<1>1. CASE UNCHANGED vars
  BY <1>1 DEF vars, TypeOK, Layout
<1>2. ASSUME NEW R, Consult(R) PROVE TypeOK' /\ Layout'
  BY <1>2, TypesCovered, TypesLearn, TypesPredecessor, TypesKept, TypesMoved DEF Consult
<1> QED BY <1>1, <1>2, TypesOutput, TypesBlock, TypesContained, TypesPushed, TypesEnd
     DEF Next

\* The engine keeps its data well typed: no obligation, level or output index
\* ever leaves its range.
THEOREM TypeCorrect == Spec => []TypeOK
<1>1. Init => TypeOK /\ Layout
  BY InitTypes
<1>2. TypeOK /\ Layout /\ [Next]_vars => TypeOK' /\ Layout'
  BY NextTypes
<1> QED BY <1>1, <1>2, PTL DEF Spec

-----------------------------------------------------------------------------
(* Frames only shrink.                                                     *)

\* Subsumption (Pdr_SetContains) is transitive.
LEMMA ContainsTransitive ==
  ASSUME NEW c, NEW d, NEW e, Pdr_SetContains(c, d), Pdr_SetContains(d, e)
  PROVE  Pdr_SetContains(c, e)
BY DEF Pdr_SetContains

\* Levels cover themselves.
LEMMA CoversSame ==
  ASSUME NEW C
  PROVE  Covers(C, C)
BY DEF Covers, Pdr_SetContains, Frames

\* A level with one cube more covers the old one.
LEMMA CoversLearn ==
  ASSUME TypeOK, NEW l \in Frames, NEW g,
         vClauses' = [vClauses EXCEPT ![l] = @ \cup {g}]
  PROVE  Covers(vClauses', vClauses)
BY DEF Covers, Pdr_SetContains, Frames, TypeOK

\* Thinning a level by a cube that stays in it blocks no less.
LEMMA CoversKept ==
  ASSUME TypeOK, Layout, NEW c, NEW R, PushKept(c, R)
  PROVE  Covers(vClauses', vClauses)
<1>1. iPush \in Frames /\ c \in vClauses[iPush] /\ c \in Thinned(c)
  BY DEF PushKept, TypeOK, Frames, Thinned
<1>2. vClauses' = [vClauses EXCEPT ![iPush] = Thinned(c)]
  BY DEF PushKept
<1>3. ASSUME NEW l \in Frames, NEW d \in vClauses[l]
      PROVE  \E e \in vClauses'[l] : Pdr_SetContains(d, e)
  <2>1. CASE d \in vClauses'[l]
    BY <2>1 DEF Pdr_SetContains
  <2>2. CASE d \notin vClauses'[l]
    BY <1>1, <1>2, <2>2 DEF Thinned, TypeOK
  <2> QED BY <2>1, <2>2
<1>4. \A l \in Frames : l \in l .. nFrameMax
  BY DEF Frames
<1> QED BY <1>3, <1>4 DEF Covers

\* Moving a shrunk cube one level up, over the cubes it subsumes, blocks no less.
LEMMA CoversMoved ==
  ASSUME TypeOK, Layout, NEW c, NEW R, PushMoved(c, R)
  PROVE  Covers(vClauses', vClauses)
<1>1. /\ iPush \in Frames /\ iPush + 1 \in Frames /\ c \in vClauses[iPush]
      /\ iPush + 1 \in iPush .. nFrameMax
  BY DEF PushMoved, TypeOK, Frames
<1>2. PICK g \in Shrunk(c) :
        vClauses' = [vClauses EXCEPT ![iPush] = Thinned(c) \ {c},
                                     ![iPush + 1] = Absorb(@, g)]
  BY DEF PushMoved
<1>3. Pdr_SetContains(c, g) /\ g \in vClauses'[iPush + 1] /\ Pdr_SetContains(g, g)
  BY <1>1, <1>2, ShrunkFacts DEF Absorb, Pdr_SetContains, TypeOK
<1>4. ASSUME NEW l \in Frames, NEW d \in vClauses[l]
      PROVE  \E j \in l .. nFrameMax : \E e \in vClauses'[j] : Pdr_SetContains(d, e)
  <2>0. l \in l .. nFrameMax
    BY DEF Frames
  <2>1. CASE d \in vClauses'[l]
    BY <2>0, <2>1 DEF Pdr_SetContains
  <2>2. CASE l = iPush /\ d \notin vClauses'[l]
    <3>1. Pdr_SetContains(d, c)
      BY <1>1, <1>2, <2>2 DEF Thinned, TypeOK, Pdr_SetContains
    <3>2. Pdr_SetContains(d, g)
      BY <3>1, <1>3, ContainsTransitive
    <3> QED BY <3>2, <1>1, <1>3, <2>2
  <2>3. CASE l = iPush + 1 /\ d \notin vClauses'[l]
    <3>1. Pdr_SetContains(d, g)
      BY <1>1, <1>2, <2>3 DEF Absorb, TypeOK
    <3> QED BY <3>1, <1>3, <2>0, <2>3
  <2>4. CASE l # iPush /\ l # iPush + 1
    BY <1>2, <2>1, <2>4 DEF TypeOK
  <2> QED BY <2>1, <2>2, <2>3, <2>4
<1> QED BY <1>4 DEF Covers

\* Thinning the new level blocks no less.
LEMMA CoversPushDone ==
  ASSUME TypeOK, Layout, PushDone
  PROVE  Covers(vClauses', vClauses)
<1>1. PICK kept \in SUBSET vClauses[iFrame] :
        /\ \A d \in vClauses[iFrame] \ kept : \E c \in kept : Pdr_SetContains(d, c)
        /\ vClauses' = [vClauses EXCEPT ![iFrame] = kept]
  BY DEF PushDone
<1>2. ASSUME NEW l \in Frames, NEW d \in vClauses[l]
      PROVE  \E e \in vClauses'[l] : Pdr_SetContains(d, e)
  BY <1>1 DEF TypeOK, Pdr_SetContains
<1>3. \A l \in Frames : l \in l .. nFrameMax
  BY DEF Frames
<1> QED BY <1>2, <1>3 DEF Covers

\* No step blocks less than the one before it.
LEMMA CoversNext ==
  ASSUME TypeOK, Layout, [Next]_vars
  PROVE  Covers(vClauses', vClauses)
<1>1. CASE UNCHANGED vClauses
  BY <1>1, CoversSame
<1>2. ASSUME NEW o \in pQueue, NEW R, BlockLearn(o, R)
      PROVE  Covers(vClauses', vClauses)
  <2>1. o.iFrame \in 1 .. iFrame /\ iFrame \in Frames
    BY <1>2, PoppedFacts DEF BlockLearn
  <2>2. PICK g \in Shrunk(Target(o)), l \in o.iFrame .. iFrame :
          vClauses' = [vClauses EXCEPT ![l] = @ \cup {g}]
    BY <1>2 DEF BlockLearn, Generalized
  <2>3. l \in Frames
    BY <2>1 DEF Frames
  <2> QED BY <2>2, <2>3, CoversLearn
<1>3. ASSUME NEW R, Consult(R), ~UNCHANGED vClauses
      PROVE  Covers(vClauses', vClauses)
  BY <1>2, <1>3, CoversKept, CoversMoved DEF Consult, BlockCovered, BlockPredecessor
<1>4. CASE SkipOutput \/ OutputHolds \/ OutputFails \/ OpenFrame \/ BlockDone \/ BlockFailed
  BY <1>1, <1>4 DEF SkipOutput, OutputHolds, OutputFails, OpenFrame, BlockDone,
     BlockFailed, frames
<1>5. CASE BlockRestart \/ PushLevelDone \/ GiveUp \/ OutputTimeOut \/ Finish
           \/ \E o \in pQueue : BlockContained(o)
  BY <1>1, <1>5 DEF BlockRestart, PushLevelDone, GiveUp, OutputTimeOut, DropOutput, Finish,
     BlockContained, frames
<1>6. CASE UNCHANGED vars
  BY <1>1, <1>6 DEF vars
<1> QED BY <1>1, <1>3, <1>4, <1>5, <1>6, CoversPushDone DEF Next

\* Blocked states stay blocked: every step keeps the states of each open frame
\* blocked that were, wherever it moves the clause that blocks them.
THEOREM FramesOnlyShrink == Spec => FramesShrink
<1>1. TypeOK /\ Layout /\ [Next]_vars => [NoFrameGrows]_vars
  <2> SUFFICES ASSUME TypeOK, Layout, [Next]_vars, NEW l \in 1 .. iFrame
               PROVE  F(l)' \subseteq F(l)
    BY DEF NoFrameGrows
  <2>1. l \in Frames
    BY DEF TypeOK, Frames
  <2> QED BY <2>1, CoversNext, CoversShrinks DEF F
<1>2. Init => TypeOK /\ Layout
  BY InitTypes
<1>3. TypeOK /\ Layout /\ [Next]_vars => TypeOK' /\ Layout'
  BY NextTypes
<1> QED BY <1>1, <1>2, <1>3, PTL DEF Spec, FramesShrink

-----------------------------------------------------------------------------
(* The inductive invariant: what each kind of step needs.                  *)

\* The initial state is in every frame, as every blocked cube has a positive literal.
LEMMA InitInFrames ==
  ASSUME TypeOK, Layout, NEW l \in Frames
  PROVE  {} \in F(l)
BY InitHolds DEF F, Frame, Frames, States, Layout

\* Every state of a widened cube meets the goal it was widened for; in frame 0
\* the initial state does, even when the cube had to be given a literal.
LEMMA WidenMeets ==
  ASSUME NEW M, NEW goal, NEW w \in Widen(M, goal)
  PROVE  /\ \A s \in States : Holds(s, w.cube) => <<s, w.pis>> \in goal
         /\ M \subseteq States \X Inputs /\ (\A m \in M : m[1] = {})
              => <<{}, w.pis>> \in goal
<1> DEFINE all == [pos |-> {}, neg |-> {}]
<1>1. \A s : Holds(s, all)
  BY DEF Holds
<1>2. \A s \in States : Holds(s, w.cube) => <<s, w.pis>> \in goal
  BY <1>1 DEF Widen
<1>3. PICK m \in M \cap goal : m[2] = w.pis
  BY DEF Widen
<1>4. ASSUME M \subseteq States \X Inputs, \A n \in M : n[1] = {}
      PROVE  <<{}, w.pis>> \in goal
  <2>1. m = <<m[1], m[2]>>
    BY <1>4
  <2> QED BY <1>3, <1>4, <2>1
<1> QED BY <1>2, <1>4

\* Steps that leave the frames and the solvers alone.
LEMMA FramesAndSolversKept ==
  ASSUME IInv, UNCHANGED <<pAig, vClauses, vSolvers, iFrame>>
  PROVE  FramesInductive' /\ SolversSound' /\ LastSolverFull'
BY DEF IInv, FramesInductive, SolversSound, LastSolverFull, F

\* Closed frames stay safe when frames shrink and no output becomes undecided.
LEMMA ClosedKept ==
  ASSUME IInv, Covers(vClauses', vClauses), UNCHANGED <<pAig, iFrame>>,
         \A o \in Outputs : Undecided(o)' => Undecided(o),
         pc' \in {"output", "block"} =>
           \A o \in 0 .. (iOutCur' - 1) : Undecided(o)' => Safe(iFrame, o)
  PROVE  ClosedFramesSafe'
<1>1. iFrame \in Frames
  BY DEF IInv, TypeOK
<1>2. ASSUME NEW l \in 0 .. iFrame, NEW o, Safe(l, o)
      PROVE  Safe(l, o)'
  <2>1. l \in Frames
    BY <1>1 DEF Frames
  <2>2. F(l)' \subseteq F(l)
    BY <2>1, CoversShrinks DEF F
  <2> QED BY <1>2, <2>2 DEF Safe
<1>3. \A l \in 0 .. (iFrame - 1), o \in Outputs : Undecided(o)' => Safe(l, o)'
  <2>1. \A l \in 0 .. (iFrame - 1) : l \in 0 .. iFrame
    BY <1>1 DEF Frames
  <2> QED BY <1>2, <2>1 DEF IInv, ClosedFramesSafe
<1>4. iFrame \in 0 .. iFrame
  BY <1>1 DEF Frames
<1> QED BY <1>2, <1>3, <1>4 DEF ClosedFramesSafe

\* Obligations stay ahead of the frames; only a new one needs an argument.
LEMMA AheadKept ==
  ASSUME IInv, Covers(vClauses', vClauses),
         TypeOK', Layout',
         \A o \in pQueue' \ pQueue : o.iFrame > 0 =>
            \A s \in F(o.iFrame - 1)' : ~Holds(s, Target(o))
  PROVE  ObligationsAhead'
<1> SUFFICES ASSUME NEW o \in pQueue', o.iFrame > 0
             PROVE  /\ \A s \in F(o.iFrame - 1)' : ~Holds(s, Target(o))
                    /\ ~Pdr_SetIsInit(Target(o))
  BY DEF ObligationsAhead, Target
<1>1. o.iFrame - 1 \in Frames
  BY DEF TypeOK, Obligation, Frames
<1>2. F(o.iFrame - 1)' \subseteq F(o.iFrame - 1)
  BY <1>1, CoversShrinks DEF F
<1>3. \A s \in F(o.iFrame - 1)' : ~Holds(s, Target(o))
  BY <1>2 DEF IInv, ObligationsAhead
<1>4. {} \in F(o.iFrame - 1)'
  BY <1>1, InitHolds DEF F, Frame, Frames, States, Layout
<1> QED BY <1>3, <1>4, InitHolds

\* Before pushing begins no proof is reported.
LEMMA NoProofYet ==
  ASSUME IInv, pc \in {"output", "block"}, fInv' = fInv,
         RetValue' \in {RetValue, 0, -1},
         \A o \in Outputs : vOutMap'[o] \in {vOutMap[o], 0, -1}
  PROVE  PushingEmptied' /\ ProofsFromPushing'
BY DEF IInv, PushingEmptied, ProofsFromPushing

\* The output loop: an output the solver of the last frame cannot reach holds
\* in that frame; one it can becomes an obligation no earlier frame can reach.
LEMMA InvOutput ==
  ASSUME IInv, TypeOK', Layout', SkipOutput \/ OutputHolds \/ OutputFails
  PROVE  IInv'
<1>0. /\ TypeOK /\ Layout /\ iFrame \in Frames /\ iFrame \in 0 .. iFrame
      /\ iOutCur \in Outputs /\ pc = "output"
  <2>1. TypeOK /\ Layout
    BY DEF IInv
  <2>2. pc = "output" /\ iOutCur < nPos
    BY DEF SkipOutput, OutputHolds, OutputFails, Attempted
  <2>3. iFrame \in Frames /\ iOutCur \in 0 .. nPos
    BY <2>1 DEF TypeOK
  <2>4. iOutCur \in Outputs /\ iFrame \in 0 .. iFrame
    BY <2>2, <2>3, PdrAssumption DEF Outputs, Frames
  <2> QED BY <2>1, <2>2, <2>3, <2>4
<1>1. UNCHANGED <<pAig, pPars, vClauses, vSolvers, iFrame, fInv, vOutMap, RetValue>>
  BY DEF SkipOutput, OutputHolds, OutputFails, problem, frames, pushing, verdict
<1>2. Covers(vClauses', vClauses)
  BY <1>1, CoversSame
<1>3. FramesInductive' /\ SolversSound' /\ LastSolverFull'
  BY <1>1, FramesAndSolversKept
<1>4. PushingEmptied' /\ ProofsFromPushing'
  BY <1>0, <1>1, NoProofYet
<1>5. ClosedFramesSafe'
  <2>1. \A o \in Outputs : Undecided(o)' => Undecided(o)
    BY <1>1 DEF Undecided
  <2>2. CASE OutputFails
    BY <1>0, <1>1, <1>2, <2>1, <2>2, ClosedKept
       DEF OutputFails, IInv, ClosedFramesSafe, Outputs, Undecided
  <2>3. CASE SkipOutput
    <3>1. iOutCur' = iOutCur + 1 /\ ~Undecided(iOutCur)
      BY <2>3 DEF SkipOutput, NextOutput, Undecided
    <3>2. \A o \in 0 .. (iOutCur' - 1) : o \in 0 .. (iOutCur - 1) \/ o = iOutCur
      BY <1>0, <3>1 DEF Outputs
    <3>3. \A o \in 0 .. (iOutCur' - 1) : Undecided(o)' => Safe(iFrame, o)
      BY <1>0, <1>1, <3>1, <3>2 DEF IInv, ClosedFramesSafe, Undecided
    <3> QED BY <1>1, <1>2, <2>1, <3>3, ClosedKept
  <2>4. CASE OutputHolds
    <3>1. iOutCur' = iOutCur + 1 /\ BadModels = {}
      BY <2>4 DEF OutputHolds, NextOutput
    <3>2. Sound(pAig, vSolvers, vClauses, iFrame)
      BY DEF IInv, SolversSound, Sound, F
    <3>3. Safe(iFrame, iOutCur)
      <4> SUFFICES ASSUME NEW s \in F(iFrame), NEW x \in Inputs
                   PROVE  <<s, x>> \notin pAig.po[iOutCur]
        BY DEF Safe
      <4>1. <<s, x>> \in Models(iFrame, vSolvers[iFrame])
        BY <1>0, <3>2, SoundModels
      <4> QED BY <3>1, <4>1 DEF BadModels
    <3>4. \A o \in 0 .. (iOutCur' - 1) : o \in 0 .. (iOutCur - 1) \/ o = iOutCur
      BY <1>0, <3>1 DEF Outputs
    <3>5. \A o \in 0 .. (iOutCur' - 1) : Undecided(o)' => Safe(iFrame, o)
      BY <1>0, <1>1, <3>3, <3>4 DEF IInv, ClosedFramesSafe, Undecided
    <3> QED BY <1>1, <1>2, <2>1, <3>5, ClosedKept
  <2> QED BY <2>2, <2>3, <2>4
<1>6. ObligationsAhead'
  <2>1. CASE SkipOutput \/ OutputHolds
    <3>1. pQueue' = pQueue
      BY <2>1 DEF SkipOutput, OutputHolds
    <3> QED BY <3>1, <1>2, AheadKept
  <2>2. CASE OutputFails
    <3>1. PICK w \in Widen(Models(iFrame, vSolvers[iFrame]), pAig.po[iOutCur]) :
            pQueue' = pQueue \cup {[iFrame |-> iFrame, path |-> <<w>>]}
      BY <2>2 DEF OutputFails
    <3>2. ASSUME iFrame > 0, NEW s \in Frame(vClauses', iFrame - 1), Holds(s, w.cube)
          PROVE  FALSE
      <4>1. s \in States /\ s \in F(iFrame - 1)
        BY <1>1, <3>2 DEF F, Frame, States
      <4>2. <<s, w.pis>> \in pAig.po[iOutCur]
        BY <3>1, <3>2, <4>1, WidenMeets
      <4>5. w.pis \in Inputs
        BY <3>1, WidenType
      <4>3. Undecided(iOutCur)
        BY <2>2 DEF OutputFails, Attempted, Undecided
      <4>4. Safe(iFrame - 1, iOutCur)
        <5>1. iFrame - 1 \in 0 .. (iFrame - 1)
          BY <1>0, <3>2 DEF Frames
        <5> QED BY <1>0, <4>3, <5>1 DEF IInv, ClosedFramesSafe
      <4> QED BY <4>1, <4>2, <4>4, <4>5 DEF Safe
    <3>3. Target([iFrame |-> iFrame, path |-> <<w>>]) = w.cube
      BY DEF Target
    <3>4. \A o \in pQueue' \ pQueue : o.iFrame > 0 =>
            \A s \in F(o.iFrame - 1)' : ~Holds(s, Target(o))
      BY <3>1, <3>2, <3>3 DEF F
    <3> QED BY <1>2, <3>4, AheadKept
  <2> QED BY <2>1, <2>2
<1> QED BY <1>3, <1>4, <1>5, <1>6 DEF IInv

\* Opening a frame: all undecided outputs hold in the old last frame, so its
\* solver may assert them; the new frame admits every state.
LEMMA InvOpen ==
  ASSUME IInv, TypeOK', Layout', OpenFrame
  PROVE  IInv'
<1>0. /\ TypeOK /\ Layout /\ iFrame \in Frames /\ iFrame + 1 \in Frames
      /\ iFrame' = iFrame + 1 /\ pc = "output" /\ iOutCur = nPos /\ pc' = "push"
  BY DEF IInv, TypeOK, Layout, OpenFrame, Frames
<1>1. UNCHANGED <<pAig, pPars, vClauses, pQueue, vOutMap, RetValue>> /\ fInv' = FALSE
  BY DEF OpenFrame, problem, verdict
<1>2. Covers(vClauses', vClauses)
  BY <1>1, CoversSame
<1>3. vClauses[iFrame + 1] = {}
  BY <1>0 DEF Layout, Frames
<1>4. F(iFrame + 1) = States
  BY <1>0, <1>3 DEF F, Frame, Layout, Frames
<1>5. \A o \in Outputs : Undecided(o) => Safe(iFrame, o)
  <2>1. \A o \in Outputs : o \in 0 .. (iOutCur - 1)
    BY <1>0 DEF Outputs
  <2> QED BY <1>0, <2>1 DEF IInv, ClosedFramesSafe
<1>6. FramesInductive'
  <2>1. Ind(pAig, vClauses, iFrame)
    BY DEF IInv, FramesInductive, Ind, F
  <2>2. \A s \in F(iFrame), x \in Inputs : pAig.next[<<s, x>>] \in F(iFrame + 1)
    <3>1. pAig.next \in [States \X Inputs -> States] /\ F(iFrame) \subseteq States
      BY <1>0 DEF TypeOK, AigType, F, Frame, States
    <3> QED BY <1>4, <3>1
  <2>3. {} \in F(iFrame + 1)
    BY <1>0, InitInFrames
  <2>4. Ind(pAig, vClauses, iFrame + 1)
    <3>1. \A l \in 0 .. (iFrame + 1) : l \in 0 .. iFrame \/ l = iFrame + 1
      BY <1>0 DEF Frames
    <3>2. \A l \in 0 .. (iFrame + 1) : l < iFrame + 1 => l < iFrame \/ l = iFrame
      BY <1>0 DEF Frames
    <3> QED BY <2>1, <2>2, <2>3, <3>1, <3>2, <1>0 DEF Ind, F, Frames
  <2> QED BY <1>0, <1>1, <2>4 DEF Ind, FramesInductive, F
<1>7. SolversSound'
  <2> SUFFICES ASSUME NEW l \in 0 .. (iFrame + 1), NEW s \in Frame(vClauses, l)
               PROVE  /\ \A c \in vSolvers'[l].cubes : ~Holds(s, c)
                      /\ \A o \in vSolvers'[l].props, x \in Inputs :
                           <<s, x>> \notin pAig.po[o]
    BY <1>0, <1>1 DEF SolversSound, F
  <2>1. vSolvers' = [vSolvers EXCEPT ![iFrame] = [cubes |-> @.cubes, props |-> LiveOutputs],
                                     ![iFrame + 1] = NewSolver]
    BY DEF OpenFrame
  <2>2. CASE l = iFrame + 1
    BY <1>0, <2>1, <2>2 DEF NewSolver, TypeOK
  <2>3. CASE l = iFrame
    <3>1. vSolvers'[l].cubes = vSolvers[l].cubes /\ vSolvers'[l].props = LiveOutputs
      BY <1>0, <2>1, <2>3 DEF TypeOK, Frames
    <3>2. l \in 0 .. iFrame
      BY <1>0, <2>3 DEF Frames
    <3>3. \A o \in LiveOutputs, x \in Inputs : <<s, x>> \notin pAig.po[o]
      BY <1>5, <2>3 DEF LiveOutputs, Undecided, Safe, F
    <3> QED BY <3>1, <3>2, <3>3 DEF IInv, SolversSound, F
  <2>4. CASE l # iFrame /\ l # iFrame + 1
    <3>1. l \in 0 .. iFrame /\ l \in Frames
      BY <1>0, <2>4 DEF Frames
    <3>2. vSolvers'[l] = vSolvers[l]
      BY <2>1, <2>4, <3>1 DEF TypeOK
    <3> QED BY <3>1, <3>2 DEF IInv, SolversSound, F
  <2> QED BY <2>2, <2>3, <2>4
<1>8. LastSolverFull'
  BY <1>0, <1>1, <1>3 DEF LastSolverFull
<1>9. ClosedFramesSafe'
  <2>1. \A l \in 0 .. iFrame : l \in 0 .. (iFrame - 1) \/ l = iFrame
    BY <1>0 DEF Frames
  <2>2. \A l \in 0 .. iFrame, o \in Outputs : Undecided(o) => Safe(l, o)
    BY <1>5, <2>1 DEF IInv, ClosedFramesSafe
  <2>3. \A l, o : Safe(l, o)' <=> Safe(l, o)
    BY <1>1 DEF Safe, F
  <2> QED BY <1>0, <1>1, <2>2, <2>3 DEF ClosedFramesSafe, Undecided, Frames
<1>10. ObligationsAhead'
  BY <1>1, <1>2, AheadKept
<1>11. PushingEmptied' /\ ProofsFromPushing'
  BY <1>0, <1>1, NoProofYet DEF IInv, ProofsFromPushing, PushingEmptied
<1> QED BY <1>6, <1>7, <1>8, <1>9, <1>10, <1>11 DEF IInv

\* Steps of Pdr_ManBlockCube that change neither frames nor solvers, and the
\* drop of an output: a disproved or dropped output is undecided no longer.
LEMMA InvQuiet ==
  ASSUME IInv, TypeOK', Layout',
         BlockDone \/ BlockFailed \/ BlockRestart \/ OutputTimeOut
         \/ \E o \in pQueue : BlockContained(o)
  PROVE  IInv'
<1>0. TypeOK /\ Layout /\ iFrame \in Frames /\ pc \in {"output", "block"}
  BY DEF IInv, TypeOK, BlockDone, BlockFailed, BlockRestart, OutputTimeOut, DropOutput,
     BlockContained, Popped
<1>1. UNCHANGED <<pAig, pPars, vClauses, vSolvers, iFrame, fInv>>
  BY DEF BlockDone, BlockFailed, BlockRestart, OutputTimeOut, DropOutput, BlockContained, Popped,
     problem, frames, pushing
<1>2. Covers(vClauses', vClauses)
  BY <1>1, CoversSame
<1>3. pQueue' \subseteq pQueue
  BY DEF BlockDone, BlockFailed, BlockRestart, OutputTimeOut, DropOutput, BlockContained
<1>4. /\ \A o \in Outputs : vOutMap'[o] = vOutMap[o] \/ (o = iOutCur /\ vOutMap'[o] \in {0, -1})
      /\ RetValue' \in {RetValue, 0, -1}
  <2>1. CASE BlockDone \/ BlockRestart \/ \E o \in pQueue : BlockContained(o)
    BY <2>1 DEF BlockDone, BlockRestart, BlockContained, Popped, verdict
  <2>2. CASE BlockFailed
    BY <1>0, <2>2 DEF BlockFailed, Return, TypeOK
  <2>3. CASE OutputTimeOut
    BY <1>0, <2>3 DEF OutputTimeOut, DropOutput, TypeOK
  <2> QED BY <2>1, <2>2, <2>3
<1>5. pc' \in {"output", "block"} =>
        \/ iOutCur' = iOutCur
        \/ iOutCur' = iOutCur + 1 /\ vOutMap'[iOutCur] \in {0, -1}
  <2>1. CASE BlockDone \/ BlockRestart \/ \E o \in pQueue : BlockContained(o)
    BY <2>1 DEF BlockDone, BlockRestart, BlockContained, Popped
  <2>2. CASE BlockFailed
    BY <1>0, <2>2 DEF BlockFailed, Return, NextOutput, TypeOK, Layout, Outputs
  <2>3. CASE OutputTimeOut
    BY <1>0, <2>3 DEF OutputTimeOut, DropOutput, NextOutput, TypeOK, Outputs
  <2> QED BY <2>1, <2>2, <2>3
<1>6. \A o \in Outputs : Undecided(o)' => Undecided(o)
  BY <1>4 DEF Undecided
<1>7. pc' \in {"output", "block"} =>
        \A o \in 0 .. (iOutCur' - 1) : Undecided(o)' => Safe(iFrame, o)
  <2> SUFFICES ASSUME pc' \in {"output", "block"}, NEW o \in 0 .. (iOutCur' - 1), Undecided(o)'
               PROVE  Safe(iFrame, o)
    OBVIOUS
  <2>1. o \in 0 .. (iOutCur - 1)
    <3>0. iOutCur \in Int
      BY <1>0 DEF TypeOK
    <3>1. CASE iOutCur' = iOutCur
      BY <3>1
    <3>2. CASE iOutCur' = iOutCur + 1 /\ vOutMap'[iOutCur] \in {0, -1}
      <4>1. o # iOutCur
        BY <3>2 DEF Undecided
      <4> QED BY <3>0, <3>2, <4>1
    <3> QED BY <1>5, <3>1, <3>2
  <2>2. o \in Outputs
    BY <1>0, <2>1 DEF TypeOK, Outputs
  <2> QED BY <1>0, <1>6, <2>1, <2>2 DEF IInv, ClosedFramesSafe
<1>8. ClosedFramesSafe'
  BY <1>1, <1>2, <1>6, <1>7, ClosedKept
<1>9. ObligationsAhead'
  BY <1>2, <1>3, AheadKept
<1>10. PushingEmptied' /\ ProofsFromPushing'
  BY <1>0, <1>1, <1>4, NoProofYet
<1>11. FramesInductive' /\ SolversSound' /\ LastSolverFull'
  BY <1>1, FramesAndSolversKept
<1> QED BY <1>8, <1>9, <1>10, <1>11 DEF IInv

\* Steps that end the run, and the end of a pushed level.
LEMMA InvEnd ==
  ASSUME IInv, TypeOK', Layout', GiveUp \/ Finish \/ PushLevelDone
  PROVE  IInv'
<1>0. TypeOK /\ Layout /\ iFrame \in Frames /\ pc' \notin {"output", "block"}
  BY DEF IInv, TypeOK, GiveUp, Finish, PushLevelDone, Return
<1>1. UNCHANGED <<pAig, pPars, vClauses, vSolvers, iFrame, pQueue>>
  BY DEF GiveUp, Finish, PushLevelDone, problem, frames
<1>2. Covers(vClauses', vClauses)
  BY <1>1, CoversSame
<1>3. FramesInductive' /\ SolversSound' /\ LastSolverFull'
  BY <1>1, FramesAndSolversKept
<1>4. \A o \in Outputs : Undecided(o)' => Undecided(o)
  BY <1>0 DEF GiveUp, Finish, PushLevelDone, verdict, Undecided, TypeOK
<1>5. ClosedFramesSafe'
  BY <1>0, <1>1, <1>2, <1>4, ClosedKept
<1>6. ObligationsAhead'
  BY <1>1, <1>2, AheadKept
<1>7. PushingEmptied'
  <2>1. CASE GiveUp \/ Finish
    BY <2>1, <1>1 DEF IInv, PushingEmptied, GiveUp, Finish, Return, pushing
  <2>2. CASE PushLevelDone
    <3>1. iPush \in 1 .. (iFrame - 1) /\ iPush < iPush' /\ pc' = "push"
      BY <1>0, <2>2 DEF PushLevelDone, TypeOK, Layout, Frames
    <3>2. \A l \in 1 .. (iFrame - 1) : l < iPush => l < iPush'
      BY <1>0, <2>2 DEF PushLevelDone, TypeOK, Frames
    <3> QED BY <2>2, <1>1, <3>1, <3>2 DEF IInv, PushingEmptied, PushLevelDone
  <2> QED BY <2>1, <2>2
<1>8. ProofsFromPushing'
  <2>1. CASE GiveUp
    BY <2>1, <1>1 DEF IInv, ProofsFromPushing, GiveUp, Return, pushing
  <2>2. CASE Finish
    BY <2>2, <1>0, <1>1 DEF IInv, ProofsFromPushing, Finish, pushing, TypeOK
  <2>3. CASE PushLevelDone
    BY <2>3, <1>1 DEF IInv, ProofsFromPushing, PushLevelDone, verdict
  <2> QED BY <2>1, <2>2, <2>3
<1> QED BY <1>3, <1>5, <1>6, <1>7, <1>8 DEF IInv

\* Solvers recycled while the frames stay as they are.
LEMMA RecycledKept ==
  ASSUME IInv, TypeOK', UNCHANGED <<pAig, vClauses, iFrame>>,
         NEW K, NEW R \in Recyclable(K), vSolvers' = Fetched(R)
  PROVE  FramesInductive' /\ SolversSound' /\ LastSolverFull'
<1>1. Sound(pAig, Fetched(R), vClauses, iFrame)
  BY FetchedSound
<1>2. SolversSound'
  BY <1>1 DEF Sound, SolversSound, F
<1>3. iFrame \in Frames /\ iFrame \notin R
  BY DEF IInv, TypeOK, Recyclable, Frames
<1>4. LastSolverFull'
  BY <1>3 DEF IInv, LastSolverFull, Fetched
<1> QED BY <1>2, <1>4 DEF IInv, FramesInductive, F

\* The conjuncts a blocking or pushing step cannot disturb, once its frames
\* shrink and its new obligations are ahead of them.
LEMMA BlockingKept ==
  ASSUME IInv, TypeOK', Layout', NEW o \in pQueue, Popped(o), pc' \in {"output", "block"},
         Covers(vClauses', vClauses)
  PROVE  ClosedFramesSafe' /\ PushingEmptied' /\ ProofsFromPushing'
<1>1. UNCHANGED <<pAig, pPars, iFrame, iOutCur, fInv, vOutMap, RetValue>> /\ pc = "block"
  BY DEF Popped, problem, pushing, verdict
<1>2. /\ \A q \in Outputs : Undecided(q)' => Undecided(q)
      /\ \A q \in 0 .. (iOutCur' - 1) : Undecided(q)' => Safe(iFrame, q)
  <2>1. \A q : Undecided(q)' => Undecided(q)
    BY <1>1 DEF Undecided
  <2> QED BY <1>1, <2>1 DEF IInv, ClosedFramesSafe
<1>3. ClosedFramesSafe'
  BY <1>1, <1>2, ClosedKept
<1>4. PushingEmptied' /\ ProofsFromPushing'
  BY <1>1, NoProofYet
<1> QED BY <1>3, <1>4

\* Dropping an obligation whose cube the solver excludes keeps the invariant.
LEMMA InvCovered ==
  ASSUME IInv, TypeOK', Layout', NEW o \in pQueue, NEW R, BlockCovered(o, R)
  PROVE  IInv'
<1>1. /\ Popped(o) /\ pc' \in {"output", "block"}
      /\ UNCHANGED <<pAig, vClauses, iFrame>> /\ pQueue' \subseteq pQueue
  BY DEF BlockCovered, Popped, problem
<1>2. Covers(vClauses', vClauses)
  BY <1>1, CoversSame
<1>3. FramesInductive' /\ SolversSound' /\ LastSolverFull'
  BY <1>1, RecycledKept DEF BlockCovered
<1>4. ClosedFramesSafe' /\ PushingEmptied' /\ ProofsFromPushing'
  BY <1>1, <1>2, BlockingKept
<1>5. ObligationsAhead'
  BY <1>1, <1>2, AheadKept
<1> QED BY <1>3, <1>4, <1>5 DEF IInv

\* A predecessor is unreachable two frames below the obligation it comes from,
\* or its successor would be reachable one frame below.
LEMMA InvPredecessor ==
  ASSUME IInv, TypeOK', Layout', NEW o \in pQueue, NEW R, BlockPredecessor(o, R)
  PROVE  IInv'
<1>0. TypeOK /\ Layout
  BY DEF IInv
<1>1. /\ Popped(o) /\ pc' \in {"output", "block"}
      /\ UNCHANGED <<pAig, vClauses, iFrame>>
  BY DEF BlockPredecessor, Popped, problem
<1>2. Covers(vClauses', vClauses)
  BY <1>1, CoversSame
<1>3. FramesInductive' /\ SolversSound' /\ LastSolverFull'
  BY <1>1, RecycledKept DEF BlockPredecessor
<1>4. ClosedFramesSafe' /\ PushingEmptied' /\ ProofsFromPushing'
  BY <1>1, <1>2, BlockingKept
<1>5. o.iFrame \in 1 .. iFrame /\ iFrame \in Frames
  BY <1>0, <1>1, PoppedFacts
<1> DEFINE outside == {m \in Models(o.iFrame - 1, vSolvers'[o.iFrame - 1]) : ~Holds(m[1], Target(o))}
           goal == {m \in States \X Inputs : Holds(pAig.next[m], Target(o))}
<1>6. PICK w \in Widen(outside, goal) :
        pQueue' = pQueue \cup {[iFrame |-> o.iFrame - 1, path |-> <<w>> \o o.path]}
  BY DEF BlockPredecessor
<1>7. w \in [cube : Cube, pis : Inputs]
  BY <1>6, WidenType
<1>8. Target([iFrame |-> o.iFrame - 1, path |-> <<w>> \o o.path]) = w.cube
  <2>1. o.path \in Chain
    BY <1>0, <1>1, PoppedFacts
  <2>2. (<<w>> \o o.path)[1] = w
    BY <1>7, <2>1 DEF Chain
  <2> QED BY <2>2 DEF Target
<1>9. ASSUME o.iFrame - 1 > 0, NEW s \in Frame(vClauses', o.iFrame - 2), Holds(s, w.cube)
      PROVE  FALSE
  <2>1. s \in States /\ s \in F(o.iFrame - 2)
    BY <1>1 DEF F, Frame, States
  <2>2. <<s, w.pis>> \in goal
    BY <1>6, <1>9, <2>1, WidenMeets
  <2>3. pAig.next[<<s, w.pis>>] \in F(o.iFrame - 1)
    <3>1. o.iFrame - 2 \in 0 .. iFrame /\ o.iFrame - 2 < iFrame
          /\ o.iFrame - 2 + 1 = o.iFrame - 1
      BY <1>5, <1>9 DEF Frames
    <3>2. w.pis \in Inputs
      BY <1>7
    <3> QED BY <2>1, <3>1, <3>2 DEF IInv, FramesInductive
  <2>4. ~Holds(pAig.next[<<s, w.pis>>], Target(o))
    BY <1>5, <2>3 DEF IInv, ObligationsAhead, Frames
  <2> QED BY <2>2, <2>4
<1>10. ObligationsAhead'
  <2>1. \A q \in pQueue' \ pQueue : q.iFrame > 0 =>
          \A s \in Frame(vClauses', q.iFrame - 1) : ~Holds(s, Target(q))
    <3>1. o.iFrame - 1 - 1 = o.iFrame - 2
      BY <1>5 DEF Frames
    <3>2. ASSUME NEW q \in pQueue' \ pQueue
          PROVE  q.iFrame = o.iFrame - 1 /\ Target(q) = w.cube
      <4>1. q = [iFrame |-> o.iFrame - 1, path |-> <<w>> \o o.path]
        BY <1>6
      <4>2. Target(q) = w.cube
        BY <1>8, <4>1
      <4> QED BY <4>1, <4>2
    <3> QED BY <1>9, <3>1, <3>2
  <2> QED BY <1>2, <2>1, AheadKept DEF F
<1> QED BY <1>3, <1>4, <1>10 DEF IInv

\* A learned clause holds in frames 1..l: the frame below has no step into its
\* cube from outside the cube, and is outside the cube.
LEMMA InvLearn ==
  ASSUME IInv, TypeOK', Layout', NEW o \in pQueue, NEW R, BlockLearn(o, R)
  PROVE  IInv'
<1>0. TypeOK /\ Layout
  BY DEF IInv
<1>1. /\ Popped(o) /\ pc' \in {"output", "block"}
      /\ UNCHANGED <<pAig, iFrame>>
  BY DEF BlockLearn, Popped, problem
<1>2. o.iFrame \in 1 .. iFrame /\ iFrame \in Frames
  BY <1>0, <1>1, PoppedFacts
<1>3. PICK g \in Shrunk(Target(o)), l \in o.iFrame .. iFrame :
        /\ Unreachable(o.iFrame - 1, Fetched(R)[o.iFrame - 1], g, g)
        /\ \A i \in o.iFrame .. (l - 1) : Unreachable(i, Fetched(R)[i], g, g)
        /\ vClauses' = [vClauses EXCEPT ![l] = @ \cup {g}]
        /\ vSolvers' = Learned(Fetched(R), l, g)
        /\ pQueue' \subseteq pQueue \cup {Postponed(o, l)}
  BY DEF BlockLearn, Generalized
<1>4. /\ l \in 1 .. nFrameMax /\ l \in Frames /\ l - 1 \in 0 .. iFrame /\ l - 1 \in Frames
      /\ l - 1 \in (o.iFrame - 1) .. (l - 1) /\ l \in 1 .. iFrame /\ iFrame \in Nat
  BY <1>2 DEF Frames
<1>5. /\ Pdr_SetContains(Target(o), g) /\ ~Pdr_SetIsInit(g)
      /\ Unreachable(l - 1, Fetched(R)[l - 1], g, g)
  <2>1. CASE l = o.iFrame
    BY <1>3, <2>1, ShrunkFacts
  <2>2. CASE l # o.iFrame
    <3>1. l - 1 \in o.iFrame .. (l - 1)
      BY <1>2, <1>3, <1>4, <2>2
    <3> QED BY <1>3, <3>1, ShrunkFacts
  <2> QED BY <2>1, <2>2
<1>6. Covers(vClauses', vClauses)
  BY <1>0, <1>3, <1>4, CoversLearn
<1>7. Sound(pAig, Fetched(R), vClauses, iFrame)
  BY FetchedSound DEF BlockLearn
<1>8. \A i \in 1 .. l : \A s \in Frame(vClauses', i) : ~Holds(s, g)
  <2>1. g \in vClauses'[l]
    BY <1>0, <1>3, <1>4 DEF TypeOK
  <2> QED BY <1>4, <2>1 DEF Frame, Frames
<1>9. FramesInductive'
  <2>1. ASSUME NEW s \in Frame(vClauses', l - 1), NEW x \in Inputs,
               Holds(pAig.next[<<s, x>>], g)
        PROVE  FALSE
    <3>1. s \in F(l - 1)
      BY <1>4, <1>6, CoversShrinks DEF F
    <3>2. <<s, x>> \in Models(l - 1, Fetched(R)[l - 1])
      BY <1>2, <1>4, <1>7, <3>1, SoundModels
    <3>3. Holds(s, g)
      BY <1>5, <2>1, <3>2 DEF Unreachable
    <3>4. CASE l - 1 = 0
      BY <1>5, <3>1, <3>3, <3>4, InitHolds DEF F, Frame
    <3>5. CASE l - 1 # 0
      BY <1>4, <1>8, <3>3, <3>5 DEF Frames
    <3> QED BY <3>4, <3>5
  <2>2. Ind(pAig, vClauses, iFrame)
    BY DEF IInv, FramesInductive, Ind, F
  <2>3. pAig.next \in [States \X Inputs -> States]
    BY <1>0 DEF TypeOK, AigType
  <2> DEFINE G == {g}
  <2>4. \A j \in Frames : vClauses'[j] \subseteq vClauses[j] \cup (IF j = l THEN G ELSE {})
    BY <1>0, <1>3 DEF TypeOK
  <2>5. \A j \in Frames : \A c \in vClauses'[j] : ~Pdr_SetIsInit(c)
    BY DEF Layout
  <2>6. \A h \in G, s \in Frame(vClauses', l - 1), x \in Inputs :
           ~Holds(pAig.next[<<s, x>>], h)
    BY <2>1
  <2> HIDE DEF G
  <2>7. Ind(pAig, vClauses', iFrame)
    BY <1>2, <1>4, <1>6, <2>2, <2>3, <2>4, <2>5, <2>6, FramesStep
  <2> QED BY <1>1, <2>7 DEF Ind, FramesInductive, F
<1>10. SolversSound'
  <2>1. Sound(pAig, Fetched(R), vClauses', iFrame)
    BY <1>2, <1>6, <1>7, SoundShrinks
  <2> SUFFICES ASSUME NEW i \in 0 .. iFrame, NEW s \in Frame(vClauses', i)
               PROVE  /\ \A c \in vSolvers'[i].cubes : ~Holds(s, c)
                      /\ \A p \in vSolvers'[i].props, x \in Inputs : <<s, x>> \notin pAig.po[p]
    BY <1>1 DEF SolversSound, F
  <2>2. i \in Frames
    BY <1>2 DEF Frames
  <2>3. CASE i \in 1 .. l
    <3>1. vSolvers'[i] = WithClause(Fetched(R)[i], g)
      BY <1>3, <2>2, <2>3 DEF Learned
    <3> QED BY <1>8, <2>1, <2>3, <3>1 DEF Sound, WithClause
  <2>4. CASE i \notin 1 .. l
    <3>1. vSolvers'[i] = Fetched(R)[i]
      BY <1>3, <2>2, <2>4 DEF Learned
    <3> QED BY <2>1, <3>1 DEF Sound
  <2> QED BY <2>3, <2>4
<1>11. LastSolverFull'
  <2>1. Fetched(R)[iFrame] = vSolvers[iFrame]
    BY <1>2 DEF BlockLearn, Recyclable, Fetched, Frames
  <2>2. vClauses[iFrame] \subseteq Fetched(R)[iFrame].cubes
    BY <2>1 DEF IInv, LastSolverFull
  <2>3. CASE l = iFrame
    <3>1. vSolvers'[iFrame] = WithClause(Fetched(R)[iFrame], g)
      BY <1>2, <1>3, <1>4, <2>3 DEF Learned
    <3> QED BY <1>0, <1>1, <1>2, <1>3, <2>2, <2>3, <3>1 DEF LastSolverFull, WithClause, TypeOK
  <2>4. CASE l # iFrame
    <3>1. vSolvers'[iFrame] = Fetched(R)[iFrame]
      BY <1>2, <1>3, <1>4, <2>4 DEF Learned
    <3> QED BY <1>0, <1>1, <1>2, <1>3, <2>2, <2>4, <3>1 DEF LastSolverFull, TypeOK
  <2> QED BY <2>3, <2>4
<1>12. ClosedFramesSafe' /\ PushingEmptied' /\ ProofsFromPushing'
  BY <1>1, <1>6, BlockingKept
<1>13. ObligationsAhead'
  <2>1. Target(Postponed(o, l)) = Target(o) /\ Postponed(o, l).iFrame = l + 1
    BY <1>0, <1>1, PoppedFacts DEF Postponed, Target, Obligation
  <2>2. \A s \in Frame(vClauses', l) : ~Holds(s, Target(o))
    <3>1. l \in 1 .. l
      BY <1>4
    <3> QED BY <1>5, <1>8, <3>1, ContainsHolds
  <2>3. ASSUME NEW q \in pQueue' \ pQueue
        PROVE  \A s \in Frame(vClauses', q.iFrame - 1) : ~Holds(s, Target(q))
    <3>1. q = Postponed(o, l)
      BY <1>3
    <3>2. l + 1 - 1 = l
      BY <1>4
    <3> QED BY <2>1, <2>2, <3>1, <3>2
  <2> QED BY <1>6, <2>3, AheadKept DEF F
<1> QED BY <1>9, <1>10, <1>11, <1>12, <1>13 DEF IInv

\* Frames stay inductive when cubes are only dropped.
LEMMA FramesFewer ==
  ASSUME NEW A, A.next \in [States \X Inputs -> States],
         NEW C, NEW D, NEW n \in Frames, Ind(A, C, n), Covers(D, C),
         \A j \in Frames : \A c \in D[j] : ~Pdr_SetIsInit(c),
         \A j \in Frames : D[j] \subseteq C[j]
  PROVE  Ind(A, D, n)
<1>1. PICK G : G = {}
  OBVIOUS
<1>2. 1 \in 1 .. nFrameMax
  OBVIOUS
<1>3. \A j \in Frames : D[j] \subseteq C[j] \cup (IF j = 1 THEN G ELSE {})
  OBVIOUS
<1>4. \A g \in G, s \in Frame(D, 1 - 1), x \in Inputs : ~Holds(A.next[<<s, x>>], g)
  BY <1>1
<1> QED BY <1>2, <1>3, <1>4, FramesStep

\* What a step of Pdr_ManPushClauses leaves alone.
LEMMA PushingKept ==
  ASSUME IInv, TypeOK', Layout', Covers(vClauses', vClauses), pc = "push", pc' = "push",
         UNCHANGED <<pAig, pPars, pQueue, iFrame, iPush, fInv, vOutMap, RetValue>>,
         \A l \in Frames : l < iPush => vClauses'[l] = vClauses[l]
  PROVE  ClosedFramesSafe' /\ ObligationsAhead' /\ PushingEmptied' /\ ProofsFromPushing'
<1>1. \A o \in Outputs : Undecided(o)' => Undecided(o)
  BY DEF Undecided
<1>2. ClosedFramesSafe'
  BY <1>1, ClosedKept
<1>3. ObligationsAhead'
  BY AheadKept
<1>4. \A l \in 1 .. (iFrame - 1) : l \in Frames
  BY DEF IInv, TypeOK, Frames
<1>5. PushingEmptied'
  BY <1>4 DEF IInv, PushingEmptied
<1>6. ProofsFromPushing'
  BY DEF IInv, ProofsFromPushing
<1> QED BY <1>2, <1>3, <1>5, <1>6

\* A cube that does not move keeps the invariant, its level thinned or not.
LEMMA InvKept ==
  ASSUME IInv, TypeOK', Layout', NEW c, NEW R, PushKept(c, R)
  PROVE  IInv'
<1>0. TypeOK /\ Layout /\ iFrame \in Frames
  BY DEF IInv, TypeOK
<1>1. /\ pc = "push" /\ pc' = "push" /\ iPush < iFrame /\ iPush \in Frames
      /\ UNCHANGED <<pAig, pPars, pQueue, iFrame, iPush, fInv, vOutMap, RetValue>>
      /\ vSolvers' = Fetched(R) /\ R \in Recyclable({iPush})
      /\ vClauses' = [vClauses EXCEPT ![iPush] = Thinned(c)]
  BY <1>0 DEF PushKept, problem, verdict, TypeOK, Frames
<1>2. Covers(vClauses', vClauses)
  BY <1>0, CoversKept
<1>3. \A j \in Frames : /\ vClauses'[j] \subseteq vClauses[j]
                        /\ j # iPush => vClauses'[j] = vClauses[j]
  BY <1>0, <1>1 DEF Thinned, TypeOK
<1>4. ClosedFramesSafe' /\ ObligationsAhead' /\ PushingEmptied' /\ ProofsFromPushing'
  BY <1>0, <1>1, <1>2, <1>3, PushingKept DEF Frames
<1>5. Ind(pAig, vClauses', iFrame)
  <2>1. Ind(pAig, vClauses, iFrame)
    BY DEF IInv, FramesInductive, Ind, F
  <2>2. pAig.next \in [States \X Inputs -> States]
    BY <1>0 DEF TypeOK, AigType
  <2>3. \A j \in Frames : \A d \in vClauses'[j] : ~Pdr_SetIsInit(d)
    BY DEF Layout
  <2> QED BY <1>0, <1>2, <1>3, <2>1, <2>2, <2>3, FramesFewer
<1>6. FramesInductive'
  BY <1>1, <1>5 DEF Ind, FramesInductive, F
<1>7. SolversSound'
  <2>1. Sound(pAig, Fetched(R), vClauses', iFrame)
    BY <1>0, <1>1, <1>2, FetchedSound, SoundShrinks
  <2> QED BY <1>1, <2>1 DEF Sound, SolversSound, F
<1>8. LastSolverFull'
  <2>1. Fetched(R)[iFrame] = vSolvers[iFrame]
    BY <1>0, <1>1 DEF Recyclable, Fetched, Frames
  <2> QED BY <1>0, <1>1, <1>3, <2>1 DEF IInv, LastSolverFull
<1> QED BY <1>4, <1>6, <1>7, <1>8 DEF IInv

\* A clause moves up shrunk: the frame it leaves has no step into its cube, and
\* only the next solver needs to learn it.
LEMMA InvMoved ==
  ASSUME IInv, TypeOK', Layout', NEW c, NEW R, PushMoved(c, R)
  PROVE  IInv'
<1>0. TypeOK /\ Layout /\ iFrame \in Frames
  BY DEF IInv, TypeOK
<1>1. /\ pc = "push" /\ pc' = "push" /\ iPush < iFrame /\ iPush \in Frames /\ iPush >= 1
      /\ iPush + 1 \in Frames /\ iPush + 1 \in 1 .. nFrameMax /\ iPush \in 0 .. iFrame
      /\ UNCHANGED <<pAig, pPars, pQueue, iFrame, iPush, fInv, vOutMap, RetValue>>
      /\ R \in Recyclable({iPush}) /\ c \in vClauses[iPush]
  BY <1>0 DEF PushMoved, problem, pushing, verdict, TypeOK, Layout, Frames
<1>2. PICK g \in Shrunk(c) :
        /\ Unreachable(iPush, Fetched(R)[iPush], c, g)
        /\ vSolvers' = [Fetched(R) EXCEPT ![iPush + 1] = WithClause(@, g)]
        /\ vClauses' = [vClauses EXCEPT ![iPush] = Thinned(c) \ {c},
                                        ![iPush + 1] = Absorb(@, g)]
  BY DEF PushMoved
<1>3. Pdr_SetContains(c, g) /\ ~Pdr_SetIsInit(g)
  BY <1>2, ShrunkFacts
<1>4. Covers(vClauses', vClauses)
  BY <1>0, CoversMoved
<1>5. \A j \in Frames : /\ j = iPush => vClauses'[j] \subseteq vClauses[j]
                        /\ j # iPush /\ j # iPush + 1 => vClauses'[j] = vClauses[j]
  BY <1>0, <1>1, <1>2 DEF Thinned, TypeOK
<1>6. vClauses'[iPush + 1] \subseteq vClauses[iPush + 1] \cup {g} /\ g \in vClauses'[iPush + 1]
  BY <1>0, <1>1, <1>2 DEF Absorb, TypeOK
<1>7. ClosedFramesSafe' /\ ObligationsAhead' /\ PushingEmptied' /\ ProofsFromPushing'
  <2>1. \A l \in Frames : l < iPush => vClauses'[l] = vClauses[l]
    BY <1>1, <1>5 DEF Frames
  <2> QED BY <1>0, <1>1, <1>4, <2>1, PushingKept
<1>8. \A i \in 1 .. (iPush + 1) : \A s \in Frame(vClauses', i) : ~Holds(s, g)
  BY <1>1, <1>6 DEF Frame, Frames
<1>9. Sound(pAig, Fetched(R), vClauses, iFrame)
  BY <1>1, FetchedSound
<1>10. ASSUME NEW s \in Frame(vClauses', iPush), NEW x \in Inputs,
              Holds(pAig.next[<<s, x>>], g)
       PROVE  FALSE
  <2>1. s \in F(iPush)
    BY <1>1, <1>4, CoversShrinks DEF F
  <2>2. <<s, x>> \in Models(iPush, Fetched(R)[iPush])
    BY <1>0, <1>1, <1>9, <2>1, SoundModels
  <2>3. Holds(s, c)
    BY <1>2, <1>10, <2>2 DEF Unreachable
  <2>4. Holds(s, g)
    BY <1>3, <2>3, ContainsHolds
  <2>5. iPush \in 1 .. (iPush + 1)
    BY <1>1 DEF Frames
  <2> QED BY <1>8, <2>4, <2>5
<1>11. Ind(pAig, vClauses', iFrame)
  <2> DEFINE G == {g}
  <2>0. PICK l \in 1 .. nFrameMax : l = iPush + 1
    BY <1>1
  <2>1. Ind(pAig, vClauses, iFrame)
    BY DEF IInv, FramesInductive, Ind, F
  <2>2. pAig.next \in [States \X Inputs -> States]
    BY <1>0 DEF TypeOK, AigType
  <2>3. \A j \in Frames : \A d \in vClauses'[j] : ~Pdr_SetIsInit(d)
    BY DEF Layout
  <2>4. \A j \in Frames : vClauses'[j] \subseteq vClauses[j] \cup (IF j = l THEN G ELSE {})
    BY <1>5, <1>6, <2>0
  <2>5. \A h \in G, s \in Frame(vClauses', l - 1), x \in Inputs :
           ~Holds(pAig.next[<<s, x>>], h)
    <3>1. l - 1 = iPush
      BY <1>1, <2>0 DEF Frames
    <3> QED BY <1>10, <3>1
  <2> HIDE DEF G
  <2> QED BY <1>0, <1>4, <2>1, <2>2, <2>3, <2>4, <2>5, FramesStep
<1>12. FramesInductive'
  BY <1>1, <1>11 DEF Ind, FramesInductive, F
<1>13. SolversSound'
  <2>1. Sound(pAig, Fetched(R), vClauses', iFrame)
    BY <1>0, <1>4, <1>9, SoundShrinks
  <2> SUFFICES ASSUME NEW i \in 0 .. iFrame, NEW s \in Frame(vClauses', i)
               PROVE  /\ \A d \in vSolvers'[i].cubes : ~Holds(s, d)
                      /\ \A p \in vSolvers'[i].props, x \in Inputs : <<s, x>> \notin pAig.po[p]
    BY <1>1 DEF SolversSound, F
  <2>2. i \in Frames /\ iPush + 1 \in 1 .. (iPush + 1)
    BY <1>0, <1>1 DEF Frames
  <2>3. CASE i = iPush + 1
    <3>1. vSolvers'[i] = WithClause(Fetched(R)[i], g)
      BY <1>2, <2>2, <2>3 DEF Fetched
    <3> QED BY <1>8, <2>1, <2>2, <2>3, <3>1 DEF Sound, WithClause
  <2>4. CASE i # iPush + 1
    <3>1. vSolvers'[i] = Fetched(R)[i]
      BY <1>2, <2>2, <2>4 DEF Fetched
    <3> QED BY <2>1, <3>1 DEF Sound
  <2> QED BY <2>3, <2>4
<1>14. LastSolverFull'
  <2>1. Fetched(R)[iFrame] = vSolvers[iFrame] /\ iFrame # iPush
    BY <1>0, <1>1 DEF Recyclable, Fetched, Frames
  <2>2. vClauses[iFrame] \subseteq Fetched(R)[iFrame].cubes
    BY <2>1 DEF IInv, LastSolverFull
  <2>3. CASE iFrame = iPush + 1
    <3>1. vSolvers'[iFrame] = WithClause(Fetched(R)[iFrame], g)
      BY <1>0, <1>2, <2>3 DEF Fetched
    <3> QED BY <1>1, <1>6, <2>2, <2>3, <3>1 DEF LastSolverFull, WithClause
  <2>4. CASE iFrame # iPush + 1
    <3>1. vSolvers'[iFrame] = Fetched(R)[iFrame]
      BY <1>0, <1>2, <2>4 DEF Fetched
    <3> QED BY <1>0, <1>1, <1>5, <2>1, <2>2, <2>4, <3>1 DEF LastSolverFull
  <2> QED BY <2>3, <2>4
<1> QED BY <1>7, <1>12, <1>13, <1>14 DEF IInv

\* Pushing ends: only subsumed cubes of the last level go, and a proof is
\* reported only when a level has emptied.
LEMMA InvPushDone ==
  ASSUME IInv, TypeOK', Layout', PushDone
  PROVE  IInv'
<1>0. TypeOK /\ Layout /\ iFrame \in Frames /\ iFrame >= 1 /\ pc = "push" /\ nPos \in Nat \ {0}
  BY DEF IInv, TypeOK, Layout, PushDone
<1>1. UNCHANGED <<pAig, pPars, vSolvers, pQueue, iFrame, fInv, iPush>>
  BY DEF PushDone, problem, pushing
<1>2. Covers(vClauses', vClauses)
  BY <1>0, CoversPushDone
<1>3. PICK kept \in SUBSET vClauses[iFrame] :
        vClauses' = [vClauses EXCEPT ![iFrame] = kept]
  BY DEF PushDone
<1>4. \A j \in Frames : /\ vClauses'[j] \subseteq vClauses[j]
                        /\ j # iFrame => vClauses'[j] = vClauses[j]
  BY <1>0, <1>3 DEF TypeOK
<1>5. FramesInductive'
  <2>1. Ind(pAig, vClauses, iFrame)
    BY DEF IInv, FramesInductive, Ind, F
  <2>2. pAig.next \in [States \X Inputs -> States]
    BY <1>0 DEF TypeOK, AigType
  <2>3. \A j \in Frames : \A d \in vClauses'[j] : ~Pdr_SetIsInit(d)
    BY DEF Layout
  <2>4. Ind(pAig, vClauses', iFrame)
    BY <1>0, <1>2, <1>4, <2>1, <2>2, <2>3, FramesFewer
  <2> QED BY <1>1, <2>4 DEF Ind, FramesInductive, F
<1>6. SolversSound'
  <2>1. Sound(pAig, vSolvers, vClauses, iFrame)
    BY DEF IInv, SolversSound, Sound, F
  <2>2. Sound(pAig, vSolvers, vClauses', iFrame)
    BY <1>0, <1>2, <2>1, SoundShrinks
  <2> QED BY <1>1, <2>2 DEF Sound, SolversSound, F
<1>7. LastSolverFull'
  BY <1>0, <1>1, <1>4 DEF IInv, LastSolverFull
<1>8. /\ \A o \in Outputs : vOutMap'[o] \in {vOutMap[o], 1}
      /\ \A o \in Outputs : vOutMap'[o] # vOutMap[o] => vOutMap[o] = -2
      /\ fInv \/ vOutMap' = vOutMap
  BY <1>0 DEF PushDone, TypeOK
<1>9. ClosedFramesSafe'
  <2>1. \A o \in Outputs : Undecided(o)' => Undecided(o)
    BY <1>8 DEF Undecided
  <2>2. pc' \in {"output", "block"} => iOutCur' = 0
    BY DEF PushDone, Return
  <2>3. \A o \in 0 .. (0 - 1) : FALSE
    OBVIOUS
  <2> QED BY <1>1, <1>2, <2>1, <2>2, <2>3, ClosedKept
<1>10. ObligationsAhead'
  BY <1>1, <1>2, AheadKept
<1>11. PushingEmptied'
  <2>1. fInv => pc' = "return"
    BY DEF PushDone, Return
  <2>2. \A l \in 1 .. (iFrame - 1) : l \in Frames /\ l # iFrame
    BY <1>0 DEF Frames
  <2> QED BY <1>1, <1>4, <2>1, <2>2 DEF IInv, PushingEmptied
<1>12. ProofsFromPushing'
  <2>1. RetValue # 1 /\ \A o \in Outputs : vOutMap[o] = 1 => fInv
    BY <1>0 DEF IInv, ProofsFromPushing
  <2>2. CASE ~fInv
    <3>1. RetValue' # 1 /\ vOutMap' = vOutMap
      BY <2>1, <2>2 DEF PushDone, Return
    <3> QED BY <2>1, <2>2, <3>1 DEF ProofsFromPushing
  <2>3. CASE fInv
    <3>1. pc' = "return" /\ fInv'
      BY <1>1, <2>3 DEF PushDone, Return
    <3>2. RetValue' = 1 => \A o \in Outputs : vOutMap[o] = -2
      BY <2>3 DEF PushDone, Return
    <3>3. vOutMap' = IF pPars.fSolveAll
                     THEN [o \in Outputs |-> IF vOutMap[o] = -2 THEN 1 ELSE vOutMap[o]]
                     ELSE vOutMap
      BY <2>3 DEF PushDone
    <3>4. RetValue' = 1 => \A o \in Outputs : vOutMap'[o] = IF pPars.fSolveAll THEN 1 ELSE -2
      BY <3>2, <3>3
    <3> QED BY <1>1, <3>1, <3>4 DEF ProofsFromPushing
  <2> QED BY <2>2, <2>3
<1> QED BY <1>5, <1>6, <1>7, <1>9, <1>10, <1>11, <1>12 DEF IInv

\* The empty trace of frames satisfies the invariant.
LEMMA InvInit ==
  ASSUME Init
  PROVE  IInv
<1>1. TypeOK /\ Layout
  BY InitTypes
<1>2. iFrame = 0 /\ iOutCur = 0 /\ iFrame \in Frames /\ fInv = FALSE /\ RetValue = -1
  BY DEF Init, Frames
<1>3. 0 .. (0 - 1) = {} /\ \A l \in 0 .. 0 : l = 0
  OBVIOUS
<1>4. FramesInductive
  BY <1>2, <1>3 DEF FramesInductive, F, Frame
<1>5. vSolvers[0] = NewSolver /\ vClauses[0] = {}
  BY <1>2 DEF Init
<1>6. SolversSound /\ LastSolverFull
  BY <1>2, <1>3, <1>5 DEF SolversSound, LastSolverFull, NewSolver
<1>7. ClosedFramesSafe
  BY <1>2, <1>3 DEF ClosedFramesSafe
<1>8. ObligationsAhead /\ PushingEmptied
  BY <1>2 DEF Init, ObligationsAhead, PushingEmptied
<1>9. ProofsFromPushing
  BY <1>2 DEF Init, ProofsFromPushing
<1> QED BY <1>1, <1>4, <1>6, <1>7, <1>8, <1>9 DEF IInv

\* Every step of the engine keeps the inductive invariant.
LEMMA InvNext ==
  ASSUME IInv, [Next]_vars
  PROVE  IInv'
<1>1. TypeOK' /\ Layout'
  BY NextTypes DEF IInv
<1>2. CASE UNCHANGED vars
  <2>1. \A l \in Int : F(l)' = F(l)
    BY <1>2 DEF F, vars
  <2> QED BY <1>1, <1>2 DEF vars, IInv, FramesInductive, SolversSound, LastSolverFull,
       ClosedFramesSafe, ObligationsAhead, PushingEmptied, ProofsFromPushing, Safe,
       Undecided, F
<1>3. ASSUME NEW R, Consult(R) PROVE IInv'
  BY <1>1, <1>3, InvCovered, InvLearn, InvPredecessor, InvKept, InvMoved DEF Consult
<1> QED BY <1>1, <1>2, <1>3, InvOutput, InvOpen, InvQuiet, InvEnd, InvPushDone DEF Next

\* The inductive invariant holds throughout.
THEOREM Invariant == Spec => []IInv
<1>1. Init => IInv
  BY InvInit
<1>2. IInv /\ [Next]_vars => IInv'
  BY InvNext
<1> QED BY <1>1, <1>2, PTL DEF Spec

-----------------------------------------------------------------------------
(* What the invariant gives.                                               *)

\* Every frame contains the initial state and the image of the frame before it
\* (Pdr_ManBlockCube and Pdr_ManPushClauses, whatever they learn or drop).
THEOREM FramesStayInductive == Spec => []FramesInductive
<1>1. IInv => FramesInductive
  BY DEF IInv
<1> QED BY <1>1, Invariant, PTL

\* No solver ever contradicts a state of its frame, asserted outputs and
\* recycling included (Pdr_ManSetPropertyOutput, Pdr_ManFetchSolver).
THEOREM SolversStaySound == Spec => []SolversSound
<1>1. IInv => SolversSound
  BY DEF IInv
<1> QED BY <1>1, Invariant, PTL

\* The last solver never misses a clause of its frame, so that it need not be
\* recycled (the assert of Pdr_ManFetchSolver).
THEOREM LastSolverStaysExact == Spec => []LastSolverExact
<1>1. IInv => LastSolverExact
  BY DEF IInv, LastSolverFull, LastSolverExact
<1> QED BY <1>1, Invariant, PTL

\* No obligation is reachable before its frame, and none holds the initial
\* state (the assert of Pdr_ManBlockCube).
THEOREM ObligationsStayAhead == Spec => []ObligationsAhead
<1>1. IInv => ObligationsAhead
  BY DEF IInv
<1> QED BY <1>1, Invariant, PTL

\* The lowest empty level exists once a level has emptied, below the last one.
LEMMA InvariantStartFound ==
  ASSUME IInv, fInv
  PROVE  /\ InvariantStart \in 1 .. (iFrame - 1)
         /\ vClauses[InvariantStart] = {}
<1>0. iFrame \in Nat
  BY DEF IInv, TypeOK, Frames
<1>1. PICK e \in 1 .. (iFrame - 1) : vClauses[e] = {}
  BY DEF IInv, PushingEmptied
<1> DEFINE T == {l \in 1 .. iFrame : vClauses[l] = {}}
<1>2. T \in SUBSET Nat /\ e \in T
  BY <1>0, <1>1
<1>3. PICK m \in T : \A n \in T : m <= n
  BY <1>2, LeastOf
<1>4. m \in 1 .. iFrame /\ vClauses[m] = {} /\ \A j \in 1 .. (m - 1) : vClauses[j] # {}
  <2>1. ASSUME NEW j \in 1 .. (m - 1), vClauses[j] = {} PROVE FALSE
    <3>1. j \in T /\ j < m
      BY <1>0, <1>2, <2>1
    <3> QED BY <1>2, <1>3, <3>1
  <2> QED BY <2>1
<1>5. /\ InvariantStart \in 1 .. iFrame /\ vClauses[InvariantStart] = {}
      /\ \A j \in 1 .. (InvariantStart - 1) : vClauses[j] # {}
  BY <1>4 DEF InvariantStart
<1>6. ~(e \in 1 .. (InvariantStart - 1))
  BY <1>1, <1>5
<1> QED BY <1>0, <1>1, <1>5, <1>6

\* A reported proof rests on an inductive invariant that excludes the failure.
LEMMA ProofOfInv ==
  ASSUME IInv
  PROVE  ProofIsInductive
<1>1. ASSUME fInv PROVE Inductive(F(InvariantStart))
  <2> DEFINE l == InvariantStart
  <2>1. l \in 1 .. (iFrame - 1) /\ vClauses[l] = {} /\ iFrame \in Frames
    BY <1>1, InvariantStartFound DEF IInv, TypeOK
  <2> HIDE DEF l
  <2>2. l \in 0 .. iFrame /\ l < iFrame /\ l # 0 /\ l + 1 # 0
    BY <2>1 DEF Frames
  <2>3. F(l + 1) \subseteq F(l)
    <3>1. \A j \in l .. nFrameMax : j = l \/ j \in (l + 1) .. nFrameMax
      BY <2>1
    <3> QED BY <2>1, <2>2, <3>1 DEF F, Frame
  <2>4. {} \in F(l) /\ \A s \in F(l), x \in Inputs : pAig.next[<<s, x>>] \in F(l + 1)
    BY <2>2 DEF IInv, FramesInductive
  <2>5. Inductive(F(l))
    BY <2>3, <2>4 DEF Inductive
  <2> QED BY <2>5 DEF l
<1>2. ASSUME NEW o \in Outputs, Proved(o)
      PROVE  /\ fInv
             /\ \A s \in F(InvariantStart), x \in Inputs : <<s, x>> \notin pAig.po[o]
  <2>1. fInv /\ Undecided(o)
    BY <1>2 DEF IInv, ProofsFromPushing, Proved, Undecided
  <2>2. InvariantStart \in 0 .. (iFrame - 1)
    BY <2>1, InvariantStartFound DEF IInv, TypeOK, Frames
  <2>3. Safe(InvariantStart, o)
    BY <2>1, <2>2 DEF IInv, ClosedFramesSafe
  <2> QED BY <2>1, <2>3 DEF Safe
<1> QED BY <1>1, <1>2 DEF ProofIsInductive

\* What Pdr_ManVerifyInvariant checks always holds.
THEOREM ProofStaysInductive == Spec => []ProofIsInductive
BY Invariant, ProofOfInv, PTL

-----------------------------------------------------------------------------
(* Counter-examples are real.                                              *)

\* A chain's members, one by one.
LEMMA Members ==
  ASSUME NEW X, NEW p \in Seq(X)
  PROVE  \A j \in 1 .. Len(p) : p[j] \in X
OBVIOUS

\* A chain with one more step in front.
LEMMA Prefixed ==
  ASSUME NEW X, NEW p \in Seq(X), NEW w
  PROVE  LET q == <<w>> \o p
         IN  /\ Len(q) = Len(p) + 1 /\ q[1] = w
             /\ \A j \in 2 .. (Len(p) + 1) : q[j] = p[j - 1]
OBVIOUS

\* What replaying a chain (Pdr_ManDeriveCex) comes to: a run from the initial
\* state, one state per cube.
LEMMA ReplayRuns ==
  ASSUME TypeOK, NEW p \in Chain \ {<<>>}
  PROVE  \E at : /\ Replay(p) = at[Len(p)] /\ at[1] = {}
                 /\ \A j \in 2 .. Len(p) : at[j] = pAig.next[<<at[j - 1], p[j - 1].pis>>]
<1> DEFINE K == Len(p)
           Walk(h, n) == h = [j \in 1 .. n |-> IF j = 1 THEN {}
                                ELSE pAig.next[<<h[j - 1], p[j - 1].pis>>]]
           S == {n \in 1 .. K : \E h : Walk(h, n)}
<1>1. K \in Nat /\ K >= 1
  BY DEF Chain
<1>2. 1 \in S
  <2> DEFINE h == [j \in 1 .. 1 |-> {}]
  <2>1. h = [j \in 1 .. 1 |-> IF j = 1 THEN {} ELSE pAig.next[<<h[j - 1], p[j - 1].pis>>]]
    <3>1. \A j \in 1 .. 1 : j = 1
      OBVIOUS
    <3> QED BY <3>1
  <2>2. 1 \in 1 .. K
    BY <1>1
  <2> HIDE DEF h
  <2> QED BY <2>1, <2>2
<1>3. ASSUME NEW n \in 1 .. (K - 1), n \in S
      PROVE  n + 1 \in S
  <2>1. PICK h : Walk(h, n)
    BY <1>3
  <2> DEFINE g == [j \in 1 .. (n + 1) |->
                     IF j = n + 1 THEN pAig.next[<<h[n], p[n].pis>>] ELSE h[j]]
  <2>2. ASSUME NEW j \in 1 .. (n + 1)
        PROVE  g[j] = IF j = 1 THEN {} ELSE pAig.next[<<g[j - 1], p[j - 1].pis>>]
    <3>1. CASE j = n + 1
      <4>1. g[n] = h[n] /\ n \in 1 .. (n + 1) /\ j # 1 /\ j - 1 = n
        BY <1>1, <3>1
      <4> QED BY <3>1, <4>1
    <3>2. CASE j # n + 1
      <4>1. j \in 1 .. n /\ (j # 1 => j - 1 \in 1 .. n /\ j - 1 # n + 1 /\ j - 1 \in 1 .. (n + 1))
        BY <1>1, <3>2
      <4>2. h[j] = IF j = 1 THEN {} ELSE pAig.next[<<h[j - 1], p[j - 1].pis>>]
        BY <2>1, <4>1
      <4> QED BY <3>2, <4>1, <4>2
    <3> QED BY <3>1, <3>2
  <2>3. Walk(g, n + 1)
    <3>1. g = [j \in 1 .. (n + 1) |-> g[j]]
      OBVIOUS
    <3> HIDE DEF g
    <3> QED BY <2>2, <3>1
  <2>4. n + 1 \in 1 .. K
    BY <1>1
  <2> QED BY <2>3, <2>4
<1>4. K \in S
  <2> HIDE DEF S
  <2>1. 1 .. K \subseteq S
    BY <1>1, <1>2, <1>3, IntervalInduction
  <2> QED BY <1>1, <2>1
<1> DEFINE at == CHOOSE h : Walk(h, K)
<1>5. Walk(at, K)
  BY <1>4
<1>6. Replay(p) = at[K]
  BY DEF Replay
<1> HIDE DEF at
<1>7. at[1] = {}
  BY <1>1, <1>5
<1>8. \A j \in 2 .. K : j \in 1 .. K /\ j # 1
  BY <1>1
<1> HIDE DEF K
<1>9. \A j \in 2 .. K : at[j] = pAig.next[<<at[j - 1], p[j - 1].pis>>]
  BY <1>5, <1>8
<1> QED BY <1>6, <1>7, <1>9 DEF K

\* A chain that reached frame 0 and whose cubes lead on is a counter-example.
LEMMA ReplayFails ==
  ASSUME TypeOK, NEW ob \in Obligation, NEW o, ChainFails(ob, o), ob.iFrame = 0
  PROVE  <<Replay(ob.path), ob.path[Len(ob.path)].pis>> \in pAig.po[o]
<1> DEFINE p == ob.path
           K == Len(p)
<1>1. p \in Chain \ {<<>>} /\ K \in Nat /\ K >= 1
      /\ \A j \in 1 .. K : p[j].pis \in Inputs
  <2>1. p \in Chain \ {<<>>}
    BY DEF Obligation
  <2>2. K \in Nat /\ K >= 1
    BY <2>1 DEF Chain
  <2>3. p \in Chain
    BY <2>1
  <2> HIDE DEF p
  <2>4. \A j \in 1 .. K : p[j] \in [cube : Cube, pis : Inputs]
    BY <2>3, Members DEF Chain
  <2> QED BY <2>1, <2>2, <2>4
<1>2. PICK at : /\ Replay(p) = at[K] /\ at[1] = {}
                /\ \A j \in 2 .. K : at[j] = pAig.next[<<at[j - 1], p[j - 1].pis>>]
  BY <1>1, ReplayRuns
<1> DEFINE S == {j \in 1 .. K : at[j] \in States /\ Leads(p, j, at[j], o)}
<1>3. 1 \in S
  <2>1. 1 \in 1 .. K /\ {} \in States
    BY <1>1 DEF States
  <2>2. Leads(p, 1, {}, o)
    BY DEF ChainFails
  <2> QED BY <1>2, <2>1, <2>2
<1>4. ASSUME NEW j \in 1 .. (K - 1), j \in S
      PROVE  j + 1 \in S
  <2>1. j + 1 \in 2 .. K /\ j + 1 \in 1 .. K /\ j \in 1 .. K /\ j # K /\ (j + 1) - 1 = j
    BY <1>1
  <2>2. at[j + 1] = pAig.next[<<at[j], p[j].pis>>]
    BY <1>2, <2>1
  <2>3. pAig.next \in [States \X Inputs -> States]
    BY DEF TypeOK, AigType
  <2>4. at[j + 1] \in States
    BY <1>1, <1>4, <2>1, <2>2, <2>3
  <2>5. Holds(at[j + 1], p[j + 1].cube)
    BY <1>4, <2>1, <2>2 DEF Leads
  <2>6. Leads(p, j + 1, at[j + 1], o)
    BY <2>1, <2>4, <2>5 DEF ChainFails
  <2> QED BY <2>1, <2>4, <2>6
<1>5. K \in S
  <2> HIDE DEF S
  <2>1. 1 .. K \subseteq S
    BY <1>1, <1>3, <1>4, IntervalInduction
  <2> QED BY <1>1, <2>1
<1> QED BY <1>2, <1>5 DEF Leads

\* The output the obligations of the queue are about.
Aim == IF nPos = 1 THEN 0 ELSE iOutCur

\* An obligation of the bad cube alone (Pdr_ManSolveInt) fails its output.
LEMMA NewChainFails ==
  ASSUME NEW o, NEW l \in Frames, NEW w,
         \A s \in States : Holds(s, w.cube) => <<s, w.pis>> \in pAig.po[o],
         l = 0 => <<{}, w.pis>> \in pAig.po[o]
  PROVE  ChainFails([iFrame |-> l, path |-> <<w>>], o)
<1>1. Len(<<w>>) = 1 /\ <<w>>[1] = w /\ 1 .. 1 = {1}
  OBVIOUS
<1> QED BY <1>1 DEF ChainFails, Leads

\* A predecessor found by Pdr_ManCheckCube leads to the cube it was found for.
LEMMA LongerChainFails ==
  ASSUME TypeOK, NEW ob \in Obligation, NEW o, ChainFails(ob, o), NEW l \in Frames, NEW w,
         \A s \in States : Holds(s, w.cube) => Holds(pAig.next[<<s, w.pis>>], Target(ob)),
         l = 0 => Holds(pAig.next[<<{}, w.pis>>], Target(ob))
  PROVE  ChainFails([iFrame |-> l, path |-> <<w>> \o ob.path], o)
<1> DEFINE p == ob.path
           q == <<w>> \o p
<1>1. p \in Chain /\ p # <<>>
  BY DEF Obligation
<1>2. Len(p) \in Nat /\ Len(p) >= 1
  BY <1>1 DEF Chain
<1>3. /\ Len(q) = Len(p) + 1 /\ q[1] = w
      /\ \A j \in 2 .. (Len(p) + 1) : q[j] = p[j - 1]
  BY <1>1, Prefixed DEF Chain
<1>4. q[2] = p[1]
  BY <1>2, <1>3
<1>5. \A s : Leads(q, 1, s, o) <=> Holds(pAig.next[<<s, w.pis>>], Target(ob))
  <2>1. 1 # Len(q) /\ 1 + 1 = 2
    BY <1>2, <1>3
  <2> QED BY <1>3, <1>4, <2>1 DEF Leads, Target
<1>6. ASSUME NEW j \in 2 .. (Len(p) + 1), NEW s
      PROVE  Leads(q, j, s, o) <=> Leads(p, j - 1, s, o)
  <2>1. q[j] = p[j - 1] /\ (j = Len(q) <=> j - 1 = Len(p))
    BY <1>2, <1>3
  <2>2. ASSUME j # Len(q) PROVE q[j + 1] = p[(j - 1) + 1]
    <3>0. j # Len(p) + 1
      BY <1>3, <2>2
    <3>1. j + 1 \in 2 .. (Len(p) + 1) /\ (j + 1) - 1 = (j - 1) + 1
      BY <1>2, <3>0
    <3> QED BY <1>3, <3>1
  <2> HIDE DEF q, p
  <2> QED BY <2>1, <2>2 DEF Leads
<1>7. ASSUME NEW j \in 1 .. Len(q), NEW s \in States, Holds(s, q[j].cube)
      PROVE  Leads(q, j, s, o)
  <2>1. CASE j = 1
    BY <1>3, <1>5, <1>7, <2>1
  <2>2. CASE j # 1
    <3>1. j \in 2 .. (Len(p) + 1) /\ j - 1 \in 1 .. Len(p)
      BY <1>2, <1>3, <2>2
    <3>2. Leads(p, j - 1, s, o)
      BY <1>3, <1>7, <3>1 DEF ChainFails
    <3> QED BY <1>6, <3>1, <3>2
  <2> QED BY <2>1, <2>2
<1> HIDE DEF q
<1> QED BY <1>5, <1>7 DEF ChainFails, q

\* Obligations that stay in the queue, maybe at another frame, keep their chain.
LEMMA QueueKept ==
  ASSUME TypeOK, UNCHANGED pAig, Aim' = Aim,
         \A ob \in pQueue : ChainFails(ob, Aim),
         \A q \in pQueue' : \E ob \in pQueue :
            q.path = ob.path /\ (q.iFrame = 0 => ob.iFrame = 0)
  PROVE  \A q \in pQueue' : ChainFails(q, Aim)'
<1> SUFFICES ASSUME NEW q \in pQueue' PROVE ChainFails(q, Aim)'
  OBVIOUS
<1>1. PICK ob \in pQueue : q.path = ob.path /\ (q.iFrame = 0 => ob.iFrame = 0)
  OBVIOUS
<1>2. ChainFails(ob, Aim)
  OBVIOUS
<1>3. \A p, j, s, o : Leads(p, j, s, o)' = Leads(p, j, s, o)
  BY DEF Leads
<1> QED BY <1>1, <1>2, <1>3 DEF ChainFails

\* Steps that add no obligation.
LEMMA QueueSmaller ==
  ASSUME TypeOK, QueueForOutput, UNCHANGED pAig, pQueue' \subseteq pQueue,
         iFrame' = iFrame \/ pQueue' = {}, Aim' = Aim \/ pQueue' = {},
         nPos # 1 /\ pc' \in {"output", "push"} => pQueue' = {}
  PROVE  QueueForOutput'
<1>1. \A ob \in pQueue : ChainFails(ob, Aim)
  BY DEF QueueForOutput, Aim
<1>2. \A ob \in pQueue' : ChainFails(ob, Aim)'
  <2>1. CASE pQueue' = {}
    BY <2>1
  <2>2. CASE Aim' = Aim
    BY <1>1, <2>2, QueueKept
  <2> QED BY <2>1, <2>2
<1>3. nPos # 1 => \A ob \in pQueue' : ob.iFrame <= iFrame'
  BY DEF QueueForOutput
<1> QED BY <1>2, <1>3 DEF QueueForOutput, Aim

\* Steps that add one obligation, with a chain that fails the output.
LEMMA QueueGrows ==
  ASSUME TypeOK, QueueForOutput, UNCHANGED <<pAig, iFrame>>, Aim' = Aim, pc' = "block",
         NEW q, ChainFails(q, Aim), nPos # 1 => q.iFrame <= iFrame,
         pQueue' \subseteq pQueue \cup {q}
  PROVE  QueueForOutput'
<1>1. \A ob \in pQueue \cup {q} : ChainFails(ob, Aim)
  BY DEF QueueForOutput, Aim
<1>2. \A p, j, s, o : Leads(p, j, s, o)' = Leads(p, j, s, o)
  BY DEF Leads
<1>3. \A ob \in pQueue' : ChainFails(ob, Aim)'
  BY <1>1, <1>2 DEF ChainFails
<1>4. nPos # 1 => \A ob \in pQueue' : ob.iFrame <= iFrame'
  BY DEF QueueForOutput
<1> QED BY <1>3, <1>4 DEF QueueForOutput, Aim

\* Steps of the output loop keep the queue to the output under work.
LEMMA QueueOutput ==
  ASSUME TypeOK, Layout, QueueForOutput, SkipOutput \/ OutputHolds \/ OpenFrame \/ OutputFails
  PROVE  QueueForOutput'
<1>1. CASE SkipOutput \/ OutputHolds \/ OpenFrame
  <2>1. UNCHANGED <<pAig, pQueue>> /\ pc = "output" /\ pc' \in {"output", "push"}
    BY <1>1 DEF SkipOutput, OutputHolds, OpenFrame, Attempted, NextOutput, problem
  <2>2. nPos # 1 => pQueue' = {}
    BY <2>1 DEF QueueForOutput
  <2>3. Aim' = Aim \/ pQueue' = {}
    BY <2>2 DEF Aim
  <2>4. nPos = 1 => QueueForOutput'
    <3>1. \A ob \in pQueue : ChainFails(ob, Aim)
      BY DEF QueueForOutput, Aim
    <3>2. ASSUME nPos = 1 PROVE Aim' = Aim
      BY <3>2 DEF Aim
    <3> QED BY <2>1, <3>1, <3>2, QueueKept DEF QueueForOutput, Aim
  <2>5. nPos # 1 => QueueForOutput'
    BY <2>1, <2>2, <2>3, QueueSmaller
  <2> QED BY <2>4, <2>5
<1>2. CASE OutputFails
  <2> DEFINE M == Models(iFrame, vSolvers[iFrame])
  <2>1. PICK w \in Widen(M, pAig.po[iOutCur]) :
          pQueue' = pQueue \cup {[iFrame |-> iFrame, path |-> <<w>>]}
    BY <1>2 DEF OutputFails
  <2>2. /\ UNCHANGED <<pAig, iFrame, iOutCur>> /\ pc = "output" /\ pc' = "block"
        /\ iOutCur < nPos /\ iFrame \in Frames
    BY <1>2 DEF OutputFails, Attempted, problem, TypeOK
  <2>3. iOutCur = Aim /\ Aim' = Aim
    BY <2>2 DEF Aim, TypeOK
  <2>4. M \subseteq States \X Inputs /\ (iFrame = 0 => \A m \in M : m[1] = {})
    BY DEF Models
  <2>5. /\ \A s \in States : Holds(s, w.cube) => <<s, w.pis>> \in pAig.po[iOutCur]
        /\ iFrame = 0 => <<{}, w.pis>> \in pAig.po[iOutCur]
    BY <2>4, WidenMeets
  <2>6. ChainFails([iFrame |-> iFrame, path |-> <<w>>], iOutCur)
    BY <2>2, <2>5, NewChainFails
  <2> HIDE DEF M
  <2>7. nPos # 1 => iFrame <= iFrame
    BY <2>2 DEF Frames
  <2> QED BY <2>1, <2>2, <2>3, <2>6, <2>7, QueueGrows
<1> QED BY <1>1, <1>2

\* Dropping, restarting, failing and giving up.
LEMMA QueueDrops ==
  ASSUME TypeOK, Layout, OwnObligations, QueueForOutput,
         BlockDone \/ BlockFailed \/ BlockRestart \/ GiveUp \/ OutputTimeOut \/ Finish
  PROVE  QueueForOutput'
<1>1. CASE BlockDone
  <2>1. nPos # 1 => pQueue = {}
    <3>1. \A o \in pQueue : o.iFrame > iFrame /\ o.iFrame \in Int /\ iFrame \in Int
      BY <1>1 DEF BlockDone, TypeOK, Obligation, Frames
    <3> QED BY <3>1 DEF QueueForOutput
  <2> QED BY <1>1, <2>1, QueueSmaller DEF BlockDone, Aim, problem
<1>2. CASE BlockFailed
  <2>1. /\ UNCHANGED <<pAig, iFrame>> /\ pc = "block"
        /\ (pQueue' = {} /\ pc' = "output") \/ (UNCHANGED <<pQueue, iOutCur>> /\ pc' = "return")
    BY <1>2 DEF BlockFailed, problem, Return, NextOutput
  <2>2. Aim' = Aim \/ pQueue' = {}
    BY <2>1 DEF Aim
  <2> QED BY <2>1, <2>2, QueueSmaller
<1>3. CASE BlockRestart
  BY <1>3, QueueSmaller DEF BlockRestart, problem, Aim
<1>4. CASE GiveUp
  BY <1>4, QueueSmaller DEF GiveUp, problem, Aim, Return
<1>5. CASE Finish
  BY <1>5, QueueSmaller DEF Finish, problem, Aim
<1>6. CASE OutputTimeOut
  <2>1. /\ UNCHANGED <<pAig, iFrame>> /\ pc' = "output"
        /\ pQueue' = {} \/ (UNCHANGED pQueue /\ pc = "output")
    BY <1>6 DEF OutputTimeOut, DropOutput, problem, NextOutput
  <2>2. nPos # 1 => pQueue' = {}
    BY <2>1 DEF QueueForOutput
  <2>3. Aim' = Aim \/ pQueue' = {}
    BY <2>2 DEF Aim
  <2> QED BY <2>1, <2>2, <2>3, QueueSmaller
<1> QED BY <1>1, <1>2, <1>3, <1>4, <1>5, <1>6

\* Steps of Pdr_ManBlockCube that pop an obligation.
LEMMA QueuePopped ==
  ASSUME TypeOK, Layout, OwnObligations, QueueForOutput, NEW o \in pQueue, NEW R,
         BlockContained(o) \/ BlockCovered(o, R) \/ BlockPredecessor(o, R) \/ BlockLearn(o, R)
  PROVE  QueueForOutput'
<1>1. Popped(o) /\ UNCHANGED <<pAig, iFrame, pc>> /\ pc = "block" /\ Aim' = Aim
  BY DEF BlockContained, BlockCovered, BlockPredecessor, BlockLearn, Popped, problem, Aim
<1>2. /\ o \in Obligation /\ o.iFrame \in 1 .. iFrame /\ iFrame \in Frames
      /\ ChainFails(o, Aim)
  BY <1>1, PoppedFacts DEF QueueForOutput, Aim
<1>3. CASE BlockContained(o) \/ BlockCovered(o, R)
  <2>1. pQueue' \subseteq pQueue
    BY <1>3 DEF BlockContained, BlockCovered
  <2> QED BY <1>1, <2>1, QueueSmaller
<1>4. CASE BlockPredecessor(o, R)
  <2> DEFINE l == o.iFrame - 1
             M == {m \in Models(l, vSolvers'[l]) : ~Holds(m[1], Target(o))}
             goal == {m \in States \X Inputs : Holds(pAig.next[m], Target(o))}
  <2>1. PICK w \in Widen(M, goal) :
          pQueue' = pQueue \cup {[iFrame |-> l, path |-> <<w>> \o o.path]}
    BY <1>4 DEF BlockPredecessor
  <2>2. M \subseteq States \X Inputs /\ (l = 0 => \A m \in M : m[1] = {})
    BY DEF Models
  <2>3. /\ \A s \in States : Holds(s, w.cube) => <<s, w.pis>> \in goal
        /\ l = 0 => <<{}, w.pis>> \in goal
    <3> HIDE DEF M, goal, l
    <3> QED BY <2>2, WidenMeets
  <2>4. l \in Frames /\ l <= iFrame
    BY <1>2 DEF Frames
  <2>5. ChainFails([iFrame |-> l, path |-> <<w>> \o o.path], Aim)
    <3> HIDE DEF l
    <3> QED BY <1>2, <2>3, <2>4, LongerChainFails
  <2> HIDE DEF l, M, goal
  <2> QED BY <1>1, <2>1, <2>4, <2>5, QueueGrows
<1>5. CASE BlockLearn(o, R)
  <2>1. PICK l \in o.iFrame .. iFrame :
          pQueue' = (pQueue \ {o}) \cup
            IF (l < iFrame \/ pPars.fReuseProofOblig) /\ ~pPars.fShortest
            THEN {Postponed(o, l)} ELSE {}
    BY <1>5 DEF BlockLearn
  <2> DEFINE q == Postponed(o, l)
  <2>2. CASE ~((l < iFrame \/ pPars.fReuseProofOblig) /\ ~pPars.fShortest)
    <3>1. pQueue' \subseteq pQueue
      BY <2>1, <2>2
    <3> QED BY <1>1, <3>1, QueueSmaller
  <2>3. CASE l < iFrame \/ pPars.fReuseProofOblig
    <3>1. q.iFrame = l + 1 /\ q.path = o.path
      BY <1>2 DEF Postponed, Obligation
    <3>2. q.iFrame # 0 /\ (l < iFrame => q.iFrame <= iFrame)
      BY <1>2, <3>1 DEF Frames
    <3>3. ChainFails(q, Aim)
      BY <1>2, <3>1, <3>2 DEF ChainFails
    <3>4. pQueue' \subseteq pQueue \cup {q}
      BY <2>1
    <3>5. nPos # 1 => q.iFrame <= iFrame
      BY <2>3, <3>2 DEF OwnObligations
    <3> HIDE DEF q
    <3> QED BY <1>1, <3>3, <3>4, <3>5, QueueGrows
  <2> QED BY <2>2, <2>3
<1> QED BY <1>3, <1>4, <1>5

\* Pushing leaves the queue alone.
LEMMA QueuePushed ==
  ASSUME TypeOK, Layout, QueueForOutput, NEW c, NEW R,
         PushKept(c, R) \/ PushMoved(c, R) \/ PushLevelDone \/ PushDone
  PROVE  QueueForOutput'
<1>1. UNCHANGED <<pAig, pQueue, iFrame>> /\ pc = "push"
  BY DEF PushKept, PushMoved, PushLevelDone, PushDone, problem
<1>2. nPos # 1 => pQueue' = {}
  BY <1>1 DEF QueueForOutput
<1>3. CASE nPos = 1
  <2>1. Aim' = Aim
    BY <1>3 DEF Aim
  <2> QED BY <1>1, <1>3, <2>1, QueueSmaller
<1>4. CASE nPos # 1
  BY <1>1, <1>2, <1>4, QueueSmaller
<1> QED BY <1>3, <1>4

\* Only Pdr_ManBlockCube records a counter-example, and it fails the output.
LEMMA CexesKept ==
  ASSUME TypeOK, Layout, QueueForOutput, CexesReal, UNCHANGED pAig,
         UNCHANGED vCexes \/ BlockFailed
  PROVE  CexesReal'
<1> DEFINE Fails(p, o) == <<Replay(p), p[Len(p)].pis>> \in pAig.po[o]
<1>1. ASSUME NEW p PROVE Replay(p)' = Replay(p)
  BY DEF Replay
<1>2. CASE UNCHANGED vCexes
  BY <1>1, <1>2 DEF CexesReal
<1>3. CASE BlockFailed
  <2>1. PICK ob \in pQueue : ob.iFrame = 0 /\ vCexes' = [vCexes EXCEPT ![iOutCur] = ob.path]
    BY <1>3 DEF BlockFailed, Heads
  <2>2. iOutCur = Aim /\ iOutCur \in Outputs /\ ob \in Obligation
    BY <1>3 DEF BlockFailed, Layout, TypeOK, Aim, Outputs
  <2>3. ChainFails(ob, iOutCur)
    BY <2>2 DEF QueueForOutput, Aim
  <2>4. Fails(ob.path, iOutCur)
    BY <2>1, <2>2, <2>3, ReplayFails
  <2>5. \A o \in Outputs : vCexes[o] # <<>> => Fails(vCexes[o], o)
    BY DEF CexesReal
  <2>6. \A o \in Outputs : vCexes'[o] = IF o = iOutCur THEN ob.path ELSE vCexes[o]
    BY <2>1, <2>2 DEF TypeOK
  <2> HIDE DEF Fails
  <2>7. \A o \in Outputs : vCexes'[o] # <<>> => Fails(vCexes'[o], o)
    BY <2>4, <2>5, <2>6
  <2> QED BY <1>1, <2>7 DEF CexesReal, Fails
<1> QED BY <1>2, <1>3

\* Every step keeps the chains in the queue, and the counter-examples, real.
LEMMA CexNext ==
  ASSUME TypeOK, Layout, CexInv, [Next]_vars
  PROVE  CexInv'
<1> DEFINE Same == UNCHANGED problem /\ (UNCHANGED vCexes \/ BlockFailed)
<1>0. Same
  <2>1. ASSUME NEW R, Consult(R) PROVE Same
    BY <2>1 DEF Consult, BlockCovered, BlockLearn, BlockPredecessor, Popped, PushKept,
       PushMoved, problem, verdict
  <2>2. CASE SkipOutput \/ OutputHolds \/ OutputFails \/ OpenFrame
    BY <2>2 DEF SkipOutput, OutputHolds, OutputFails, OpenFrame, problem, verdict
  <2>3. CASE BlockDone \/ BlockFailed \/ BlockRestart \/ \E o \in pQueue : BlockContained(o)
    BY <2>3 DEF BlockDone, BlockFailed, BlockRestart, BlockContained, Popped, problem, verdict
  <2>4. CASE PushLevelDone \/ PushDone
    BY <2>4 DEF PushLevelDone, PushDone, problem, verdict
  <2>5. CASE GiveUp \/ OutputTimeOut \/ Finish
    BY <2>5 DEF GiveUp, OutputTimeOut, DropOutput, Finish, problem
  <2>6. CASE UNCHANGED vars
    BY <2>6 DEF vars, problem
  <2> HIDE DEF Same
  <2> QED BY <2>1, <2>2, <2>3, <2>4, <2>5, <2>6 DEF Next
<1>1. UNCHANGED problem
  BY <1>0
<1>2. UNCHANGED vCexes \/ BlockFailed
  BY <1>0
<1> SUFFICES ASSUME OwnObligations PROVE (QueueForOutput /\ CexesReal)'
  BY <1>1 DEF CexInv, OwnObligations, problem
<1>3. QueueForOutput /\ CexesReal
  BY DEF CexInv
<1>4. CexesReal'
  BY <1>1, <1>2, <1>3, CexesKept DEF problem
<1>5. QueueForOutput'
  <2>1. CASE UNCHANGED vars
    BY <1>3, <2>1, QueueSmaller DEF vars, Aim, QueueForOutput
  <2>2. ASSUME NEW R, Consult(R) PROVE QueueForOutput'
    BY <1>3, <2>2, QueuePopped, QueuePushed DEF Consult
  <2> QED BY <1>3, <2>1, <2>2, QueueOutput, QueueDrops, QueuePopped, QueuePushed DEF Next
<1> QED BY <1>4, <1>5

\* Every counter-example Pdr_ManDeriveCex builds fails its output, unless
\* obligations are reused (-p) over several outputs.
THEOREM CexesStayReal == Spec => [](OwnObligations => CexesReal)
<1>1. Init => TypeOK /\ Layout
  BY InitTypes
<1>2. Init => CexInv
  BY DEF Init, CexInv, QueueForOutput, CexesReal
<1>3. TypeOK /\ Layout /\ CexInv /\ [Next]_vars => TypeOK' /\ Layout' /\ CexInv'
  BY NextTypes, CexNext
<1>4. CexInv => (OwnObligations => CexesReal)
  BY DEF CexInv
<1> QED BY <1>1, <1>2, <1>3, <1>4, PTL DEF Spec

-----------------------------------------------------------------------------
(* Generalization by counter-examples (PdrCtg).                            *)

SolverMaps == [Frames -> [cubes : SUBSET Cube, props : SUBSET Outputs]]

-----------------------------------------------------------------------------
(* Types.                                                                  *)

\* A sequence of one element.
LEMMA Single ==
  ASSUME NEW T, NEW s \in Seq(T), Len(s) = 1
  PROVE  s[1] \in T /\ s = <<s[1]>>
OBVIOUS

\* What Pdr_ManGeneralize works on.
LEMMA DownFacts ==
  ASSUME TypeOK, Layout, DownOK, down # <<>>
  PROVE  /\ down[1] \in [obl : Obligation, cube : Cube, added : BOOLEAN]
         /\ obl \in Obligation /\ pCubeMin \in Cube /\ ~Pdr_SetIsInit(pCubeMin)
         /\ obl.iFrame \in 3 .. iFrame /\ k \in 2 .. (iFrame - 1) /\ k + 1 = obl.iFrame
         /\ iFrame \in Frames /\ iFrame < nFrameMax /\ iOutCur < nPos /\ pc = "block"
         /\ down = <<down[1]>>
<1>1. down[1] \in [obl : Obligation, cube : Cube, added : BOOLEAN] /\ down = <<down[1]>>
  BY Single DEF DownOK
<1>2. obl \in Obligation /\ pCubeMin \in Cube
  BY <1>1 DEF obl, pCubeMin
<1>3. obl.iFrame \in 3 .. iFrame /\ ~Pdr_SetIsInit(pCubeMin) /\ pc = "block"
  BY DEF DownOK
<1>4. iFrame \in Frames /\ iFrame < nFrameMax /\ iOutCur < nPos
  BY <1>3 DEF TypeOK, Layout
<1>5. k \in 2 .. (iFrame - 1) /\ k + 1 = obl.iFrame
  BY <1>3, <1>4 DEF k, Frames
<1> QED BY <1>1, <1>2, <1>3, <1>4, <1>5

\* A cube given to solvers, and solvers recycled, keep their types.
LEMMA LearnedType ==
  ASSUME NEW S \in SolverMaps, NEW l, NEW g \in Cube
  PROVE  Learned(S, l, g) \in SolverMaps
BY DEF Learned, WithClause, SolverMaps

LEMMA RebuiltType ==
  ASSUME TypeOK, NEW i \in Frames
  PROVE  Rebuilt(i) \in [cubes : SUBSET Cube, props : SUBSET Outputs]
<1>1. UNION {vClauses[j] : j \in i .. nFrameMax} \in SUBSET Cube
  BY DEF TypeOK, Frames
<1>2. LiveOutputs \in SUBSET Outputs
  BY DEF LiveOutputs
<1> QED BY <1>1, <1>2 DEF Rebuilt

LEMMA PreparedType ==
  ASSUME TypeOK, Layout, DownOK, down # <<>>, NEW R, NEW Q
  PROVE  Prepared(R, Q) \in SolverMaps
<1> DEFINE S == IF down[1].added THEN Fetched(R) ELSE Learned(Fetched(R), k, pCubeMin)
<1>1. S \in SolverMaps
  BY FetchedType, LearnedType, DownFacts DEF SolverMaps
<1> HIDE DEF S
<1>2. [i \in Frames |-> IF i \in Q THEN Rebuilt(i) ELSE S[i]] \in SolverMaps
  BY <1>1, RebuiltType DEF SolverMaps
<1> QED BY <1>2 DEF Prepared, S

\* A cube with a positive literal enters an open level.
LEMMA LearnTypes ==
  ASSUME TypeOK, Layout, NEW l \in 1 .. iFrame, NEW g \in Cube, ~Pdr_SetIsInit(g),
         vClauses' = [vClauses EXCEPT ![l] = @ \cup {g}]
  PROVE  /\ vClauses' \in [Frames -> SUBSET Cube]
         /\ vClauses'[0] = {} /\ \A j \in (iFrame + 1) .. nFrameMax : vClauses'[j] = {}
         /\ \A j \in Frames : \A c \in vClauses'[j] : ~Pdr_SetIsInit(c)
         /\ \A j \in Frames : vClauses'[j] = vClauses[j] \cup (IF j = l THEN {g} ELSE {})
<1>1. l \in Frames /\ l # 0 /\ l \notin (iFrame + 1) .. nFrameMax /\ 0 \in Frames
      /\ (iFrame + 1) .. nFrameMax \subseteq Frames
  BY DEF TypeOK, Frames
<1>2. \A j \in Frames : vClauses'[j] = vClauses[j] \cup (IF j = l THEN {g} ELSE {})
  BY DEF TypeOK
<1>3. vClauses' \in [Frames -> SUBSET Cube]
  BY <1>1 DEF TypeOK
<1> QED BY <1>1, <1>2, <1>3 DEF Layout

\* The cube at work when a step is done.
DownIs(o, g, b) == <<[obl |-> o, cube |-> g, added |-> b]>>

LEMMA DownKeeps ==
  ASSUME TypeOK, Layout, NEW o \in Obligation, NEW g \in Cube, NEW b \in BOOLEAN,
         down' = DownIs(o, g, b), pc' = "block", o.iFrame \in 3 .. iFrame', Pdr_SetContains(Target(o), g),
         ~Pdr_SetIsInit(g)
  PROVE  DownOK' /\ obl' = o /\ pCubeMin' = g /\ k' = o.iFrame - 1 /\ down' # <<>>
<1> DEFINE T == [obl : Obligation, cube : Cube, added : BOOLEAN]
           x == [obl |-> o, cube |-> g, added |-> b]
<1>1. x \in T /\ x.obl = o /\ x.cube = g
  OBVIOUS
<1>2. down' = <<x>>
  BY DEF DownIs
<1> HIDE DEF x, T
<1>3. down'[1] = x /\ Len(down') = 1 /\ down' \in Seq(T) /\ down' # <<>>
  BY <1>1, <1>2
<1>4. obl' = o /\ pCubeMin' = g /\ k' = o.iFrame - 1
  BY <1>1, <1>3 DEF obl, pCubeMin, k
<1> QED BY <1>3, <1>4 DEF DownOK, T, Target

\* Smaller cubes generalize the target too.
LEMMA SmallerFacts ==
  ASSUME TypeOK, Layout, DownOK, down # <<>>, NEW g \in Smaller
  PROVE  /\ g \in Cube /\ ~Pdr_SetIsInit(g) /\ Pdr_SetContains(pCubeMin, g)
         /\ Pdr_SetContains(Target(obl), g)
<1>1. g \in Cube /\ ~Pdr_SetIsInit(g) /\ Pdr_SetContains(pCubeMin, g)
  BY ShrunkFacts DEF Smaller
<1>2. Pdr_SetContains(Target(obl), pCubeMin)
  BY DEF DownOK
<1> QED BY <1>1, <1>2, ContainsTransitive

\* Generalization starts with a cube that holds the target.
LEMMA TypesStart ==
  ASSUME TypeOK, Layout, NEW o \in pQueue, NEW R, DownStart(o, R)
  PROVE  TypeOK' /\ Layout' /\ DownOK' /\ o \in Obligation /\ o.iFrame \in 3 .. iFrame
         /\ \E g \in Generalized(o, Fetched(R)) :
              down' # <<>> /\ obl' = o /\ pCubeMin' = g /\ k' = o.iFrame - 1
<1>1. Popped(o) /\ UNCHANGED vClauses /\ pc' = "block" /\ UNCHANGED iFrame
  BY DEF DownStart, Popped
<1>2. o \in Obligation /\ o.iFrame \in 3 .. iFrame /\ iFrame \in Frames
  BY <1>1, PoppedFacts DEF DownStart, Frames
<1>3. PICK g \in Generalized(o, Fetched(R)) : down' = DownIs(o, g, FALSE)
  BY DEF DownStart, DownIs
<1>4. g \in Cube /\ Pdr_SetContains(Target(o), g) /\ ~Pdr_SetIsInit(g)
  BY <1>3, ShrunkFacts DEF Generalized
<1>5. DownOK' /\ obl' = o /\ pCubeMin' = g /\ k' = o.iFrame - 1 /\ down' # <<>>
  BY <1>1, <1>2, <1>3, <1>4, DownKeeps
<1>6. vSolvers' \in SolverMaps /\ pQueue' \subseteq pQueue
  BY FetchedType DEF DownStart, SolverMaps
<1>7. TypeOK' /\ Layout'
  BY <1>1, <1>6, PoppedFacts DEF Popped, problem, pushing, verdict, TypeOK, Layout, SolverMaps
<1> QED BY <1>2, <1>3, <1>5, <1>7

\* A step of the loop over the literals that leaves the levels alone.
LEMMA TypesDuring ==
  ASSUME TypeOK, Layout, DownOK, NEW R, NEW Q, DownShrink(R) \/ CtgKept(R, Q)
  PROVE  TypeOK' /\ Layout' /\ DownOK' /\ down' # <<>> /\ obl' = obl /\ k' = k
         /\ IF DownShrink(R) THEN pCubeMin' \in Smaller ELSE pCubeMin' = pCubeMin
<1>1. \E K : During(R, K)
  BY DEF DownShrink, CtgKept
<1>2. /\ down # <<>> /\ pc = "block" /\ UNCHANGED vClauses
      /\ UNCHANGED <<problem, pQueue, iFrame, iOutCur, iUseFrame, nQueLim, pushing, verdict, pc>>
  BY <1>1 DEF During, DownShrink, CtgKept
<1>3. obl \in Obligation /\ obl.iFrame \in 3 .. iFrame /\ pCubeMin \in Cube
      /\ Pdr_SetContains(Target(obl), pCubeMin) /\ ~Pdr_SetIsInit(pCubeMin)
  BY <1>2, DownFacts DEF DownOK
<1>4. CASE DownShrink(R)
  <2>1. PICK g \in Smaller : down' = DownIs(obl, g, FALSE)
    BY <1>2, <1>4 DEF DownShrink, DownIs
  <2>2. DownOK' /\ obl' = obl /\ pCubeMin' = g /\ k' = obl.iFrame - 1 /\ down' # <<>>
    BY <1>2, <1>3, <2>1, SmallerFacts, DownKeeps
  <2>3. vSolvers' \in SolverMaps
    BY <1>4, FetchedType DEF DownShrink, SolverMaps
  <2>4. TypeOK' /\ Layout'
    BY <1>2, <2>3 DEF problem, pushing, verdict, TypeOK, Layout, SolverMaps
  <2> QED BY <1>4, <2>1, <2>2, <2>4 DEF k
<1>5. CASE CtgKept(R, Q) /\ ~DownShrink(R)
  <2>1. down' = DownIs(obl, pCubeMin, TRUE)
    BY <1>2, <1>5 DEF CtgKept, Added, DownIs
  <2>2. DownOK' /\ obl' = obl /\ pCubeMin' = pCubeMin /\ k' = obl.iFrame - 1 /\ down' # <<>>
    BY <1>2, <1>3, <2>1, DownKeeps
  <2>3. vSolvers' \in SolverMaps
    BY <1>2, <1>5, PreparedType DEF CtgKept
  <2>4. TypeOK' /\ Layout'
    BY <1>2, <2>3 DEF problem, pushing, verdict, TypeOK, Layout, SolverMaps
  <2> QED BY <1>5, <2>2, <2>4 DEF k
<1> QED BY <1>4, <1>5

\* A blocked CTG enters a level from frame k on (Pdr_ManGeneralize, fCtgs).
LEMMA TypesCtg ==
  ASSUME TypeOK, Layout, DownOK, NEW R, NEW Q, CtgLearn(R, Q)
  PROVE  TypeOK' /\ Layout' /\ DownOK' /\ down' # <<>> /\ obl' = obl /\ k' = k
         /\ pCubeMin' = pCubeMin
<1>1. /\ down # <<>> /\ pc = "block"
      /\ UNCHANGED <<problem, pQueue, iFrame, iOutCur, iUseFrame, nQueLim, pushing, verdict, pc>>
  BY DEF CtgLearn, During
<1>2. obl \in Obligation /\ obl.iFrame \in 3 .. iFrame /\ pCubeMin \in Cube
      /\ Pdr_SetContains(Target(obl), pCubeMin) /\ ~Pdr_SetIsInit(pCubeMin)
      /\ k \in 2 .. (iFrame - 1) /\ iFrame \in Frames
  BY <1>1, DownFacts DEF DownOK
<1>3. PICK core, h, l :
        /\ h \in Shrunk(core) /\ l \in Level(core, Prepared(R, Q), k)
        /\ vClauses' = [vClauses EXCEPT ![l] = @ \cup {h}]
        /\ vSolvers' = Learned(Prepared(R, Q), l, h)
  BY DEF CtgLearn
<1>4. l \in 1 .. iFrame /\ h \in Cube /\ ~Pdr_SetIsInit(h)
  BY <1>2, <1>3, ShrunkFacts DEF Level, Frames
<1>5. down' = DownIs(obl, pCubeMin, TRUE)
  BY DEF CtgLearn, Added, DownIs
<1>6. DownOK' /\ obl' = obl /\ pCubeMin' = pCubeMin /\ k' = obl.iFrame - 1 /\ down' # <<>>
  BY <1>1, <1>2, <1>5, DownKeeps
<1>7. vSolvers' \in SolverMaps
  BY <1>1, <1>3, <1>4, PreparedType, LearnedType
<1>8. /\ vClauses' \in [Frames -> SUBSET Cube]
      /\ vClauses'[0] = {} /\ \A j \in (iFrame + 1) .. nFrameMax : vClauses'[j] = {}
      /\ \A j \in Frames : \A d \in vClauses'[j] : ~Pdr_SetIsInit(d)
  BY <1>3, <1>4, LearnTypes
<1>9. TypeOK' /\ Layout'
  BY <1>1, <1>7, <1>8 DEF problem, pushing, verdict, TypeOK, Layout, SolverMaps
<1> QED BY <1>6, <1>9 DEF k

\* A CTG whose level is misjudged when the time slice ends is a cube all the same.
LEMMA TypesLate ==
  ASSUME TypeOK, Layout, DownOK, NEW R, NEW Q, CtgLearnLate(R, Q)
  PROVE  TypeOK' /\ Layout' /\ DownOK'
<1>1. down # <<>> /\ down' = <<>> /\ DropOutput /\ UNCHANGED iUseFrame
  BY DEF CtgLearnLate
<1>2. iFrame \in 1 .. iFrame /\ iFrame \in Frames /\ iFrame < nFrameMax
  BY <1>1, DownFacts DEF Frames
<1> DEFINE S == Prepared(R, Q)
<1>3. PICK g, f, core :
        /\ g \in Smaller /\ core = [pos |-> {f}, neg |-> {}] /\ core \in Cubes
        /\ \/ /\ vClauses' = [vClauses EXCEPT ![iFrame] = @ \cup {core}]
              /\ vSolvers' = Learned(S, iFrame, core)
           \/ \E l \in Level(g, Learned(S, iFrame, core), obl.iFrame) :
                /\ vClauses' = [vClauses EXCEPT ![iFrame] = @ \cup {core}, ![l] = @ \cup {g}]
                /\ vSolvers' = Learned(Learned(S, iFrame, core), l, g)
  BY DEF CtgLearnLate
<1>4. core \in Cube /\ ~Pdr_SetIsInit(core) /\ g \in Cube /\ ~Pdr_SetIsInit(g)
  BY <1>1, <1>3, SmallerFacts DEF Pdr_SetIsInit
<1>5. vSolvers' \in SolverMaps
  <2> DEFINE T == Learned(S, iFrame, core)
  <2>1. T \in SolverMaps
    BY <1>1, <1>4, PreparedType, LearnedType
  <2>2. \A l : Learned(T, l, g) \in SolverMaps
    <3> HIDE DEF T
    <3> QED BY <1>4, <2>1, LearnedType
  <2>3. vSolvers' = T \/ \E l : vSolvers' = Learned(T, l, g)
    BY <1>3
  <2> QED BY <2>1, <2>2, <2>3
<1>6. /\ vClauses' \in [Frames -> SUBSET Cube]
      /\ vClauses'[0] = {} /\ \A j \in (iFrame + 1) .. nFrameMax : vClauses'[j] = {}
      /\ \A j \in Frames : \A d \in vClauses'[j] : ~Pdr_SetIsInit(d)
  <2>1. CASE vClauses' = [vClauses EXCEPT ![iFrame] = @ \cup {core}]
    BY <1>2, <1>4, <2>1, LearnTypes
  <2>2. CASE \E l \in 1 .. iFrame :
               vClauses' = [vClauses EXCEPT ![iFrame] = @ \cup {core}, ![l] = @ \cup {g}]
    <3>1. PICK l \in 1 .. iFrame :
            vClauses' = [vClauses EXCEPT ![iFrame] = @ \cup {core}, ![l] = @ \cup {g}]
      BY <2>2
    <3>2. /\ vClauses' \in [Frames -> SUBSET Cube]
          /\ \A j \in Frames : vClauses'[j] \subseteq vClauses[j] \cup {core, g}
          /\ \A j \in Frames : j \notin 1 .. iFrame => vClauses'[j] = vClauses[j]
      BY <1>2, <1>4, <3>1 DEF TypeOK, Frames
    <3> QED BY <1>2, <1>4, <3>2 DEF Layout, Frames
  <2>3. \A l \in Level(g, Learned(S, iFrame, core), obl.iFrame) : l \in 1 .. iFrame
    BY <1>1, DownFacts DEF Level
  <2> QED BY <1>3, <2>1, <2>2, <2>3
<1>7. TypeOK' /\ Layout'
  BY <1>1, <1>2, <1>5, <1>6 DEF DropOutput, NextOutput, problem, pushing, TypeOK, Layout, Outputs,
     SolverMaps
<1> QED BY <1>1, <1>7 DEF DownOK

\* The cube under work is learned, and its obligation postponed or dropped.
LEMMA TypesDone ==
  ASSUME TypeOK, Layout, DownOK, NEW R, DownDone(R)
  PROVE  TypeOK' /\ Layout' /\ DownOK'
<1>1. /\ down # <<>> /\ down' = <<>> /\ pc = "block"
      /\ UNCHANGED <<problem, iFrame, iOutCur, iUseFrame, nQueLim, pushing, verdict, pc>>
  BY DEF DownDone
<1>2. /\ obl \in Obligation /\ obl.iFrame \in 3 .. iFrame /\ pCubeMin \in Cube
      /\ ~Pdr_SetIsInit(pCubeMin) /\ iFrame \in Frames /\ iFrame < nFrameMax
  BY <1>1, DownFacts
<1>3. PICK l \in obl.iFrame .. iFrame :
        /\ vClauses' = [vClauses EXCEPT ![l] = @ \cup {pCubeMin}]
        /\ vSolvers' = Learned(Fetched(R), l, pCubeMin)
        /\ pQueue' \subseteq pQueue \cup {Postponed(obl, l)}
  BY DEF DownDone, Level
<1>4. l \in 1 .. iFrame /\ l + 1 \in Frames /\ l + 1 <= iFrame + 1
  BY <1>2, <1>3 DEF Frames
<1>5. Postponed(obl, l) \in Obligation /\ Postponed(obl, l).iFrame = l + 1
  BY <1>2, <1>4 DEF Postponed, Obligation
<1>6. vSolvers' \in SolverMaps
  BY <1>2, <1>3, FetchedType, LearnedType DEF SolverMaps
<1>7. /\ vClauses' \in [Frames -> SUBSET Cube]
      /\ vClauses'[0] = {} /\ \A j \in (iFrame + 1) .. nFrameMax : vClauses'[j] = {}
      /\ \A j \in Frames : \A d \in vClauses'[j] : ~Pdr_SetIsInit(d)
  BY <1>2, <1>3, <1>4, LearnTypes
<1>8. pQueue' \subseteq Obligation /\ \A q \in pQueue' : q.iFrame <= iFrame + 1
  BY <1>3, <1>4, <1>5 DEF TypeOK, Layout
<1>9. TypeOK' /\ Layout'
  BY <1>1, <1>6, <1>7, <1>8 DEF problem, pushing, verdict, TypeOK, Layout, SolverMaps
<1> QED BY <1>1, <1>9 DEF DownOK

\* Every step keeps types and layout.
LEMMA CtgTypes ==
  ASSUME TypeOK, Layout, DownOK, [CtgNext]_ctgVars
  PROVE  TypeOK' /\ Layout' /\ DownOK'
<1>1. CASE Engine
  BY <1>1, NextTypes DEF Engine, DownOK
<1>2. CASE DownGiveUp \/ DownTimeOut
  BY <1>2, TypesEnd DEF DownGiveUp, DownTimeOut, OutputTimeOut, frames, DownOK
<1>3. CASE UNCHANGED ctgVars
  <2>1. UNCHANGED vars /\ UNCHANGED down
    BY <1>3 DEF ctgVars
  <2>2. TypeOK' /\ Layout'
    BY <2>1, NextTypes
  <2> QED BY <2>1, <2>2 DEF DownOK, vars, obl, pCubeMin
<1>4. ASSUME NEW R, DownStep(R) PROVE TypeOK' /\ Layout' /\ DownOK'
  BY <1>4, TypesStart, TypesDuring, TypesDone DEF DownStep
<1>5. ASSUME NEW R, NEW Q, CtgKept(R, Q) \/ CtgLearn(R, Q) \/ CtgLearnLate(R, Q)
      PROVE  TypeOK' /\ Layout' /\ DownOK'
  BY <1>5, TypesDuring, TypesCtg, TypesLate
<1> QED BY <1>1, <1>2, <1>3, <1>4, <1>5 DEF CtgNext

-----------------------------------------------------------------------------
(* Frames and solvers, over levels C that hold at least the clauses.       *)

\* The levels with the cube under work.
LEMMA PendingLevels ==
  ASSUME TypeOK, Layout, DownOK
  PROVE  /\ \A j \in Frames :
              Pending[j] = vClauses[j] \cup (IF down # <<>> /\ j = obl.iFrame THEN {pCubeMin} ELSE {})
         /\ \A j \in Frames : vClauses[j] \subseteq Pending[j]
         /\ \A j \in Frames : \A c \in Pending[j] : ~Pdr_SetIsInit(c)
<1>1. CASE down = <<>>
  BY <1>1 DEF Pending, Layout
<1>2. CASE down # <<>>
  <2>1. obl.iFrame \in Frames /\ ~Pdr_SetIsInit(pCubeMin)
    BY <1>2, DownFacts DEF Frames
  <2>2. \A j \in Frames :
              Pending[j] = vClauses[j] \cup (IF j = obl.iFrame THEN {pCubeMin} ELSE {})
    BY <1>2, <2>1 DEF Pending, TypeOK
  <2> QED BY <1>2, <2>1, <2>2 DEF Layout
<1> QED BY <1>1, <1>2

\* The same after a step that leaves a cube under work.
LEMMA PendingAfter ==
  ASSUME TypeOK', Layout', down' # <<>>, NEW l \in Frames, obl'.iFrame = l,
         NEW g, pCubeMin' = g, ~Pdr_SetIsInit(g)
  PROVE  /\ \A j \in Frames : Pending'[j] = vClauses'[j] \cup (IF j = l THEN {g} ELSE {})
         /\ \A j \in Frames : \A c \in Pending'[j] : ~Pdr_SetIsInit(c)
<1>1. \A j \in Frames : Pending'[j] = vClauses'[j] \cup (IF j = l THEN {g} ELSE {})
  BY DEF Pending, TypeOK
<1>2. \A j \in Frames : \A c \in vClauses'[j] : ~Pdr_SetIsInit(c)
  BY DEF Layout
<1> QED BY <1>1, <1>2

\* A sound solver has every state of its frame among its models.
LEMMA OverModels ==
  ASSUME NEW C, NEW S, NEW n \in Frames, Sound(pAig, S, C, n), NEW i \in 0 .. n,
         NEW s \in Frame(C, i), NEW x \in Inputs
  PROVE  <<s, x>> \in Models(i, S[i])
<1>1. s \in States /\ (i = 0 => s = {})
  BY DEF Frame, States
<1> QED BY <1>1 DEF Sound, Models

\* The solvers S after those of Q were rebuilt.
Renewed(S, Q) == [i \in Frames |-> IF i \in Q THEN Rebuilt(i) ELSE S[i]]

\* Rebuilding solvers of closed frames from the clauses keeps all sound.
LEMMA RebuiltOver ==
  ASSUME TypeOK, Layout, NEW C, \A j \in Frames : vClauses[j] \subseteq C[j], ClosedIn(C),
         NEW S, Sound(pAig, S, C, iFrame), NEW Q, Q \subseteq 0 .. (iFrame - 1)
  PROVE  Sound(pAig, Renewed(S, Q), C, iFrame)
<1> DEFINE T == Renewed(S, Q)
<1>1. iFrame \in Frames
  BY DEF TypeOK
<1>2. ASSUME NEW i \in 0 .. iFrame, NEW s \in Frame(C, i)
      PROVE  /\ \A c \in T[i].cubes : ~Holds(s, c)
             /\ \A o \in T[i].props, x \in Inputs : <<s, x>> \notin pAig.po[o]
  <2>1. i \in Frames
    BY <1>1 DEF Frames
  <2>2. CASE i \notin Q
    BY <2>1, <2>2 DEF Sound, Renewed
  <2>3. CASE i \in Q
    <3>1. T[i] = Rebuilt(i) /\ i \in 0 .. (iFrame - 1)
      BY <2>1, <2>3 DEF Renewed
    <3>2. \A j \in i .. nFrameMax : j \in Frames
      BY <2>1 DEF Frames
    <3>3. \A c \in Rebuilt(i).cubes : ~Holds(s, c)
      <4>1. CASE i = 0
        <5>1. s = {}
          BY <4>1 DEF Frame
        <5> QED BY <3>2, <5>1, InitHolds DEF Rebuilt, Layout
      <4>2. CASE i # 0
        BY <3>2, <4>2 DEF Frame, Rebuilt
      <4> QED BY <4>1, <4>2
    <3>4. \A o \in LiveOutputs, x \in Inputs : <<s, x>> \notin pAig.po[o]
      BY <3>1 DEF ClosedIn, LiveOutputs, Undecided
    <3> HIDE DEF T
    <3> QED BY <3>1, <3>3, <3>4 DEF Rebuilt
  <2> QED BY <2>2, <2>3
<1> QED BY <1>2 DEF Sound

\* A clause that holds in the frames it is given to keeps all sound.
LEMMA LearnedOver ==
  ASSUME NEW C, NEW S, NEW n \in Frames, Sound(pAig, S, C, n), NEW l, NEW g,
         \A i \in 1 .. l : \A s \in Frame(C, i) : ~Holds(s, g)
  PROVE  Sound(pAig, Learned(S, l, g), C, n)
<1> SUFFICES ASSUME NEW i \in 0 .. n, NEW s \in Frame(C, i)
             PROVE  /\ \A c \in Learned(S, l, g)[i].cubes : ~Holds(s, c)
                    /\ \A o \in Learned(S, l, g)[i].props, x \in Inputs : <<s, x>> \notin pAig.po[o]
  BY DEF Sound
<1>1. i \in Frames
  BY DEF Frames
<1>2. CASE i \in 1 .. l
  <2>1. Learned(S, l, g)[i] = WithClause(S[i], g)
    BY <1>1, <1>2 DEF Learned
  <2> QED BY <1>2, <2>1 DEF Sound, WithClause
<1>3. CASE i \notin 1 .. l
  <2>1. Learned(S, l, g)[i] = S[i]
    BY <1>1, <1>3 DEF Learned
  <2> QED BY <2>1 DEF Sound
<1> QED BY <1>2, <1>3

\* Frames below a level that holds cube g have no state of g.
LEMMA LevelExcludes ==
  ASSUME NEW D, NEW l \in Frames, NEW g \in D[l]
  PROVE  \A i \in 1 .. l : \A s \in Frame(D, i) : ~Holds(s, g)
BY DEF Frame, Frames

\* A cube not entered from frame l - 1 joins level l: frames stay inductive and
\* solvers sound.
LEMMA LearnOver ==
  ASSUME TypeOK, NEW C, NEW D, Covers(D, C), NEW S,
         Ind(pAig, C, iFrame), Sound(pAig, S, C, iFrame),
         NEW l \in 1 .. iFrame, NEW g \in D[l], ~Pdr_SetIsInit(g),
         \A j \in Frames : D[j] \subseteq C[j] \cup (IF j = l THEN {g} ELSE {}),
         \A j \in Frames : \A c \in D[j] : ~Pdr_SetIsInit(c),
         Unreachable(l - 1, S[l - 1], g, g)
  PROVE  Ind(pAig, D, iFrame) /\ Sound(pAig, S, D, iFrame)
<1>1. /\ iFrame \in Frames /\ l \in Frames /\ l \in 1 .. nFrameMax
      /\ l - 1 \in Frames /\ l - 1 \in 0 .. iFrame
  BY DEF TypeOK, Frames
<1>2. \A i \in 1 .. l : \A s \in Frame(D, i) : ~Holds(s, g)
  BY <1>1, LevelExcludes
<1>3. Sound(pAig, S, D, iFrame)
  BY <1>1, SoundShrinks
<1>4. ASSUME NEW s \in Frame(D, l - 1), NEW x \in Inputs, Holds(pAig.next[<<s, x>>], g)
      PROVE  FALSE
  <2>1. <<s, x>> \in Models(l - 1, S[l - 1])
    BY <1>1, <1>3, OverModels
  <2>2. Holds(s, g)
    BY <1>4, <2>1 DEF Unreachable
  <2>3. CASE l - 1 = 0
    BY <2>2, <2>3, InitHolds DEF Frame
  <2>4. CASE l - 1 # 0
    <3>1. l - 1 \in 1 .. l
      BY <1>1, <2>4 DEF Frames
    <3> QED BY <1>2, <2>2, <3>1
  <2> QED BY <2>3, <2>4
<1> DEFINE G == {g}
<1>5. pAig.next \in [States \X Inputs -> States]
  BY DEF TypeOK, AigType
<1>6. \A h \in G, s \in Frame(D, l - 1), x \in Inputs : ~Holds(pAig.next[<<s, x>>], h)
  BY <1>4
<1>7. \A j \in Frames : D[j] \subseteq C[j] \cup (IF j = l THEN G ELSE {})
  OBVIOUS
<1> HIDE DEF G
<1>8. Ind(pAig, D, iFrame)
  BY <1>1, <1>5, <1>6, <1>7, FramesStep
<1> QED BY <1>3, <1>8

\* Recycling on the way (Pdr_ManFetchSolver) keeps the solvers sound, and the last
\* one is not recycled.
LEMMA FetchedOver ==
  ASSUME TypeOK, Layout, DownOK, SoundOver(Pending), NEW K, NEW R \in Recyclable(K),
         K \subseteq 0 .. iFrame
  PROVE  Sound(pAig, Fetched(R), Pending, iFrame) /\ Fetched(R)[iFrame] = vSolvers[iFrame]
<1>1. R \subseteq 0 .. (iFrame - 1) /\ iFrame \notin R /\ iFrame \in Frames
  BY DEF Recyclable, TypeOK, Frames
<1>2. \A j \in Frames : vClauses[j] \subseteq Pending[j]
  BY PendingLevels
<1>3. Sound(pAig, vSolvers, Pending, iFrame) /\ ClosedIn(Pending)
  BY DEF SoundOver
<1>4. Sound(pAig, Renewed(vSolvers, R), Pending, iFrame)
  BY <1>1, <1>2, <1>3, RebuiltOver
<1> QED BY <1>1, <1>4 DEF Fetched, Renewed

\* So does giving the cube under work to the solvers of the lower frames.
LEMMA PreparedOver ==
  ASSUME TypeOK, Layout, DownOK, down # <<>>, SoundOver(Pending), NEW R \in Recyclable({k}),
         NEW Q, Q \in Recyclable((k - 1) .. iFrame)
  PROVE  Sound(pAig, Prepared(R, Q), Pending, iFrame) /\ Prepared(R, Q)[iFrame] = vSolvers[iFrame]
<1> DEFINE S == IF down[1].added THEN Fetched(R) ELSE Learned(Fetched(R), k, pCubeMin)
<1>1. k \in 2 .. (iFrame - 1) /\ k + 1 = obl.iFrame /\ iFrame \in Frames
  BY DownFacts
<1>2. {k} \subseteq 0 .. iFrame /\ (k - 1) .. iFrame \subseteq 0 .. iFrame
  BY <1>1 DEF Frames
<1>3. Sound(pAig, Fetched(R), Pending, iFrame) /\ Fetched(R)[iFrame] = vSolvers[iFrame]
  BY <1>2, FetchedOver
<1>4. obl.iFrame \in Frames /\ 1 .. k \subseteq 1 .. obl.iFrame /\ iFrame \notin 1 .. k
  BY <1>1 DEF Frames
<1>5. pCubeMin \in Pending[obl.iFrame]
  BY <1>4, PendingLevels
<1>6. \A i \in 1 .. k : \A s \in Frame(Pending, i) : ~Holds(s, pCubeMin)
  BY <1>4, <1>5, LevelExcludes
<1>7. Sound(pAig, Learned(Fetched(R), k, pCubeMin), Pending, iFrame)
  BY <1>1, <1>3, <1>6, LearnedOver
<1>8. Sound(pAig, S, Pending, iFrame)
  BY <1>3, <1>7
<1>9. S[iFrame] = vSolvers[iFrame]
  BY <1>1, <1>3, <1>4 DEF Learned
<1>10. Q \subseteq 0 .. (iFrame - 1) /\ iFrame \notin Q
  BY <1>1, <1>2 DEF Recyclable, Frames
<1>11. \A j \in Frames : vClauses[j] \subseteq Pending[j]
  BY PendingLevels
<1> HIDE DEF S
<1>12. ClosedIn(Pending)
  BY DEF SoundOver
<1>13. Sound(pAig, Renewed(S, Q), Pending, iFrame)
  BY <1>8, <1>10, <1>11, <1>12, RebuiltOver
<1>14. Prepared(R, Q) = Renewed(S, Q)
  BY DEF Prepared, Renewed, S
<1>15. Renewed(S, Q)[iFrame] = S[iFrame]
  BY <1>1, <1>10 DEF Renewed
<1> QED BY <1>9, <1>13, <1>14, <1>15

\* The last solver gets every clause of the last frame.
LEMMA LastKept ==
  ASSUME TypeOK, LastSolverFull, NEW l \in Frames, NEW g, NEW S, S[iFrame] = vSolvers[iFrame],
         UNCHANGED iFrame,
         vClauses' = [vClauses EXCEPT ![l] = @ \cup {g}], vSolvers' = Learned(S, l, g), l # 0
  PROVE  LastSolverFull'
<1>1. iFrame \in Frames
  BY DEF TypeOK
<1>2. vClauses[iFrame] \subseteq S[iFrame].cubes
  BY DEF LastSolverFull
<1>3. vClauses'[iFrame] = vClauses[iFrame] \cup (IF l = iFrame THEN {g} ELSE {})
  BY <1>1 DEF TypeOK
<1>4. CASE l = iFrame
  <2>1. iFrame \in 1 .. l
    BY <1>1, <1>4 DEF Frames
  <2>2. vSolvers'[iFrame] = WithClause(S[iFrame], g)
    BY <1>1, <2>1 DEF Learned
  <2> QED BY <1>2, <1>3, <2>2 DEF LastSolverFull, WithClause
<1>5. CASE l # iFrame
  <2>1. S[iFrame].cubes \subseteq vSolvers'[iFrame].cubes
    BY <1>1 DEF Learned, WithClause
  <2> QED BY <1>2, <1>3, <1>5, <2>1 DEF LastSolverFull
<1> QED BY <1>4, <1>5

\* What else the engine relies on survives while frames shrink.
LEMMA OverKept ==
  ASSUME TypeOK, Layout, DownOK, TypeOK', Layout', SoundOver(Pending), pc = "block",
         Covers(Pending', Pending),
         UNCHANGED <<pAig, pPars, iFrame, iOutCur, vOutMap, fInv, RetValue, pc>>,
         Ind(pAig, Pending', iFrame), Sound(pAig, vSolvers', Pending', iFrame), LastSolverFull',
         \A o \in pQueue' \ pQueue : o.iFrame > 0 =>
            \A s \in Frame(Pending', o.iFrame - 1) : ~Holds(s, Target(o))
  PROVE  SoundOver(Pending)'
<1>1. iFrame \in Frames /\ iOutCur <= nPos /\ iFrame < nFrameMax
  BY DEF TypeOK, Layout
<1>2. \A i \in Frames : Frame(Pending', i) \subseteq Frame(Pending, i)
  BY CoversShrinks
<1>3. ClosedIn(Pending)'
  <2>1. \A i \in 0 .. (iFrame - 1) : i \in Frames
    BY <1>1 DEF Frames
  <2>2. \A o : Undecided(o)' = Undecided(o)
    BY DEF Undecided
  <2> QED BY <1>1, <1>2, <2>1, <2>2 DEF SoundOver, ClosedIn
<1>4. AheadIn(Pending)'
  <2> SUFFICES ASSUME NEW o \in pQueue', o.iFrame > 0
               PROVE  /\ \A s \in Frame(Pending', o.iFrame - 1) : ~Holds(s, Target(o))
                      /\ ~Pdr_SetIsInit(Target(o))
    BY DEF AheadIn, Target
  <2>1. o.iFrame - 1 \in Frames /\ o.iFrame - 1 \in 0 .. iFrame
    BY <1>1 DEF TypeOK, Obligation, Frames, Layout
  <2>2. \A s \in Frame(Pending', o.iFrame - 1) : ~Holds(s, Target(o))
    <3>1. CASE o \notin pQueue
      BY <3>1
    <3>2. CASE o \in pQueue
      BY <1>2, <2>1, <3>2 DEF SoundOver, AheadIn
    <3> QED BY <3>1, <3>2
  <2>3. {} \in Frame(Pending', o.iFrame - 1)
    BY <2>1 DEF Ind
  <2> QED BY <2>2, <2>3, InitHolds
<1>5. PushingEmptied' /\ ProofsFromPushing'
  BY DEF SoundOver, PushingEmptied, ProofsFromPushing
<1> QED BY <1>3, <1>4, <1>5 DEF SoundOver

-----------------------------------------------------------------------------
(* The steps.                                                              *)

\* Generalization starts: the cube counts as learned at its frame at once.
LEMMA OverStart ==
  ASSUME TypeOK, Layout, DownOK, SoundOver(Pending), NEW o \in pQueue, NEW R, DownStart(o, R)
  PROVE  SoundOver(Pending)'
<1>1. /\ down = <<>> /\ Popped(o) /\ R \in Recyclable({o.iFrame - 1, o.iFrame})
      /\ vSolvers' = Fetched(R) /\ UNCHANGED vClauses /\ pQueue' \subseteq pQueue /\ pc = "block"
      /\ UNCHANGED <<pAig, pPars, iFrame, iOutCur, vOutMap, fInv, RetValue, pc>>
  BY DEF DownStart, Popped, problem, verdict, pushing
<1>2. TypeOK' /\ Layout' /\ DownOK' /\ o \in Obligation /\ o.iFrame \in 3 .. iFrame
  BY TypesStart
<1>3. PICK g \in Generalized(o, Fetched(R)) :
        down' # <<>> /\ obl' = o /\ pCubeMin' = g /\ k' = o.iFrame - 1
  BY TypesStart
<1> DEFINE l == o.iFrame
<1>4. /\ iFrame \in Frames /\ l \in 1 .. iFrame /\ l \in Frames
      /\ {l - 1, l} \subseteq 0 .. iFrame
  <2>1. iFrame \in Frames /\ l \in 3 .. iFrame /\ nFrameMax \in Nat
    BY <1>2, PdrAssumption DEF TypeOK
  <2> HIDE DEF l
  <2> QED BY <2>1 DEF Frames
<1>5. g \in Shrunk(Target(o)) /\ Unreachable(l - 1, Fetched(R)[l - 1], g, g)
  BY <1>3 DEF Generalized
<1> HIDE DEF l
<1>6. ~Pdr_SetIsInit(g)
  BY <1>5, ShrunkFacts
<1>7. Pending = vClauses
  BY <1>1 DEF Pending
<1>8. /\ \A j \in Frames : Pending'[j] = vClauses[j] \cup (IF j = l THEN {g} ELSE {})
      /\ \A j \in Frames : \A c \in Pending'[j] : ~Pdr_SetIsInit(c)
  <2>1. obl'.iFrame = l
    BY <1>3 DEF l
  <2> QED BY <1>1, <1>2, <1>3, <1>4, <1>6, <2>1, PendingAfter
<1>9. Sound(pAig, Fetched(R), Pending, iFrame) /\ Fetched(R)[iFrame] = vSolvers[iFrame]
  BY <1>1, <1>4, FetchedOver DEF l
<1>10. Covers(Pending', Pending)
  BY <1>7, <1>8 DEF Covers, Frames, Pdr_SetContains
<1>11. g \in Pending'[l] /\ \A j \in Frames : Pending'[j] \subseteq Pending[j] \cup (IF j = l THEN {g} ELSE {})
  BY <1>4, <1>7, <1>8
<1>12. Ind(pAig, Pending, iFrame)
  BY DEF SoundOver
<1>13. Ind(pAig, Pending', iFrame) /\ Sound(pAig, Fetched(R), Pending', iFrame)
  BY <1>4, <1>5, <1>6, <1>8, <1>9, <1>10, <1>11, <1>12, LearnOver
<1>14. LastSolverFull'
  BY <1>1, <1>9 DEF SoundOver, LastSolverFull
<1> QED BY <1>1, <1>2, <1>10, <1>13, <1>14, OverKept

\* A smaller cube takes the place of the one under work.
LEMMA OverShrink ==
  ASSUME TypeOK, Layout, DownOK, SoundOver(Pending), NEW R, DownShrink(R)
  PROVE  SoundOver(Pending)'
<1>1. /\ down # <<>> /\ pc = "block" /\ R \in Recyclable({k})
      /\ vSolvers' = Fetched(R) /\ UNCHANGED <<vClauses, pQueue>>
      /\ UNCHANGED <<pAig, pPars, iFrame, iOutCur, vOutMap, fInv, RetValue, pc>>
  BY DEF DownShrink, During, problem, verdict, pushing
<1>2. TypeOK' /\ Layout' /\ DownOK' /\ down' # <<>> /\ obl' = obl
  BY TypesDuring
<1>3. PICK g \in Smaller : Unreachable(k, Fetched(R)[k], g, g) /\ pCubeMin' = g
  BY <1>1 DEF DownShrink, pCubeMin
<1> DEFINE l == obl.iFrame
<1>4. /\ iFrame \in Frames /\ l \in 1 .. iFrame /\ l \in Frames /\ l - 1 = k
      /\ {k} \subseteq 0 .. iFrame
  <2>1. /\ iFrame \in Frames /\ l \in 3 .. iFrame /\ nFrameMax \in Nat
        /\ k \in 2 .. (iFrame - 1) /\ k + 1 = l
    BY <1>1, DownFacts, PdrAssumption
  <2> HIDE DEF l
  <2> QED BY <2>1 DEF Frames
<1> HIDE DEF l
<1>5. ~Pdr_SetIsInit(g) /\ Pdr_SetContains(pCubeMin, g)
  BY <1>1, SmallerFacts
<1>6. \A j \in Frames : Pending[j] = vClauses[j] \cup (IF j = l THEN {pCubeMin} ELSE {})
  BY <1>1, PendingLevels DEF l
<1>7. /\ \A j \in Frames : Pending'[j] = vClauses[j] \cup (IF j = l THEN {g} ELSE {})
      /\ \A j \in Frames : \A c \in Pending'[j] : ~Pdr_SetIsInit(c)
  <2>1. obl'.iFrame = l
    BY <1>2 DEF l
  <2> QED BY <1>1, <1>2, <1>3, <1>4, <1>5, <2>1, PendingAfter
<1>8. Sound(pAig, Fetched(R), Pending, iFrame) /\ Fetched(R)[iFrame] = vSolvers[iFrame]
  BY <1>1, <1>4, FetchedOver
<1>9. Covers(Pending', Pending)
  BY <1>4, <1>5, <1>6, <1>7 DEF Covers, Frames, Pdr_SetContains
<1>10. g \in Pending'[l] /\ \A j \in Frames : Pending'[j] \subseteq Pending[j] \cup (IF j = l THEN {g} ELSE {})
  BY <1>4, <1>6, <1>7
<1>11. Ind(pAig, Pending, iFrame)
  BY DEF SoundOver
<1>12. Ind(pAig, Pending', iFrame) /\ Sound(pAig, Fetched(R), Pending', iFrame)
  BY <1>3, <1>4, <1>5, <1>7, <1>8, <1>9, <1>10, <1>11, LearnOver
<1>13. LastSolverFull'
  BY <1>1, <1>8 DEF SoundOver, LastSolverFull
<1> QED BY <1>1, <1>2, <1>9, <1>12, <1>13, OverKept

\* A CTG is kept: the cube under work stays in the solvers of the lower frames.
LEMMA OverCtgKept ==
  ASSUME TypeOK, Layout, DownOK, SoundOver(Pending), NEW R, NEW Q, CtgKept(R, Q), ~DownShrink(R)
  PROVE  SoundOver(Pending)'
<1>1. /\ down # <<>> /\ pc = "block" /\ R \in Recyclable({k}) /\ Q \in Recyclable({k - 1})
      /\ vSolvers' = Prepared(R, Q) /\ UNCHANGED <<vClauses, pQueue>>
      /\ UNCHANGED <<pAig, pPars, iFrame, iOutCur, vOutMap, fInv, RetValue, pc>>
  BY DEF CtgKept, During, problem, verdict, pushing
<1>2. TypeOK' /\ Layout' /\ DownOK' /\ down' # <<>> /\ obl' = obl /\ pCubeMin' = pCubeMin
  BY TypesDuring
<1>3. Q \in Recyclable((k - 1) .. iFrame)
  <2>1. k - 1 \in (k - 1) .. iFrame
    BY <1>1, DownFacts DEF Frames
  <2> QED BY <1>1, <2>1 DEF Recyclable
<1>4. Pending' = Pending
  BY <1>1, <1>2 DEF Pending
<1>5. Sound(pAig, Prepared(R, Q), Pending, iFrame) /\ Prepared(R, Q)[iFrame] = vSolvers[iFrame]
  BY <1>1, <1>3, PreparedOver
<1>6. Covers(Pending', Pending) /\ Ind(pAig, Pending', iFrame)
  BY <1>4, CoversSame DEF SoundOver
<1>7. LastSolverFull'
  BY <1>1, <1>5 DEF SoundOver, LastSolverFull
<1> QED BY <1>1, <1>2, <1>4, <1>5, <1>6, <1>7, OverKept

\* A CTG is blocked, with the help of the cube under work.
LEMMA OverCtgLearn ==
  ASSUME TypeOK, Layout, DownOK, SoundOver(Pending), NEW R, NEW Q, CtgLearn(R, Q)
  PROVE  SoundOver(Pending)'
<1> DEFINE S == Prepared(R, Q)
<1>1. /\ down # <<>> /\ pc = "block" /\ R \in Recyclable({k}) /\ Q \in Recyclable((k - 1) .. iFrame)
      /\ UNCHANGED <<pAig, pPars, pQueue, iFrame, iOutCur, vOutMap, fInv, RetValue, pc>>
  BY DEF CtgLearn, During, problem, verdict, pushing
<1>2. PICK core, h, l :
        /\ h \in Shrunk(core) /\ l \in Level(core, S, k)
        /\ Unreachable(l - 1, S[l - 1], h, h)
        /\ vClauses' = [vClauses EXCEPT ![l] = @ \cup {h}]
        /\ vSolvers' = Learned(S, l, h)
  BY DEF CtgLearn
<1> HIDE DEF S
<1>3. TypeOK' /\ Layout' /\ DownOK' /\ down' # <<>> /\ obl' = obl /\ pCubeMin' = pCubeMin
  BY TypesCtg
<1>4. /\ iFrame \in Frames /\ l \in 1 .. iFrame /\ l \in Frames /\ l # 0 /\ obl.iFrame \in Frames
  BY <1>1, <1>2, DownFacts DEF Level, Frames
<1>5. h \in Cube /\ ~Pdr_SetIsInit(h) /\ ~Pdr_SetIsInit(pCubeMin)
  BY <1>1, <1>2, ShrunkFacts, DownFacts
<1>6. \A j \in Frames : Pending[j] = vClauses[j] \cup (IF j = obl.iFrame THEN {pCubeMin} ELSE {})
  BY <1>1, PendingLevels
<1>7. /\ \A j \in Frames : Pending'[j] = vClauses'[j] \cup (IF j = obl.iFrame THEN {pCubeMin} ELSE {})
      /\ \A j \in Frames : \A c \in Pending'[j] : ~Pdr_SetIsInit(c)
  BY <1>3, <1>4, <1>5, PendingAfter
<1>8. \A j \in Frames : vClauses'[j] = vClauses[j] \cup (IF j = l THEN {h} ELSE {})
  BY <1>2, <1>4, <1>5, LearnTypes
<1>9. Sound(pAig, S, Pending, iFrame) /\ S[iFrame] = vSolvers[iFrame]
  BY <1>1, PreparedOver DEF S
<1>10. h \in Pending'[l] /\ \A j \in Frames : Pending'[j] = Pending[j] \cup (IF j = l THEN {h} ELSE {})
  BY <1>4, <1>6, <1>7, <1>8
<1>11. Covers(Pending', Pending)
  BY <1>10 DEF Covers, Frames, Pdr_SetContains
<1>12. Ind(pAig, Pending, iFrame) /\ LastSolverFull
  BY DEF SoundOver
<1>13. Ind(pAig, Pending', iFrame) /\ Sound(pAig, S, Pending', iFrame)
  BY <1>2, <1>4, <1>5, <1>7, <1>9, <1>10, <1>11, <1>12, LearnOver
<1>14. \A i \in 1 .. l : \A s \in Frame(Pending', i) : ~Holds(s, h)
  BY <1>4, <1>10, LevelExcludes
<1>15. Sound(pAig, vSolvers', Pending', iFrame)
  BY <1>2, <1>4, <1>13, <1>14, LearnedOver
<1>16. LastSolverFull'
  BY <1>1, <1>2, <1>4, <1>9, <1>12, LastKept
<1> QED BY <1>1, <1>3, <1>11, <1>13, <1>15, <1>16, OverKept

\* The cube under work is learned at the level it was pushed to, and its
\* obligation stays ahead of the frames it is postponed to.
LEMMA OverDone ==
  ASSUME TypeOK, Layout, DownOK, SoundOver(Pending), NEW R, DownDone(R)
  PROVE  SoundOver(Pending)'
<1> DEFINE S == Fetched(R)
           n == obl.iFrame
           g == pCubeMin
<1>1. /\ down # <<>> /\ down' = <<>> /\ pc = "block" /\ R \in Recyclable(n .. iFrame)
      /\ UNCHANGED <<pAig, pPars, iFrame, iOutCur, vOutMap, fInv, RetValue, pc>>
  BY DEF DownDone, problem, verdict, pushing
<1>2. PICK l \in Level(g, S, n) :
        /\ vClauses' = [vClauses EXCEPT ![l] = @ \cup {g}]
        /\ vSolvers' = Learned(S, l, g)
        /\ pQueue' \subseteq pQueue \cup {Postponed(obl, l)}
  BY DEF DownDone
<1>3. TypeOK' /\ Layout' /\ DownOK'
  BY TypesDone
<1>4. /\ iFrame \in Frames /\ n \in 3 .. iFrame /\ obl \in Obligation /\ g \in Cube
      /\ ~Pdr_SetIsInit(g) /\ Pdr_SetContains(Target(obl), g)
  BY <1>1, DownFacts DEF DownOK
<1>5. /\ l \in n .. iFrame /\ l \in 1 .. iFrame /\ l \in Frames /\ l # 0 /\ n \in Frames
      /\ n .. iFrame \subseteq 0 .. iFrame
  BY <1>2, <1>4 DEF Level, Frames
<1>6. Sound(pAig, S, Pending, iFrame) /\ S[iFrame] = vSolvers[iFrame]
  BY <1>1, <1>5, FetchedOver
<1>7. \A j \in Frames : Pending[j] = vClauses[j] \cup (IF j = n THEN {g} ELSE {})
  BY <1>1, PendingLevels
<1>8. Pending' = vClauses'
  BY <1>1 DEF Pending
<1>9. \A j \in Frames : vClauses'[j] = vClauses[j] \cup (IF j = l THEN {g} ELSE {})
  BY <1>2, <1>4, <1>5, LearnTypes
<1>10. Unreachable(l - 1, S[l - 1], g, g) \/ l = n
  <2>1. CASE l # n
    <3>1. l - 1 \in n .. (l - 1)
      BY <1>4, <1>5, <2>1 DEF Frames
    <3> QED BY <1>2, <3>1 DEF Level
  <2> QED BY <2>1
<1>11. Ind(pAig, Pending, iFrame) /\ LastSolverFull
  BY DEF SoundOver
<1>12. \A j \in Frames : \A c \in Pending'[j] : ~Pdr_SetIsInit(c)
  BY <1>3, <1>8 DEF Layout
<1>13. g \in Pending'[l] /\ \A j \in Frames : Pending'[j] \subseteq Pending[j] \cup (IF j = l THEN {g} ELSE {})
  BY <1>5, <1>7, <1>8, <1>9
<1>14. Covers(Pending', Pending)
  <2>1. l \in n .. nFrameMax /\ n <= l
    BY <1>4, <1>5 DEF Frames
  <2>2. ASSUME NEW j \in Frames, NEW c \in Pending[j]
        PROVE  \E i \in j .. nFrameMax : c \in Pending'[i]
    <3>1. CASE c \in vClauses[j]
      <4>1. j \in j .. nFrameMax
        BY DEF Frames
      <4> QED BY <1>8, <1>9, <3>1, <4>1
    <3>2. CASE j = n /\ c = g
      BY <1>13, <2>1, <3>2
    <3> QED BY <1>7, <3>1, <3>2
  <2>3. \A c : Pdr_SetContains(c, c)
    BY DEF Pdr_SetContains
  <2> QED BY <2>2, <2>3 DEF Covers
<1>15. Ind(pAig, Pending', iFrame) /\ Sound(pAig, S, Pending', iFrame)
  <2>1. CASE l = n
    <3>1. Pending' = Pending
      BY <1>1, <1>2, <1>8, <2>1 DEF Pending
    <3> QED BY <1>6, <1>11, <3>1
  <2>2. CASE Unreachable(l - 1, S[l - 1], g, g)
    <3> HIDE DEF S, g, n
    <3> QED BY <1>4, <1>5, <1>6, <1>11, <1>12, <1>13, <1>14, <2>2, LearnOver
  <2> QED BY <1>10, <2>1, <2>2
<1>16. \A i \in 1 .. l : \A s \in Frame(Pending', i) : ~Holds(s, g)
  <2> HIDE DEF g
  <2> QED BY <1>5, <1>13, LevelExcludes
<1>17. Sound(pAig, vSolvers', Pending', iFrame)
  <2> HIDE DEF S, g
  <2> QED BY <1>2, <1>4, <1>15, <1>16, LearnedOver
<1>18. LastSolverFull'
  <2> HIDE DEF S, g
  <2> QED BY <1>1, <1>2, <1>5, <1>6, <1>11, LastKept
<1>19. ASSUME NEW q \in pQueue' \ pQueue
       PROVE  \A s \in Frame(Pending', q.iFrame - 1) : ~Holds(s, Target(q))
  <2>1. q = Postponed(obl, l)
    BY <1>2
  <2>2. Target(q) = Target(obl) /\ q.iFrame = l + 1
    BY <1>4, <2>1 DEF Postponed, Target, Obligation
  <2>3. (l + 1) - 1 = l /\ l \in 1 .. l
    BY <1>5
  <2> QED BY <1>4, <1>16, <2>2, <2>3, ContainsHolds
<1> QED BY <1>1, <1>3, <1>14, <1>15, <1>17, <1>18, <1>19, OverKept

\* Without a cube under work the invariant is that of the engine.
LEMMA OverIsInv ==
  ASSUME TypeOK, Layout, down = <<>>, SoundOver(Pending)
  PROVE  IInv
<1>1. Pending = vClauses
  BY DEF Pending
<1>2. FramesInductive /\ SolversSound
  BY <1>1 DEF SoundOver, Ind, Sound, FramesInductive, SolversSound, F
<1>3. ClosedFramesSafe
  BY <1>1 DEF SoundOver, ClosedIn, ClosedFramesSafe, Safe, F
<1>4. ObligationsAhead
  BY <1>1 DEF SoundOver, AheadIn, ObligationsAhead, F
<1> QED BY <1>2, <1>3, <1>4 DEF IInv, SoundOver

LEMMA InvIsOver ==
  ASSUME IInv', down' = <<>>
  PROVE  SoundOver(Pending)'
<1>1. Pending' = vClauses'
  BY DEF Pending
<1>2. Ind(pAig', vClauses', iFrame') /\ Sound(pAig', vSolvers', vClauses', iFrame')
  BY DEF IInv, Ind, Sound, FramesInductive, SolversSound, F
<1>3. ClosedIn(Pending)'
  BY <1>1 DEF IInv, ClosedIn, ClosedFramesSafe, Safe, F
<1>4. AheadIn(Pending)'
  BY <1>1 DEF IInv, AheadIn, ObligationsAhead, F
<1> QED BY <1>1, <1>2, <1>3, <1>4 DEF IInv, SoundOver

\* The engine's steps never take a dropped output up again, nor a run that ended.
StaysDropped == \A o \in Outputs : vOutMap[o] = -1 => vOutMap'[o] = -1

LEMMA EndedStays ==
  ASSUME TypeOK, Layout, WorkOpen, [Next]_vars
  PROVE  WorkOpen' /\ (Ended => Ended') /\ StaysDropped
<1> DEFINE Goal == WorkOpen' /\ (Ended => Ended') /\ StaysDropped
<1>1. CASE SkipOutput \/ OutputHolds \/ OutputFails \/ OpenFrame
  BY <1>1 DEF SkipOutput, OutputHolds, OutputFails, OpenFrame, Attempted, NextOutput, verdict,
     WorkOpen, Undecided, Ended, StaysDropped
<1>2. CASE BlockDone \/ BlockRestart \/ PushLevelDone
  BY <1>2 DEF BlockDone, BlockRestart, PushLevelDone, verdict, WorkOpen, Undecided, Ended, StaysDropped
<1>3. CASE BlockFailed
  <2>1. pc = "block" /\ vOutMap[iOutCur] # -1 /\ pc' \in {"return", "output"}
    BY <1>3 DEF BlockFailed, WorkOpen, Undecided, Return, NextOutput
  <2>2. UNCHANGED vOutMap \/ vOutMap' = [vOutMap EXCEPT ![iOutCur] = 0]
    BY <1>3 DEF BlockFailed
  <2>3. \A o \in Outputs : vOutMap[o] = -1 => vOutMap'[o] = -1
    BY <2>1, <2>2 DEF TypeOK
  <2> QED BY <2>1, <2>3 DEF WorkOpen, Ended, StaysDropped
<1>4. ASSUME NEW o \in pQueue, NEW R, BlockContained(o) \/ BlockCovered(o, R) \/ BlockLearn(o, R)
                                      \/ BlockPredecessor(o, R)
      PROVE  Goal
  BY <1>4 DEF BlockContained, BlockCovered, BlockLearn, BlockPredecessor, Popped, verdict,
     WorkOpen, Undecided, Ended, StaysDropped
<1>5. ASSUME NEW c, NEW R, PushKept(c, R) \/ PushMoved(c, R)
      PROVE  Goal
  BY <1>5 DEF PushKept, PushMoved, verdict, WorkOpen, Undecided, Ended, StaysDropped
<1>6. CASE PushDone
  <2>1. pc = "push" /\ pc' \in {"return", "output"}
    BY <1>6 DEF PushDone, Return
  <2>2. \A o \in Outputs : vOutMap[o] = -1 => vOutMap'[o] = -1
    BY <1>6 DEF PushDone, Return
  <2> QED BY <2>1, <2>2 DEF WorkOpen, Ended, StaysDropped
<1>7. CASE GiveUp \/ Finish
  BY <1>7 DEF GiveUp, Finish, Return, WorkOpen, Ended, StaysDropped
<1>8. CASE OutputTimeOut
  <2>1. pc \in {"output", "block"} /\ pc' = "output" /\ vOutMap' = [vOutMap EXCEPT ![iOutCur] = -1]
    BY <1>8 DEF OutputTimeOut, DropOutput, NextOutput
  <2>2. \A o \in Outputs : vOutMap[o] = -1 => vOutMap'[o] = -1
    BY <2>1 DEF TypeOK
  <2> QED BY <2>1, <2>2 DEF WorkOpen, Ended, StaysDropped
<1>9. CASE UNCHANGED vars
  BY <1>9 DEF vars, WorkOpen, Undecided, Ended, StaysDropped
<1> HIDE DEF Goal
<1>10. ASSUME NEW R, Consult(R) PROVE Goal
  BY <1>4, <1>5, <1>10 DEF Consult
<1>11. Goal
  BY <1>1, <1>2, <1>3, <1>4, <1>6, <1>7, <1>8, <1>9, <1>10 DEF Next, Goal
<1> QED BY <1>11 DEF Goal

\* Dropping the output under work ends what is claimed.
LEMMA DropEnds ==
  ASSUME TypeOK, DropOutput
  PROVE  WorkOpen' /\ ~NoneDropped'
<1>1. pc' = "output" /\ vOutMap' = [vOutMap EXCEPT ![iOutCur] = -1] /\ iOutCur \in Outputs
  BY DEF DropOutput, NextOutput, TypeOK, Outputs
<1>2. vOutMap'[iOutCur] = -1
  BY <1>1 DEF TypeOK
<1> QED BY <1>1, <1>2 DEF WorkOpen, NoneDropped

\* The run only ends by steps of the engine's, or when it gives up.
LEMMA EndStep ==
  ASSUME TypeOK, Ended, Finish, EndsWell, WorkOpen, Layout
  PROVE  EndsWell'
<1>1. pc' = "done" /\ UNCHANGED <<frames, pQueue, fInv, RetValue>> /\ Next
  BY DEF Finish, Next, pushing
<1>2. SUFFICES ASSUME NoneDropped' PROVE IInv' \/ Unproved'
  BY DEF EndsWell
<1>3. \A o \in Outputs : vOutMap[o] # -1 /\ (vOutMap[o] # 1 => vOutMap'[o] # 1)
  BY <1>2 DEF Finish, NoneDropped, TypeOK
<1>4. CASE IInv
  BY <1>1, <1>4, InvNext
<1>5. CASE Unproved
  BY <1>1, <1>3, <1>5 DEF Unproved, Proved
<1> QED BY <1>3, <1>4, <1>5 DEF EndsWell, NoneDropped

\* A run that is over is only finished.
LEMMA OnlyFinish ==
  ASSUME Ended, Next
  PROVE  Finish
<1>1. ~(SkipOutput \/ OutputHolds \/ OutputFails \/ OpenFrame \/ BlockDone \/ BlockFailed
        \/ BlockRestart \/ PushLevelDone \/ PushDone \/ GiveUp \/ OutputTimeOut)
  BY DEF Ended, SkipOutput, OutputHolds, OutputFails, OpenFrame, Attempted, BlockDone,
     BlockFailed, BlockRestart, PushLevelDone, PushDone, GiveUp, OutputTimeOut, DropOutput
<1>2. \A o \in pQueue : ~BlockContained(o)
  BY DEF Ended, BlockContained, Popped
<1>3. ASSUME NEW R PROVE ~Consult(R)
  <2>1. \A o \in pQueue : ~BlockCovered(o, R)
    BY DEF Ended, BlockCovered, Popped
  <2>2. \A o \in pQueue : ~BlockLearn(o, R)
    BY DEF Ended, BlockLearn, Popped
  <2>3. \A o \in pQueue : ~BlockPredecessor(o, R)
    BY DEF Ended, BlockPredecessor, Popped
  <2>4. \A c \in vClauses[iPush] : ~PushKept(c, R) /\ ~PushMoved(c, R)
    BY DEF Ended, PushKept, PushMoved
  <2> QED BY <2>1, <2>2, <2>3, <2>4 DEF Consult
<1> QED BY <1>1, <1>2, <1>3 DEF Next

\* A step of the engine's, between two generalizations.
LEMMA EngineStep ==
  ASSUME CtgInv, Engine, TypeOK'
  PROVE  WorkOpen' /\ (Live' => SoundOver(Pending)') /\ EndsWell'
<1>1. Next /\ down = <<>> /\ down' = <<>> /\ TypeOK /\ Layout
  BY DEF Engine, CtgInv
<1>2. WorkOpen' /\ (Ended => Ended') /\ StaysDropped
  BY <1>1, EndedStays DEF CtgInv
<1>3. CASE Ended
  <2>1. ~Live'
    BY <1>2, <1>3 DEF Ended, Live
  <2>2. Finish
    BY <1>1, <1>3, OnlyFinish
  <2>3. EndsWell'
    BY <1>1, <1>3, <2>2, EndStep DEF CtgInv
  <2> QED BY <1>2, <2>1, <2>3
<1>4. CASE ~Ended
  <2>1. ASSUME NoneDropped' PROVE IInv'
    <3>1. Live
      BY <1>1, <1>2, <1>4, <2>1 DEF Live, Ended, NoneDropped, StaysDropped, TypeOK
    <3>2. IInv
      BY <1>1, <3>1, OverIsInv DEF CtgInv
    <3> QED BY <1>1, <3>2, InvNext
  <2>2. Live' => SoundOver(Pending)'
    BY <1>1, <2>1, InvIsOver DEF Live
  <2>3. EndsWell'
    BY <2>1 DEF EndsWell
  <2> QED BY <1>2, <2>2, <2>3
<1> QED BY <1>3, <1>4

\* Every step keeps the invariant.
LEMMA CtgInvNext ==
  ASSUME CtgInv, [CtgNext]_ctgVars
  PROVE  CtgInv'
<1>1. TypeOK /\ Layout /\ DownOK /\ WorkOpen /\ TypeOK' /\ Layout' /\ DownOK'
  BY CtgTypes DEF CtgInv
<1> DEFINE Goal == WorkOpen' /\ (Live' => SoundOver(Pending)') /\ EndsWell'
<1>2. ASSUME Engine PROVE Goal
  BY <1>1, <1>2, EngineStep
<1>3. ASSUME NEW R, NEW Q, DownStep(R) \/ CtgKept(R, Q) \/ CtgLearn(R, Q)
      PROVE  Goal
  <2>1. UNCHANGED <<pc, iOutCur, vOutMap>> /\ pc = "block"
    BY <1>3 DEF DownStep, DownStart, Popped, DownShrink, DownDone, CtgKept, CtgLearn, During, verdict
  <2>2. WorkOpen' /\ (Live' => Live)
    BY <1>1, <2>1 DEF WorkOpen, Undecided, Live, NoneDropped
  <2>3. ASSUME Live PROVE SoundOver(Pending)'
    <3>1. SoundOver(Pending)
      BY <2>3 DEF CtgInv
    <3> QED BY <1>1, <1>3, <3>1, OverStart, OverShrink, OverDone, OverCtgKept, OverCtgLearn DEF DownStep
  <2>4. EndsWell'
    BY <2>1 DEF EndsWell, Ended
  <2> QED BY <2>2, <2>3, <2>4
<1>4. ASSUME DownGiveUp PROVE Goal
  <2>1. pc = "block" /\ pc' = "return" /\ UNCHANGED <<vOutMap, fInv>> /\ RetValue' = -1
    BY <1>1, <1>4 DEF DownGiveUp, GiveUp, Return, DownOK, pushing
  <2>2. ASSUME NoneDropped' PROVE Unproved'
    <3>1. SoundOver(Pending)
      BY <2>1, <2>2 DEF CtgInv, Live, NoneDropped
    <3>2. ~fInv /\ \A o \in Outputs : vOutMap[o] # 1
      BY <2>1, <3>1 DEF SoundOver, PushingEmptied, ProofsFromPushing
    <3> QED BY <2>1, <3>2 DEF Unproved, Proved
  <2> QED BY <2>1, <2>2 DEF WorkOpen, Live, EndsWell
<1>5. ASSUME DropOutput PROVE Goal
  BY <1>1, <1>5, DropEnds DEF Live, EndsWell
<1>6. ASSUME UNCHANGED ctgVars PROVE Goal
  <2>1. UNCHANGED <<pAig, pPars, vClauses, vSolvers, pQueue, iFrame, iOutCur, vOutMap, fInv,
                   RetValue, pc, down, iPush>> /\ UNCHANGED vars
    BY <1>6 DEF ctgVars, vars
  <2>2. Pending' = Pending
    BY <2>1 DEF Pending, obl, pCubeMin
  <2>3. Live' = Live /\ WorkOpen'
    BY <1>1, <2>1 DEF Live, NoneDropped, WorkOpen, Undecided
  <2>4. Live => SoundOver(Pending)
    BY DEF CtgInv
  <2>5. SoundOver(Pending)' = SoundOver(Pending)
    BY <2>1, <2>2 DEF SoundOver, ClosedIn, AheadIn, LastSolverFull, PushingEmptied, ProofsFromPushing,
       Undecided
  <2>6. IInv => IInv'
    BY <2>1, InvNext
  <2>7. EndsWell'
    BY <2>1, <2>6 DEF CtgInv, EndsWell, Ended, NoneDropped, Unproved, Proved
  <2> QED BY <2>3, <2>4, <2>5, <2>7
<1> HIDE DEF Goal
<1>7. ASSUME NEW R, NEW Q, CtgKept(R, Q) \/ CtgLearn(R, Q) \/ CtgLearnLate(R, Q) PROVE Goal
  <2>1. CASE CtgLearnLate(R, Q)
    BY <1>5, <2>1 DEF CtgLearnLate
  <2> QED BY <1>3, <1>7, <2>1
<1>8. ASSUME NEW R, DownStep(R) PROVE Goal
  BY <1>3, <1>8
<1>9. DownTimeOut => Goal
  BY <1>5 DEF DownTimeOut, OutputTimeOut
<1>10. Goal
  BY <1>2, <1>4, <1>6, <1>7, <1>8, <1>9 DEF CtgNext
<1> QED BY <1>1, <1>10 DEF CtgInv, Goal

\* The manager starts with nothing under work.
LEMMA CtgInvInit == CtgInit => CtgInv
<1> SUFFICES ASSUME CtgInit PROVE CtgInv
  OBVIOUS
<1>1. IInv /\ down = <<>> /\ pc = "output"
  BY InvInit DEF CtgInit, Init
<1>2. Pending = vClauses
  BY <1>1 DEF Pending
<1>3. Ind(pAig, vClauses, iFrame) /\ Sound(pAig, vSolvers, vClauses, iFrame)
  BY <1>1 DEF IInv, Ind, Sound, FramesInductive, SolversSound, F
<1>4. ClosedIn(vClauses) /\ AheadIn(vClauses)
  BY <1>1 DEF IInv, ClosedIn, ClosedFramesSafe, Safe, F, AheadIn, ObligationsAhead
<1> QED BY <1>1, <1>2, <1>3, <1>4 DEF CtgInv, IInv, DownOK, WorkOpen, SoundOver, EndsWell

\* The inductive invariant of generalization with CTGs (Pdr_ManGeneralize and
\* ZPdr_ManDown, fSkipDown = 0 and fCtgs = 1).
THEOREM CtgInvariant == CtgSpec => []CtgInv
<1>1. CtgInit => CtgInv
  BY CtgInvInit
<1>2. CtgInv /\ [CtgNext]_ctgVars => CtgInv'
  BY CtgInvNext
<1> QED BY <1>1, <1>2, PTL DEF CtgSpec

\* Solvers and frames with the cube under work counted stay sound, whatever CTGs
\* are learned with its help, until an output runs out of time.
THEOREM PendingStaysSound == CtgSpec => []PendingSound
<1>1. CtgInv => PendingSound
  BY DEF CtgInv, Live, NoneDropped, PendingSound, SoundOver, Ind, Sound
<1> QED BY <1>1, CtgInvariant, PTL

-----------------------------------------------------------------------------
(* What the verdicts rest on.                                              *)

\* While no output has been dropped, a proof reported is an inductive invariant
\* that excludes the failure, and the run is over.
LEMMA ProofUntilDrop ==
  ASSUME CtgInv, NoneDropped
  PROVE  ProofIsInductive /\ \A o \in Outputs : Proved(o) => Ended
<1>1. (IInv \/ Unproved) /\ (~Ended => ProofsFromPushing)
  <2>1. CASE Ended
    BY <2>1 DEF CtgInv, EndsWell
  <2>2. CASE ~Ended
    <3>1. Live /\ SoundOver(Pending)
      BY <2>2 DEF CtgInv, TypeOK, Live, Ended
    <3>2. CASE down = <<>>
      BY <3>1, <3>2, OverIsInv DEF CtgInv, SoundOver
    <3>3. CASE down # <<>>
      BY <3>1, <3>3 DEF CtgInv, DownOK, SoundOver, PushingEmptied, ProofsFromPushing,
         Unproved, Proved
    <3> QED BY <3>2, <3>3
  <2> QED BY <2>1, <2>2
<1>2. Unproved => ProofIsInductive
  BY DEF Unproved, ProofIsInductive
<1>3. \A o \in Outputs : Proved(o) => Ended
  BY <1>1 DEF ProofsFromPushing, Proved, Ended
<1> QED BY <1>1, <1>2, <1>3, ProofOfInv

\* With CTGs too, a proof rests on an inductive invariant, as long as no time
\* slice has ended: after one, not even the verdict is right (run pdr_ctg_late).
THEOREM ProofHoldsUntilDrop == CtgSpec => [](NoneDropped => ProofIsInductive)
BY CtgInvariant, ProofUntilDrop, PTL

\* A set of states and their successors.
Onward(T) == T \cup {pAig.next[<<s, x>>] : s \in T, x \in Inputs}

\* The recursive definition of the reachable states defines a function.
LEMMA ReachSteps ==
  ASSUME TypeOK
  PROVE  /\ Reach[0] = {{}}
         /\ \A n \in Nat : Reach[n + 1] = Onward(Reach[n])
<1> DEFINE D == SUBSET States
           G == [T \in D |-> Onward(T)]
<1>1. \A T \in D : Onward(T) \in D
  <2>1. pAig.next \in [States \X Inputs -> States]
    BY DEF TypeOK, AigType
  <2> HIDE DEF TypeOK
  <2> SUFFICES ASSUME NEW T \in D, NEW v \in Onward(T) PROVE v \in States
    OBVIOUS
  <2>2. CASE v \in T
    BY <2>2
  <2>3. CASE v \notin T
    <3>1. PICK s \in T, x \in Inputs : v = pAig.next[<<s, x>>]
      BY <2>3 DEF Onward
    <3>2. <<s, x>> \in States \X Inputs
      OBVIOUS
    <3> QED BY <2>1, <3>1, <3>2
  <2> QED BY <2>2, <2>3
<1>2. {{}} \in D /\ G \in [D -> D]
  BY <1>1 DEF States
<1>3. PICK f \in [Nat -> D] : f[0] = {{}} /\ \A n \in Nat : f[n + 1] = G[f[n]]
  <2> DEFINE a == {{}}
  <2> HIDE DEF G, D, a
  <2>1. \A E : \A b \in E, K \in [E -> E] :
          \E f \in [Nat -> E] : f[0] = b /\ \A n \in Nat : f[n + 1] = K[f[n]]
    <3> HIDE PdrAssumption
    <3> QED BY RecursionExists
  <2>2. a \in D /\ G \in [D -> D]
    BY <1>2 DEF a
  <2>3. \E f \in [Nat -> D] : f[0] = a /\ \A n \in Nat : f[n + 1] = G[f[n]]
    BY ONLY <2>1, <2>2
  <2> QED BY <2>3 DEF a
<1>4. \A n \in Nat : f[n + 1] = Onward(f[n])
  BY <1>3
<1>5. \A n \in Nat : n # 0 => n - 1 \in Nat /\ (n - 1) + 1 = n
  OBVIOUS
<1> DEFINE Step(h, n) == IF n = 0 THEN {{}} ELSE
                           h[n - 1] \cup {pAig.next[<<s, x>>] : s \in h[n - 1], x \in Inputs}
           Is(h) == h = [n \in Nat |-> Step(h, n)]
           r == CHOOSE h : Is(h)
<1>6. \A h, n : Step(h, n) = IF n = 0 THEN {{}} ELSE Onward(h[n - 1])
  BY DEF Onward
<1> HIDE DEF Step
<1>7. Is(f)
  <2>1. \A n \in Nat : f[n] = Step(f, n)
    BY <1>3, <1>4, <1>5, <1>6
  <2> QED BY <2>1
<1>8. Is(r)
  BY <1>7
<1>9. Reach = r
  BY DEF Reach, Step
<1> HIDE DEF r
<1>10. \A n \in Nat : r[n] = Step(r, n)
  BY <1>8
<1>11. r[0] = {{}} /\ \A n \in Nat : n # 0 => r[n] = Onward(r[n - 1])
  BY <1>6, <1>10
<1>12. ASSUME NEW n \in Nat PROVE r[n + 1] = Onward(r[n])
  <2>1. n + 1 \in Nat /\ n + 1 # 0 /\ (n + 1) - 1 = n
    OBVIOUS
  <2> QED BY <1>11, <2>1
<1> QED BY <1>9, <1>11, <1>12

\* An inductive set of states holds all that can be reached.
LEMMA ReachedInside ==
  ASSUME TypeOK, NEW I, Inductive(I), NEW n \in Nat
  PROVE  Reach[n] \subseteq I
<1> DEFINE S == {m \in Nat : Reach[m] \subseteq I}
<1>1. 0 \in S
  BY ReachSteps DEF Inductive
<1>2. ASSUME NEW m \in Nat, m \in S PROVE m + 1 \in S
  <2>1. Reach[m + 1] = Onward(Reach[m]) /\ Reach[m] \subseteq I
    BY <1>2, ReachSteps
  <2>2. Onward(Reach[m]) \subseteq I
    <3>1. ASSUME NEW v \in Onward(Reach[m]) PROVE v \in I
      <4>1. v \in Reach[m] \/ \E s \in Reach[m], x \in Inputs : v = pAig.next[<<s, x>>]
        BY <3>1 DEF Onward
      <4>2. \A s \in I, x \in Inputs : pAig.next[<<s, x>>] \in I
        BY DEF Inductive
      <4> QED BY <2>1, <4>1, <4>2
    <3> QED BY <3>1
  <2> QED BY <2>1, <2>2
<1>3. Nat \subseteq S
  <2> HIDE DEF S
  <2> QED BY <1>1, <1>2, NumberInduction
<1> QED BY <1>3

\* No reachable state fails an output reported proved, as long as no output has
\* been dropped ("status for each PO", pdrInt.h).
THEOREM UnsatHoldsUntilDrop == CtgSpec => []UnsatUntilDrop
<1>1. ASSUME CtgInv, NoneDropped PROVE UnsatNeverFails
  <2>1. Cardinality(States) \in Nat
    BY PdrAssumption, FS_SUBSET, FS_CardinalityType DEF States
  <2>2. ASSUME NEW o \in Outputs, Proved(o), NEW s \in Reach[Cardinality(States)], NEW x \in Inputs
        PROVE  <<s, x>> \notin pAig.po[o]
    <3>1. /\ fInv /\ pc \in {"return", "done"} /\ ProofIsInductive
          /\ \A t \in F(InvariantStart), y \in Inputs : <<t, y>> \notin pAig.po[o]
      BY <1>1, <2>2, ProofUntilDrop DEF ProofIsInductive, Ended
    <3>2. Inductive(F(InvariantStart))
      BY <3>1 DEF ProofIsInductive
    <3>3. s \in F(InvariantStart)
      BY <1>1, <2>1, <2>2, <3>2, ReachedInside DEF CtgInv
    <3> QED BY <3>1, <3>3
  <2> QED BY <2>2 DEF UnsatNeverFails
<1>2. CtgInv => UnsatUntilDrop
  BY <1>1 DEF UnsatUntilDrop
<1> QED BY <1>2, CtgInvariant, PTL
=============================================================================
