--------------------------- MODULE RrrPartitioner ---------------------------
(***************************************************************************)
(* The partitioner of the rrr optimizer (src/src/opt/rrr/rrrPartitioner.h):*)
(* it cuts windows out of the network for jobs to optimize, several at a   *)
(* time, and puts them back one after another.                             *)
(*                                                                         *)
(* A window that is out is remembered by the inputs and outputs it had in  *)
(* the network; when another one is put back, the outputs that it replaces *)
(* are replaced among those inputs too.  The code knows a window by the    *)
(* pointer to its network; here it is known by the number of its job.      *)
(*                                                                         *)
(*   pNtk        the network                                               *)
(*   mSubNtk2Io  job |-> nodes, inputs, complements of the inputs, outputs *)
(*   sBlocked    nodes that belong to a window that is out                 *)
(*   vFailed     nodes not to be tried as a centre before the next Insert  *)
(***************************************************************************)
EXTENDS RrrNetwork

CONSTANTS nPartitionSize, nPartitionSizeMin

ASSUME SizesAssumption == nPartitionSize \in Nat /\ nPartitionSizeMin \in Nat

VARIABLES pNtk, mSubNtk2Io, sBlocked, vFailed

partitionVars == <<pNtk, mSubNtk2Io, sBlocked, vFailed>>

-----------------------------------------------------------------------------
(* The window around a node.                                               *)

Inputs(ntk, ids) == UNION {Fanins(ntk, id) : id \in ids} \ ids

Outputs(ntk, ids) == {id \in ids : ToSet(FanoutSeq(ntk, id, TRUE)) \ ids # {}}

Fanouts(ntk, ids) ==
  UNION {ToSet(FanoutSeq(ntk, id, FALSE)) : id \in Outputs(ntk, ids)} \ ids

InnersOf(ids) == GetInners(pNtk, Fanouts(pNtk, ids), Inputs(pNtk, ids))

\* A window that grows: its nodes, the nodes on paths that leave it and come
\* back, and the nodes whose fanouts were visited on the way.
Window(ids, seen) == [ids |-> ids, inners |-> InnersOf(ids), seen |-> seen \cup ids]
NoWindow(seen) == [ids |-> {}, inners |-> {}, seen |-> seen]

\* The inner nodes are added; there is no window if one is blocked, or if they
\* are too many.  Each round adds a node, so nPartitionSize rounds are enough.
WithInner(window) ==
  LET ids == window.ids \cup window.inners
  IN  IF window.inners = {} THEN window
      ELSE IF window.inners \cap sBlocked # {} \/ Cardinality(ids) > nPartitionSize
           THEN NoWindow(window.seen)
      ELSE Window(ids, window.seen)

GetUnblockedNeighborsAndInners(id, nRadius, seen) ==
  LET ids == (GetNeighbors(pNtk, id, nRadius) \cup {id}) \ sBlocked
  IN  IF Cardinality(ids) > nPartitionSize THEN NoWindow(seen)
      ELSE Repeat(WithInner, nPartitionSize, Window(ids, seen))

\* The radius grows while the window does: one window of a centre contains
\* another, so that this too happens at most nPartitionSize times.
Widen(id, r) ==
  IF r.wider.ids = {} \/ Cardinality(r.wider.ids) = Cardinality(r.window.ids) THEN r
  ELSE [nRadius |-> r.nRadius + 1, window |-> r.wider,
        wider |-> GetUnblockedNeighborsAndInners(id, r.nRadius + 1, r.wider.seen)]

WindowOf(id) ==
  LET r == Repeat(LAMBDA s : Widen(id, s), nPartitionSize,
                  [nRadius |-> 1, window |-> NoWindow({}),
                   wider |-> GetUnblockedNeighborsAndInners(id, 1, {})])
  IN  [ids |-> r.window.ids, seen |-> r.wider.seen]

\* A window and one that is out must not reach each other both ways.
MayLoop(ids, io) ==
  /\ IsReachable(pNtk, Outputs(pNtk, ids), ToSet(io.vInputs))
  /\ IsReachable(pNtk, ToSet(io.vOutputs), Inputs(pNtk, ids))

Acceptable(ids) ==
  /\ ids # {}
  /\ Cardinality(ids) >= nPartitionSizeMin
  /\ \A job \in DOMAIN mSubNtk2Io : ~MayLoop(ids, mSubNtk2Io[job])

-----------------------------------------------------------------------------
(* Extract tries centres in a random order, the ones that failed before    *)
(* left out, and returns the first window that is accepted.  vFailed is    *)
(* kept as the set of the nodes marked.                                    *)

Centres == ToSet(pNtk.ints) \ vFailed

Fails(id) ==
  \/ id \in sBlocked
  \/ \E window \in {WindowOf(id)} : Counted(pNtk, window.seen) /\ ~Acceptable(window.ids)

IoOf(ids) ==
  LET vInputs == Ascending(pNtk, Inputs(pNtk, ids))
  IN  [ids |-> ids, vInputs |-> vInputs, vCompls |-> [i \in DOMAIN vInputs |-> FALSE],
       vOutputs |-> Ascending(pNtk, Outputs(pNtk, ids))]

SubNtk(io) == Extract(pNtk, io.ids, io.vInputs, io.vOutputs)

\* A window is cut out around a centre and given to job; tried are the
\* centres met before.
ExtractWindow(job, id, tried) ==
  /\ id \in Centres \ sBlocked
  /\ tried \subseteq {n \in Centres : Fails(n)}
  /\ \E window \in {WindowOf(id)} :
       /\ Counted(pNtk, window.seen) /\ Acceptable(window.ids)
       /\ mSubNtk2Io' = [j \in DOMAIN mSubNtk2Io \cup {job} |->
                           IF j = job THEN IoOf(window.ids) ELSE mSubNtk2Io[j]]
       /\ sBlocked' = sBlocked \cup window.ids
  /\ vFailed' = vFailed \cup tried
  /\ UNCHANGED pNtk

\* Every centre fails.
ExtractNothing ==
  /\ \A id \in Centres : Fails(id)
  /\ vFailed' = vFailed \cup Centres
  /\ UNCHANGED <<pNtk, mSubNtk2Io, sBlocked>>

\* An assertion fails while the fanouts of a window are visited.
ExtractAborts == \E id \in Centres \ sBlocked : ~Counted(pNtk, WindowOf(id).seen)

\* Mutant of Remap: an input that becomes a complemented edge is taken plain.
RemapPlain(io, vOld, signals) ==
  [io EXCEPT !.vInputs = [i \in DOMAIN @ |-> IF Contains(vOld, @[i]) THEN Node(signals[IndexOf(vOld, @[i])]) ELSE @[i]]]

\* The inputs of a window that is out follow the outputs just replaced.
Remap(io, vOld, signals) ==
  LET At(i) == IndexOf(vOld, io.vInputs[i])
  IN  [io EXCEPT !.vInputs = [i \in DOMAIN @ |-> IF At(i) = 0 THEN @[i] ELSE Node(signals[At(i)])],
                 !.vCompls = [i \in DOMAIN @ |-> IF At(i) = 0 THEN @[i]
                                                 ELSE Xor(@[i], IsCompl(signals[At(i)]))]]

Inserted(job, sub) ==
  Insert(pNtk, sub, mSubNtk2Io[job].vInputs, mSubNtk2Io[job].vCompls, mSubNtk2Io[job].vOutputs)

\* Mutant of InsertWindow: the nodes of the window stay blocked.
InsertStillBlocked(job, inserted) ==
  /\ pNtk' = inserted.ntk
  /\ mSubNtk2Io' = [j \in DOMAIN mSubNtk2Io \ {job} |->
                      Remap(mSubNtk2Io[j], mSubNtk2Io[job].vOutputs, inserted.signals)]
  /\ vFailed' = {}
  /\ UNCHANGED sBlocked

\* The window is put back; "inserted" is what Insert made of the network.
InsertWindow(job, inserted) ==
  /\ pNtk' = inserted.ntk
  /\ mSubNtk2Io' = [j \in DOMAIN mSubNtk2Io \ {job} |->
                      Remap(mSubNtk2Io[j], mSubNtk2Io[job].vOutputs, inserted.signals)]
  /\ sBlocked' = sBlocked \ mSubNtk2Io[job].ids
  /\ vFailed' = {}
=============================================================================
