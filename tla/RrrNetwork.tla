----------------------------- MODULE RrrNetwork -----------------------------
(***************************************************************************)
(* The network of the rrr optimizer (class rrr::AndNetwork,                *)
(* src/src/opt/rrr/rrrAndNetwork.h) as a value, and the operations on it   *)
(* that the partitioner, the scheduler and the optimizer use.              *)
(*                                                                         *)
(* Nodes are the numbers the code gives them: 0 is the constant, then come *)
(* the inputs, the internal nodes and the outputs, in order of creation.   *)
(* An edge is a pair <<node, complemented>>.  An internal node is the AND  *)
(* of its edges, and one without edges is the constant 1.                  *)
(*                                                                         *)
(*   nNodes  number of nodes allocated (the next one gets this number)     *)
(*   pis     inputs              (vPis)                                    *)
(*   ints    internal nodes, in the order of the list lInts                *)
(*   pos     outputs             (vPos)                                    *)
(*   fanin   edges of each node  (vvFaninEdges)                            *)
(*                                                                         *)
(* The reference counts of the code (vRefs) are the numbers of edges that  *)
(* point at a node; they are computed here.                                *)
(***************************************************************************)
EXTENDS Integers, Sequences, FiniteSets, SequencesExt, FiniteSetsExt

Const0 == 0
Node(e) == e[1]
IsCompl(e) == e[2]
Xor(a, b) == a # b

\* op applied n times to x: for a loop that changes nothing more after n rounds.
Repeat(op(_), n, x) == LET after[k \in 0..n] == IF k = 0 THEN x ELSE op(after[k - 1]) IN after[n]

\* The elements of a sequence that are in a set, in the same order.
Only(seq, S) ==
  LET kept[i \in 0..Len(seq)] ==
        IF i = 0 THEN <<>>
        ELSE IF seq[i] \in S THEN Append(kept[i - 1], seq[i]) ELSE kept[i - 1]
  IN  kept[Len(seq)]

\* The place of x in a sequence; 0 if it is not there.
IndexOf(seq, x) == SelectInSeq(seq, LAMBDA y : y = x)

Fanins(ntk, id) == {Node(e) : e \in ToSet(ntk.fanin[id])}
IsInt(ntk, id) == Contains(ntk.ints, id)
IsPi(ntk, id) == Contains(ntk.pis, id)

Refs(ntk, id) ==
  FoldLeft(LAMBDA sum, fo : sum + Len(SelectSeq(ntk.fanin[fo], LAMBDA e : Node(e) = id)),
           0, ntk.ints \o ntk.pos)

EdgeCount(ntk) == FoldLeft(LAMBDA sum, id : sum + Len(ntk.fanin[id]), 0, ntk.ints)

\* Index of the first edge of id to fi; 0 if there is none.
FindFanin(ntk, id, fi) == SelectInSeq(ntk.fanin[id], LAMBDA e : Node(e) = fi)

\* The nodes ForEachFanout visits: those after id in the list, then the
\* outputs.  Each is visited once, whatever the number of its edges to id.
FanoutSeq(ntk, id, fPos) ==
  LET after == SubSeq(ntk.ints, IndexOf(ntk.ints, id) + 1, Len(ntk.ints))
      visited == after \o (IF fPos THEN ntk.pos ELSE <<>>)
  IN  Only(visited, {fo \in ToSet(visited) : id \in Fanins(ntk, fo)})

\* The assertion at the end of ForEachFanout: the visit saw every reference.
Counted(ntk, ids) == \A id \in ids : Refs(ntk, id) = Len(FanoutSeq(ntk, id, TRUE))

-----------------------------------------------------------------------------
(* Reading an AIG: inputs, ANDs and outputs in the order of the AIG        *)
(* manager, which is a topological order.                                  *)

CreateNode(ntk, edges) ==
  [ntk EXCEPT !.nNodes = @ + 1,
              !.ints = Append(@, ntk.nNodes),
              !.fanin = [n \in 0..ntk.nNodes |-> IF n = ntk.nNodes THEN edges ELSE ntk.fanin[n]]]

AddPo(ntk, edge) ==
  [ntk EXCEPT !.nNodes = @ + 1,
              !.pos = Append(@, ntk.nNodes),
              !.fanin = [n \in 0..ntk.nNodes |-> IF n = ntk.nNodes THEN <<edge>> ELSE ntk.fanin[n]]]

\* The AIGs there are: the fanins of an AND come before it.
IsAig(gia) ==
  /\ gia.nPis \in Nat
  /\ gia.ands \in Seq(Seq(Nat \X BOOLEAN))
  /\ \A i \in DOMAIN gia.ands : \A e \in ToSet(gia.ands[i]) : Node(e) < gia.nPis + i
  /\ gia.outs \in Seq((0..(gia.nPis + Len(gia.ands))) \X BOOLEAN)

WithPis(k) ==
  [nNodes |-> k + 1, pis |-> [i \in 1..k |-> i], ints |-> <<>>, pos |-> <<>>,
   fanin |-> [n \in 0..k |-> <<>>]]

GiaReader(gia) ==
  FoldLeft(AddPo, FoldLeft(CreateNode, WithPis(gia.nPis), gia.ands), gia.outs)

-----------------------------------------------------------------------------
(* What a network computes: the set of input assignments (an assignment    *)
(* is the set of the inputs that are 1) at which a node is 1.              *)

Assignments(ntk) == SUBSET ToSet(ntk.pis)

Values(ntk) ==
  LET AtInputs == [n \in 0..(ntk.nNodes - 1) |->
                     IF IsPi(ntk, n) THEN {m \in Assignments(ntk) : n \in m} ELSE {}]
  IN  FoldLeft(LAMBDA val, id :
                 [val EXCEPT ![id] = {m \in Assignments(ntk) :
                    \A e \in ToSet(ntk.fanin[id]) : Xor(m \in val[Node(e)], IsCompl(e))}],
               AtInputs, ntk.ints)

PoFunctions(ntk) ==
  LET val == Values(ntk)
  IN  [k \in DOMAIN ntk.pos |->
         LET e == ntk.fanin[ntk.pos[k]][1]
         IN  {m \in Assignments(ntk) : Xor(m \in val[Node(e)], IsCompl(e))}]

\* The scheduler's CostFunction: two-input ANDs.
CostFunction(ntk) == FoldLeft(LAMBDA sum, id : sum + Len(ntk.fanin[id]) - 1, 0, ntk.ints)

-----------------------------------------------------------------------------
(* Reachability, in one pass over the list as the code does it.            *)

HasFaninIn(ntk, id, marked) == Fanins(ntk, id) \cap marked # {}

IsReachable(ntk, srcs, dsts) ==
  dsts \cap FoldLeft(LAMBDA marked, id : IF HasFaninIn(ntk, id, marked) THEN marked \cup {id} ELSE marked,
                     srcs, ntk.ints) # {}

\* The nodes on the paths from srcs to dsts; a path ends at the first
\* destination it meets.
GetInners(ntk, srcs, dsts) ==
  LET \* nodes reached, destinations included; only the others pass it on
      reached == FoldLeft(LAMBDA tfo, id : IF HasFaninIn(ntk, id, tfo \ dsts) THEN tfo \cup {id} ELSE tfo,
                          srcs, ntk.ints)
      tfi == FoldLeft(LAMBDA cone, id : IF id \in cone THEN cone \cup Fanins(ntk, id) ELSE cone,
                      reached \cap dsts, Reverse(ntk.ints))
  IN  reached \cap tfi

Hops(ntk, ids, n) ==
  Repeat(LAMBDA s : s \cup UNION {Fanins(ntk, id) \cup ToSet(FanoutSeq(ntk, id, FALSE)) : id \in s},
         n, ids)

GetNeighbors(ntk, id, nHops) == Hops(ntk, {id}, nHops) \cap ToSet(ntk.ints)

-----------------------------------------------------------------------------
(* Changes of a network.                                                   *)

RemoveFanin(ntk, id, idx) == [ntk EXCEPT !.fanin[id] = RemoveAt(@, idx)]

RemoveNode(ntk, id) == [ntk EXCEPT !.fanin[id] = <<>>, !.ints = Only(@, ToSet(@) \ {id})]

\* A node is removed, and with it, depth first, what it leaves unused; "edges"
\* are those still to be followed, and each round takes one of them.
RemoveUnused(ntk, id) ==
  LET Follow(r) ==
        LET n == Node(Head(r.edges))
        IN  IF r.edges = <<>> THEN r
            ELSE IF Refs(r.ntk, n) = 0 /\ IsInt(r.ntk, n)
            THEN [ntk |-> RemoveNode(r.ntk, n), edges |-> r.ntk.fanin[n] \o Tail(r.edges)]
            ELSE [r EXCEPT !.edges = Tail(@)]
  IN  Repeat(Follow, EdgeCount(ntk), [ntk |-> RemoveNode(ntk, id), edges |-> ntk.fanin[id]]).ntk

\* Does m stand behind n in the list?
Behind(list, n, m) == 0 < IndexOf(list, n) /\ IndexOf(list, n) < IndexOf(list, m)

\* m, which stands behind n, is taken out and put in front of n.
InFront(list, n, m) ==
  LET to == IndexOf(list, n)
      from == IndexOf(list, m)
  IN  [i \in 1..Len(list) |-> IF i = to THEN m
                              ELSE IF to < i /\ i <= from THEN list[i - 1] ELSE list[i]]

\* Mutant of SortStep: the fanins of a node are left where they are.
NoSort(fanin, r) == [r EXCEPT !.open = <<>>]

\* One step of SortInts, which puts the fanins of a node in front of it if they
\* stand behind, each with its own fanins first.  "open" has the calls that
\* have not returned: pairs of a node and its edges still to be looked at.  For
\* an edge from a node to itself the step changes nothing.
SortStep(fanin, r) ==
  LET n == r.open[1][1]
      edges == r.open[1][2]
      m == Node(Head(edges))
      rest == <<<<n, Tail(edges)>>>> \o Tail(r.open)
  IN  IF r.open = <<>> THEN r
      ELSE IF edges = <<>> THEN [r EXCEPT !.open = Tail(@)]
      ELSE IF m = n THEN r
      ELSE IF Behind(r.list, n, m)
      THEN [list |-> InFront(r.list, n, m), open |-> <<<<m, fanin[m]>>>> \o rest]
      ELSE [r EXCEPT !.open = rest]

\* fi is moved in front of id, with whatever it depends on that stands behind.
\* Each node is moved once, and each of its edges looked at once; if that does
\* not end the recursion, fi depends on itself, and there is no result.
MoveBefore(ntk, id, fi) ==
  LET sorted == Repeat(LAMBDA r : SortStep(ntk.fanin, r), EdgeCount(ntk) + Len(ntk.ints),
                       [list |-> InFront(ntk.ints, id, fi), open |-> <<<<fi, ntk.fanin[fi]>>>>])
  IN  IF ~Behind(ntk.ints, id, fi) THEN {ntk}
      ELSE IF sorted.open = <<>> THEN {[ntk EXCEPT !.ints = sorted.list]}
      ELSE {}

\* ids and all they depend on.
Cone(ntk, ids) ==
  LET cone[s \in SUBSET Nat] == LET more == s \cup UNION {Fanins(ntk, id) : id \in s}
                                IN  IF more = s THEN s ELSE cone[more]
  IN  cone[ids]

\* With fi (complemented if c) for id, fo would have the same edge twice.
Repeats(ntk, fo, id, fi, c) ==
  LET idx == FindFanin(ntk, fo, id)
      idx2 == FindFanin(ntk, fo, fi)
  IN  idx2 # 0 /\ IsCompl(ntk.fanin[fo][idx2]) = Xor(c, IsCompl(ntk.fanin[fo][idx]))

\* Every edge to id becomes an edge to fi (complemented if c).  An edge that
\* would repeat another one of the same node is dropped, and one that would
\* meet its complement becomes the constant 0.
DropRepeated(ntk, id, fi, c) ==
  FoldLeft(LAMBDA acc, fo : IF Repeats(acc, fo, id, fi, c)
                            THEN RemoveFanin(acc, fo, FindFanin(acc, fo, id)) ELSE acc,
           ntk, FanoutSeq(ntk, id, FALSE))

Redirect(ntk, fo, id, fi, c) ==
  LET idx == FindFanin(ntk, fo, id)
  IN  [ntk EXCEPT !.fanin[fo][idx] =
         IF FindFanin(ntk, fo, fi) # 0 THEN <<Const0, FALSE>> ELSE <<fi, Xor(c, IsCompl(@))>>]

Substitute(ntk, id, fi, c) ==
  LET dropped == DropRepeated(ntk, id, fi, c)
  IN  FoldLeft(LAMBDA acc, fo : Redirect(acc, fo, id, fi, c), dropped, FanoutSeq(dropped, id, TRUE))

-----------------------------------------------------------------------------
(* Extracting a window and putting its optimized form back.                *)

Ascending(ntk, S) == Only([n \in 1..ntk.nNodes |-> n - 1], S)

\* A node is looked up in a std::map, where one that is absent is the constant.
\* (The assertions on m.count stop the program before, see Insert.)
LookUp(m, n) == IF n \in DOMAIN m THEN m[n] ELSE Const0
LookUpEdge(m, n) == IF n \in DOMAIN m THEN m[n] ELSE <<Const0, FALSE>>

\* A network of its own for the nodes ids: inputs and outputs in the order
\* given.  All fanins are found, since the list is in topological order.
Extract(ntk, ids, vInputs, vOutputs) ==
  LET Start == [sub |-> WithPis(Len(vInputs)),
                m |-> [n \in {Const0} \cup ToSet(vInputs) |-> IndexOf(vInputs, n)]]
      Copy(acc, id) ==
        IF id \notin ids THEN acc
        ELSE [sub |-> CreateNode(acc.sub, [k \in DOMAIN ntk.fanin[id] |->
                        <<LookUp(acc.m, Node(ntk.fanin[id][k])), IsCompl(ntk.fanin[id][k])>>]),
              m |-> [n \in DOMAIN acc.m \cup {id} |-> IF n = id THEN acc.sub.nNodes ELSE acc.m[n]]]
      copied == FoldLeft(Copy, Start, ntk.ints)
  IN  FoldLeft(LAMBDA sub, id : AddPo(sub, <<LookUp(copied.m, id), FALSE>>), copied.sub, vOutputs)

\* The edge of the network for an edge of a window, m having the edge that
\* stands for each node of the window.
Via(m, e) == <<Node(LookUpEdge(m, Node(e))), Xor(IsCompl(e), IsCompl(LookUpEdge(m, Node(e))))>>

\* The nodes of sub are appended to ntk.  A fanin is found if it is the
\* constant, an input, or a node before in the list.
Graft(ntk, sub, vInputs, vCompls) ==
  LET Start == [ntk |-> ntk,
                m |-> [n \in 0..Len(vInputs) |->
                         IF n = Const0 THEN <<Const0, FALSE>> ELSE <<vInputs[n], vCompls[n]>>],
                found |-> TRUE]
      Copy(acc, id) ==
        [ntk |-> CreateNode(acc.ntk, [k \in DOMAIN sub.fanin[id] |-> Via(acc.m, sub.fanin[id][k])]),
         m |-> [n \in DOMAIN acc.m \cup {id} |-> IF n = id THEN <<acc.ntk.nNodes, FALSE>> ELSE acc.m[n]],
         found |-> acc.found /\ Fanins(sub, id) \subseteq DOMAIN acc.m]
      grafted == FoldLeft(Copy, Start, sub.ints)
  IN  [ntk |-> grafted.ntk, found |-> grafted.found,
       signals |-> [k \in DOMAIN sub.pos |-> Via(grafted.m, sub.fanin[sub.pos[k]][1])]]

\* The network goes on as what MoveBefore made of it, if it comes back.
Moved(r, ntks) ==
  IF ntks = {} THEN [r EXCEPT !.end = "cycle"] ELSE [r EXCEPT !.ntk = CHOOSE n \in ntks : TRUE]

\* What Insert does to the network, and how it ends: "ok", or the way the
\* program stops ("input": assertion on the inputs; "map": a fanin of the window
\* is not found; "self": an output is to be replaced by itself; "repeated": a
\* fanout has two edges to the output, and the one left would repeat another;
\* "fanouts": assertion of ForEachFanout; "cycle": SortInts recurs for ever;
\* "used": an output to be removed has fanouts; "erase": the end of the list is
\* erased, which is undefined and aborts with the GNU library).
ReplaceOutput(r, old, signal) ==
  LET fi == Node(signal)
      dropped == DropRepeated(r.ntk, old, fi, IsCompl(signal))
      fanouts == FanoutSeq(dropped, old, TRUE)
      replaced == Substitute(r.ntk, old, fi, IsCompl(signal))
      moved == IF \E fo \in ToSet(fanouts) : FindFanin(dropped, fo, fi) = 0
               THEN MoveBefore(replaced, old, fi) ELSE {replaced}
  IN  IF r.end # "ok" THEN r
      ELSE IF fi = old THEN [r EXCEPT !.end = "self"]
      ELSE IF Refs(r.ntk, old) = 0 THEN r
      ELSE IF \E fo \in ToSet(fanouts) : Repeats(dropped, fo, old, fi, IsCompl(signal))
      THEN [r EXCEPT !.end = "repeated"]
      ELSE IF Refs(dropped, old) # Len(fanouts) THEN [r EXCEPT !.end = "fanouts"]
      ELSE Moved(r, moved)

DropOutput(r, old) ==
  IF r.end # "ok" THEN r
  ELSE IF Refs(r.ntk, old) # 0 THEN [r EXCEPT !.end = "used"]
  ELSE IF ~IsInt(r.ntk, old) THEN [r EXCEPT !.end = "erase"]
  ELSE [r EXCEPT !.ntk = RemoveUnused(r.ntk, old)]

Insert(ntk, sub, vInputs, vCompls, vOutputs) ==
  LET graft == Graft(ntk, sub, vInputs, vCompls)
      replaced == FoldLeftDomain(LAMBDA r, k : ReplaceOutput(r, vOutputs[k], graft.signals[k]),
                                 [ntk |-> graft.ntk, end |-> IF graft.found THEN "ok" ELSE "map"],
                                 vOutputs)
      r == FoldLeft(DropOutput, replaced, vOutputs)
  IN  IF \E n \in ToSet(vInputs) : ~IsInt(ntk, n) /\ ~IsPi(ntk, n)
      THEN [ntk |-> ntk, end |-> "input", signals |-> <<>>]
      ELSE [ntk |-> r.ntk, end |-> r.end, signals |-> graft.signals]

-----------------------------------------------------------------------------
(* Cleaning up.                                                            *)

\* The node id is the constant 1 (one) or 0: its fanouts, one after another,
\* get the constant for it.  A constant 1 is dropped from the ANDs it enters, a
\* constant 0 stays.
DropOnes(ntk, id, one) ==
  FoldLeft(LAMBDA acc, fo :
             LET idx == FindFanin(acc, fo, id)
             IN  IF Xor(one, IsCompl(acc.fanin[fo][idx])) THEN RemoveFanin(acc, fo, idx) ELSE acc,
           ntk, FanoutSeq(ntk, id, FALSE))

ToConst(ntk, id, one) ==
  LET kept == DropOnes(ntk, id, one)
  IN  FoldLeft(LAMBDA acc, fo :
                 [acc EXCEPT !.fanin[fo][FindFanin(acc, fo, id)] = <<Const0, Xor(one, IsCompl(@))>>],
               kept, FanoutSeq(kept, id, TRUE))

\* Removal of one node that is a buffer or a constant, if id is one
\* (RemoveBuffer, RemoveConst).  A node with the constant among its fanins is
\* taken for a constant 0: no edge is the constant 1 here.
PropagateNode(ntk, id) ==
  LET edges == ntk.fanin[id]
  IN  IF Len(edges) = 0 THEN RemoveNode(ToConst(ntk, id, TRUE), id)
      ELSE IF FindFanin(ntk, id, Const0) # 0 THEN RemoveNode(ToConst(ntk, id, FALSE), id)
      ELSE IF Len(edges) = 1
      THEN RemoveNode(Substitute(ntk, id, Node(edges[1]), IsCompl(edges[1])), id)
      ELSE ntk

ConstEdges(ntk, id) == Len(SelectSeq(ntk.fanin[id], LAMBDA e : Node(e) = Const0))

\* A fanout becomes a buffer or a constant when it loses an edge and has at most
\* one left, or gets the constant.
Degenerates(before, after, fo) ==
  \/ Len(after.fanin[fo]) < Len(before.fanin[fo]) /\ Len(after.fanin[fo]) <= 1
  \/ ConstEdges(before, fo) < ConstEdges(after, fo)

MarkMore(r, after) ==
  [ntk |-> after, marked |-> r.marked \cup {fo \in ToSet(after.ints) : Degenerates(r.ntk, after, fo)}]

\* The nodes marked are removed in the order of the list, and with them the
\* fanouts that become buffers or constants on the way.
Propagate(ntk, marked) ==
  LET Visit(r, id) == IF id \in r.marked THEN MarkMore(r, PropagateNode(r.ntk, id)) ELSE r
  IN  FoldLeft(Visit, [ntk |-> ntk, marked |-> marked], ntk.ints).ntk

Degenerate(ntk) ==
  {id \in ToSet(ntk.ints) : Len(ntk.fanin[id]) <= 1 \/ FindFanin(ntk, id, Const0) # 0}

Sweep(ntk) ==
  FoldLeft(LAMBDA acc, id : IF Refs(acc, id) = 0 THEN RemoveNode(acc, id) ELSE acc,
           Propagate(ntk, Degenerate(ntk)), Reverse(ntk.ints))
=============================================================================
