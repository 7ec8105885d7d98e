---------------------------- MODULE RrrOptimizer ----------------------------
(***************************************************************************)
(* What the optimizer of a job makes of its network                        *)
(* (src/src/opt/rrr/rrrOptimizer.h, flow 0), as the set of the networks it *)
(* may leave.                                                              *)
(*                                                                         *)
(* A fanin is redundant when the outputs do not change without it.  The    *)
(* optimizer removes redundant fanins; then it goes through the nodes from *)
(* the outputs to the inputs, adds to each, one after another, fanins that *)
(* change no output, and removes what has become redundant.                *)
(*                                                                         *)
(* Two choices are left open: the order in which SortFanins puts fanins,   *)
(* and, if there is a time limit, when the time is up.  So a loop of the   *)
(* code goes on here from each of the states it may have reached.          *)
(*                                                                         *)
(* par has the parameters:                                                 *)
(*   fSort      fanins are sorted (nSortType is not 0)                     *)
(*   fGreedy    what makes the network larger is undone                    *)
(*   fTimeout   there is a time limit (nTimeout is not 0)                  *)
(***************************************************************************)
EXTENDS RrrNetwork

CheckRedundancy(ntk, id, idx) == PoFunctions(RemoveFanin(ntk, id, idx)) = PoFunctions(ntk)

\* Any order: the cost by which fanins are sorted depends on the seed.
SortFanins(par, ntk, id) ==
  IF par.fSort
  THEN {[ntk EXCEPT !.fanin[id] = [i \in DOMAIN @ |-> @[p[i]]]] : p \in SetToSeqs(DOMAIN ntk.fanin[id])}
  ELSE {ntk}

SortAllFanins(par, ntk) ==
  FoldLeft(LAMBDA ntks, id : UNION {SortFanins(par, n, id) : n \in ntks}, {ntk}, ntk.ints)

\* The fanins of id are looked at one after another, but for those just added
\* (mapNewFanins has pairs of a node and its new fanin).
ReduceFanins(ntk, id, mapNewFanins) ==
  LET Look(r) ==
        LET edges == r.ntk.fanin[id]
        IN  IF r.idx > Len(edges) THEN r
            ELSE IF <<id, Node(edges[r.idx])>> \notin mapNewFanins /\ CheckRedundancy(r.ntk, id, r.idx)
            THEN [r EXCEPT !.ntk = RemoveFanin(r.ntk, id, r.idx)]
            ELSE [r EXCEPT !.idx = @ + 1]
  IN  Repeat(Look, Len(ntk.fanin[id]), [ntk |-> ntk, idx |-> 1]).ntk

\* After the fanins of id were sorted (sorted) and looked at (reduced) in
\* RemoveRedundancy.
ReduceNode(r, id, sorted, reduced) ==
  [ntk |-> IF Len(reduced.fanin[id]) <= 1 THEN Propagate(reduced, {id}) ELSE reduced,
   it |-> IF reduced # sorted THEN 1 ELSE r.it + 1,
   fReduced |-> r.fReduced \/ reduced # sorted]

\* The nodes are visited from the last one to the first, and again from the
\* last one when a fanin was removed.  Each such round takes an edge away.
RemoveRedundancy(par, ntk, mapNewFanins) ==
  LET vInts == Reverse(ntk.ints)
      Visit(r) ==
        LET id == vInts[r.it]
        IN  IF r.it > Len(vInts) THEN {r}
            ELSE IF ~IsInt(r.ntk, id) THEN {[r EXCEPT !.it = @ + 1]}
            ELSE IF Refs(r.ntk, id) = 0 THEN {[r EXCEPT !.ntk = RemoveNode(r.ntk, id), !.it = @ + 1]}
            ELSE {ReduceNode(r, id, n, ReduceFanins(n, id, mapNewFanins)) : n \in SortFanins(par, r.ntk, id)}
  IN  Repeat(LAMBDA rs : UNION {Visit(r) : r \in rs}, (EdgeCount(ntk) + 1) * Len(vInts),
             {[ntk |-> ntk, it |-> 1, fReduced |-> FALSE]})

\* The code adds the edge when fi has been moved; the move would look at it only
\* if fi depended on id, and no candidate does.
AddFanin(ntk, id, fi, c) == MoveBefore([ntk EXCEPT !.fanin[id] = Append(@, <<fi, c>>)], id, fi)

\* A node takes over the fanins of its fanins that have no other fanout, one
\* fanin and so one edge of the network less at a time.
CollapseOne(ntk, id) ==
  LET idx == SelectInSeq(ntk.fanin[id], LAMBDA e : /\ ~IsPi(ntk, Node(e)) /\ ~IsCompl(e)
                                                   /\ Refs(ntk, Node(e)) = 1)
      fi == Node(ntk.fanin[id][idx])
      edges == SubSeq(ntk.fanin[id], 1, idx - 1) \o ntk.fanin[fi]
                 \o SubSeq(ntk.fanin[id], idx + 1, Len(ntk.fanin[id]))
  IN  IF idx = 0 THEN ntk
      ELSE [RemoveNode(ntk, fi) EXCEPT !.fanin[id] = edges]

TrivialCollapse(ntk, id) == Repeat(LAMBDA n : CollapseOne(n, id), EdgeCount(ntk), ntk)

\* A node with more than two fanins is split again, from the last two on.
SplitOne(ntk, id) ==
  LET edges == ntk.fanin[id]
      k == Len(edges)
      left == SubSeq(edges, 1, k - 2) \o <<<<ntk.nNodes, FALSE>>>>
      split == CreateNode([ntk EXCEPT !.fanin[id] = left], SubSeq(edges, k - 1, k))
  IN  IF ~IsInt(ntk, id) \/ k <= 2 THEN ntk
      ELSE [split EXCEPT !.ints = InFront(@, id, ntk.nNodes)]

TrivialDecompose(ntk, id) == Repeat(LAMBDA n : SplitOne(n, id), Len(ntk.fanin[id]), ntk)

IsCandidate(ntk, id, fi) ==
  /\ IsInt(ntk, fi) \/ IsPi(ntk, fi)
  /\ fi # id /\ fi \notin Fanins(ntk, id) /\ id \notin Cone(ntk, {fi})

\* The networks that agree with ntk at the outputs are feasible.
Feasible(ntk, id, fi, c) == {n \in AddFanin(ntk, id, fi, c) : PoFunctions(n) = PoFunctions(ntk)}

OrElse(S, T) == IF S # {} THEN S ELSE T

\* fi becomes a fanin of id, plain if that is feasible and else complemented;
\* there is no network if neither is.
SingleAdd(ntk, id, fi) ==
  IF IsCandidate(ntk, id, fi) THEN OrElse(Feasible(ntk, id, fi, FALSE), Feasible(ntk, id, fi, TRUE)) ELSE {}

Undo(ntk, id, fi) == RemoveFanin(ntk, id, FindFanin(ntk, id, fi))

\* What becomes of the network and of the one saved after a fanin was added.
Judge(par, r, id, fi, reduced) ==
  IF ~reduced.fReduced THEN [r EXCEPT !.ntk = Undo(reduced.ntk, id, fi)]
  ELSE IF ~par.fGreedy THEN [r EXCEPT !.ntk = reduced.ntk]
  ELSE IF CostFunction(reduced.ntk) <= CostFunction(r.saved)
  THEN [r EXCEPT !.ntk = reduced.ntk, !.saved = reduced.ntk]
  ELSE [r EXCEPT !.ntk = r.saved]

\* The candidate fi is tried at id.
Try(par, r, id, fi) ==
  OrElse({Judge(par, r, id, fi, reduced) :
            reduced \in UNION {RemoveRedundancy(par, n, {<<id, fi>>}) : n \in SingleAdd(r.ntk, id, fi)}},
         {r})

\* Timeout() may say that the time is up, and says so ever after.
Timeout(par, r) == IF par.fTimeout THEN {[r EXCEPT !.late = TRUE]} ELSE {}

\* The candidates are tried one after another, until the time is up or id is
\* gone.  The assertions that id is used and has two fanins hold:
\* RemoveRedundancy leaves no other node, and nothing else takes an edge away.
TryAll(par, id, ntk, vCands) ==
  LET Visit(r, fi) == IF r.late \/ ~IsInt(r.ntk, id) THEN {r} ELSE Try(par, r, id, fi)
  IN  FoldLeft(LAMBDA rs, fi : UNION {Timeout(par, r) \cup Visit(r, fi) : r \in rs},
               {[ntk |-> ntk, saved |-> ntk, late |-> FALSE]}, vCands)

SingleResub(par, ntk, id) ==
  LET Final(r) == IF IsInt(r.ntk, id) THEN SortAllFanins(par, TrivialDecompose(r.ntk, id)) ELSE {r.ntk}
  IN  UNION {{[ntk |-> n, late |-> r.late] : n \in Final(r)} :
               r \in TryAll(par, id, TrivialCollapse(ntk, id), ntk.pis \o ntk.ints)}

\* Every node is resubstituted, from the last one to the first.
ResubAll(par, ntk) ==
  LET Visit(r, id) == IF r.late \/ ~IsInt(r.ntk, id) THEN {r} ELSE SingleResub(par, r.ntk, id)
  IN  FoldLeft(LAMBDA rs, id : UNION {Timeout(par, r) \cup Visit(r, id) : r \in rs},
               {[ntk |-> ntk, late |-> FALSE]}, Reverse(ntk.ints))

Optimized(par, ntk) ==
  {r.ntk : r \in UNION {ResubAll(par, reduced.ntk) : reduced \in RemoveRedundancy(par, ntk, {})}}
=============================================================================
