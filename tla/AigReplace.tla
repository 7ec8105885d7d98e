------------------------------ MODULE AigReplace ------------------------------
(***************************************************************************)
(* The and-inverter graph of a network and the replacement of one of its    *)
(* nodes by another, src/src/base/abc/abcAig.c.                             *)
(*                                                                         *)
(* Every command that rewrites a network (rewrite, refactor, restructure,   *)
(* resub, rr) builds a new form of a node with Abc_AigAnd and then calls    *)
(* Abc_AigReplace.  The replacement cascades: giving a fanout of the old    *)
(* node its new fanin may make it equal to a node that is in the hash table *)
(* already, and then the fanout has to be replaced in its turn.  Pending    *)
(* replacements wait on a stack while nodes are moved, merged and freed.    *)
(*                                                                         *)
(* Objects are numbered: 0 is the constant 1, 1 .. nPis are the inputs and  *)
(* the AND nodes follow in the order in which they were made.  An edge is a *)
(* pair <<node, is it complemented?>>.  Abstracted: the bins of the hash    *)
(* table (a look-up finds the node that has the fanins), the order of the   *)
(* fanouts in a node's array (any order), reverse levels, choice nodes.     *)
(***************************************************************************)
EXTENDS Integers, Sequences, FiniteSets

CONSTANTS
  nPis,      \* number of inputs of the network
  nObjMax,   \* bound: Abc_AigAnd makes no object beyond this number
  Starts     \* the networks to start from, records [fanin, level, po, nObjs]

VARIABLES
  fanin,     \* AND nodes of the network -> the pair of their fanin edges
  po,        \* the edges that drive the outputs
  nObjs,     \* the largest number given to an object
  level,     \* pNode->Level of the AND nodes
  exor,      \* the AND nodes whose fExor is set
  vLevels,   \* the nodes marked fMarkA: their fanouts' levels are to be updated
  stack,     \* vStackReplaceOld and vStackReplaceNew, the top at the end
  cur,       \* the run of Abc_AigReplace_int: its arguments, fanouts left
  dying,     \* the calls of Abc_AigDeleteNode still to be made, next one first
  pc,        \* "idle", "pop", "fanouts", "delete", "levels" or "clean"
  overlapped \* history: a fanout was rebuilt while another replacement was pending

graph == <<fanin, po, nObjs, level, exor>>
vars  == <<graph, vLevels, stack, cur, dying, pc, overlapped>>

-----------------------------------------------------------------------------
(* Edges, fanins, fanouts. *)

Regular(e)    == e[1]
Not(e)        == <<e[1], ~e[2]>>
NotCond(e, c) == <<e[1], e[2] # c>>
Const1        == <<0, FALSE>>

(* The two fanins of an AND node are kept in the order of their numbers. *)
Ordered(p0, p1) == IF Regular(p0) > Regular(p1) THEN <<p1, p0>> ELSE <<p0, p1>>

Ands          == DOMAIN fanin
Objects       == 0 .. nPis \cup Ands
Edges         == Objects \X BOOLEAN
Fanins(n)     == {Regular(fanin[n][1]), Regular(fanin[n][2])}
AndFanouts(n) == {m \in Ands : n \in Fanins(m)}
CoFanouts(n)  == {k \in DOMAIN po : Regular(po[k]) = n}
HasFanouts(n) == AndFanouts(n) # {} \/ CoFanouts(n) # {}

(* The edge e is not built from n: some set of objects holds its node and,  *)
(* with a node, the fanins, but not n.                                      *)
BuiltWithout(e, n) ==
  \E S \in SUBSET (Objects \ {n}) :
    Regular(e) \in S /\ \A m \in S \cap Ands : Fanins(m) \subseteq S

(* The graph f has no loop: of any of its nodes, one has no fanin among them.*)
Loopless(f) ==
  \A B \in SUBSET DOMAIN f : B # {} => \E n \in B : \A i \in 1 .. 2 : f[n][i][1] \notin B

(* What the nodes of the graph f compute, and from v what an edge does: the *)
(* sets of inputs at 1 that put it at 1.                                    *)
Patterns == SUBSET (1 .. nPis)
EdgeIn(v, e) == IF e[2] THEN Patterns \ v[e[1]] ELSE v[e[1]]
Values(f) ==
  LET v[m \in 0 .. nPis \cup DOMAIN f] ==
        IF m \in DOMAIN f THEN EdgeIn(v, f[m][1]) \cap EdgeIn(v, f[m][2])
                          ELSE {s \in Patterns : m = 0 \/ m \in s}
  IN  v
Value(n)     == Values(fanin)[n]
EdgeValue(e) == EdgeIn(Values(fanin), e)

-----------------------------------------------------------------------------
(* The hash table. *)

(* Mutant of AndLookup: the fanins are not put in order for the look-up. *)
AndLookupUnordered(p0, p1) ==
  IF p0 = p1 THEN {p0}
  ELSE IF p0 = Not(p1) \/ Not(Const1) \in {p0, p1} THEN {Not(Const1)}
  ELSE IF Const1 \in {p0, p1} THEN {p0, p1} \ {Const1}
  ELSE {n \in Ands : fanin[n] = <<p0, p1>>} \X {FALSE}

(* Abc_AigAndLookup: the edge that is the AND of two edges, if there is one *)
(* already, as a set of at most one.  (A fanin without fanouts is not looked*)
(* up: no node of the table has it.)                                        *)
AndLookup(p0, p1) ==
  IF p0 = p1 THEN {p0}
  ELSE IF p0 = Not(p1) \/ Not(Const1) \in {p0, p1} THEN {Not(Const1)}
  ELSE IF Const1 \in {p0, p1} THEN {p0, p1} \ {Const1}
  ELSE {n \in Ands : fanin[n] = Ordered(p0, p1)} \X {FALSE}

(* The level of a node with the fanins p, from the levels of the others.    *)
LevelOf(l, p) ==
  LET Level(e) == IF e[1] \in DOMAIN l THEN l[e[1]] ELSE 0
  IN  1 + (IF Level(p[1]) > Level(p[2]) THEN Level(p[1]) ELSE Level(p[2]))

(* Abc_NodeIsExorType: an AND of two complemented ANDs over the same nodes,  *)
(* every edge of one being the complement of the edge of the other.         *)
IsExorType(f, n) ==
  LET e0 == f[n][1]
      e1 == f[n][2]
  IN  /\ e0[2] /\ e1[2]
      /\ {e0[1], e1[1]} \subseteq DOMAIN f
      /\ \A i \in 1 .. 2 : f[e0[1]][i] = Not(f[e1[1]][i])

(* What a command is given is a hashed network without loops, with the right*)
(* levels.                                                                  *)
StartOK(s) ==
  LET ands == DOMAIN s.fanin
      objects == 0 .. nPis \cup ands
  IN  /\ s.nObjs \in Nat /\ nPis <= s.nObjs /\ ands \subseteq nPis + 1 .. s.nObjs
      /\ s.fanin \in [ands -> (objects \X BOOLEAN) \X (objects \X BOOLEAN)]
      /\ s.po \in Seq(objects \X BOOLEAN)
      /\ s.level \in [ands -> Nat]
      /\ \A n \in ands : LET p == s.fanin[n]
                         IN  /\ 0 < p[1][1] /\ p[1][1] < p[2][1]
                             /\ s.level[n] = LevelOf(s.level, p)
      /\ \A m, n \in ands : s.fanin[m] = s.fanin[n] => m = n
      /\ Loopless(s.fanin)

ASSUME StartsAssumption == nPis \in Nat /\ \A s \in Starts : StartOK(s)

(* Between two calls nothing is pending. *)
Idle == pc = "idle"
NoInt == [old |-> 0, new |-> Const1, ands |-> {}, cos |-> {}]

(* Abc_AigAnd of two edges whose AND is not in the table: Abc_AigAndCreate. *)
AigAnd(p0, p1) ==
  LET n == nObjs + 1
  IN  /\ Idle /\ nObjs < nObjMax
      /\ AndLookup(p0, p1) = {}
      /\ nObjs' = n
      /\ fanin' = [m \in Ands \cup {n} |-> IF m = n THEN Ordered(p0, p1) ELSE fanin[m]]
      /\ level' = [m \in Ands \cup {n} |-> IF m = n THEN LevelOf(level, <<p0, p1>>)
                                                    ELSE level[m]]
      /\ exor'  = IF IsExorType(fanin', n) THEN exor \cup {n} ELSE exor
      /\ UNCHANGED <<po, vLevels, stack, cur, dying, pc, overlapped>>

(* Abc_AigCleanup: the nodes without fanouts are collected, to be deleted   *)
(* one after another.                                                       *)
Cleanup ==
  LET dangles == {n \in Ands : ~HasFanouts(n)}
  IN  /\ Idle /\ dangles # {}
      /\ dying' \in {d \in [1 .. Cardinality(dangles) -> dangles] :
                      \A n \in dangles : \E i \in DOMAIN d : d[i] = n}
      /\ pc' = "clean"
      /\ UNCHANGED <<graph, vLevels, stack, cur, overlapped>>

-----------------------------------------------------------------------------
(* Abc_AigReplace. *)

(* Mutant of Replaceable: a caller does not look whether the new form uses  *)
(* the node itself.                                                         *)
ReplaceableByUser(old, new) == EdgeValue(new) = Value(old) /\ Regular(new) # old

(* What the callers see to: the new edge computes what the old node does,   *)
(* and is not built from the old node.                                      *)
Replaceable(old, new) == /\ EdgeValue(new) = Value(old)
                         /\ BuiltWithout(new, old)

Replace(old, new) ==
  /\ Idle
  /\ Replaceable(old, new)
  /\ stack' = <<[old |-> old, new |-> new]>>
  /\ pc' = "pop"
  /\ UNCHANGED <<graph, vLevels, cur, dying, overlapped>>

(* The next pending replacement.  An old node that has lost its fanouts in  *)
(* the meantime, or has been deleted, needs none.                           *)
Pop ==
  /\ pc = "pop" /\ stack # <<>>
  /\ LET top == stack[Len(stack)]
     IN  IF HasFanouts(top.old)
         THEN /\ cur' = [old |-> top.old, new |-> top.new,
                         ands |-> AndFanouts(top.old), cos |-> CoFanouts(top.old)]
              /\ pc' = "fanouts"
         ELSE UNCHANGED <<cur, pc>>
  /\ stack' = SubSeq(stack, 1, Len(stack) - 1)
  /\ UNCHANGED <<graph, vLevels, dying, overlapped>>

(* A fanout that is an output is given its new driver. *)
PatchCo(k) ==
  /\ pc = "fanouts" /\ k \in cur.cos
  /\ po' = [po EXCEPT ![k] = NotCond(cur.new, po[k][2])]
  /\ cur' = [cur EXCEPT !.cos = @ \ {k}]
  /\ UNCHANGED <<fanin, nObjs, level, exor, vLevels, stack, dying, pc, overlapped>>

(* Mutant of NewFanins: the complement on the old edge is lost. *)
NewFaninsPlain(m) ==
  LET iFanin == IF Regular(fanin[m][1]) = cur.old THEN 1 ELSE 2
  IN  <<cur.new, fanin[m][3 - iFanin]>>

(* The fanin edges of the fanout m once the new edge has taken the place of *)
(* the old node: the new edge (pFanin1) and the other fanin (pFanin2).      *)
NewFanins(m) ==
  LET iFanin == IF Regular(fanin[m][1]) = cur.old THEN 1 ELSE 2
  IN  <<NotCond(cur.new, fanin[m][iFanin][2]), fanin[m][3 - iFanin]>>

(* A fanout that becomes equal to an existing node (or to a constant, or to *)
(* one of its fanins) keeps its fanins until it is replaced in its turn.    *)
MergeFanout(m) ==
  /\ pc = "fanouts" /\ m \in cur.ands
  /\ \E e \in AndLookup(NewFanins(m)[1], NewFanins(m)[2]) :
       stack' = Append(stack, [old |-> m, new |-> e])
  /\ cur' = [cur EXCEPT !.ands = @ \ {m}]
  /\ UNCHANGED <<graph, vLevels, dying, pc, overlapped>>

(* Any other fanout is taken out of the table and put back with its new     *)
(* fanins; its level is new, and the nodes that may have become or ceased   *)
(* to be an EXOR are this one and its fanouts.                              *)
RebuildFanout(m) ==
  LET p == NewFanins(m)
  IN  /\ pc = "fanouts" /\ m \in cur.ands
      /\ AndLookup(p[1], p[2]) = {}
      /\ fanin' = [fanin EXCEPT ![m] = Ordered(p[1], p[2])]
      /\ level' = [level EXCEPT ![m] = LevelOf(level, p)]
      /\ exor'  = LET seen == {m} \cup AndFanouts(m)
                  IN  (exor \ seen) \cup {n \in seen : IsExorType(fanin', n)}
      /\ vLevels' = vLevels \cup {m}
      /\ cur' = [cur EXCEPT !.ands = @ \ {m}]
      /\ overlapped' = (overlapped \/ stack # <<>>)
      /\ UNCHANGED <<po, nObjs, stack, dying, pc>>

(* All fanouts seen: the old node is deleted unless a fanout still waits to *)
(* be replaced.                                                             *)
FanoutsDone ==
  /\ pc = "fanouts" /\ cur.ands = {} /\ cur.cos = {}
  /\ IF HasFanouts(cur.old)
     THEN pc' = "pop" /\ UNCHANGED dying
     ELSE pc' = "delete" /\ dying' = <<cur.old>>
  /\ cur' = NoInt
  /\ UNCHANGED <<graph, vLevels, stack, overlapped>>

(* The entries left on the stack when the replacements of n are taken off   *)
(* it.  The loop goes on to the next index after the entries have moved down*)
(* by one, so it does not look at the entry behind a removed one: of entries*)
(* for n next to each other it removes every other one.                     *)
Queued(n) ==
  LET ofN == {i \in DOMAIN stack : stack[i].old = n}
      removed == {i \in ofN : \E j \in 1 .. i : /\ j .. i \subseteq ofN
                                              /\ j - 1 \notin ofN
                                              /\ (i - j) % 2 = 0}
  IN  DOMAIN stack \ removed

(* Mutant of Awaited: nodes that wait to replace others are deleted too. *)
AwaitedNever(n) == FALSE

(* n waits to take the place of another node. *)
Awaited(n) == \E i \in Queued(n) : Regular(stack[i].new) = n

(* Abc_AigDeleteNode is called for a node that has no fanouts. *)
Dangling(n) == n \in Ands /\ ~HasFanouts(n)

NotCalled ==
  /\ pc \in {"delete", "clean"} /\ dying # <<>>
  /\ ~Dangling(Head(dying))
  /\ dying' = Tail(dying)
  /\ UNCHANGED <<graph, vLevels, stack, cur, pc, overlapped>>

(* Its replacements are taken off the stack.  If it is to replace another   *)
(* node it is kept; else it goes, and so do its fanins if nothing else uses *)
(* them.                                                                    *)
DeleteNode(n) ==
  /\ pc \in {"delete", "clean"} /\ dying # <<>>
  /\ n = Head(dying) /\ Dangling(n)
  /\ \E at \in [1 .. Cardinality(Queued(n)) -> Queued(n)] :
       /\ \A i, j \in DOMAIN at : i < j => at[i] < at[j]
       /\ stack' = [i \in DOMAIN at |-> stack[at[i]]]
  /\ IF Awaited(n)
     THEN dying' = Tail(dying) /\ UNCHANGED <<fanin, level, exor, vLevels>>
     ELSE /\ fanin' = [m \in Ands \ {n} |-> fanin[m]]
          /\ level' = [m \in Ands \ {n} |-> level[m]]
          /\ exor' = exor \ {n}
          /\ vLevels' = vLevels \ {n}
          /\ dying' = <<Regular(fanin[n][1]), Regular(fanin[n][2])>> \o Tail(dying)
  /\ UNCHANGED <<po, nObjs, cur, pc, overlapped>>

DeleteDone ==
  /\ pc \in {"delete", "clean"} /\ dying = <<>>
  /\ pc' = IF pc = "clean" THEN "idle" ELSE "pop"
  /\ UNCHANGED <<graph, vLevels, stack, cur, dying, overlapped>>

(* No replacement is left: Abc_AigUpdateLevel_int is called. *)
LevelsStart ==
  /\ pc = "pop" /\ stack = <<>>
  /\ pc' = "levels"
  /\ UNCHANGED <<graph, vLevels, stack, cur, dying, overlapped>>

(* Mutant of UpdateLevel: the mark of the node is not cleared. *)
UpdateLevelMarked(n) ==
  LET changed == {m \in AndFanouts(n) : level[m] # LevelOf(level, fanin[m])}
  IN  /\ pc = "levels" /\ n \in vLevels
      /\ \A m \in vLevels : level[n] <= level[m]
      /\ level' = [m \in Ands |-> IF m \in changed THEN LevelOf(level, fanin[m])
                                                   ELSE level[m]]
      /\ vLevels' = vLevels \cup changed
      /\ UNCHANGED <<fanin, po, nObjs, exor, stack, cur, dying, pc, overlapped>>

(* The marked nodes are taken in the order of their levels, and the levels  *)
(* of their fanouts are brought up to date.                                 *)
UpdateLevel(n) ==
  LET changed == {m \in AndFanouts(n) : level[m] # LevelOf(level, fanin[m])}
  IN  /\ pc = "levels" /\ n \in vLevels
      /\ \A m \in vLevels : level[n] <= level[m]
      /\ level' = [m \in Ands |-> IF m \in changed THEN LevelOf(level, fanin[m])
                                                   ELSE level[m]]
      /\ vLevels' = (vLevels \ {n}) \cup changed
      /\ UNCHANGED <<fanin, po, nObjs, exor, stack, cur, dying, pc, overlapped>>

LevelsDone ==
  /\ pc = "levels" /\ vLevels = {}
  /\ pc' = "idle"
  /\ UNCHANGED <<graph, vLevels, stack, cur, dying, overlapped>>

-----------------------------------------------------------------------------
Init ==
  /\ \E s \in Starts : /\ fanin = s.fanin /\ po = s.po
                       /\ level = s.level /\ nObjs = s.nObjs
  /\ exor = {n \in Ands : IsExorType(fanin, n)}
  /\ vLevels = {} /\ stack = <<>> /\ dying = <<>>
  /\ cur = NoInt /\ pc = "idle" /\ overlapped = FALSE

Caller == \/ \E p0, p1 \in Edges : AigAnd(p0, p1)
          \/ Cleanup
          \/ \E old \in Ands, new \in Edges : Replace(old, new)

Step == \/ Pop
        \/ \E k \in DOMAIN po : PatchCo(k)
        \/ \E m \in Ands : MergeFanout(m) \/ RebuildFanout(m)
        \/ FanoutsDone
        \/ NotCalled \/ (\E n \in Ands : DeleteNode(n)) \/ DeleteDone
        \/ LevelsStart \/ (\E n \in Ands : UpdateLevel(n)) \/ LevelsDone

Next == Caller \/ Step

(* A procedure that has been called goes on; nobody has to call it. *)
Spec == Init /\ [][Next]_vars /\ WF_vars(Step)

-----------------------------------------------------------------------------
(* Properties. *)

TypeOK ==
  /\ nObjs \in Nat /\ Ands \subseteq nPis + 1 .. nObjs
  /\ fanin \in [Ands -> (Nat \X BOOLEAN) \X (Nat \X BOOLEAN)]
  /\ po \in Seq(Nat \X BOOLEAN)
  /\ level \in [Ands -> Nat]
  /\ exor \subseteq Ands /\ vLevels \subseteq Ands
  /\ stack \in Seq([old : Nat, new : Nat \X BOOLEAN])
  /\ cur \in [old : Nat, new : Nat \X BOOLEAN, ands : SUBSET Ands, cos : SUBSET DOMAIN po]
  /\ dying \in Seq(Nat)
  /\ pc \in {"idle", "pop", "fanouts", "delete", "levels", "clean"}

(* Nothing that is used later has gone in the meantime: not a fanin of a     *)
(* node, not the driver of an output, not the node that is to replace       *)
(* another; and the fanouts that were collected from the old node still     *)
(* have it as a fanin when their turn comes (abcAig.c:919).                 *)
NothingStale ==
  /\ \A n \in Ands : Fanins(n) \subseteq Objects
  /\ \A k \in DOMAIN po : Regular(po[k]) \in Objects
  /\ \A i \in DOMAIN stack : Regular(stack[i].new) \in Objects
  /\ Regular(cur.new) \in Objects
  /\ cur.ands \subseteq AndFanouts(cur.old) /\ cur.cos \subseteq CoFanouts(cur.old)

(* The graph is structurally hashed at any time, also in the middle of a    *)
(* cascade (abcAig.c:28-31): no two nodes have the same fanins, no node has *)
(* a constant fanin or twice the same one.                                  *)
Strashed ==
  /\ \A n \in Ands : fanin[n] = Ordered(fanin[n][1], fanin[n][2])
  /\ \A n \in Ands : 0 \notin Fanins(n) /\ Regular(fanin[n][1]) # Regular(fanin[n][2])
  /\ \A m, n \in Ands : fanin[m] = fanin[n] => m = n

(* At any time the AND nodes have a topological order (abcAig.c:35): no     *)
(* replacement closes a combinational loop.  A cascade can, and the code    *)
(* looks for loops of one or two nodes only (922, 925, and the assert at    *)
(* 951).                                                                    *)
NoLoop == Loopless(fanin)

(* When the turn of a pending replacement comes, the new node is still not  *)
(* built from the old one.                                                  *)
NewApart == pc = "fanouts" => BuiltWithout(cur.new, cur.old)

(* Until some fanout is rebuilt while another replacement waits on the      *)
(* stack, no replacement closes a loop (934-951), however many fanouts are  *)
(* merged one into the other.                                               *)
LoopsTakeOverlap == overlapped \/ (NoLoop /\ NewApart)

(* Between two calls, what Abc_AigCheck and the header ask: every level is  *)
(* one more than the larger level of the fanins, every EXOR is marked.      *)
LevelsRight == pc \in {"idle", "clean"} => \A n \in Ands : level[n] = LevelOf(level, fanin[n])
ExorRight   == exor = {n \in Ands : IsExorType(fanin, n)}

AigCheck == Strashed /\ LevelsRight /\ ExorRight

(* No step of a replacement changes what an output computes. *)
Functions == [k \in DOMAIN po |-> EdgeValue(po[k])]
FunctionsKept == [][Functions' = Functions]_vars

(* A replacement comes to its end: no cascade feeds itself. *)
ReplaceReturns == ~Idle ~> Idle
=============================================================================
