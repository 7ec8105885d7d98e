--------------------------- MODULE AigReplaceProofs ---------------------------
(***************************************************************************)
(* The graph stays hashed, its levels and EXOR marks stay right and nothing *)
(* that is still needed is deleted, in every cascade of replacements of     *)
(* every network (module AigReplace).                                       *)
(***************************************************************************)
EXTENDS AigReplace, FiniteSetTheorems, SequenceTheorems, WellFoundedInduction, TLAPS

(* A node whose level is not right has a fanin in the structure of levels   *)
(* to be updated; the structure is empty between two calls.                 *)
LevelsOwed ==
  \A n \in Ands : \/ level[n] = LevelOf(level, fanin[n])
                  \/ Fanins(n) \cap vLevels # {}

Layout ==
  /\ nPis <= nObjs
  /\ pc # "fanouts" => cur = NoInt
  /\ pc \in {"idle", "clean"} => vLevels = {}

IInv == TypeOK /\ Layout /\ NothingStale /\ Strashed /\ ExorRight /\ LevelsOwed

Edge == Nat \X BOOLEAN

-----------------------------------------------------------------------------
(* The operators. *)

(* Sequences are functions on an initial interval. *)
LEMMA SeqAsFunction ==
  ASSUME NEW S, NEW k \in Nat, NEW f \in [1 .. k -> S]
  PROVE  f \in Seq(S) /\ Len(f) = k
  OBVIOUS

(* Putting two edges in order keeps them, and is done once. *)
LEMMA OrderedFacts ==
  ASSUME NEW p0 \in Edge, NEW p1 \in Edge
  PROVE  LET p == Ordered(p0, p1)
         IN  /\ p = <<p0, p1>> \/ p = <<p1, p0>>
             /\ p = Ordered(p[1], p[2])
  BY DEF Ordered, Regular, Edge

(* A look-up of edges to objects of the network finds edges to such.        *)
LEMMA LookupFinds ==
  ASSUME NEW p0 \in Edges, NEW p1 \in Edges
  PROVE  AndLookup(p0, p1) \subseteq Edges
<1>1. Const1 \in Edges /\ Not(Const1) \in Edges
  <2>1. 0 \in Objects
    BY StartsAssumption DEF Objects
  <2> QED BY <2>1 DEF Edges, Not, Const1
<1>2. Ands \X {FALSE} \subseteq Edges
  BY DEF Edges, Objects
<1> HIDE DEF Edges
<1> QED BY <1>1, <1>2 DEF AndLookup

(* A look-up that fails: the fanins are different nodes, neither is the     *)
(* constant, and no node has them.                                          *)
LEMMA LookupFails ==
  ASSUME NEW p0 \in Edge, NEW p1 \in Edge, AndLookup(p0, p1) = {}
  PROVE  /\ Regular(p0) # 0 /\ Regular(p1) # 0 /\ Regular(p0) # Regular(p1)
         /\ \A n \in Ands : fanin[n] # Ordered(p0, p1)
<1>1. /\ p0 # p1 /\ p0 # Not(p1) /\ Not(Const1) \notin {p0, p1}
      /\ Const1 \notin {p0, p1}
      /\ {n \in Ands : fanin[n] = Ordered(p0, p1)} \X {FALSE} = {}
  BY DEF AndLookup
<1>2. \A n \in Ands : fanin[n] # Ordered(p0, p1)
  <2> SUFFICES ASSUME NEW n \in Ands, fanin[n] = Ordered(p0, p1) PROVE FALSE
    OBVIOUS
  <2>1. <<n, FALSE>> \in {m \in Ands : fanin[m] = Ordered(p0, p1)} \X {FALSE}
    OBVIOUS
  <2> QED BY <2>1, <1>1
<1>3. PICK n0 \in Nat, c0 \in BOOLEAN, n1 \in Nat, c1 \in BOOLEAN :
        p0 = <<n0, c0>> /\ p1 = <<n1, c1>>
  BY DEF Edge
<1>4. n0 # 0 /\ n1 # 0
  BY <1>1, <1>3 DEF Not, Const1
<1>5. n0 # n1
  BY <1>1, <1>3 DEF Not
<1> QED BY <1>2, <1>3, <1>4, <1>5 DEF Regular

(* A level is a number, depends on the levels of the fanins only and not on *)
(* their order.                                                             *)
LEMMA LevelType ==
  ASSUME NEW l, l \in [DOMAIN l -> Nat], NEW p
  PROVE  LevelOf(l, p) \in Nat
  BY DEF LevelOf

LEMMA LevelOrdered ==
  ASSUME NEW l, l \in [DOMAIN l -> Nat], NEW p0 \in Edge, NEW p1 \in Edge
  PROVE  LevelOf(l, Ordered(p0, p1)) = LevelOf(l, <<p0, p1>>)
  BY DEF LevelOf, Ordered, Regular, Edge

LEMMA LevelSame ==
  ASSUME NEW l, NEW k, NEW p,
         \A i \in {1, 2} : /\ p[i][1] \in DOMAIN l <=> p[i][1] \in DOMAIN k
                           /\ p[i][1] \in DOMAIN l => l[p[i][1]] = k[p[i][1]]
  PROVE  LevelOf(l, p) = LevelOf(k, p)
  BY DEF LevelOf

(* Whether a node is an EXOR depends on it and its fanins only.             *)
LEMMA ExorSame ==
  ASSUME NEW f, NEW g, NEW n, f[n] = g[n],
         \A i \in {1, 2} : /\ f[n][i][1] \in DOMAIN f <=> f[n][i][1] \in DOMAIN g
                           /\ f[n][i][1] \in DOMAIN f => f[f[n][i][1]] = g[f[n][i][1]]
  PROVE  IsExorType(f, n) <=> IsExorType(g, n)
  BY DEF IsExorType

-----------------------------------------------------------------------------
(* Steps that leave the nodes and their levels alone. *)

(* Networks that commands start with satisfy the invariant. *)
LEMMA InitHolds == Init => IInv
<1> SUFFICES ASSUME Init PROVE IInv
  OBVIOUS
<1>1. PICK s \in Starts : fanin = s.fanin /\ po = s.po /\ level = s.level /\ nObjs = s.nObjs
  BY DEF Init
<1>2. StartOK(s) /\ nPis \in Nat
  BY StartsAssumption
<1>3. Objects \subseteq Nat
  BY <1>1, <1>2 DEF StartOK, Ands, Objects
<1>4. /\ fanin \in [Ands -> Edges \X Edges] /\ po \in Seq(Edges)
      /\ level \in [Ands -> Nat]
      /\ nObjs \in Nat /\ nPis <= nObjs /\ Ands \subseteq nPis + 1 .. nObjs
  BY <1>1, <1>2 DEF StartOK, Ands, Objects, Edges
<1>5. TypeOK
  <2>1. Edges \subseteq Edge
    BY <1>3 DEF Edges, Edge
  <2>2. fanin \in [Ands -> Edge \X Edge] /\ po \in Seq(Edge)
    BY <2>1, <1>4
  <2>3. stack \in Seq([old : Nat, new : Nat \X BOOLEAN]) /\ dying \in Seq(Nat)
    BY DEF Init
  <2>4. cur \in [old : Nat, new : Nat \X BOOLEAN, ands : SUBSET Ands, cos : SUBSET DOMAIN po]
    BY DEF Init, NoInt, Const1
  <2> QED BY <1>4, <2>2, <2>3, <2>4 DEF TypeOK, Edge, Init
<1>6. Layout
  BY <1>4 DEF Layout, Init
<1>7. NothingStale
  <2>1. \A n \in Ands : Fanins(n) \subseteq Objects
    BY <1>4 DEF Fanins, Regular, Edges
  <2>2. \A k \in DOMAIN po : Regular(po[k]) \in Objects
    BY <1>4 DEF Regular, Edges
  <2>3. 0 \in Objects
    BY <1>2 DEF Objects
  <2> QED BY <2>1, <2>2, <2>3 DEF NothingStale, Init, NoInt, Const1, Regular
<1>8. Strashed
  <2> SUFFICES ASSUME NEW n \in Ands
               PROVE  /\ fanin[n] = Ordered(fanin[n][1], fanin[n][2])
                      /\ 0 \notin Fanins(n) /\ Regular(fanin[n][1]) # Regular(fanin[n][2])
    BY <1>1, <1>2 DEF Strashed, StartOK, Ands
  <2>1. fanin[n] \in Edges \X Edges /\ fanin[n][1] \in Edges /\ fanin[n][2] \in Edges
    BY <1>4
  <2>2. 0 < fanin[n][1][1] /\ fanin[n][1][1] < fanin[n][2][1]
    BY <1>1, <1>2 DEF StartOK, Ands
  <2>3. fanin[n][1][1] \in Nat /\ fanin[n][2][1] \in Nat
    BY <2>1, <1>3 DEF Edges
  <2> QED BY <2>1, <2>2, <2>3 DEF Ordered, Regular, Fanins
<1>9. ExorRight /\ LevelsOwed
  BY <1>1, <1>2 DEF Init, ExorRight, LevelsOwed, StartOK, Ands
<1> QED BY <1>5, <1>6, <1>7, <1>8, <1>9 DEF IInv

LEMMA NodesKept ==
  ASSUME IInv, UNCHANGED <<fanin, level, exor, vLevels>>
  PROVE  Strashed' /\ ExorRight' /\ LevelsOwed'
  BY DEF IInv, Strashed, ExorRight, LevelsOwed, Ands, Fanins

(* The last element of a sequence, and the rest. *)
LEMMA LastAndRest ==
  ASSUME NEW S, NEW s \in Seq(S), s # <<>>
  PROVE  LET rest == SubSeq(s, 1, Len(s) - 1)
         IN  /\ Len(s) \in DOMAIN s /\ s[Len(s)] \in S
             /\ rest \in Seq(S)
             /\ \A i \in DOMAIN rest : i \in DOMAIN s /\ rest[i] = s[i]
<1>1. Len(s) \in Nat /\ Len(s) # 0 /\ DOMAIN s = 1 .. Len(s)
  OBVIOUS
<1>2. Len(s) \in DOMAIN s /\ s[Len(s)] \in S
  BY <1>1
<1> DEFINE rest == SubSeq(s, 1, Len(s) - 1)
<1>3. rest \in Seq(S) /\ Len(rest) = Len(s) - 1 /\ \A i \in 1 .. Len(s) - 1 : rest[i] = s[i]
  BY <1>1, SubSeqProperties
<1> QED BY <1>1, <1>2, <1>3

(* The last entry of the stack, and the rest. *)
LEMMA StackTop ==
  ASSUME IInv, stack # <<>>
  PROVE  /\ stack[Len(stack)] \in [old : Nat, new : Nat \X BOOLEAN]
         /\ Regular(stack[Len(stack)].new) \in Objects
         /\ SubSeq(stack, 1, Len(stack) - 1) \in Seq([old : Nat, new : Nat \X BOOLEAN])
         /\ \A i \in DOMAIN SubSeq(stack, 1, Len(stack) - 1) :
              Regular(SubSeq(stack, 1, Len(stack) - 1)[i].new) \in Objects
<1>1. stack \in Seq([old : Nat, new : Nat \X BOOLEAN])
  BY DEF IInv, TypeOK
<1> QED BY <1>1, LastAndRest DEF IInv, NothingStale

LEMMA CallsKeep ==
  ASSUME IInv,
         \/ Cleanup
         \/ \E old \in Ands, new \in Edges : Replace(old, new)
  PROVE  IInv'
<1>1. Strashed' /\ ExorRight' /\ LevelsOwed'
  BY NodesKept DEF Cleanup, Replace, graph
<1>2. CASE Cleanup
  <2> DEFINE dangles == {n \in Ands : ~HasFanouts(n)}
  <2>1. IsFiniteSet(dangles)
    <3>1. IsFiniteSet(nPis + 1 .. nObjs)
      BY StartsAssumption, FS_Interval DEF IInv, TypeOK
    <3> QED BY <3>1, FS_Subset DEF IInv, TypeOK
  <2>2. Cardinality(dangles) \in Nat
    BY <2>1, FS_CardinalityType
  <2>3. dying' \in [1 .. Cardinality(dangles) -> dangles]
    BY <1>2 DEF Cleanup
  <2>4. dying' \in Seq(Nat)
    <3>1. Ands \subseteq Nat /\ dangles \subseteq Ands
      BY StartsAssumption DEF IInv, TypeOK
    <3> HIDE DEF dangles
    <3>2. dying' \in [1 .. Cardinality(dangles) -> Nat]
      BY <2>3, <3>1
    <3> QED BY <2>2, <3>2, SeqAsFunction
  <2>5. TypeOK'
    BY <1>2, <2>4 DEF Cleanup, graph, IInv, TypeOK, Ands
  <2>6. Layout' /\ NothingStale'
    BY <1>2 DEF Cleanup, graph, Idle, IInv, Layout, NothingStale, Ands, Objects, Fanins,
                AndFanouts, CoFanouts
  <2> QED BY <1>1, <2>5, <2>6 DEF IInv
<1>3. ASSUME NEW old \in Ands, NEW new \in Edges, Replace(old, new)
      PROVE  IInv'
  <2>1. old \in Nat /\ new \in Nat \X BOOLEAN /\ Regular(new) \in Objects
    <3>1. Ands \subseteq Nat /\ Objects \subseteq Nat
      BY StartsAssumption DEF IInv, TypeOK, Objects
    <3>2. PICK n \in Objects, c \in BOOLEAN : new = <<n, c>>
      BY DEF Edges
    <3>3. Regular(new) = n
      BY <3>2 DEF Regular
    <3> QED BY <3>1, <3>2, <3>3
  <2>2. TypeOK'
    <3>1. stack' \in Seq([old : Nat, new : Nat \X BOOLEAN])
      BY <1>3, <2>1 DEF Replace
    <3> QED BY <1>3, <3>1 DEF Replace, graph, IInv, TypeOK, Ands
  <2>3. Layout'
    BY <1>3 DEF Replace, graph, Idle, IInv, Layout
  <2>4. NothingStale'
    <3>1. \A i \in DOMAIN stack' : Regular(stack'[i].new) \in Objects
      BY <1>3, <2>1 DEF Replace
    <3> QED BY <1>3, <3>1 DEF Replace, graph, IInv, NothingStale, Ands, Objects, Fanins,
                              AndFanouts, CoFanouts
  <2> QED BY <1>1, <2>2, <2>3, <2>4 DEF IInv
<1> QED BY <1>2, <1>3

LEMMA PopKeeps ==
  ASSUME IInv, Pop
  PROVE  IInv'
<1> DEFINE top == stack[Len(stack)]
           rest == SubSeq(stack, 1, Len(stack) - 1)
<1>1. Strashed' /\ ExorRight' /\ LevelsOwed'
  BY NodesKept DEF Pop, graph
<1>2. /\ top \in [old : Nat, new : Nat \X BOOLEAN]
      /\ Regular(top.new) \in Objects
      /\ rest \in Seq([old : Nat, new : Nat \X BOOLEAN])
      /\ \A i \in DOMAIN rest : Regular(rest[i].new) \in Objects
  BY StackTop DEF Pop
<1>3. /\ stack' = rest
      /\ UNCHANGED <<graph, vLevels, dying>>
      /\ \/ UNCHANGED <<cur, pc>>
         \/ /\ cur' = [old |-> top.old, new |-> top.new,
                       ands |-> AndFanouts(top.old), cos |-> CoFanouts(top.old)]
            /\ pc' = "fanouts"
  BY DEF Pop
<1>4. TypeOK'
  <2>1. cur' \in [old : Nat, new : Nat \X BOOLEAN, ands : SUBSET Ands, cos : SUBSET DOMAIN po]
    BY <1>2, <1>3 DEF AndFanouts, CoFanouts, IInv, TypeOK
  <2> QED BY <1>2, <1>3, <2>1 DEF IInv, TypeOK, graph, Ands
<1>5. Layout'
  BY <1>3 DEF Pop, IInv, Layout, graph
<1>6. NothingStale'
  <2>1. \A i \in DOMAIN stack' : Regular(stack'[i].new) \in Objects
    BY <1>2, <1>3
  <2>2. /\ Regular(cur'.new) \in Objects
        /\ cur'.ands \subseteq AndFanouts(cur'.old) /\ cur'.cos \subseteq CoFanouts(cur'.old)
    BY <1>2, <1>3 DEF IInv, NothingStale
  <2> QED BY <1>3, <2>1, <2>2 DEF IInv, NothingStale, graph, Ands, Objects, Fanins,
                                  AndFanouts, CoFanouts
<1> QED BY <1>1, <1>4, <1>5, <1>6 DEF IInv

(* The other steps that only move control. *)
LEMMA ControlKeeps ==
  ASSUME IInv, FanoutsDone \/ NotCalled \/ DeleteDone \/ LevelsStart \/ LevelsDone
  PROVE  IInv'
<1>1. UNCHANGED <<graph, vLevels, stack>>
  BY DEF FanoutsDone, NotCalled, DeleteDone, LevelsStart, LevelsDone
<1>2. Strashed' /\ ExorRight' /\ LevelsOwed'
  BY <1>1, NodesKept DEF graph
<1>3. pc' # "fanouts" /\ cur' = NoInt
  BY DEF FanoutsDone, NotCalled, DeleteDone, LevelsStart, LevelsDone, IInv, Layout
<1>4. cur' \in [old : Nat, new : Nat \X BOOLEAN, ands : SUBSET Ands, cos : SUBSET DOMAIN po]
  <2>1. NoInt \in [old : Nat, new : Nat \X BOOLEAN, ands : SUBSET Ands, cos : SUBSET DOMAIN po]
    BY DEF NoInt, Const1
  <2> QED BY <1>3, <2>1
<1>5. dying' \in Seq(Nat) /\ pc' \in {"idle", "pop", "fanouts", "delete", "levels", "clean"}
  <2>1. CASE FanoutsDone
    <3>1. cur.old \in Nat /\ dying \in Seq(Nat)
      BY DEF IInv, TypeOK
    <3>2. (dying' = dying /\ pc' = "pop") \/ (dying' = <<cur.old>> /\ pc' = "delete")
      BY <2>1 DEF FanoutsDone
    <3>3. \A x \in Nat : <<x>> \in Seq(Nat)
      OBVIOUS
    <3> QED BY <3>1, <3>2, <3>3
  <2>2. CASE NotCalled
    <3>1. dying \in Seq(Nat) /\ dying # <<>>
      BY <2>2 DEF NotCalled, IInv, TypeOK
    <3>2. dying' = Tail(dying) /\ pc' = pc
      BY <2>2 DEF NotCalled
    <3>3. Tail(dying) \in Seq(Nat)
      BY <3>1, HeadTailProperties
    <3> QED BY <3>2, <3>3 DEF IInv, TypeOK
  <2>3. CASE DeleteDone \/ LevelsStart \/ LevelsDone
    BY <2>3 DEF DeleteDone, LevelsStart, LevelsDone, IInv, TypeOK
  <2> QED BY <2>1, <2>2, <2>3
<1>6. TypeOK'
  BY <1>1, <1>4, <1>5 DEF IInv, TypeOK, graph, Ands
<1>7. Layout'
  <2>2. pc' \in {"idle", "clean"} => vLevels = {}
    BY DEF FanoutsDone, NotCalled, DeleteDone, LevelsStart, LevelsDone, IInv, Layout
  <2> QED BY <1>1, <1>3, <2>2 DEF IInv, Layout, graph
<1>8. NothingStale'
  <2>1. 0 \in Objects
    BY StartsAssumption DEF Objects
  <2>2. /\ Regular(cur'.new) \in Objects
        /\ cur'.ands \subseteq AndFanouts(cur'.old) /\ cur'.cos \subseteq CoFanouts(cur'.old)
    BY <1>3, <2>1 DEF NoInt, Const1, Regular
  <2> QED BY <1>1, <2>2 DEF IInv, NothingStale, graph, Ands, Objects, Fanins,
                            AndFanouts, CoFanouts
<1> QED BY <1>2, <1>6, <1>7, <1>8 DEF IInv

(* Once it has its new driver an output is a fanout of the old node no      *)
(* more; the other fanouts that were collected still are.                   *)
LEMMA PatchCoKeeps ==
  ASSUME IInv, NEW k \in DOMAIN po, PatchCo(k)
  PROVE  IInv'
<1>1. Strashed' /\ ExorRight' /\ LevelsOwed'
  BY NodesKept DEF PatchCo
<1>2. /\ cur \in [old : Nat, new : Nat \X BOOLEAN, ands : SUBSET Ands, cos : SUBSET DOMAIN po]
      /\ po \in Seq(Nat \X BOOLEAN)
  BY DEF IInv, TypeOK
<1> DEFINE e == NotCond(cur.new, po[k][2])
<1>3. e \in Nat \X BOOLEAN /\ Regular(e) = Regular(cur.new)
  <2>1. cur.new \in Nat \X BOOLEAN /\ po[k] \in Nat \X BOOLEAN
    BY <1>2
  <2> QED BY <2>1 DEF NotCond, Regular
<1>4. /\ po' \in Seq(Nat \X BOOLEAN) /\ DOMAIN po' = DOMAIN po
      /\ \A j \in DOMAIN po : po'[j] = IF j = k THEN e ELSE po[j]
  <2>1. po' = [po EXCEPT ![k] = e]
    BY DEF PatchCo
  <2> HIDE DEF e
  <2> QED BY <1>2, <1>3, <2>1
<1>5. cur' = [cur EXCEPT !.cos = @ \ {k}]
  BY DEF PatchCo
<1>6. TypeOK'
  <2>1. cur' \in [old : Nat, new : Nat \X BOOLEAN, ands : SUBSET Ands, cos : SUBSET DOMAIN po']
    BY <1>2, <1>4, <1>5
  <2> QED BY <1>4, <2>1 DEF PatchCo, IInv, TypeOK, Ands
<1>7. Layout'
  BY DEF PatchCo, IInv, Layout
<1>8. NothingStale'
  <2>1. \A j \in DOMAIN po' : Regular(po'[j]) \in Objects
    BY <1>3, <1>4 DEF IInv, NothingStale
  <2>2. \A j \in cur'.cos : j \in DOMAIN po' /\ Regular(po'[j]) = cur'.old
    BY <1>2, <1>4, <1>5 DEF IInv, NothingStale, CoFanouts
  <2>3. cur'.new = cur.new /\ cur'.ands = cur.ands /\ cur'.old = cur.old
    BY <1>2, <1>5
  <2> QED BY <2>1, <2>2, <2>3 DEF PatchCo, IInv, NothingStale, Ands, Objects, Fanins,
                                  AndFanouts, CoFanouts
<1> QED BY <1>1, <1>6, <1>7, <1>8 DEF IInv

-----------------------------------------------------------------------------
(* Steps that change nodes. *)

(* The new fanins of a fanout are edges to objects of the network. *)
LEMMA NewFaninsFacts ==
  ASSUME IInv, pc = "fanouts", NEW m \in cur.ands
  PROVE  /\ m \in Ands
         /\ NewFanins(m)[1] \in Edges /\ NewFanins(m)[2] \in Edges
         /\ NewFanins(m)[1] \in Edge /\ NewFanins(m)[2] \in Edge
<1>1. m \in Ands
  BY DEF IInv, TypeOK
<1>2. /\ fanin[m][1] \in Edge /\ fanin[m][2] \in Edge
      /\ fanin[m][1][1] \in Objects /\ fanin[m][2][1] \in Objects
  BY <1>1 DEF IInv, TypeOK, Edge, NothingStale, Fanins, Regular
<1>3. cur.new \in Edge /\ cur.new[1] \in Objects
  BY DEF IInv, TypeOK, Edge, NothingStale, Regular
<1>4. \A c \in BOOLEAN : NotCond(cur.new, c) \in Edge /\ NotCond(cur.new, c)[1] \in Objects
  BY <1>3 DEF NotCond, Edge
<1>5. \A e \in Edge : e[2] \in BOOLEAN /\ (e[1] \in Objects => e \in Edges)
  BY DEF Edge, Edges
<1>6. /\ NewFanins(m)[1] \in Edge /\ NewFanins(m)[1][1] \in Objects
      /\ NewFanins(m)[2] \in Edge /\ NewFanins(m)[2][1] \in Objects
  BY <1>2, <1>4, <1>5 DEF NewFanins
<1> QED BY <1>1, <1>5, <1>6

LEMMA MergeFanoutKeeps ==
  ASSUME IInv, NEW m \in Ands, MergeFanout(m)
  PROVE  IInv'
<1>1. pc = "fanouts" /\ m \in cur.ands
  BY DEF MergeFanout
<1>2. PICK e \in AndLookup(NewFanins(m)[1], NewFanins(m)[2]) :
        stack' = Append(stack, [old |-> m, new |-> e])
  BY DEF MergeFanout
<1>3. e \in Edges /\ e \in Nat \X BOOLEAN /\ Regular(e) \in Objects /\ m \in Nat
  <2>1. Edges \subseteq Nat \X BOOLEAN /\ m \in Nat
    <3>1. nPis \in Nat /\ nObjs \in Nat /\ Ands \subseteq nPis + 1 .. nObjs
      BY StartsAssumption DEF IInv, TypeOK
    <3>2. Ands \subseteq Nat
      BY <3>1
    <3>3. Objects \subseteq Nat
      BY <3>1, <3>2 DEF Objects
    <3> QED BY <3>2, <3>3 DEF Edges
  <2>2. NewFanins(m)[1] \in Edges /\ NewFanins(m)[2] \in Edges
    BY <1>1, NewFaninsFacts
  <2>3. e \in Edges
    BY <1>2, <2>2, LookupFinds
  <2> QED BY <2>1, <2>3 DEF Edges, Regular
<1>4. Strashed' /\ ExorRight' /\ LevelsOwed'
  BY NodesKept DEF MergeFanout, graph
<1>5. cur' = [cur EXCEPT !.ands = @ \ {m}]
  BY DEF MergeFanout
<1>6. cur \in [old : Nat, new : Nat \X BOOLEAN, ands : SUBSET Ands, cos : SUBSET DOMAIN po]
  BY DEF IInv, TypeOK
<1>7. /\ cur' \in [old : Nat, new : Nat \X BOOLEAN, ands : SUBSET Ands, cos : SUBSET DOMAIN po]
      /\ cur'.new = cur.new /\ cur'.old = cur.old /\ cur'.cos = cur.cos
      /\ cur'.ands \subseteq cur.ands
  BY <1>5, <1>6
<1>8. /\ stack' \in Seq([old : Nat, new : Nat \X BOOLEAN])
      /\ \A i \in DOMAIN stack' : Regular(stack'[i].new) \in Objects
  <2> DEFINE r == [old |-> m, new |-> e]
             Replacement == [old : Nat, new : Nat \X BOOLEAN]
  <2>1. r \in Replacement /\ Regular(r.new) \in Objects
    BY <1>3
  <2>2. stack \in Seq(Replacement)
    BY DEF IInv, TypeOK
  <2>3. \A i \in DOMAIN stack : Regular(stack[i].new) \in Objects
    BY DEF IInv, NothingStale
  <2>4. stack' = Append(stack, r)
    BY <1>2
  <2> HIDE DEF r, Replacement
  <2>5. stack' \in Seq(Replacement)
    BY <2>1, <2>2, <2>4
  <2>6. \A i \in DOMAIN stack' : stack'[i] = r \/ (i \in DOMAIN stack /\ stack'[i] = stack[i])
    BY <2>1, <2>2, <2>4
  <2> QED BY <2>1, <2>3, <2>5, <2>6 DEF Replacement
<1>9. TypeOK'
  BY <1>7, <1>8 DEF MergeFanout, graph, IInv, TypeOK, Ands
<1>10. Layout'
  BY <1>1 DEF MergeFanout, graph, IInv, Layout
<1>11. NothingStale'
  BY <1>7, <1>8 DEF MergeFanout, graph, IInv, NothingStale, Ands, Objects, Fanins, AndFanouts,
                    CoFanouts
<1> QED BY <1>4, <1>9, <1>10, <1>11 DEF IInv

(* A fanin is an object of the network, kept as an edge. *)
LEMMA FaninFacts ==
  ASSUME IInv, NEW m \in Ands
  PROVE  /\ fanin[m][1] \in Edge /\ fanin[m][2] \in Edge
         /\ fanin[m] = <<fanin[m][1], fanin[m][2]>>
         /\ \A i \in {1, 2} : fanin[m][i][1] \in Objects /\ fanin[m][i][1] \in Fanins(m)
  BY DEF IInv, TypeOK, Edge, NothingStale, Fanins, Regular

(* The new node is nobody's fanin, so nothing changes for the others. *)
LEMMA AigAndKeeps ==
  ASSUME IInv, NEW p0 \in Edges, NEW p1 \in Edges, AigAnd(p0, p1)
  PROVE  IInv'
<1> DEFINE n == nObjs + 1
           p == Ordered(p0, p1)
<1>1. nPis \in Nat /\ nObjs \in Nat /\ nPis <= nObjs /\ Ands \subseteq nPis + 1 .. nObjs
  BY StartsAssumption DEF IInv, TypeOK, Layout
<1>2. n \in Nat /\ n \notin Objects /\ n \notin Ands /\ n \in nPis + 1 .. n
  BY <1>1 DEF Objects
<1>3. Edges \subseteq Edge /\ p0 \in Edge /\ p1 \in Edge
  <2>1. Objects \subseteq Nat
    BY <1>1 DEF Objects
  <2> QED BY <2>1 DEF Edges, Edge
<1>4. /\ p = <<p0, p1>> \/ p = <<p1, p0>>
      /\ p = Ordered(p[1], p[2])
  BY <1>3, OrderedFacts
<1>5. /\ Regular(p0) # 0 /\ Regular(p1) # 0 /\ Regular(p0) # Regular(p1)
      /\ \A m \in Ands : fanin[m] # p
  BY <1>3, LookupFails DEF AigAnd
<1>6. p \in Edge \X Edge /\ {Regular(p[1]), Regular(p[2])} = {Regular(p0), Regular(p1)}
  BY <1>3, <1>4
<1>7. Regular(p0) \in Objects /\ Regular(p1) \in Objects
  BY DEF Edges, Regular
<1>8. /\ Ands' = Ands \cup {n} /\ nObjs' = n /\ DOMAIN level' = Ands \cup {n}
      /\ fanin' = [m \in Ands \cup {n} |-> IF m = n THEN p ELSE fanin[m]]
      /\ level' = [m \in Ands \cup {n} |-> IF m = n THEN LevelOf(level, <<p0, p1>>)
                                                    ELSE level[m]]
      /\ exor' = IF IsExorType(fanin', n) THEN exor \cup {n} ELSE exor
      /\ vLevels = {}
      /\ UNCHANGED <<po, vLevels, stack, cur, dying, pc>>
  BY DEF AigAnd, Ands, Idle, IInv, Layout
<1>9. level \in [Ands -> Nat] /\ DOMAIN level = Ands
  BY DEF IInv, TypeOK
<1>10. \A m \in Ands : fanin'[m] = fanin[m] /\ level'[m] = level[m] /\ m # n
  BY <1>2, <1>8
<1>11. fanin'[n] = p /\ level'[n] = LevelOf(level, <<p0, p1>>)
  BY <1>8
<1> HIDE DEF n, p
<1>12. Objects' = Objects \cup {n}
  BY <1>8 DEF Objects
<1>13. TypeOK'
  <2>1. LevelOf(level, <<p0, p1>>) \in Nat
    BY <1>9, LevelType
  <2>2. fanin' \in [Ands' -> Edge \X Edge] /\ level' \in [Ands' -> Nat]
    BY <1>6, <1>8, <1>9, <2>1 DEF IInv, TypeOK, Edge
  <2>3. Ands' \subseteq nPis + 1 .. nObjs' /\ nObjs' \in Nat
    BY <1>1, <1>2, <1>8 DEF n
  <2>4. exor' \subseteq Ands' /\ vLevels' \subseteq Ands'
    BY <1>8 DEF IInv, TypeOK
  <2>5. cur' \in [old : Nat, new : Nat \X BOOLEAN, ands : SUBSET Ands', cos : SUBSET DOMAIN po']
    BY <1>8 DEF IInv, TypeOK
  <2> QED BY <1>8, <2>2, <2>3, <2>4, <2>5 DEF IInv, TypeOK, Edge
<1>14. Layout'
  BY <1>1, <1>8 DEF n, IInv, Layout
<1>15. {Regular(fanin'[n][1]), Regular(fanin'[n][2])} = {Regular(p0), Regular(p1)}
  BY <1>6, <1>11
<1>17. NothingStale'
  <2>1. \A m \in Ands' : {Regular(fanin'[m][1]), Regular(fanin'[m][2])} \subseteq Objects'
    BY <1>7, <1>8, <1>10, <1>12, <1>15 DEF IInv, NothingStale, Fanins
  <2>2. \A m \in cur'.ands : /\ m \in Ands'
                             /\ cur'.old \in {Regular(fanin'[m][1]), Regular(fanin'[m][2])}
    BY <1>8, <1>10 DEF IInv, NothingStale, AndFanouts, Fanins
  <2>3. cur'.cos \subseteq {k \in DOMAIN po' : Regular(po'[k]) = cur'.old}
    BY <1>8 DEF IInv, NothingStale, CoFanouts
  <2> QED BY <1>8, <1>12, <2>1, <2>2, <2>3 DEF IInv, NothingStale, CoFanouts, AndFanouts, Fanins
<1>18. Strashed'
  <2>1. \A m \in Ands' : fanin'[m] = Ordered(fanin'[m][1], fanin'[m][2])
    BY <1>4, <1>8, <1>10, <1>11 DEF IInv, Strashed
  <2>2. \A m \in Ands' : /\ 0 \notin {Regular(fanin'[m][1]), Regular(fanin'[m][2])}
                         /\ Regular(fanin'[m][1]) # Regular(fanin'[m][2])
    <3>1. \A m \in Ands : /\ 0 \notin {Regular(fanin'[m][1]), Regular(fanin'[m][2])}
                          /\ Regular(fanin'[m][1]) # Regular(fanin'[m][2])
      BY <1>10 DEF IInv, Strashed, Fanins
    <3> QED BY <1>4, <1>5, <1>8, <1>11, <1>15, <3>1
  <2>3. \A m, k \in Ands' : fanin'[m] = fanin'[k] => m = k
    BY <1>5, <1>8, <1>10, <1>11 DEF IInv, Strashed
  <2> QED BY <2>1, <2>2, <2>3 DEF Strashed, Fanins
<1>19. ExorRight'
  <2>1. \A m \in Ands : IsExorType(fanin, m) <=> IsExorType(fanin', m)
    <3> SUFFICES ASSUME NEW m \in Ands PROVE IsExorType(fanin, m) <=> IsExorType(fanin', m)
      OBVIOUS
    <3>1. \A i \in {1, 2} : fanin[m][i][1] \in Objects /\ fanin[m][i][1] # n
      BY <1>2, FaninFacts DEF n
    <3>2. \A i \in {1, 2} : /\ fanin[m][i][1] \in DOMAIN fanin <=> fanin[m][i][1] \in DOMAIN fanin'
                            /\ fanin[m][i][1] \in DOMAIN fanin =>
                                 fanin[fanin[m][i][1]] = fanin'[fanin[m][i][1]]
      BY <1>8, <1>10, <3>1 DEF Ands
    <3> QED BY <1>10, <3>2, ExorSame
  <2>2. \A m \in Ands' : m \in exor' <=> IsExorType(fanin', m)
    BY <1>8, <1>10, <2>1, <1>2 DEF IInv, ExorRight, n
  <2> QED BY <2>2, <1>13 DEF ExorRight, TypeOK
<1>20. LevelsOwed'
  <2>1. ASSUME NEW q, \A i \in {1, 2} : q[i][1] \in Objects
        PROVE  LevelOf(level, q) = LevelOf(level', q)
    <3>1. \A i \in {1, 2} : /\ q[i][1] \in DOMAIN level <=> q[i][1] \in DOMAIN level'
                            /\ q[i][1] \in DOMAIN level => level[q[i][1]] = level'[q[i][1]]
      BY <1>2, <1>8, <1>9, <1>10, <2>1 DEF n
    <3> QED BY <3>1, LevelSame
  <2>2. \A m \in Ands : level'[m] = LevelOf(level', fanin'[m])
    BY <1>8, <1>10, <2>1, FaninFacts DEF IInv, LevelsOwed
  <2>3. level'[n] = LevelOf(level', fanin'[n])
    <3>1. \A i \in {1, 2} : p[i][1] \in Objects
      BY <1>4, <1>7 DEF Regular
    <3>2. LevelOf(level, p) = LevelOf(level, <<p0, p1>>)
      BY <1>3, <1>9, LevelOrdered DEF p
    <3> QED BY <1>11, <2>1, <3>1, <3>2
  <2> QED BY <1>8, <2>2, <2>3 DEF LevelsOwed
<1> QED BY <1>13, <1>14, <1>17, <1>18, <1>19, <1>20 DEF IInv

(* The fanout is on the list of levels to be updated, which covers its own  *)
(* fanouts; EXOR marks are set anew wherever its fanins are looked at.      *)
LEMMA RebuildFanoutKeeps ==
  ASSUME IInv, NEW m \in Ands, RebuildFanout(m)
  PROVE  IInv'
<1> DEFINE q == NewFanins(m)
           p == Ordered(q[1], q[2])
           seen == {m} \cup AndFanouts(m)
<1>1. pc = "fanouts" /\ m \in cur.ands
  BY DEF RebuildFanout
<1>2. q[1] \in Edges /\ q[2] \in Edges /\ q[1] \in Edge /\ q[2] \in Edge
  BY <1>1, NewFaninsFacts
<1>3. p = <<q[1], q[2]>> \/ p = <<q[2], q[1]>>
  BY <1>2, OrderedFacts
<1>4. p = Ordered(p[1], p[2])
  BY <1>2, OrderedFacts
<1>5. /\ Regular(q[1]) # 0 /\ Regular(q[2]) # 0 /\ Regular(q[1]) # Regular(q[2])
      /\ \A n \in Ands : fanin[n] # p
  BY <1>2, LookupFails DEF RebuildFanout
<1>6. /\ fanin' = [fanin EXCEPT ![m] = p]
      /\ level' = [level EXCEPT ![m] = LevelOf(level, q)]
      /\ exor' = (exor \ seen) \cup {n \in seen : IsExorType(fanin', n)}
      /\ vLevels' = vLevels \cup {m}
      /\ cur' = [cur EXCEPT !.ands = @ \ {m}]
      /\ UNCHANGED <<po, nObjs, stack, dying, pc>>
  BY DEF RebuildFanout
<1>7. /\ fanin \in [Ands -> Edge \X Edge] /\ level \in [Ands -> Nat]
      /\ cur \in [old : Nat, new : Nat \X BOOLEAN, ands : SUBSET Ands, cos : SUBSET DOMAIN po]
      /\ exor \subseteq Ands /\ vLevels \subseteq Ands
  BY DEF IInv, TypeOK, Edge
<1>8. q[1][1] \in Objects /\ q[2][1] \in Objects
  BY <1>2 DEF Edges
<1> HIDE DEF q, p
<1>9. /\ Ands' = Ands /\ Objects' = Objects
      /\ fanin'[m] = p /\ \A n \in Ands : n # m => fanin'[n] = fanin[n]
      /\ \A n \in Ands : n # m => level'[n] = level[n]
      /\ DOMAIN level' = Ands
  BY <1>6, <1>7 DEF Ands, Objects
<1>10. /\ cur' \in [old : Nat, new : Nat \X BOOLEAN, ands : SUBSET Ands, cos : SUBSET DOMAIN po]
       /\ cur'.ands = cur.ands \ {m} /\ cur'.old = cur.old /\ cur'.new = cur.new
       /\ cur'.cos = cur.cos
  BY <1>6, <1>7
<1>11. TypeOK'
  <2>1. p \in Edge \X Edge
    BY <1>2, <1>3
  <2>2. fanin' \in [Ands -> Edge \X Edge]
    BY <1>6, <1>7, <2>1
  <2>3. level' \in [Ands -> Nat]
    BY <1>6, <1>7, LevelType
  <2>4. exor' \subseteq Ands /\ vLevels' \subseteq Ands
    BY <1>6, <1>7 DEF AndFanouts
  <2> QED BY <1>6, <1>9, <1>10, <2>2, <2>3, <2>4 DEF IInv, TypeOK, Edge
<1>12. Layout'
  BY <1>1, <1>6 DEF IInv, Layout
<1>13. {Regular(p[1]), Regular(p[2])} = {Regular(q[1]), Regular(q[2])}
  BY <1>3
<1>14. NothingStale'
  <2>1. \A n \in Ands : {Regular(fanin'[n][1]), Regular(fanin'[n][2])} \subseteq Objects
    <3>1. {Regular(q[1]), Regular(q[2])} \subseteq Objects
      BY <1>8 DEF Regular
    <3> QED BY <1>9, <1>13, <3>1 DEF IInv, NothingStale, Fanins
  <2>2. \A n \in cur'.ands : /\ n \in Ands
                             /\ cur'.old \in {Regular(fanin'[n][1]), Regular(fanin'[n][2])}
    BY <1>9, <1>10 DEF IInv, NothingStale, AndFanouts, Fanins
  <2>3. cur'.cos \subseteq {k \in DOMAIN po' : Regular(po'[k]) = cur'.old}
    BY <1>6, <1>10 DEF IInv, NothingStale, CoFanouts
  <2> QED BY <1>6, <1>9, <1>10, <2>1, <2>2, <2>3
          DEF IInv, NothingStale, CoFanouts, AndFanouts, Fanins
<1>15. Strashed'
  <2>1. \A n \in Ands : fanin'[n] = Ordered(fanin'[n][1], fanin'[n][2])
    BY <1>4, <1>9 DEF IInv, Strashed
  <2>2. \A n \in Ands : /\ 0 \notin {Regular(fanin'[n][1]), Regular(fanin'[n][2])}
                        /\ Regular(fanin'[n][1]) # Regular(fanin'[n][2])
    <3>1. \A n \in Ands : n # m => /\ 0 \notin {Regular(fanin'[n][1]), Regular(fanin'[n][2])}
                                   /\ Regular(fanin'[n][1]) # Regular(fanin'[n][2])
      BY <1>9 DEF IInv, Strashed, Fanins
    <3> QED BY <1>3, <1>5, <1>9, <1>13, <3>1
  <2>3. \A k, n \in Ands : fanin'[k] = fanin'[n] => k = n
    BY <1>5, <1>9 DEF IInv, Strashed
  <2> QED BY <1>9, <2>1, <2>2, <2>3 DEF Strashed, Fanins
<1>16. ExorRight'
  <2>1. \A n \in Ands \ seen : IsExorType(fanin, n) <=> IsExorType(fanin', n)
    <3> SUFFICES ASSUME NEW n \in Ands, n # m, m \notin Fanins(n)
                 PROVE  IsExorType(fanin, n) <=> IsExorType(fanin', n)
      BY DEF AndFanouts
    <3>1. \A i \in {1, 2} : fanin[n][i][1] # m
      BY FaninFacts
    <3>2. \A i \in {1, 2} : /\ fanin[n][i][1] \in DOMAIN fanin <=> fanin[n][i][1] \in DOMAIN fanin'
                            /\ fanin[n][i][1] \in DOMAIN fanin =>
                                 fanin[fanin[n][i][1]] = fanin'[fanin[n][i][1]]
      BY <1>9, <3>1 DEF Ands
    <3> QED BY <1>9, <3>2, ExorSame
  <2>2. seen \subseteq Ands
    BY DEF AndFanouts
  <2> HIDE DEF seen
  <2>3. \A n \in Ands : n \in exor' <=> IsExorType(fanin', n)
    BY <1>6, <2>1 DEF IInv, ExorRight
  <2>4. exor' \subseteq Ands
    BY <1>6, <1>7, <2>2
  <2> QED BY <1>9, <2>3, <2>4 DEF ExorRight
<1>17. LevelsOwed'
  <2> SUFFICES ASSUME NEW n \in Ands, {Regular(fanin'[n][1]), Regular(fanin'[n][2])} \cap vLevels' = {}
               PROVE  level'[n] = LevelOf(level', fanin'[n])
    BY <1>9 DEF LevelsOwed, Fanins
  <2>1. \A i \in {1, 2} : fanin'[n][i][1] # m /\ fanin'[n][i][1] \notin vLevels
    BY <1>6 DEF Regular
  <2>2. \A i \in {1, 2} : /\ fanin'[n][i][1] \in DOMAIN level <=> fanin'[n][i][1] \in DOMAIN level'
                          /\ fanin'[n][i][1] \in DOMAIN level =>
                               level[fanin'[n][i][1]] = level'[fanin'[n][i][1]]
    BY <1>7, <1>9, <2>1
  <2>3. LevelOf(level, fanin'[n]) = LevelOf(level', fanin'[n])
    BY <2>2, LevelSame
  <2>4. CASE n = m
    <3>1. LevelOf(level, p) = LevelOf(level, <<q[1], q[2]>>)
      BY <1>2, <1>7, LevelOrdered DEF p
    <3>2. LevelOf(level, <<q[1], q[2]>>) = LevelOf(level, q)
      BY DEF LevelOf
    <3>3. level'[m] = LevelOf(level, q)
      BY <1>6, <1>7
    <3> QED BY <1>9, <2>3, <2>4, <3>1, <3>2, <3>3
  <2>5. CASE n # m
    BY <1>9, <2>1, <2>3, <2>5 DEF IInv, LevelsOwed, Fanins, Regular
  <2> QED BY <2>4, <2>5
<1> QED BY <1>11, <1>12, <1>14, <1>15, <1>16, <1>17 DEF IInv

(* No node has the deleted one as a fanin, and nothing waits for it.        *)
LEMMA DeleteNodeKeeps ==
  ASSUME IInv, NEW n \in Ands, DeleteNode(n)
  PROVE  IInv'
<1>1. /\ AndFanouts(n) = {} /\ CoFanouts(n) = {}
      /\ pc \in {"delete", "clean"} /\ pc' = pc
      /\ dying # <<>> /\ n = Head(dying)
      /\ UNCHANGED <<po, nObjs, cur>>
  BY DEF DeleteNode, Dangling, HasFanouts
<1>2. /\ \A m \in Ands : n \notin Fanins(m)
      /\ \A k \in DOMAIN po : Regular(po[k]) # n
  BY <1>1 DEF AndFanouts, CoFanouts
<1>3. n \in Nat /\ n # 0 /\ n \notin 0 .. nPis
  BY StartsAssumption DEF IInv, TypeOK
<1>4. PICK at \in [1 .. Cardinality(Queued(n)) -> Queued(n)] :
        stack' = [i \in DOMAIN at |-> stack[at[i]]]
  BY DEF DeleteNode
<1>5. stack \in Seq([old : Nat, new : Nat \X BOOLEAN])
  BY DEF IInv, TypeOK
<1>6. /\ stack' \in Seq([old : Nat, new : Nat \X BOOLEAN])
      /\ \A i \in DOMAIN stack' : \E j \in Queued(n) : stack'[i] = stack[j]
  <2> DEFINE Replacement == [old : Nat, new : Nat \X BOOLEAN]
             k == Cardinality(Queued(n))
  <2>1. Queued(n) \subseteq DOMAIN stack
    BY DEF Queued
  <2>2. k \in Nat
    <3>1. IsFiniteSet(DOMAIN stack)
      <4>1. DOMAIN stack = 1 .. Len(stack) /\ Len(stack) \in Nat
        BY <1>5, LenProperties
      <4> QED BY <4>1, FS_Interval
    <3> QED BY <2>1, <3>1, FS_Subset, FS_CardinalityType
  <2>3. \A i \in DOMAIN stack : stack[i] \in Replacement
    <3>1. stack \in Seq(Replacement)
      BY <1>5
    <3> HIDE DEF Replacement
    <3> QED BY <3>1
  <2>4. /\ stack' \in [1 .. k -> Replacement]
        /\ \A i \in 1 .. k : stack'[i] = stack[at[i]] /\ at[i] \in Queued(n)
    <3> HIDE DEF Replacement, k
    <3>1. at \in [1 .. k -> Queued(n)]
      BY DEF k
    <3> QED BY <1>4, <2>1, <2>3, <3>1
  <2>5. stack' \in Seq(Replacement)
    <3> HIDE DEF Replacement, k
    <3> QED BY <2>2, <2>4, SeqAsFunction
  <2> QED BY <2>4, <2>5
<1>7. \A i \in DOMAIN stack' : Regular(stack'[i].new) \in Objects
  <2>1. Queued(n) \subseteq DOMAIN stack
    BY DEF Queued
  <2> QED BY <1>6, <2>1 DEF IInv, NothingStale
<1>8. cur = NoInt
  BY <1>1 DEF IInv, Layout
<1>9. CASE Awaited(n)
  <2>1. UNCHANGED <<fanin, level, exor, vLevels>> /\ dying' = Tail(dying)
    BY <1>9 DEF DeleteNode
  <2>2. Strashed' /\ ExorRight' /\ LevelsOwed'
    BY <2>1, NodesKept
  <2>3. dying' \in Seq(Nat)
    BY <1>1, <2>1, HeadTailProperties DEF IInv, TypeOK
  <2>4. TypeOK' /\ Layout'
    BY <1>1, <1>6, <2>1, <2>3 DEF IInv, TypeOK, Layout, Ands
  <2>5. NothingStale'
    BY <1>1, <1>7, <2>1 DEF IInv, NothingStale, Ands, Objects, Fanins, AndFanouts, CoFanouts
  <2> QED BY <2>2, <2>4, <2>5 DEF IInv
<1>10. CASE ~Awaited(n)
  <2>1. /\ fanin' = [m \in Ands \ {n} |-> fanin[m]]
        /\ level' = [m \in Ands \ {n} |-> level[m]]
        /\ exor' = exor \ {n} /\ vLevels' = vLevels \ {n}
        /\ dying' = <<Regular(fanin[n][1]), Regular(fanin[n][2])>> \o Tail(dying)
    BY <1>10 DEF DeleteNode
  <2>2. /\ Ands' = Ands \ {n} /\ Objects' = Objects \ {n}
        /\ \A m \in Ands' : fanin'[m] = fanin[m] /\ level'[m] = level[m]
        /\ DOMAIN level = Ands /\ DOMAIN level' = Ands \ {n}
    BY <1>3, <2>1 DEF Ands, Objects, IInv, TypeOK
  <2>3. \A i \in DOMAIN stack' : Regular(stack'[i].new) # n
    BY <1>6, <1>10 DEF Awaited
  <2>4. TypeOK'
    <3>1. dying' \in Seq(Nat)
      <4>1. Tail(dying) \in Seq(Nat)
        BY <1>1, HeadTailProperties DEF IInv, TypeOK
      <4>2. Regular(fanin[n][1]) \in Nat /\ Regular(fanin[n][2]) \in Nat
        BY FaninFacts DEF Edge, Regular
      <4>3. \A x, y \in Nat, s \in Seq(Nat) : <<x, y>> \o s \in Seq(Nat)
        BY ConcatProperties
      <4> QED BY <2>1, <4>1, <4>2, <4>3
    <3>2. fanin' \in [Ands' -> (Nat \X BOOLEAN) \X (Nat \X BOOLEAN)] /\ level' \in [Ands' -> Nat]
      BY <2>1, <2>2 DEF IInv, TypeOK
    <3>3. exor' \subseteq Ands' /\ vLevels' \subseteq Ands'
      BY <2>1, <2>2 DEF IInv, TypeOK
    <3>4. cur' \in [old : Nat, new : Nat \X BOOLEAN, ands : SUBSET Ands', cos : SUBSET DOMAIN po']
      BY <1>1, <1>8 DEF NoInt, Const1
    <3>5. Ands' \subseteq nPis + 1 .. nObjs'
      BY <1>1, <2>2 DEF IInv, TypeOK
    <3> QED BY <1>1, <1>6, <3>1, <3>2, <3>3, <3>4, <3>5 DEF IInv, TypeOK
  <2>5. Layout'
    BY <1>1, <2>1 DEF IInv, Layout
  <2>6. NothingStale'
    <3>1. \A m \in Ands' : {Regular(fanin'[m][1]), Regular(fanin'[m][2])} \subseteq Objects'
      BY <1>2, <2>2 DEF IInv, NothingStale, Fanins
    <3>2. \A k \in DOMAIN po' : Regular(po'[k]) \in Objects'
      BY <1>1, <1>2, <2>2 DEF IInv, NothingStale
    <3>3. Regular(cur'.new) \in Objects' /\ cur'.ands = {} /\ cur'.cos = {}
      BY <1>1, <1>3, <1>8, <2>2 DEF NoInt, Const1, Regular, IInv, NothingStale
    <3> QED BY <1>7, <2>2, <2>3, <3>1, <3>2, <3>3 DEF NothingStale, Fanins
  <2>7. Strashed'
    BY <2>2 DEF IInv, Strashed, Fanins
  <2>8. \A m \in Ands' : \A i \in {1, 2} : fanin[m][i][1] # n
    BY <1>2, <2>2, FaninFacts
  <2>9. ExorRight'
    <3>1. \A m \in Ands' : IsExorType(fanin, m) <=> IsExorType(fanin', m)
      <4> SUFFICES ASSUME NEW m \in Ands' PROVE IsExorType(fanin, m) <=> IsExorType(fanin', m)
        OBVIOUS
      <4>1. \A i \in {1, 2} : /\ fanin[m][i][1] \in DOMAIN fanin <=> fanin[m][i][1] \in DOMAIN fanin'
                              /\ fanin[m][i][1] \in DOMAIN fanin =>
                                   fanin[fanin[m][i][1]] = fanin'[fanin[m][i][1]]
        BY <2>2, <2>8 DEF Ands
      <4> QED BY <2>2, <4>1, ExorSame
    <3>2. \A m \in Ands' : m \in exor' <=> IsExorType(fanin', m)
      BY <2>1, <2>2, <3>1 DEF IInv, ExorRight
    <3> QED BY <2>4, <3>2 DEF ExorRight, TypeOK
  <2>10. LevelsOwed'
    <3> SUFFICES ASSUME NEW m \in Ands', {Regular(fanin'[m][1]), Regular(fanin'[m][2])} \cap vLevels' = {}
                 PROVE  level'[m] = LevelOf(level', fanin'[m])
      BY DEF LevelsOwed, Fanins
    <3>1. \A i \in {1, 2} : /\ fanin[m][i][1] \in DOMAIN level <=> fanin[m][i][1] \in DOMAIN level'
                            /\ fanin[m][i][1] \in DOMAIN level =>
                                 level[fanin[m][i][1]] = level'[fanin[m][i][1]]
      BY <2>1, <2>2, <2>8
    <3>2. LevelOf(level, fanin[m]) = LevelOf(level', fanin[m])
      BY <3>1, LevelSame
    <3>3. Fanins(m) \cap vLevels = {}
      BY <1>2, <2>1, <2>2 DEF Fanins
    <3> QED BY <2>2, <3>2, <3>3 DEF IInv, LevelsOwed
  <2> QED BY <2>4, <2>5, <2>6, <2>7, <2>9, <2>10 DEF IInv
<1> QED BY <1>9, <1>10

(* The levels that change are those of fanouts, which are put on the list.  *)
LEMMA UpdateLevelKeeps ==
  ASSUME IInv, NEW n \in Ands, UpdateLevel(n)
  PROVE  IInv'
<1> DEFINE changed == {m \in AndFanouts(n) : level[m] # LevelOf(level, fanin[m])}
<1>1. /\ pc = "levels"
      /\ level' = [m \in Ands |-> IF m \in changed THEN LevelOf(level, fanin[m]) ELSE level[m]]
      /\ vLevels' = (vLevels \ {n}) \cup changed
      /\ UNCHANGED <<fanin, po, nObjs, exor, stack, cur, dying, pc>>
  BY DEF UpdateLevel
<1>2. level \in [Ands -> Nat] /\ vLevels \subseteq Ands /\ changed \subseteq Ands
  BY DEF IInv, TypeOK, AndFanouts
<1>3. \A m \in Ands : LevelOf(level, fanin[m]) \in Nat
  BY <1>2, LevelType
<1>4. level' \in [Ands -> Nat]
  BY <1>1, <1>2, <1>3
<1>5. TypeOK'
  BY <1>1, <1>2, <1>4 DEF IInv, TypeOK, Ands
<1>6. Layout' /\ NothingStale'
  BY <1>1 DEF IInv, Layout, NothingStale, Ands, Objects, Fanins, AndFanouts, CoFanouts
<1>7. Strashed' /\ ExorRight'
  BY <1>1 DEF IInv, Strashed, ExorRight, Ands, Fanins
<1>8. LevelsOwed'
  <2> SUFFICES ASSUME NEW m \in Ands, Fanins(m) \cap vLevels' = {}
               PROVE  level'[m] = LevelOf(level', fanin[m])
    BY <1>1 DEF LevelsOwed, Ands, Fanins
  <2>1. \A i \in {1, 2} : fanin[m][i][1] \notin changed
    BY <1>1, FaninFacts
  <2> HIDE DEF changed
  <2>2. \A i \in {1, 2} : /\ fanin[m][i][1] \in DOMAIN level <=> fanin[m][i][1] \in DOMAIN level'
                          /\ fanin[m][i][1] \in DOMAIN level =>
                               level[fanin[m][i][1]] = level'[fanin[m][i][1]]
    BY <1>1, <1>2, <2>1
  <2>3. LevelOf(level, fanin[m]) = LevelOf(level', fanin[m])
    BY <2>2, LevelSame
  <2>4. CASE m \in changed
    BY <1>1, <2>3, <2>4
  <2>5. CASE m \notin changed
    <3>1. level'[m] = level[m]
      BY <1>1, <2>5
    <3>2. CASE n \in Fanins(m)
      BY <2>3, <2>5, <3>1, <3>2 DEF changed, AndFanouts
    <3>3. CASE n \notin Fanins(m)
      BY <1>1, <2>3, <3>1, <3>3 DEF IInv, LevelsOwed
    <3> QED BY <3>2, <3>3
  <2> QED BY <2>4, <2>5
<1> QED BY <1>5, <1>6, <1>7, <1>8 DEF IInv

LEMMA StutterKeeps ==
  ASSUME IInv, UNCHANGED vars
  PROVE  IInv'
<1>1. UNCHANGED <<fanin, po, nObjs, level, exor, vLevels, stack, cur, dying, pc>>
  BY DEF vars, graph
<1>2. Strashed' /\ ExorRight' /\ LevelsOwed'
  BY <1>1, NodesKept
<1>3. TypeOK' /\ Layout'
  BY <1>1 DEF IInv, TypeOK, Layout, Ands
<1>4. NothingStale'
  BY <1>1 DEF IInv, NothingStale, Ands, Objects, Fanins, AndFanouts, CoFanouts
<1> QED BY <1>2, <1>3, <1>4 DEF IInv

-----------------------------------------------------------------------------
(* What the nodes of a graph compute. *)

ObjectsOf(f) == 0 .. nPis \cup DOMAIN f

(* A finite graph without loops. *)
Graph(f) ==
  /\ IsFiniteSet(ObjectsOf(f)) /\ DOMAIN f \cap 0 .. nPis = {}
  /\ \A n \in DOMAIN f : \A i \in 1 .. 2 : f[n][i][1] \in ObjectsOf(f)
  /\ Loopless(f)

(* What an object computes when the others compute v. *)
Computes(f, v, m) ==
  IF m \in DOMAIN f THEN EdgeIn(v, f[m][1]) \cap EdgeIn(v, f[m][2])
                    ELSE {s \in Patterns : m = 0 \/ m \in s}

Valued(f, v) == v = [m \in ObjectsOf(f) |-> Computes(f, v, m)]

(* The equations hold on a set S of objects that is closed under fanins. *)
PartlyValued(f, S, v) ==
  /\ S \subseteq ObjectsOf(f) /\ 0 .. nPis \subseteq S
  /\ \A n \in S \cap DOMAIN f : \A i \in 1 .. 2 : f[n][i][1] \in S
  /\ v \in [S -> SUBSET Patterns]
  /\ \A m \in S : v[m] = Computes(f, v, m)

(* What an object computes depends on its fanins only. *)
LEMMA ComputesSame ==
  ASSUME NEW f, NEW v, NEW w, NEW m,
         m \in DOMAIN f => \A i \in 1 .. 2 : v[f[m][i][1]] = w[f[m][i][1]]
  PROVE  Computes(f, v, m) = Computes(f, w, m)
<1>1. CASE m \in DOMAIN f
  <2>1. /\ v[f[m][1][1]] = w[f[m][1][1]]
        /\ v[f[m][2][1]] = w[f[m][2][1]]
    BY <1>1
  <2>2. EdgeIn(v, f[m][1]) = EdgeIn(w, f[m][1]) /\ EdgeIn(v, f[m][2]) = EdgeIn(w, f[m][2])
    BY <2>1 DEF EdgeIn
  <2> QED BY <2>2 DEF Computes
<1>2. CASE m \notin DOMAIN f
  BY <1>2 DEF Computes
<1> QED BY <1>1, <1>2

LEMMA ComputesPatterns ==
  ASSUME NEW f, NEW v, NEW m,
         m \in DOMAIN f => \A i \in 1 .. 2 : v[f[m][i][1]] \in SUBSET Patterns
  PROVE  Computes(f, v, m) \in SUBSET Patterns
  BY DEF Computes, EdgeIn

(* Without loops the equations have one solution. *)
LEMMA ValuedOnce ==
  ASSUME NEW f, Graph(f), NEW v, Valued(f, v), NEW w, Valued(f, w)
  PROVE  v = w
<1> DEFINE B == {m \in DOMAIN f : v[m] # w[m]}
<1>1. /\ DOMAIN v = ObjectsOf(f) /\ DOMAIN w = ObjectsOf(f)
      /\ v = [m \in ObjectsOf(f) |-> v[m]] /\ w = [m \in ObjectsOf(f) |-> w[m]]
      /\ \A m \in ObjectsOf(f) : v[m] = Computes(f, v, m) /\ w[m] = Computes(f, w, m)
  BY DEF Valued
<1>2. \A m \in ObjectsOf(f) \ DOMAIN f : v[m] = w[m]
  BY <1>1 DEF Computes
<1>3. B = {}
  <2> SUFFICES ASSUME B # {} PROVE FALSE
    OBVIOUS
  <2>1. PICK n \in B : \A i \in 1 .. 2 : f[n][i][1] \notin B
    BY DEF Graph, Loopless
  <2>2. n \in DOMAIN f /\ n \in ObjectsOf(f) /\ v[n] # w[n]
    BY DEF ObjectsOf
  <2>3. \A i \in 1 .. 2 : f[n][i][1] \in ObjectsOf(f)
    BY <2>2 DEF Graph
  <2>4. \A i \in 1 .. 2 : v[f[n][i][1]] = w[f[n][i][1]]
    BY <1>2, <2>1, <2>3
  <2>5. Computes(f, v, n) = Computes(f, w, n)
    BY <2>4, ComputesSame
  <2> QED BY <1>1, <2>2, <2>5
<1>4. \A m \in ObjectsOf(f) : v[m] = w[m]
  BY <1>2, <1>3 DEF ObjectsOf
<1> QED BY <1>1, <1>4

(* A set of numbers has a least element. *)
LEMMA LeastNumber ==
  ASSUME NEW T \in SUBSET Nat, T # {}
  PROVE  \E m \in T : \A k \in T : m <= k
<1>1. PICK m \in T : \A k \in T : <<k, m>> \notin OpToRel(<, Nat)
  BY NatLessThanWellFounded, WFMin
<1>2. \A k \in T : ~(k < m)
  BY <1>1 DEF OpToRel
<1> QED BY <1>2

(* And there is one: a node whose fanins have their values gets its own. *)
LEMMA ValuedGrows ==
  ASSUME NEW f, Graph(f), NEW S, NEW v, PartlyValued(f, S, v), S # ObjectsOf(f)
  PROVE  \E n \in ObjectsOf(f) \ S : \E w : PartlyValued(f, S \cup {n}, w)
<1>1. /\ S \subseteq ObjectsOf(f) /\ 0 .. nPis \subseteq S
      /\ \A n \in S \cap DOMAIN f : \A i \in 1 .. 2 : f[n][i][1] \in S
      /\ v \in [S -> SUBSET Patterns]
      /\ \A m \in S : v[m] = Computes(f, v, m)
  BY DEF PartlyValued
<1>2. PICK n \in ObjectsOf(f) \ S : \A i \in 1 .. 2 : f[n][i][1] \notin ObjectsOf(f) \ S
  <2>1. ObjectsOf(f) \ S # {} /\ ObjectsOf(f) \ S \subseteq DOMAIN f
    BY <1>1 DEF ObjectsOf
  <2> QED BY <2>1 DEF Graph, Loopless
<1>3. n \in DOMAIN f
  BY <1>1 DEF ObjectsOf
<1>4. \A i \in 1 .. 2 : f[n][i][1] \in S
  BY <1>2, <1>3 DEF Graph
<1> DEFINE T == S \cup {n}
           w == [m \in T |-> IF m = n THEN Computes(f, v, n) ELSE v[m]]
<1>5. w[n] = Computes(f, v, n) /\ \A m \in S : w[m] = v[m]
  OBVIOUS
<1>6. Computes(f, v, n) \in SUBSET Patterns
  <2>1. \A i \in 1 .. 2 : v[f[n][i][1]] \in SUBSET Patterns
    BY <1>1, <1>4
  <2> QED BY <2>1, ComputesPatterns
<1>7. w \in [T -> SUBSET Patterns]
  BY <1>1, <1>6
<1> HIDE DEF w
<1>8. ASSUME NEW m \in T PROVE w[m] = Computes(f, w, m)
  <2>1. m \in DOMAIN f => \A i \in 1 .. 2 : f[m][i][1] \in S
    BY <1>1, <1>4
  <2>2. m \in DOMAIN f => \A i \in 1 .. 2 : v[f[m][i][1]] = w[f[m][i][1]]
    BY <1>5, <2>1
  <2>3. Computes(f, v, m) = Computes(f, w, m)
    BY <2>2, ComputesSame
  <2> QED BY <1>1, <1>5, <2>3
<1>9. PartlyValued(f, T, w)
  BY <1>1, <1>2, <1>4, <1>7, <1>8 DEF PartlyValued
<1> QED BY <1>9

LEMMA ValuedExists ==
  ASSUME NEW f, Graph(f)
  PROVE  \E v \in [ObjectsOf(f) -> SUBSET Patterns] : Valued(f, v)
<1> DEFINE Left == {k \in Nat : \E S, v : /\ PartlyValued(f, S, v)
                                         /\ k = Cardinality(ObjectsOf(f) \ S)}
<1>1. Left # {}
  <2> DEFINE S0 == 0 .. nPis
             v0 == [m \in S0 |-> {s \in Patterns : m = 0 \/ m \in s}]
  <2>1. S0 \subseteq ObjectsOf(f) /\ S0 \cap DOMAIN f = {}
    BY DEF ObjectsOf, Graph
  <2>2. PartlyValued(f, S0, v0)
    BY <2>1 DEF PartlyValued, Computes
  <2>3. Cardinality(ObjectsOf(f) \ S0) \in Nat
    <3>1. IsFiniteSet(ObjectsOf(f)) /\ ObjectsOf(f) \ S0 \subseteq ObjectsOf(f)
      BY DEF Graph
    <3> QED BY <3>1, FS_Subset, FS_CardinalityType
  <2> QED BY <2>2, <2>3
<1>2. PICK k \in Left : \A j \in Left : k <= j
  <2>1. Left \in SUBSET Nat
    OBVIOUS
  <2> HIDE DEF Left
  <2> QED BY <1>1, <2>1, LeastNumber
<1>3. PICK S, v : PartlyValued(f, S, v) /\ k = Cardinality(ObjectsOf(f) \ S)
  OBVIOUS
<1>4. S = ObjectsOf(f)
  <2> SUFFICES ASSUME S # ObjectsOf(f) PROVE FALSE
    OBVIOUS
  <2>1. PICK n \in ObjectsOf(f) \ S : \E w : PartlyValued(f, S \cup {n}, w)
    BY <1>3, ValuedGrows
  <2> DEFINE R == ObjectsOf(f) \ S
  <2>2. IsFiniteSet(R)
    <3>1. IsFiniteSet(ObjectsOf(f)) /\ R \subseteq ObjectsOf(f)
      BY DEF Graph
    <3> QED BY <3>1, FS_Subset
  <2>3. ObjectsOf(f) \ (S \cup {n}) = R \ {n} /\ n \in R
    OBVIOUS
  <2> HIDE DEF R
  <2>4. Cardinality(R \ {n}) = Cardinality(R) - 1 /\ Cardinality(R) \in Nat
        /\ Cardinality(R \ {n}) \in Nat
    BY <2>2, <2>3, FS_RemoveElement, FS_CardinalityType
  <2>5. Cardinality(R \ {n}) \in Left
    BY <2>1, <2>3, <2>4
  <2>6. k = Cardinality(R)
    BY <1>3 DEF R
  <2> HIDE DEF Left
  <2>7. k <= Cardinality(R \ {n})
    BY <1>2, <2>5
  <2> QED BY <2>4, <2>6, <2>7
<1>5. v \in [ObjectsOf(f) -> SUBSET Patterns] /\ \A m \in ObjectsOf(f) : v[m] = Computes(f, v, m)
  BY <1>3, <1>4 DEF PartlyValued
<1>6. Valued(f, v)
  BY <1>5 DEF Valued
<1> QED BY <1>5, <1>6

(* Values is that solution. *)
LEMMA ValuesAre ==
  ASSUME NEW f, Graph(f)
  PROVE  /\ Valued(f, Values(f))
         /\ Values(f) \in [ObjectsOf(f) -> SUBSET Patterns]
<1>1. PICK v \in [ObjectsOf(f) -> SUBSET Patterns] : Valued(f, v)
  BY ValuedExists
<1>2. Values(f) = CHOOSE u : Valued(f, u)
  BY DEF Values, Valued, Computes, ObjectsOf
<1>3. Valued(f, Values(f))
  BY <1>1, <1>2
<1> QED BY <1>1, <1>3, ValuedOnce

(* A part of a graph computes what it does in the whole. *)
LEMMA PartComputes ==
  ASSUME NEW f, Graph(f), NEW g, Graph(g), DOMAIN f \subseteq DOMAIN g,
         \A n \in DOMAIN f : f[n] = g[n]
  PROVE  \A m \in ObjectsOf(f) : Values(f)[m] = Values(g)[m]
<1> DEFINE v == Values(g)
           w == [m \in ObjectsOf(f) |-> v[m]]
<1>1. \A m \in ObjectsOf(g) : v[m] = Computes(g, v, m)
  BY ValuesAre DEF Valued
<1>2. ObjectsOf(f) \subseteq ObjectsOf(g)
  BY DEF ObjectsOf
<1>3. ASSUME NEW m \in ObjectsOf(f) PROVE w[m] = Computes(f, w, m)
  <2>1. m \in DOMAIN f => \A i \in 1 .. 2 : f[m][i][1] \in ObjectsOf(f)
    BY DEF Graph
  <2> HIDE DEF v
  <2>2. m \in DOMAIN f => \A i \in 1 .. 2 : v[f[m][i][1]] = w[f[m][i][1]]
    BY <2>1
  <2>3. Computes(f, v, m) = Computes(f, w, m)
    <3> HIDE DEF w
    <3> QED BY <2>2, ComputesSame
  <2>4. Computes(g, v, m) = Computes(f, v, m)
    <3>1. m \in DOMAIN f <=> m \in DOMAIN g
      BY DEF ObjectsOf, Graph
    <3> QED BY <3>1 DEF Computes
  <2> QED BY <1>1, <1>2, <2>3, <2>4
<1>4. Valued(f, w)
  <2> DEFINE u == [m \in ObjectsOf(f) |-> Computes(f, w, m)]
  <2>1. DOMAIN w = DOMAIN u /\ \A m \in DOMAIN w : w[m] = u[m]
    BY <1>3
  <2> QED BY <1>3 DEF Valued
<1>5. Values(f) = w
  BY <1>4, ValuesAre, ValuedOnce
<1> QED BY <1>5

-----------------------------------------------------------------------------
(* The invariant holds in every reachable state of every network. *)
THEOREM InvHolds == Spec => []IInv
<1>1. Init => IInv
  BY InitHolds
<1>2. IInv /\ [Next]_vars => IInv'
  <2> SUFFICES ASSUME IInv, [Next]_vars PROVE IInv'
    OBVIOUS
  <2>1. ASSUME Caller PROVE IInv'
    BY <2>1, AigAndKeeps, CallsKeep DEF Caller
  <2>2. ASSUME Step PROVE IInv'
    BY <2>2, PopKeeps, PatchCoKeeps, MergeFanoutKeeps, RebuildFanoutKeeps, ControlKeeps,
       DeleteNodeKeeps, UpdateLevelKeeps DEF Step
  <2> QED BY <2>1, <2>2, StutterKeeps DEF Next
<1> QED BY <1>1, <1>2, PTL DEF Spec

(* Every variable keeps its type: in particular marks, EXORs and levels are *)
(* those of nodes of the network.                                           *)
THEOREM TypeCorrect == Spec => []TypeOK
<1>1. IInv => TypeOK
  BY DEF IInv
<1> QED BY <1>1, InvHolds, PTL

(* The graph is hashed at any time, its levels and EXOR marks are right     *)
(* when a call has returned: what Abc_AigCheck looks for.                   *)
THEOREM GraphChecks == Spec => []AigCheck
<1>1. IInv => AigCheck
  BY DEF IInv, AigCheck, LevelsRight, LevelsOwed, Layout
<1> QED BY <1>1, InvHolds, PTL

(* No node is deleted that a node, an output or a pending replacement still *)
(* needs, and the fanouts that were collected do not change before their    *)
(* turn.                                                                    *)
THEOREM NothingIsStale == Spec => []NothingStale
<1>1. IInv => NothingStale
  BY DEF IInv
<1> QED BY <1>1, InvHolds, PTL

-----------------------------------------------------------------------------
(* No loop is closed, as long as what replaces a node is not built from it. *)

LEMMA NoLoopAtFirst == Init => Loopless(fanin)
  BY StartsAssumption DEF Init, StartOK

(* Part of a graph without loops has none. *)
LEMMA PartLoopless ==
  ASSUME NEW f, Loopless(f), NEW g, DOMAIN g \subseteq DOMAIN f,
         \A n \in DOMAIN g : g[n] = f[n]
  PROVE  Loopless(g)
<1> SUFFICES ASSUME NEW B \in SUBSET DOMAIN g, B # {}
             PROVE  \E n \in B : \A i \in 1 .. 2 : g[n][i][1] \notin B
  BY DEF Loopless
<1>1. PICK n \in B : \A i \in 1 .. 2 : f[n][i][1] \notin B
  BY DEF Loopless
<1> QED BY <1>1

(* A new node is nobody's fanin. *)
LEMMA AigAndNoLoop ==
  ASSUME IInv, Loopless(fanin), NEW p0 \in Edges, NEW p1 \in Edges, AigAnd(p0, p1)
  PROVE  Loopless(fanin')
<1> DEFINE n == nObjs + 1
<1>1. n \notin Objects
  BY StartsAssumption DEF IInv, TypeOK, Layout, Objects
<1>2. /\ DOMAIN fanin' = Ands \cup {n} /\ fanin'[n] = Ordered(p0, p1)
      /\ \A m \in Ands : fanin'[m] = fanin[m] /\ m # n
  BY <1>1 DEF AigAnd, Ands, Objects
<1>3. \A i \in 1 .. 2 : fanin'[n][i][1] \in Objects
  <2>1. p0[1] \in Objects /\ p1[1] \in Objects
    BY DEF Edges
  <2>2. Ordered(p0, p1) = <<p0, p1>> \/ Ordered(p0, p1) = <<p1, p0>>
    BY DEF Ordered
  <2> QED BY <1>2, <2>1, <2>2
<1>4. \A m \in Ands : \A i \in 1 .. 2 : fanin'[m][i][1] \in Objects
  BY <1>2, FaninFacts
<1> HIDE DEF n
<1> SUFFICES ASSUME NEW B \in SUBSET (Ands \cup {n}), B # {}
             PROVE  \E m \in B : \A i \in 1 .. 2 : fanin'[m][i][1] \notin B
  BY <1>2 DEF Loopless
<1>5. CASE B = {n}
  BY <1>1, <1>3, <1>5
<1>6. CASE B # {n}
  <2>1. B \ {n} \in SUBSET DOMAIN fanin /\ B \ {n} # {}
    BY <1>6 DEF Ands
  <2>2. PICK m \in B \ {n} : \A i \in 1 .. 2 : fanin[m][i][1] \notin B \ {n}
    BY <2>1 DEF Loopless
  <2>3. m \in Ands
    BY <2>1 DEF Ands
  <2> QED BY <1>1, <1>2, <1>4, <2>2, <2>3
<1> QED BY <1>5, <1>6

(* The fanins of a rebuilt fanout: the new node and the other fanin. *)
LEMMA RebuiltFanins ==
  ASSUME IInv, NEW m \in Ands, RebuildFanout(m)
  PROVE  /\ DOMAIN fanin' = Ands /\ \A k \in Ands \ {m} : fanin'[k] = fanin[k]
         /\ fanin'[m] = Ordered(NewFanins(m)[1], NewFanins(m)[2])
         /\ \A i \in 1 .. 2 : fanin'[m][i][1] \in {Regular(cur.new)} \cup Fanins(m)
<1>1. /\ DOMAIN fanin' = Ands /\ \A k \in Ands \ {m} : fanin'[k] = fanin[k]
      /\ fanin'[m] = Ordered(NewFanins(m)[1], NewFanins(m)[2])
  BY DEF RebuildFanout, Ands
<1>2. /\ NewFanins(m)[1][1] = Regular(cur.new)
      /\ NewFanins(m)[2][1] \in Fanins(m)
  <2>1. NewFanins(m)[2] \in {fanin[m][1], fanin[m][2]}
    BY DEF NewFanins
  <2> QED BY <2>1, FaninFacts DEF NewFanins, NotCond, Regular
<1>3. \/ fanin'[m] = <<NewFanins(m)[1], NewFanins(m)[2]>>
      \/ fanin'[m] = <<NewFanins(m)[2], NewFanins(m)[1]>>
  BY <1>1 DEF Ordered
<1> QED BY <1>1, <1>2, <1>3

(* A loop through the rebuilt fanout would lead from the new node to it, and*)
(* so, before, from the new node to the old one.                            *)
LEMMA RebuildNoLoop ==
  ASSUME IInv, Loopless(fanin), NewApart, NEW m \in Ands, RebuildFanout(m)
  PROVE  Loopless(fanin')
<1>1. /\ DOMAIN fanin' = Ands /\ \A k \in Ands \ {m} : fanin'[k] = fanin[k]
      /\ \A i \in 1 .. 2 : fanin'[m][i][1] \in {Regular(cur.new)} \cup Fanins(m)
  BY RebuiltFanins
<1>2. PICK S \in SUBSET (Objects \ {cur.old}) :
        Regular(cur.new) \in S /\ \A k \in S \cap Ands : Fanins(k) \subseteq S
  BY DEF RebuildFanout, NewApart, BuiltWithout
<1>3. m \notin S
  <2>1. cur.old \in Fanins(m)
    BY DEF RebuildFanout, IInv, NothingStale, AndFanouts
  <2> QED BY <1>2, <2>1
<1> SUFFICES ASSUME NEW B \in SUBSET Ands, B # {}
             PROVE  \E n \in B : \A i \in 1 .. 2 : fanin'[n][i][1] \notin B
  BY <1>1 DEF Loopless
<1>4. \A n \in Ands : Fanins(n) = {fanin[n][1][1], fanin[n][2][1]}
  BY DEF Fanins, Regular
<1>5. CASE B \cap S # {}
  <2>1. B \cap S \in SUBSET DOMAIN fanin
    BY DEF Ands
  <2>2. PICK n \in B \cap S : \A i \in 1 .. 2 : fanin[n][i][1] \notin B \cap S
    BY <1>5, <2>1 DEF Loopless
  <2>3. \A i \in 1 .. 2 : fanin[n][i][1] \in S
    <3>1. n \in S \cap Ands
      OBVIOUS
    <3>2. Fanins(n) \subseteq S
      BY <1>2, <3>1
    <3>3. \A i \in {1, 2} : fanin[n][i][1] \in Fanins(n)
      BY FaninFacts, <3>1
    <3> QED BY <3>2, <3>3
  <2> QED BY <1>1, <1>3, <2>2, <2>3
<1>6. CASE B \cap S = {}
  <2>1. PICK n \in B : \A i \in 1 .. 2 : fanin[n][i][1] \notin B
    BY DEF Loopless, Ands
  <2>2. Regular(cur.new) \notin B
    BY <1>2, <1>6
  <2>3. CASE n = m
    <3>1. Fanins(m) \cap B = {}
      BY <1>4, <2>1, <2>3
    <3> QED BY <1>1, <2>2, <2>3, <3>1
  <2>4. CASE n # m
    BY <1>1, <2>1, <2>4
  <2> QED BY <2>3, <2>4
<1> QED BY <1>5, <1>6

LEMMA StepNoLoop ==
  ASSUME IInv, Loopless(fanin), NewApart, [Next]_vars
  PROVE  Loopless(fanin')
<1>1. CASE UNCHANGED fanin
  BY <1>1
<1>2. ASSUME Caller PROVE Loopless(fanin')
  <2>1. ASSUME NEW p0 \in Edges, NEW p1 \in Edges, AigAnd(p0, p1) PROVE Loopless(fanin')
    BY <2>1, AigAndNoLoop
  <2> QED BY <1>1, <1>2, <2>1 DEF Caller, Cleanup, Replace, graph
<1>3. ASSUME Step PROVE Loopless(fanin')
  <2>1. ASSUME NEW m \in Ands, RebuildFanout(m) PROVE Loopless(fanin')
    BY <2>1, RebuildNoLoop
  <2>2. ASSUME NEW n \in Ands, DeleteNode(n) PROVE Loopless(fanin')
    <3>1. fanin' = fanin \/ fanin' = [m \in Ands \ {n} |-> fanin[m]]
      BY <2>2 DEF DeleteNode
    <3>2. DOMAIN fanin' \subseteq DOMAIN fanin /\ \A m \in DOMAIN fanin' : fanin'[m] = fanin[m]
      BY <3>1 DEF Ands
    <3> QED BY <3>2, PartLoopless
  <2>3. ASSUME \/ Pop \/ (\E k \in DOMAIN po : PatchCo(k)) \/ (\E m \in Ands : MergeFanout(m))
               \/ FanoutsDone \/ NotCalled \/ DeleteDone
               \/ LevelsStart \/ (\E n \in Ands : UpdateLevel(n)) \/ LevelsDone
        PROVE  UNCHANGED fanin
    BY <2>3 DEF Pop, PatchCo, MergeFanout, FanoutsDone, NotCalled, DeleteDone, LevelsStart,
                UpdateLevel, LevelsDone, graph
  <2> QED BY <1>1, <1>3, <2>1, <2>2, <2>3 DEF Step
<1>4. CASE UNCHANGED vars
  BY <1>1, <1>4 DEF vars, graph
<1> QED BY <1>2, <1>3, <1>4 DEF Next

(* No cascade closes a loop as long as the replacements are apart: whenever *)
(* a pending one is made, the new node is not built from the old one.       *)
LEMMA LooplessIfApart == Spec /\ []NewApart => []Loopless(fanin)
<1>1. Init => Loopless(fanin)
  BY NoLoopAtFirst
<1>2. IInv /\ Loopless(fanin) /\ NewApart /\ [Next]_vars => Loopless(fanin)'
  BY StepNoLoop
<1> QED BY <1>1, <1>2, InvHolds, PTL DEF Spec
-----------------------------------------------------------------------------
(* Every replacement keeps what the network computes. *)

(* The stack is empty between two calls and when levels are updated. *)
NothingPending == pc \in {"idle", "clean", "levels"} => stack = <<>>

(* What is promised of a pending replacement: if the old node is there, the *)
(* new edge computes what it does.                                          *)
Promised ==
  /\ \A i \in DOMAIN stack : stack[i].old \in Objects =>
                               EdgeValue(stack[i].new) = Value(stack[i].old)
  /\ pc = "fanouts" => cur.old \in Objects /\ EdgeValue(cur.new) = Value(cur.old)
  /\ NothingPending

LEMMA GraphOfNetwork ==
  IInv /\ Loopless(fanin) => Graph(fanin) /\ ObjectsOf(fanin) = Objects
<1> SUFFICES ASSUME IInv, Loopless(fanin)
             PROVE  Graph(fanin) /\ ObjectsOf(fanin) = Objects
  OBVIOUS
<1>1. nPis \in Nat /\ nObjs \in Nat /\ Ands \subseteq nPis + 1 .. nObjs
  BY StartsAssumption DEF IInv, TypeOK
<1>2. ObjectsOf(fanin) = Objects
  BY DEF ObjectsOf, Objects, Ands
<1>3. DOMAIN fanin \cap 0 .. nPis = {}
  BY <1>1 DEF Ands
<1>4. IsFiniteSet(ObjectsOf(fanin))
  <2>1. IsFiniteSet(0 .. nObjs) /\ IsFiniteSet(0 .. nPis)
    BY <1>1, FS_Interval
  <2>2. Ands \subseteq 0 .. nObjs
    BY <1>1
  <2> QED BY <2>1, <2>2, FS_Subset, FS_Union DEF ObjectsOf, Ands
<1>5. \A n \in DOMAIN fanin : \A i \in 1 .. 2 : fanin[n][i][1] \in ObjectsOf(fanin)
  BY <1>2, FaninFacts DEF Ands
<1> QED BY <1>2, <1>3, <1>4, <1>5 DEF Graph

(* The values of the objects: every AND node is the AND of its fanins.      *)
LEMMA NodeValues ==
  ASSUME IInv, Loopless(fanin)
  PROVE  /\ \A n \in Ands : Value(n) = EdgeValue(fanin[n][1]) \cap EdgeValue(fanin[n][2])
         /\ Value(0) = Patterns
         /\ \A e \in Edges : EdgeValue(e) \in SUBSET Patterns
<1>1. Graph(fanin) /\ ObjectsOf(fanin) = Objects
  BY GraphOfNetwork
<1> DEFINE v == Values(fanin)
<1>2. v \in [Objects -> SUBSET Patterns] /\ \A m \in Objects : v[m] = Computes(fanin, v, m)
  BY <1>1, ValuesAre DEF Valued
<1>3. \A n \in Ands : Value(n) = EdgeValue(fanin[n][1]) \cap EdgeValue(fanin[n][2])
  BY <1>2 DEF Value, EdgeValue, Computes, Ands, Objects
<1>4. Value(0) = Patterns
  <2>1. 0 \in Objects /\ 0 \notin Ands
    BY StartsAssumption DEF IInv, TypeOK, Objects
  <2> QED BY <1>2, <2>1 DEF Value, Computes, Ands
<1>5. \A e \in Edges : EdgeValue(e) \in SUBSET Patterns
  <2> SUFFICES ASSUME NEW e \in Edges PROVE EdgeValue(e) \in SUBSET Patterns
    OBVIOUS
  <2>1. e[1] \in Objects
    BY DEF Edges
  <2>2. v[e[1]] \in SUBSET Patterns
    BY <1>2, <2>1
  <2> QED BY <2>2 DEF EdgeValue, EdgeIn
<1> QED BY <1>3, <1>4, <1>5

(* An edge, and the edge complemented. *)
LEMMA EdgeValues ==
  ASSUME NEW x, NEW c \in BOOLEAN
  PROVE  EdgeValue(<<x, c>>) = IF c THEN Patterns \ Value(x) ELSE Value(x)
  BY DEF EdgeValue, EdgeIn, Value

(* What Abc_AigAndLookup finds computes the AND of the two edges.           *)
LEMMA LookupValue ==
  ASSUME IInv, Loopless(fanin), NEW p0 \in Edges, NEW p1 \in Edges,
         NEW e \in AndLookup(p0, p1)
  PROVE  EdgeValue(e) = EdgeValue(p0) \cap EdgeValue(p1)
<1>1. EdgeValue(p0) \subseteq Patterns /\ EdgeValue(p1) \subseteq Patterns
  BY NodeValues
<1>2. EdgeValue(Const1) = Patterns /\ EdgeValue(Not(Const1)) = {}
  <2>1. Const1 = <<0, FALSE>> /\ Not(Const1) = <<0, TRUE>>
    BY DEF Const1, Not
  <2> QED BY <2>1, NodeValues, EdgeValues
<1>3. PICK x \in Objects, c \in BOOLEAN : p1 = <<x, c>>
  BY DEF Edges
<1>4. EdgeValue(Not(p1)) = Patterns \ EdgeValue(p1)
  <2> DEFINE d == ~c
  <2>1. Not(p1) = <<x, d>> /\ d \in BOOLEAN /\ (d <=> ~c)
    <3>1. p1[1] = x /\ p1[2] = c
      BY <1>3
    <3> QED BY <3>1 DEF Not
  <2>2. Value(x) \subseteq Patterns
    <3>1. <<x, FALSE>> \in Edges /\ EdgeValue(<<x, FALSE>>) = Value(x)
      BY EdgeValues DEF Edges
    <3> QED BY <3>1, NodeValues
  <2>3. EdgeValue(Not(p1)) = IF c THEN Value(x) ELSE Patterns \ Value(x)
    <3> HIDE DEF d
    <3> QED BY <2>1, EdgeValues
  <2>4. EdgeValue(p1) = IF c THEN Patterns \ Value(x) ELSE Value(x)
    BY <1>3, EdgeValues
  <2> QED BY <2>2, <2>3, <2>4
<1>5. CASE p0 = p1
  <2>1. e = p0
    BY <1>5 DEF AndLookup
  <2> QED BY <1>5, <2>1
<1>6. CASE p0 # p1 /\ (p0 = Not(p1) \/ Not(Const1) \in {p0, p1})
  <2>1. e = Not(Const1)
    BY <1>6 DEF AndLookup
  <2> QED BY <1>1, <1>2, <1>4, <1>6, <2>1
<1>7. CASE /\ p0 # p1 /\ p0 # Not(p1) /\ Not(Const1) \notin {p0, p1}
           /\ Const1 \in {p0, p1}
  <2>1. e \in {p0, p1} \ {Const1}
    BY <1>7 DEF AndLookup
  <2> QED BY <1>1, <1>2, <1>7, <2>1
<1>8. CASE /\ p0 # p1 /\ p0 # Not(p1) /\ Not(Const1) \notin {p0, p1}
           /\ Const1 \notin {p0, p1}
  <2>1. e \in {n \in Ands : fanin[n] = Ordered(p0, p1)} \X {FALSE}
    BY <1>8 DEF AndLookup
  <2>2. PICK n \in Ands : e = <<n, FALSE>> /\ fanin[n] = Ordered(p0, p1)
    <3> DEFINE K == {n \in Ands : fanin[n] = Ordered(p0, p1)}
               D == {FALSE}
    <3>1. \A n \in K : n \in Ands /\ fanin[n] = Ordered(p0, p1)
      OBVIOUS
    <3>2. e \in K \X D
      BY <2>1
    <3>3. \A d \in D : d = FALSE
      OBVIOUS
    <3> HIDE DEF K, D
    <3>4. PICK n \in K, d \in D : e = <<n, d>>
      BY <3>2
    <3>5. e = <<n, FALSE>>
      BY <3>3, <3>4
    <3> QED BY <3>1, <3>5
  <2>3. EdgeValue(e) = Value(n)
    BY <2>2, EdgeValues
  <2>4. fanin[n] = <<p0, p1>> \/ fanin[n] = <<p1, p0>>
    BY <2>2 DEF Ordered
  <2>5. {fanin[n][1], fanin[n][2]} = {p0, p1}
    BY <2>4
  <2>6. Value(n) = EdgeValue(fanin[n][1]) \cap EdgeValue(fanin[n][2])
    BY NodeValues
  <2> QED BY <2>3, <2>4, <2>6
<1> QED BY <1>5, <1>6, <1>7, <1>8

(* An edge to the new node in place of an edge to the old one.              *)
LEMMA NewEdgeValue ==
  ASSUME IInv, Loopless(fanin), Promised, pc = "fanouts",
         NEW e \in Edge, Regular(e) = cur.old
  PROVE  EdgeValue(NotCond(cur.new, e[2])) = EdgeValue(e)
<1>1. PICK x \in Nat, c \in BOOLEAN : cur.new = <<x, c>>
  BY DEF IInv, TypeOK
<1>2. PICK d \in BOOLEAN : e = <<cur.old, d>>
  BY DEF Edge, Regular
<1>3. Value(x) \subseteq Patterns
  <2>1. x \in Objects
    BY <1>1 DEF IInv, NothingStale, Regular
  <2>2. <<x, FALSE>> \in Edges /\ EdgeValue(<<x, FALSE>>) = Value(x)
    BY <2>1, EdgeValues DEF Edges
  <2> QED BY <2>2, NodeValues
<1>4. NotCond(cur.new, e[2]) = <<x, c # d>> /\ (c # d) \in BOOLEAN
  BY <1>1, <1>2 DEF NotCond
<1>5. Value(cur.old) = IF c THEN Patterns \ Value(x) ELSE Value(x)
  BY <1>1, EdgeValues DEF Promised
<1>6. EdgeValue(e) = IF d THEN Patterns \ Value(cur.old) ELSE Value(cur.old)
  BY <1>2, EdgeValues
<1>7. EdgeValue(<<x, c # d>>) = IF c # d THEN Patterns \ Value(x) ELSE Value(x)
  BY <1>4, EdgeValues
<1> HIDE DEF Patterns
<1>8. Patterns \ (Patterns \ Value(x)) = Value(x)
  BY <1>3
<1>9. CASE c = d
  BY <1>4, <1>5, <1>6, <1>7, <1>8, <1>9
<1>10. CASE c # d
  BY <1>4, <1>5, <1>6, <1>7, <1>8, <1>10
<1> QED BY <1>9, <1>10

(* The AND of the new fanins is that of the fanins.                         *)
LEMMA NewFaninsValue ==
  ASSUME IInv, Loopless(fanin), Promised, pc = "fanouts", NEW m \in cur.ands
  PROVE  EdgeValue(NewFanins(m)[1]) \cap EdgeValue(NewFanins(m)[2]) = Value(m)
<1>1. m \in Ands /\ cur.old \in Fanins(m)
  BY DEF IInv, TypeOK, NothingStale, AndFanouts
<1>2. fanin[m][1] \in Edge /\ fanin[m][2] \in Edge
  BY <1>1, FaninFacts
<1>3. Value(m) = EdgeValue(fanin[m][1]) \cap EdgeValue(fanin[m][2])
  BY <1>1, NodeValues
<1>4. CASE Regular(fanin[m][1]) = cur.old
  <2>1. NewFanins(m) = <<NotCond(cur.new, fanin[m][1][2]), fanin[m][2]>>
    BY <1>4 DEF NewFanins
  <2> QED BY <1>2, <1>3, <1>4, <2>1, NewEdgeValue
<1>5. CASE Regular(fanin[m][1]) # cur.old
  <2>1. NewFanins(m) = <<NotCond(cur.new, fanin[m][2][2]), fanin[m][1]>>
    BY <1>5 DEF NewFanins
  <2>2. Regular(fanin[m][2]) = cur.old
    BY <1>1, <1>5 DEF Fanins
  <2> QED BY <1>2, <1>3, <2>1, <2>2, NewEdgeValue
<1> QED BY <1>4, <1>5

(* A rebuilt fanout computes what it did.                                   *)
LEMMA RebuildKeepsValues ==
  ASSUME IInv, Loopless(fanin), Promised, Graph(fanin'), NEW m \in Ands, RebuildFanout(m)
  PROVE  Values(fanin') = Values(fanin)
<1> DEFINE v == Values(fanin)
<1>1. /\ DOMAIN fanin' = Ands /\ \A k \in Ands \ {m} : fanin'[k] = fanin[k]
      /\ fanin'[m] = Ordered(NewFanins(m)[1], NewFanins(m)[2])
  BY RebuiltFanins
<1>2. v = [k \in Objects |-> Computes(fanin, v, k)]
  BY GraphOfNetwork, ValuesAre DEF Valued
<1>3. EdgeIn(v, NewFanins(m)[1]) \cap EdgeIn(v, NewFanins(m)[2]) = v[m]
  <2>1. pc = "fanouts" /\ m \in cur.ands
    BY DEF RebuildFanout
  <2>2. EdgeValue(NewFanins(m)[1]) \cap EdgeValue(NewFanins(m)[2]) = Value(m)
    BY <2>1, NewFaninsValue
  <2> QED BY <2>2 DEF EdgeValue, Value
<1>4. Computes(fanin', v, m) = v[m]
  <2> HIDE DEF v
  <2>1. fanin'[m] = <<NewFanins(m)[1], NewFanins(m)[2]>>
        \/ fanin'[m] = <<NewFanins(m)[2], NewFanins(m)[1]>>
    BY <1>1 DEF Ordered
  <2>2. EdgeIn(v, fanin'[m][1]) \cap EdgeIn(v, fanin'[m][2]) = v[m]
    BY <1>3, <2>1
  <2> QED BY <1>1, <2>2 DEF Computes
<1>5. ObjectsOf(fanin') = Objects
  BY <1>1 DEF ObjectsOf, Objects
<1> HIDE DEF v
<1>6. ASSUME NEW k \in Objects PROVE v[k] = Computes(fanin', v, k)
  <2>1. CASE k = m
    BY <1>4, <2>1
  <2>2. CASE k # m
    <3>1. v[k] = Computes(fanin, v, k)
      BY <1>2
    <3>2. Computes(fanin', v, k) = Computes(fanin, v, k)
      BY <1>1, <2>2 DEF Computes, Ands
    <3> QED BY <3>1, <3>2
  <2> QED BY <2>1, <2>2
<1>7. Valued(fanin', v)
  <2>1. DOMAIN v = Objects /\ v = [k \in Objects |-> v[k]]
    BY <1>2
  <2>2. v = [k \in Objects |-> Computes(fanin', v, k)]
    BY <1>6, <2>1
  <2> QED BY <1>5, <2>2 DEF Valued
<1> QED BY <1>7, ValuesAre, ValuedOnce DEF v

(* No step changes what an object computes that is there before and after.  *)
LEMMA ValuesKept ==
  ASSUME IInv, Loopless(fanin), Promised, Graph(fanin'), [Next]_vars
  PROVE  \A m \in Objects \cap ObjectsOf(fanin') : Values(fanin')[m] = Values(fanin)[m]
<1>1. Graph(fanin) /\ ObjectsOf(fanin) = Objects
  BY GraphOfNetwork
<1>2. CASE UNCHANGED fanin
  BY <1>2
<1>3. ASSUME NEW p0 \in Edges, NEW p1 \in Edges, AigAnd(p0, p1)
      PROVE  \A m \in Objects \cap ObjectsOf(fanin') : Values(fanin')[m] = Values(fanin)[m]
  <2>1. nObjs + 1 \notin Ands
    BY StartsAssumption DEF IInv, TypeOK
  <2>2. /\ DOMAIN fanin \subseteq DOMAIN fanin'
        /\ \A n \in DOMAIN fanin : fanin[n] = fanin'[n]
    BY <1>3, <2>1 DEF AigAnd, Ands
  <2> QED BY <1>1, <2>2, PartComputes
<1>4. ASSUME NEW n \in Ands, DeleteNode(n)
      PROVE  \A m \in Objects \cap ObjectsOf(fanin') : Values(fanin')[m] = Values(fanin)[m]
  <2>1. fanin' = fanin \/ fanin' = [m \in Ands \ {n} |-> fanin[m]]
    BY <1>4 DEF DeleteNode
  <2>2. /\ DOMAIN fanin' \subseteq DOMAIN fanin
        /\ \A m \in DOMAIN fanin' : fanin'[m] = fanin[m]
    BY <2>1 DEF Ands
  <2> QED BY <1>1, <2>2, PartComputes
<1>5. ASSUME NEW m \in Ands, RebuildFanout(m) PROVE Values(fanin') = Values(fanin)
  BY <1>5, RebuildKeepsValues
<1>6. CASE Caller
  BY <1>2, <1>3, <1>6 DEF Caller, Cleanup, Replace, graph
<1>7. CASE Step
  <2>1. ASSUME \/ Pop \/ (\E k \in DOMAIN po : PatchCo(k)) \/ (\E m \in Ands : MergeFanout(m))
               \/ FanoutsDone \/ NotCalled \/ DeleteDone
               \/ LevelsStart \/ (\E n \in Ands : UpdateLevel(n)) \/ LevelsDone
        PROVE  UNCHANGED fanin
    BY <2>1 DEF Pop, PatchCo, MergeFanout, FanoutsDone, NotCalled, DeleteDone, LevelsStart,
                UpdateLevel, LevelsDone, graph
  <2> QED BY <1>2, <1>4, <1>5, <1>7, <2>1 DEF Step
<1>8. CASE UNCHANGED vars
  BY <1>2, <1>8 DEF vars, graph
<1> QED BY <1>6, <1>7, <1>8 DEF Next

(* Steps after which every entry of the stack was there before, or keeps its*)
(* promise already.                                                         *)
LEMMA EntriesKept ==
  ASSUME IInv, Promised, ObjectsOf(fanin') \subseteq Objects,
         \A m \in ObjectsOf(fanin') : Values(fanin')[m] = Values(fanin)[m],
         \A i \in DOMAIN stack' : Regular(stack'[i].new) \in ObjectsOf(fanin'),
         \A i \in DOMAIN stack' : \/ \E j \in DOMAIN stack : stack'[i] = stack[j]
                                  \/ EdgeValue(stack'[i].new) = Value(stack'[i].old)
  PROVE  \A i \in DOMAIN stack' : stack'[i].old \in ObjectsOf(fanin') =>
           EdgeIn(Values(fanin'), stack'[i].new) = Values(fanin')[stack'[i].old]
<1> SUFFICES ASSUME NEW i \in DOMAIN stack', stack'[i].old \in ObjectsOf(fanin')
             PROVE  EdgeIn(Values(fanin'), stack'[i].new) = Values(fanin')[stack'[i].old]
  OBVIOUS
<1>1. EdgeValue(stack'[i].new) = Value(stack'[i].old)
  BY DEF Promised
<1>2. EdgeIn(Values(fanin'), stack'[i].new) = EdgeIn(Values(fanin), stack'[i].new)
  <2>1. Values(fanin')[stack'[i].new[1]] = Values(fanin)[stack'[i].new[1]]
    BY DEF Regular
  <2> QED BY <2>1 DEF EdgeIn
<1> QED BY <1>1, <1>2 DEF EdgeValue, Value

(* The entries: none is added that does not keep its promise.               *)
LEMMA EntriesNext ==
  ASSUME IInv, Loopless(fanin), Promised, [Next]_vars,
         ~ \E p0, p1 \in Edges : AigAnd(p0, p1)
  PROVE  /\ ObjectsOf(fanin') \subseteq Objects
         /\ \A i \in DOMAIN stack' : \/ \E j \in DOMAIN stack : stack'[i] = stack[j]
                                     \/ EdgeValue(stack'[i].new) = Value(stack'[i].old)
<1> DEFINE Goal == /\ ObjectsOf(fanin') \subseteq Objects
                   /\ \A i \in DOMAIN stack' : \/ \E j \in DOMAIN stack : stack'[i] = stack[j]
                                               \/ EdgeValue(stack'[i].new) = Value(stack'[i].old)
<1>1. ASSUME fanin' = fanin, stack' = stack PROVE Goal
  BY <1>1 DEF ObjectsOf, Objects, Ands
<1>2. ASSUME NEW old \in Ands, NEW new \in Edges, Replace(old, new) PROVE Goal
  <2>1. fanin' = fanin /\ stack' = <<[old |-> old, new |-> new]>>
    BY <1>2 DEF Replace, graph
  <2>2. EdgeValue(new) = Value(old)
    BY <1>2 DEF Replace, Replaceable
  <2>3. \A i \in DOMAIN stack' : stack'[i].new = new /\ stack'[i].old = old
    BY <2>1
  <2> QED BY <2>1, <2>2, <2>3 DEF ObjectsOf, Objects, Ands
<1>3. ASSUME Pop PROVE Goal
  <2>1. fanin' = fanin /\ stack' = SubSeq(stack, 1, Len(stack) - 1) /\ stack # <<>>
    BY <1>3 DEF Pop, graph
  <2>2. stack \in Seq([old : Nat, new : Nat \X BOOLEAN])
    BY DEF IInv, TypeOK
  <2>3. \A i \in DOMAIN stack' : i \in DOMAIN stack /\ stack'[i] = stack[i]
    BY <2>1, <2>2, LastAndRest
  <2> QED BY <2>1, <2>3 DEF ObjectsOf, Objects, Ands
<1>4. ASSUME NEW m \in Ands, MergeFanout(m) PROVE Goal
  <2>1. pc = "fanouts" /\ m \in cur.ands /\ fanin' = fanin
    BY <1>4 DEF MergeFanout, graph
  <2>2. PICK e \in AndLookup(NewFanins(m)[1], NewFanins(m)[2]) :
          stack' = Append(stack, [old |-> m, new |-> e])
    BY <1>4 DEF MergeFanout
  <2>3. EdgeValue(e) = Value(m)
    <3>1. NewFanins(m)[1] \in Edges /\ NewFanins(m)[2] \in Edges
      BY <2>1, NewFaninsFacts
    <3> QED BY <2>1, <3>1, LookupValue, NewFaninsValue
  <2> DEFINE r == [old |-> m, new |-> e]
  <2>4. r.old = m /\ r.new = e
    OBVIOUS
  <2>5. \E Q : stack \in Seq(Q)
    BY DEF IInv, TypeOK
  <2> HIDE DEF r
  <2>6. \A i \in DOMAIN stack' : stack'[i] = r \/ (i \in DOMAIN stack /\ stack'[i] = stack[i])
    BY <2>2, <2>5 DEF r
  <2> QED BY <2>1, <2>3, <2>4, <2>6 DEF ObjectsOf, Objects, Ands
<1>5. ASSUME NEW m \in Ands, RebuildFanout(m) PROVE Goal
  <2>1. DOMAIN fanin' = DOMAIN fanin /\ stack' = stack
    BY <1>5 DEF RebuildFanout
  <2> QED BY <2>1 DEF ObjectsOf, Objects, Ands
<1>6. ASSUME NEW n \in Ands, DeleteNode(n) PROVE Goal
  <2>1. fanin' = fanin \/ fanin' = [m \in Ands \ {n} |-> fanin[m]]
    BY <1>6 DEF DeleteNode
  <2>2. PICK at \in [1 .. Cardinality(Queued(n)) -> Queued(n)] :
          stack' = [i \in DOMAIN at |-> stack[at[i]]]
    BY <1>6 DEF DeleteNode
  <2>3. Queued(n) \subseteq DOMAIN stack
    BY DEF Queued
  <2>4. \A i \in DOMAIN stack' : at[i] \in DOMAIN stack /\ stack'[i] = stack[at[i]]
    BY <2>2, <2>3
  <2> QED BY <2>1, <2>4 DEF ObjectsOf, Objects, Ands
<1>7. ASSUME \/ Cleanup \/ (\E k \in DOMAIN po : PatchCo(k)) \/ FanoutsDone \/ NotCalled
             \/ DeleteDone \/ LevelsStart \/ (\E n \in Ands : UpdateLevel(n)) \/ LevelsDone
             \/ UNCHANGED vars
      PROVE  Goal
  <2>1. fanin' = fanin /\ stack' = stack
    BY <1>7 DEF Cleanup, PatchCo, FanoutsDone, NotCalled, DeleteDone, LevelsStart, UpdateLevel,
                LevelsDone, vars, graph
  <2> QED BY <1>1, <2>1
<1> HIDE DEF Goal
<1>8. Goal
  BY <1>2, <1>3, <1>4, <1>5, <1>6, <1>7 DEF Next, Caller, Step
<1> QED BY <1>8 DEF Goal

(* Nothing is pending when a call returns. *)
LEMMA StackEmpties ==
  ASSUME IInv, NothingPending, [Next]_vars
  PROVE  NothingPending'
<1>1. CASE Caller
  BY <1>1 DEF Caller, AigAnd, Cleanup, Replace, Idle, NothingPending
<1>2. CASE Step
  <2>1. ASSUME NEW n \in Ands, DeleteNode(n), pc = "clean" PROVE stack' = <<>>
    <3>1. PICK at \in [1 .. Cardinality(Queued(n)) -> Queued(n)] :
            stack' = [i \in DOMAIN at |-> stack[at[i]]]
      BY <2>1 DEF DeleteNode
    <3>2. Queued(n) = {}
      BY <2>1 DEF NothingPending, Queued
    <3>3. Cardinality(Queued(n)) = 0
      BY <3>2, FS_EmptySet
    <3>4. DOMAIN at = {}
      BY <3>3
    <3> QED BY <3>1, <3>4
  <2>2. ASSUME NEW n \in Ands, DeleteNode(n) PROVE pc \in {"delete", "clean"} /\ pc' = pc
    BY <2>2 DEF DeleteNode
  <2>3. ASSUME \/ Pop \/ (\E k \in DOMAIN po : PatchCo(k))
               \/ (\E m \in Ands : MergeFanout(m) \/ RebuildFanout(m))
               \/ FanoutsDone \/ NotCalled \/ DeleteDone
               \/ LevelsStart \/ (\E n \in Ands : UpdateLevel(n)) \/ LevelsDone
        PROVE  NothingPending'
    BY <2>3 DEF NothingPending, Pop, PatchCo, MergeFanout, RebuildFanout, FanoutsDone, NotCalled,
                DeleteDone, LevelsStart, UpdateLevel, LevelsDone
  <2> QED BY <1>2, <2>1, <2>2, <2>3 DEF Step, NothingPending
<1>3. CASE UNCHANGED vars
  BY <1>3 DEF vars, NothingPending
<1> QED BY <1>1, <1>2, <1>3 DEF Next

(* The fields of the replacement under way. *)
LEMMA CurAsRecord == IInv => {"old", "new", "ands", "cos"} = DOMAIN cur
  BY DEF IInv, TypeOK

(* The replacement under way is one of the stack. *)
LEMMA CurrentKept ==
  ASSUME IInv, Promised, [Next]_vars, pc' = "fanouts",
         Regular(cur'.new) \in ObjectsOf(fanin'),
         \A m \in ObjectsOf(fanin') : Values(fanin')[m] = Values(fanin)[m]
  PROVE  /\ cur'.old \in ObjectsOf(fanin')
         /\ EdgeIn(Values(fanin'), cur'.new) = Values(fanin')[cur'.old]
<1> DEFINE Taken == cur'.old \in ObjectsOf(fanin') /\ EdgeValue(cur'.new) = Value(cur'.old)
<1>1. ASSUME Pop PROVE Taken
  <2> DEFINE top == stack[Len(stack)]
  <2>1. /\ HasFanouts(top.old) /\ UNCHANGED graph
        /\ cur'.old = top.old /\ cur'.new = top.new
    BY <1>1 DEF Pop
  <2>2. top.old \in Objects
    BY <2>1 DEF HasFanouts, AndFanouts, CoFanouts, IInv, NothingStale
  <2>3. Len(stack) \in DOMAIN stack
    <3>1. stack \in Seq([old : Nat, new : Nat \X BOOLEAN]) /\ stack # <<>>
      BY <1>1 DEF Pop, IInv, TypeOK
    <3> QED BY <3>1
  <2>4. EdgeValue(top.new) = Value(top.old)
    BY <2>2, <2>3 DEF Promised
  <2> QED BY <2>1, <2>2, <2>4 DEF graph, ObjectsOf, Objects, Ands
<1>2. ASSUME pc = "fanouts", cur'.old = cur.old, cur'.new = cur.new,
             DOMAIN fanin' = DOMAIN fanin
      PROVE  Taken
  BY <1>2 DEF Promised, ObjectsOf, Objects, Ands
<1> HIDE DEF Taken
<1>3. ASSUME Caller PROVE Taken
  BY <1>3 DEF Caller, AigAnd, Cleanup, Replace, Idle
<1>4. ASSUME Step PROVE Taken
  <2>1. ASSUME NEW k \in DOMAIN po, PatchCo(k) PROVE Taken
    <3>1. cur'.old = cur.old /\ cur'.new = cur.new
      BY <2>1, CurAsRecord DEF PatchCo
    <3>2. DOMAIN fanin' = DOMAIN fanin /\ pc = "fanouts"
      BY <2>1 DEF PatchCo
    <3> QED BY <3>1, <3>2, <1>2
  <2>2. ASSUME NEW m \in Ands, MergeFanout(m) PROVE Taken
    <3>1. cur'.old = cur.old /\ cur'.new = cur.new
      BY <2>2, CurAsRecord DEF MergeFanout
    <3>2. DOMAIN fanin' = DOMAIN fanin /\ pc = "fanouts"
      BY <2>2 DEF MergeFanout, graph
    <3> QED BY <3>1, <3>2, <1>2
  <2>3. ASSUME NEW m \in Ands, RebuildFanout(m) PROVE Taken
    <3>1. cur'.old = cur.old /\ cur'.new = cur.new
      BY <2>3, CurAsRecord DEF RebuildFanout
    <3>2. DOMAIN fanin' = DOMAIN fanin /\ pc = "fanouts"
      BY <2>3 DEF RebuildFanout
    <3> QED BY <3>1, <3>2, <1>2
  <2>4. \/ Pop \/ (\E k \in DOMAIN po : PatchCo(k))
        \/ (\E m \in Ands : MergeFanout(m) \/ RebuildFanout(m))
    BY <1>4 DEF Step, FanoutsDone, NotCalled, DeleteNode, DeleteDone, LevelsStart, UpdateLevel,
                LevelsDone
  <2> QED BY <1>1, <2>1, <2>2, <2>3, <2>4
<1>5. ASSUME UNCHANGED vars PROVE Taken
  <2>1. pc = "fanouts" /\ cur' = cur /\ fanin' = fanin
    BY <1>5 DEF vars, graph
  <2> QED BY <2>1, <1>2
<1>6. Taken
  BY <1>3, <1>4, <1>5 DEF Next
<1>7. Values(fanin')[cur'.new[1]] = Values(fanin)[cur'.new[1]]
  BY DEF Regular
<1> QED BY <1>6, <1>7 DEF Taken, EdgeValue, Value, EdgeIn

LEMMA PromiseKept ==
  ASSUME IInv, IInv', Loopless(fanin), Promised, Graph(fanin'), [Next]_vars
  PROVE  Promised'
<1> DEFINE w == Values(fanin')
           Promised2 == /\ \A i \in DOMAIN stack' : stack'[i].old \in ObjectsOf(fanin') =>
                             EdgeIn(w, stack'[i].new) = w[stack'[i].old]
                        /\ pc' = "fanouts" => /\ cur'.old \in ObjectsOf(fanin')
                                              /\ EdgeIn(w, cur'.new) = w[cur'.old]
                        /\ pc' \in {"idle", "clean", "levels"} => stack' = <<>>
<1>1. Promised2 => Promised'
  BY DEF Promised, NothingPending, EdgeValue, Value, ObjectsOf, Objects, Ands
<1>2. /\ Objects' = ObjectsOf(fanin')
      /\ \A i \in DOMAIN stack' : Regular(stack'[i].new) \in ObjectsOf(fanin')
      /\ Regular(cur'.new) \in ObjectsOf(fanin')
  BY DEF ObjectsOf, Objects, Ands, IInv, NothingStale
<1>3. \A m \in Objects \cap ObjectsOf(fanin') : w[m] = Values(fanin)[m]
  BY ValuesKept
<1>4. CASE \E p0, p1 \in Edges : AigAnd(p0, p1)
  <2>1. pc' = "idle" /\ stack' = <<>>
    BY <1>4 DEF AigAnd, Idle, Promised, NothingPending
  <2> QED BY <1>1, <2>1
<1>5. CASE ~ \E p0, p1 \in Edges : AigAnd(p0, p1)
  <2>1. ObjectsOf(fanin') \subseteq Objects
    BY <1>5, EntriesNext
  <2>2. \A m \in ObjectsOf(fanin') : w[m] = Values(fanin)[m]
    BY <1>3, <2>1
  <2>3. \A i \in DOMAIN stack' : stack'[i].old \in ObjectsOf(fanin') =>
          EdgeIn(w, stack'[i].new) = w[stack'[i].old]
    BY <1>2, <1>5, <2>1, <2>2, EntriesNext, EntriesKept
  <2>4. pc' \in {"idle", "clean", "levels"} => stack' = <<>>
    BY StackEmpties DEF Promised, NothingPending
  <2>5. ASSUME pc' = "fanouts"
        PROVE  cur'.old \in ObjectsOf(fanin') /\ EdgeIn(w, cur'.new) = w[cur'.old]
    BY <1>2, <1>5, <2>2, <2>5, CurrentKept
  <2> QED BY <1>1, <2>3, <2>4, <2>5
<1> QED BY <1>4, <1>5

(* Every step keeps what the outputs compute: an output is given a driver   *)
(* that computes the same, and no object computes anything new.             *)
LEMMA OutputsKept ==
  ASSUME IInv, IInv', Loopless(fanin), Promised, Graph(fanin'), [Next]_vars
  PROVE  Functions' = Functions
<1> DEFINE v == Values(fanin)
           w == Values(fanin')
<1>1. \A m \in Objects \cap ObjectsOf(fanin') : w[m] = v[m]
  BY ValuesKept
<1>2. /\ \A k \in DOMAIN po : Regular(po[k]) \in Objects
      /\ \A k \in DOMAIN po' : Regular(po'[k]) \in ObjectsOf(fanin')
  BY DEF IInv, NothingStale, ObjectsOf, Objects, Ands
<1>3. SUFFICES [k \in DOMAIN po' |-> EdgeIn(w, po'[k])] = [k \in DOMAIN po |-> EdgeIn(v, po[k])]
  BY DEF Functions, EdgeValue
<1>4. CASE po' = po
  <2>1. \A k \in DOMAIN po : EdgeIn(w, po[k]) = EdgeIn(v, po[k])
    <3>1. \A k \in DOMAIN po : w[po[k][1]] = v[po[k][1]]
      BY <1>1, <1>2, <1>4 DEF Regular
    <3> QED BY <3>1 DEF EdgeIn
  <2> HIDE DEF v, w
  <2> QED BY <1>4, <2>1
<1>5. ASSUME NEW k \in DOMAIN po, PatchCo(k)
      PROVE  [j \in DOMAIN po' |-> EdgeIn(w, po'[j])] = [j \in DOMAIN po |-> EdgeIn(v, po[j])]
  <2>1. /\ po' = [po EXCEPT ![k] = NotCond(cur.new, po[k][2])]
        /\ pc = "fanouts" /\ k \in cur.cos /\ fanin' = fanin
    BY <1>5 DEF PatchCo
  <2>2. EdgeValue(NotCond(cur.new, po[k][2])) = EdgeValue(po[k])
    <3>1. po[k] \in Edge
      BY DEF IInv, TypeOK, Edge
    <3>2. Regular(po[k]) = cur.old
      BY <2>1 DEF IInv, NothingStale, CoFanouts
    <3> QED BY <2>1, <3>1, <3>2, NewEdgeValue
  <2>3. DOMAIN po' = DOMAIN po /\ \A j \in DOMAIN po : EdgeIn(v, po'[j]) = EdgeIn(v, po[j])
    <3> HIDE DEF v
    <3>1. EdgeIn(v, po'[k]) = EdgeIn(v, po[k])
      BY <2>1, <2>2 DEF EdgeValue, v
    <3>2. \A j \in DOMAIN po \ {k} : po'[j] = po[j]
      BY <2>1
    <3> QED BY <2>1, <3>1, <3>2
  <2> QED BY <2>1, <2>3
<1>6. po' = po \/ \E k \in DOMAIN po : PatchCo(k)
  <2>1. CASE Caller
    BY <2>1 DEF Caller, AigAnd, Cleanup, Replace, graph
  <2>2. CASE Step
    BY <2>2 DEF Step, Pop, MergeFanout, RebuildFanout, FanoutsDone, NotCalled, DeleteNode,
                DeleteDone, LevelsStart, UpdateLevel, LevelsDone, graph
  <2>3. CASE UNCHANGED vars
    BY <2>3 DEF vars, graph
  <2> QED BY <2>1, <2>2, <2>3 DEF Next
<1> HIDE DEF v, w
<1> QED BY <1>4, <1>5, <1>6

(* No step of a replacement changes what an output of the network computes, *)
(* as long as, whenever a pending replacement is made, the new node is not  *)
(* built from the old one.                                                  *)
THEOREM OutputsKeepFunctions == Spec /\ []NewApart => FunctionsKept
<1>1. Init => Promised
  BY DEF Init, Promised, NothingPending
<1>2. /\ IInv /\ IInv' /\ Loopless(fanin) /\ Graph(fanin)' /\ Promised /\ [Next]_vars
      => Promised' /\ Functions' = Functions
  BY PromiseKept, OutputsKept DEF Graph, ObjectsOf
<1>4. /\ IInv /\ IInv' /\ Loopless(fanin) /\ Graph(fanin)' /\ Promised /\ [Next]_vars
      => [Functions' = Functions]_vars
  BY <1>2
<1>5. Spec /\ []NewApart => []IInv /\ []Loopless(fanin) /\ []Graph(fanin)
  BY GraphOfNetwork, InvHolds, LooplessIfApart, PTL
<1>6. Spec /\ []NewApart => [][Functions' = Functions]_vars
  BY <1>1, <1>2, <1>4, <1>5, PTL DEF Spec
<1> QED BY <1>6 DEF FunctionsKept
-----------------------------------------------------------------------------
(* When a loop can be closed at all: a merge leaves a replacement pending   *)
(* whose new node is apart from the old one, and only a fanout rebuilt      *)
(* while it is pending can put the one above the other.                     *)

(* BuiltWithout in any graph. *)
Apart(f, e, n) ==
  \E S \in SUBSET (ObjectsOf(f) \ {n}) :
    e[1] \in S /\ \A m \in S \cap DOMAIN f : \A i \in 1 .. 2 : f[m][i][1] \in S

(* The replacements on the stack, where the old node is still there. *)
EntriesApart ==
  \A i \in DOMAIN stack :
    stack[i].old \in Objects => Apart(fanin, stack[i].new, stack[i].old)

CurApart == pc = "fanouts" => Apart(fanin, cur.new, cur.old)

LEMMA ApartIs == CurApart <=> NewApart
  BY DEF CurApart, NewApart, Apart, BuiltWithout, ObjectsOf, Objects, Ands, Fanins, Regular

(* What is left after a deletion is as far apart as before. *)
LEMMA PartApart ==
  ASSUME NEW f, NEW g, NEW e, NEW n, Apart(f, e, n),
         DOMAIN g \subseteq DOMAIN f, \A m \in DOMAIN g : g[m] = f[m],
         e[1] \in ObjectsOf(g),
         \A m \in DOMAIN g : \A i \in 1 .. 2 : g[m][i][1] \in ObjectsOf(g)
  PROVE  Apart(g, e, n)
<1>1. PICK S \in SUBSET (ObjectsOf(f) \ {n}) :
        e[1] \in S /\ \A m \in S \cap DOMAIN f : \A i \in 1 .. 2 : f[m][i][1] \in S
  BY DEF Apart
<1> DEFINE T == S \cap ObjectsOf(g)
<1>2. T \in SUBSET (ObjectsOf(g) \ {n}) /\ e[1] \in T
  BY <1>1
<1>3. \A m \in T \cap DOMAIN g : \A i \in 1 .. 2 : g[m][i][1] \in T
  BY <1>1
<1> HIDE DEF T
<1> QED BY <1>2, <1>3 DEF Apart

(* A fanin is not built from its fanout.  Of the nodes built from m, and m, *)
(* each would have a fanin among them.                                      *)
LEMMA FaninApart ==
  ASSUME NEW f, Loopless(f), NEW m \in DOMAIN f, NEW i \in 1 .. 2,
         \A n \in DOMAIN f : \A j \in 1 .. 2 : f[n][j][1] \in ObjectsOf(f),
         DOMAIN f \cap 0 .. nPis = {}
  PROVE  Apart(f, f[m][i], m)
<1> DEFINE B == {n \in DOMAIN f : ~Apart(f, <<n, FALSE>>, m)}
<1> SUFFICES ASSUME ~Apart(f, f[m][i], m) PROVE FALSE
  OBVIOUS
<1>1. \A n \in ObjectsOf(f) : n \notin B => Apart(f, <<n, FALSE>>, m)
  <2> SUFFICES ASSUME NEW n \in 0 .. nPis PROVE Apart(f, <<n, FALSE>>, m)
    BY DEF ObjectsOf
  <2>1. n \notin DOMAIN f /\ n # m
    OBVIOUS
  <2>2. {n} \in SUBSET (ObjectsOf(f) \ {m}) /\ {n} \cap DOMAIN f = {}
    BY <2>1 DEF ObjectsOf
  <2> QED BY <2>2 DEF Apart
<1>2. m \in B
  BY DEF Apart
<1>3. f[m][i][1] \in B
  <2>1. f[m][i][1] \in ObjectsOf(f)
    OBVIOUS
  <2>2. Apart(f, <<f[m][i][1], FALSE>>, m) => Apart(f, f[m][i], m)
    BY DEF Apart
  <2> QED BY <1>1, <2>1, <2>2
<1>4. B \in SUBSET DOMAIN f /\ B # {}
  BY <1>2
<1>5. PICK n \in B : \A j \in 1 .. 2 : f[n][j][1] \notin B
  BY <1>4 DEF Loopless
<1>6. n # m
  BY <1>3, <1>5
<1>7. Apart(f, <<f[n][1][1], FALSE>>, m) /\ Apart(f, <<f[n][2][1], FALSE>>, m)
  <2>1. n \in DOMAIN f /\ 1 \in 1 .. 2 /\ 2 \in 1 .. 2
    BY <1>4, <1>5
  <2>2. f[n][1][1] \in ObjectsOf(f) /\ f[n][2][1] \in ObjectsOf(f)
    BY <2>1
  <2>3. f[n][1][1] \notin B /\ f[n][2][1] \notin B
    BY <1>5, <2>1
  <2> HIDE DEF B
  <2> QED BY <1>1, <2>2, <2>3
<1>8. PICK S1 \in SUBSET (ObjectsOf(f) \ {m}) :
        f[n][1][1] \in S1 /\ \A k \in S1 \cap DOMAIN f : \A j \in 1 .. 2 : f[k][j][1] \in S1
  BY <1>7 DEF Apart
<1>9. PICK S2 \in SUBSET (ObjectsOf(f) \ {m}) :
        f[n][2][1] \in S2 /\ \A k \in S2 \cap DOMAIN f : \A j \in 1 .. 2 : f[k][j][1] \in S2
  BY <1>7 DEF Apart
<1> DEFINE S == S1 \cup S2 \cup {n}
<1>10. S \in SUBSET (ObjectsOf(f) \ {m}) /\ n \in S
  BY <1>6 DEF ObjectsOf
<1>11. \A k \in S \cap DOMAIN f : \A j \in 1 .. 2 : f[k][j][1] \in S
  BY <1>8, <1>9
<1>12. Apart(f, <<n, FALSE>>, m)
  <2> HIDE DEF S, B
  <2> QED BY <1>10, <1>11 DEF Apart
<1> QED BY <1>5, <1>12

(* The node a fanout is merged into is not built from the fanout. *)
LEMMA MergedApart ==
  ASSUME IInv, Loopless(fanin), CurApart, pc = "fanouts", NEW m \in cur.ands,
         NEW e \in AndLookup(NewFanins(m)[1], NewFanins(m)[2])
  PROVE  Apart(fanin, e, m)
<1> DEFINE p0 == NewFanins(m)[1]
           p1 == NewFanins(m)[2]
<1>1. m \in Ands /\ p0 \in Edges /\ p1 \in Edges /\ p0 \in Edge /\ p1 \in Edge
  BY NewFaninsFacts
<1>2. PICK S \in SUBSET (ObjectsOf(fanin) \ {cur.old}) :
        cur.new[1] \in S /\ \A k \in S \cap DOMAIN fanin : \A i \in 1 .. 2 : fanin[k][i][1] \in S
  BY DEF CurApart, Apart
<1>3. \E i \in 1 .. 2 : fanin[m][i][1] = cur.old
  BY DEF IInv, NothingStale, AndFanouts, Fanins, Regular
<1>4. m \notin S
  BY <1>1, <1>2, <1>3 DEF Ands
<1>5. PICK i \in 1 .. 2 : p1 = fanin[m][i] /\ p1[1] # cur.old
  <2>1. fanin[m][1][1] # fanin[m][2][1]
    BY <1>1 DEF IInv, Strashed, Regular
  <2> QED BY <1>3, <2>1 DEF NewFanins, Regular
<1>6. Apart(fanin, p1, m)
  <2>1. 
        /\ \A n \in DOMAIN fanin : \A j \in 1 .. 2 : fanin[n][j][1] \in ObjectsOf(fanin)
        /\ DOMAIN fanin \cap 0 .. nPis = {}
    BY GraphOfNetwork DEF Graph
  <2> QED BY <1>1, <1>5, <2>1, FaninApart DEF Ands
<1>7. PICK T \in SUBSET (ObjectsOf(fanin) \ {m}) :
        p1[1] \in T /\ \A k \in T \cap DOMAIN fanin : \A j \in 1 .. 2 : fanin[k][j][1] \in T
  BY <1>6 DEF Apart
<1>8. p0[1] = cur.new[1]
  BY DEF NewFanins, NotCond
<1> HIDE DEF p0, p1
<1>9. CASE e[1] = p0[1]
  BY <1>2, <1>4, <1>8, <1>9 DEF Apart
<1>10. CASE e[1] = p1[1]
  BY <1>7, <1>10 DEF Apart
<1>11. CASE e[1] = 0
  <2>1. 0 \in 0 .. nPis /\ DOMAIN fanin \cap 0 .. nPis = {}
    BY GraphOfNetwork, StartsAssumption DEF Graph
  <2>2. {0} \in SUBSET (ObjectsOf(fanin) \ {m}) /\ {0} \cap DOMAIN fanin = {}
    BY <1>1, <2>1 DEF ObjectsOf, Ands
  <2> QED BY <1>11, <2>2 DEF Apart
<1>12. CASE e[1] \in Ands /\ fanin[e[1]] = Ordered(p0, p1)
  <2> DEFINE g == e[1]
             U == S \cup T \cup {g}
  <2>1. \A j \in 1 .. 2 : fanin[g][j][1] \in {p0[1], p1[1]}
    BY <1>12 DEF Ordered
  <2>2. g # m
    <3>1. p0[1] # cur.old /\ p1[1] # cur.old
      BY <1>2, <1>5, <1>8
    <3> QED BY <1>3, <2>1, <3>1
  <2>3. U \in SUBSET (ObjectsOf(fanin) \ {m}) /\ e[1] \in U
    BY <1>4, <1>12, <2>2 DEF ObjectsOf, Ands
  <2>4. \A k \in U \cap DOMAIN fanin : \A j \in 1 .. 2 : fanin[k][j][1] \in U
    BY <1>2, <1>7, <1>8, <2>1
  <2> HIDE DEF U
  <2> QED BY <2>3, <2>4 DEF Apart
<1>13. \/ e[1] = p0[1] \/ e[1] = p1[1] \/ e[1] = 0
       \/ e[1] \in Ands /\ fanin[e[1]] = Ordered(p0, p1)
  <2>1. e \in AndLookup(p0, p1)
    BY DEF p0, p1
  <2>2. Not(Const1)[1] = 0
    BY DEF Not, Const1
  <2> QED BY <2>1, <2>2 DEF AndLookup
<1> QED BY <1>9, <1>10, <1>11, <1>12, <1>13

(* Steps that leave the graph, or a part of it, as it was, and add to what  *)
(* is pending only what is apart.                                           *)
LEMMA EntriesStayApart ==
  ASSUME IInv, IInv', EntriesApart,
         DOMAIN fanin' \subseteq DOMAIN fanin, \A m \in DOMAIN fanin' : fanin'[m] = fanin[m],
         \A i \in DOMAIN stack' : \/ \E j \in DOMAIN stack : stack'[i] = stack[j]
                                  \/ Apart(fanin, stack'[i].new, stack'[i].old)
  PROVE  EntriesApart'
<1> SUFFICES ASSUME NEW i \in DOMAIN stack', stack'[i].old \in Objects'
             PROVE  Apart(fanin', stack'[i].new, stack'[i].old)
  BY DEF EntriesApart
<1>1. Objects' = ObjectsOf(fanin') /\ Objects' \subseteq Objects
  BY DEF ObjectsOf, Objects, Ands
<1>2. Apart(fanin, stack'[i].new, stack'[i].old)
  BY <1>1 DEF EntriesApart
<1>3. stack'[i].new[1] \in ObjectsOf(fanin')
  BY <1>1 DEF IInv, NothingStale, Regular
<1>4. \A m \in DOMAIN fanin' : \A j \in 1 .. 2 : fanin'[m][j][1] \in ObjectsOf(fanin')
  BY <1>1 DEF IInv, NothingStale, Regular, Fanins, Ands
<1> DEFINE e == stack'[i].new
           n == stack'[i].old
           g == fanin'
<1> HIDE DEF e, n, g
<1> QED BY <1>2, <1>3, <1>4, PartApart DEF e, n, g

LEMMA StepApart ==
  ASSUME IInv, IInv', Loopless(fanin), NothingPending, EntriesApart, CurApart, [Next]_vars,
         \A m \in Ands : RebuildFanout(m) => stack = <<>>
  PROVE  EntriesApart' /\ CurApart'
<1> DEFINE Goal == EntriesApart' /\ CurApart'
<1>1. ASSUME fanin' = fanin,
             pc' = "fanouts" => pc = "fanouts" /\ cur'.old = cur.old /\ cur'.new = cur.new,
             \A i \in DOMAIN stack' : \/ \E j \in DOMAIN stack : stack'[i] = stack[j]
                                      \/ Apart(fanin, stack'[i].new, stack'[i].old)
      PROVE  Goal
  BY <1>1, EntriesStayApart DEF CurApart
<1>2. ASSUME NEW old \in Ands, NEW new \in Edges, Replace(old, new) PROVE Goal
  <2>1. fanin' = fanin /\ stack' = <<[old |-> old, new |-> new]>> /\ pc' = "pop"
    BY <1>2 DEF Replace, graph
  <2>2. Apart(fanin, new, old)
    BY <1>2 DEF Replace, Replaceable, BuiltWithout, Apart, ObjectsOf, Objects, Ands, Fanins,
                Regular
  <2>3. \A i \in DOMAIN stack' : stack'[i].new = new /\ stack'[i].old = old
    BY <2>1
  <2> QED BY <1>1, <2>1, <2>2, <2>3
<1>3. ASSUME Pop PROVE Goal
  <2> DEFINE top == stack[Len(stack)]
  <2>1. /\ fanin' = fanin /\ stack' = SubSeq(stack, 1, Len(stack) - 1) /\ stack # <<>>
        /\ pc' = "fanouts" => cur'.old = top.old /\ cur'.new = top.new /\ HasFanouts(top.old)
    BY <1>3 DEF Pop, graph
  <2>2. stack \in Seq([old : Nat, new : Nat \X BOOLEAN])
    BY DEF IInv, TypeOK
  <2>3. /\ Len(stack) \in DOMAIN stack
        /\ \A i \in DOMAIN stack' : i \in DOMAIN stack /\ stack'[i] = stack[i]
    BY <2>1, <2>2, LastAndRest
  <2>4. ASSUME pc' = "fanouts" PROVE top.old \in Objects
    BY <2>1, <2>4 DEF HasFanouts, AndFanouts, CoFanouts, IInv, NothingStale
  <2>5. pc' = "fanouts" => Apart(fanin, top.new, top.old)
    BY <2>3, <2>4 DEF EntriesApart
  <2>6. CurApart'
    BY <2>1, <2>5 DEF CurApart
  <2>7. EntriesApart'
    BY <2>1, <2>3, EntriesStayApart
  <2> QED BY <2>6, <2>7
<1>4. ASSUME NEW m \in Ands, MergeFanout(m) PROVE Goal
  <2>1. pc = "fanouts" /\ m \in cur.ands /\ fanin' = fanin
        /\ cur' = [cur EXCEPT !.ands = @ \ {m}]
    BY <1>4 DEF MergeFanout, graph
  <2>2. PICK e \in AndLookup(NewFanins(m)[1], NewFanins(m)[2]) :
          stack' = Append(stack, [old |-> m, new |-> e])
    BY <1>4 DEF MergeFanout
  <2>3. Apart(fanin, e, m)
    BY <2>1, MergedApart
  <2> DEFINE r == [old |-> m, new |-> e]
  <2>4. r.old = m /\ r.new = e
    OBVIOUS
  <2>5. \E Q : stack \in Seq(Q)
    BY DEF IInv, TypeOK
  <2> HIDE DEF r
  <2>6. \A i \in DOMAIN stack' : stack'[i] = r \/ (i \in DOMAIN stack /\ stack'[i] = stack[i])
    BY <2>2, <2>5 DEF r
  <2>7. cur'.old = cur.old /\ cur'.new = cur.new
    BY <2>1, CurAsRecord
  <2> QED BY <1>1, <2>1, <2>3, <2>4, <2>6, <2>7
<1>5. ASSUME NEW m \in Ands, RebuildFanout(m) PROVE Goal
  <2>1. stack' = <<>>
    BY <1>5 DEF RebuildFanout
  <2>2. cur' = [cur EXCEPT !.ands = @ \ {m}] /\ pc = "fanouts" /\ m \in cur.ands
    BY <1>5 DEF RebuildFanout
  <2>3. cur'.old = cur.old /\ cur'.new = cur.new
    BY <2>2, CurAsRecord
  <2>4. DOMAIN fanin' = DOMAIN fanin /\ \A k \in DOMAIN fanin \ {m} : fanin'[k] = fanin[k]
    BY <1>5, RebuiltFanins DEF Ands
  <2>5. PICK S \in SUBSET (ObjectsOf(fanin) \ {cur.old}) :
          cur.new[1] \in S /\ \A k \in S \cap DOMAIN fanin : \A i \in 1 .. 2 : fanin[k][i][1] \in S
    BY <2>2 DEF CurApart, Apart
  <2>6. m \notin S
    BY <2>2, <2>5 DEF IInv, NothingStale, AndFanouts, Fanins, Regular, Ands
  <2>7. CurApart'
    BY <2>3, <2>4, <2>5, <2>6 DEF CurApart, Apart, ObjectsOf
  <2> QED BY <2>1, <2>7 DEF EntriesApart
<1>6. ASSUME NEW n \in Ands, DeleteNode(n) PROVE Goal
  <2>1. fanin' = fanin \/ fanin' = [m \in Ands \ {n} |-> fanin[m]]
    BY <1>6 DEF DeleteNode
  <2>2. PICK at \in [1 .. Cardinality(Queued(n)) -> Queued(n)] :
          stack' = [i \in DOMAIN at |-> stack[at[i]]]
    BY <1>6 DEF DeleteNode
  <2>3. Queued(n) \subseteq DOMAIN stack
    BY DEF Queued
  <2>4. \A i \in DOMAIN stack' : at[i] \in DOMAIN stack /\ stack'[i] = stack[at[i]]
    BY <2>2, <2>3
  <2>5. DOMAIN fanin' \subseteq DOMAIN fanin /\ \A m \in DOMAIN fanin' : fanin'[m] = fanin[m]
    BY <2>1 DEF Ands
  <2>6. CurApart'
    BY <1>6 DEF DeleteNode, CurApart
  <2> QED BY <2>4, <2>5, <2>6, EntriesStayApart
<1>7. ASSUME NEW p0 \in Edges, NEW p1 \in Edges, AigAnd(p0, p1) PROVE Goal
  BY <1>7 DEF AigAnd, Idle, NothingPending, EntriesApart, CurApart
<1>8. ASSUME \/ Cleanup \/ (\E k \in DOMAIN po : PatchCo(k)) \/ FanoutsDone \/ NotCalled
             \/ DeleteDone \/ LevelsStart \/ (\E n \in Ands : UpdateLevel(n)) \/ LevelsDone
             \/ UNCHANGED vars
      PROVE  Goal
  <2>1. fanin' = fanin /\ stack' = stack
    BY <1>8 DEF Cleanup, PatchCo, FanoutsDone, NotCalled, DeleteDone, LevelsStart, UpdateLevel,
                LevelsDone, vars, graph
  <2>2. pc' = "fanouts" => pc = "fanouts" /\ cur'.old = cur.old /\ cur'.new = cur.new
    <3>1. ASSUME NEW k \in DOMAIN po, PatchCo(k)
          PROVE  pc = "fanouts" /\ cur'.old = cur.old /\ cur'.new = cur.new
      BY <3>1, CurAsRecord DEF PatchCo
    <3> QED BY <1>8, <3>1 DEF Cleanup, FanoutsDone, NotCalled, DeleteDone, LevelsStart,
                              UpdateLevel, LevelsDone, vars
  <2> QED BY <1>1, <2>1, <2>2
<1> HIDE DEF Goal
<1>9. Goal
  BY <1>2, <1>3, <1>4, <1>5, <1>6, <1>7, <1>8 DEF Next, Caller, Step
<1> QED BY <1>9 DEF Goal

(* What holds until a fanout is rebuilt while another replacement waits. *)
InTurn == overlapped \/ (Loopless(fanin) /\ EntriesApart /\ CurApart)

(* A rebuilt fanout that leaves the history as it was had the stack empty. *)
LEMMA StepInTurn ==
  ASSUME IInv, IInv', NothingPending, InTurn, [Next]_vars
  PROVE  InTurn'
<1>1. CASE overlapped
  <2>1. overlapped' = overlapped \/ \E m \in Ands : RebuildFanout(m)
    BY DEF Next, Caller, Step, AigAnd, Cleanup, Replace, Pop, PatchCo, MergeFanout, FanoutsDone,
           NotCalled, DeleteNode, DeleteDone, LevelsStart, UpdateLevel, LevelsDone, vars
  <2> QED BY <1>1, <2>1 DEF RebuildFanout, InTurn
<1>2. CASE ~overlapped /\ overlapped'
  BY <1>2 DEF InTurn
<1>3. CASE ~overlapped /\ ~overlapped'
  <2>1. \A m \in Ands : RebuildFanout(m) => stack = <<>>
    BY <1>3 DEF RebuildFanout
  <2>2. Loopless(fanin) /\ EntriesApart /\ CurApart /\ NewApart
    BY <1>3, ApartIs DEF InTurn
  <2>3. Loopless(fanin)'
    BY <2>2, StepNoLoop
  <2>4. EntriesApart' /\ CurApart'
    BY <2>1, <2>2, StepApart
  <2> QED BY <2>3, <2>4 DEF InTurn
<1> QED BY <1>1, <1>2, <1>3

(* A loop takes a fanout rebuilt while another replacement is pending:      *)
(* cascades that only merge, and replacements that only rebuild, close none *)
(* in any graph, and when the turn of a replacement comes the new node is   *)
(* still not built from the old one.                                        *)
THEOREM LoopNeedsRebuild == Spec => []LoopsTakeOverlap
<1>1. Init => NothingPending /\ InTurn
  BY NoLoopAtFirst DEF Init, NothingPending, EntriesApart, CurApart, InTurn
<1>2. IInv /\ NothingPending /\ [Next]_vars => NothingPending'
  BY StackEmpties
<1>3. IInv /\ IInv' /\ NothingPending /\ InTurn /\ [Next]_vars => InTurn'
  BY StepInTurn
<1>4. InTurn => LoopsTakeOverlap
  BY ApartIs DEF InTurn, LoopsTakeOverlap, NoLoop
<1> QED BY <1>1, <1>2, <1>3, <1>4, InvHolds, PTL DEF Spec

(* And then no output of the network changes. *)
THEOREM FunctionsNeedRebuild == Spec /\ []~overlapped => FunctionsKept
<1>1. LoopsTakeOverlap /\ ~overlapped => NewApart
  BY DEF LoopsTakeOverlap
<1> QED BY <1>1, LoopNeedsRebuild, OutputsKeepFunctions, PTL
=============================================================================
