---------------------------- MODULE MCAigReplace ----------------------------
(* Networks for TLC: the hashed graphs of three AND nodes over two inputs    *)
(* whose first node is the AND of the inputs, and larger graphs in which one *)
(* replacement sets off a cascade of several.                                *)
EXTENDS AigReplace, SequencesExt

P(n) == <<n, FALSE>>
N(n) == <<n, TRUE>>

\* The AND nodes listed in order; the nodes without fanouts drive outputs.
Network(g) ==
  LET f == [n \in 3 .. Len(g) + 2 |-> g[n - 2]]
      upTo[k \in 2 .. Len(g) + 2] ==
        IF k = 2 THEN <<>>
        ELSE LET l == upTo[k - 1]
             IN  [n \in 3 .. k |-> IF n < k THEN l[n] ELSE LevelOf(l, f[k])]
      roots == {n \in DOMAIN f : \A m \in DOMAIN f : n \notin {f[m][1][1], f[m][2][1]}}
  IN  [fanin |-> f, level |-> upTo[Len(g) + 2], nObjs |-> Len(g) + 2,
       po |-> SetToSortSeq({P(n) : n \in roots}, LAMBDA e, d : e[1] < d[1])]

Pairs(n) == {p \in ((1 .. n) \X BOOLEAN) \X ((1 .. n) \X BOOLEAN) : p[1][1] < p[2][1]}
And      == <<P(1), P(2)>>

Small == {Network(<<And, p, q>>) : p \in Pairs(3) \ {And}, q \in Pairs(4) \ {And}}
Cascades == {
  \* 4 is 3: nodes that are to replace others lose their fanouts
  Network(<<And, <<P(2), P(3)>>, <<P(3), P(4)>>, <<P(3), P(5)>>, <<P(4), P(5)>>>>),
  Network(<<And, <<P(1), P(3)>>, <<P(3), N(4)>>, <<N(4), N(5)>>, <<P(4), P(5)>>, <<P(3), P(5)>>>>),
  \* 4 is constant: one fanout is put on the stack twice
  Network(<<<<P(1), N(2)>>, <<P(2), P(3)>>, <<P(3), P(4)>>, <<N(4), N(5)>>, <<P(5), P(6)>>>>),
  Network(<<And, <<N(2), P(3)>>, <<N(2), P(4)>>, <<P(1), N(4)>>, <<N(4), P(6)>>>>),
  \* 4 is 3, and becomes one in the fanins of what is an EXOR then
  Network(<<And, <<P(1), P(3)>>, <<P(2), P(4)>>, <<N(2), N(3)>>, <<N(5), N(6)>>>>) }

MCStarts == {s \in Small : StartOK(s)} \cup Cascades

\* 4 is 3, and 5 constant 0: the fanouts of 4 may be taken in the order 10, 6, 5.
\* Node 11, into which 10 is merged, is put above 10 by the cascade that starts
\* from 5 before the turn of 10 comes.
LoopStarts == {
  Network(<<And, <<P(1), P(3)>>, <<N(3), P(4)>>, <<P(1), P(4)>>, <<P(2), P(6)>>,
            <<P(5), P(7)>>, <<P(2), N(8)>>, <<P(4), P(9)>>, <<P(3), P(9)>>, <<P(2), P(3)>>>>) }
=============================================================================
