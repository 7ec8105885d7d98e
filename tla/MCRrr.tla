-------------------------------- MODULE MCRrr --------------------------------
(* Small AIGs for RrrRun. Edges are written P(n) and N(n); of the two fanins of *)
(* an AND the AIG manager keeps the smaller first.                             *)
EXTENDS RrrRun

P(n) == <<n, FALSE>>
N(n) == <<n, TRUE>>

\* b = y & z, t = ~x & b, a = x & ~t: b is needed by t only, and a is x.
Shadowed == [nPis |-> 3, ands |-> <<<<P(2), P(3)>>, <<N(1), P(4)>>, <<P(1), N(5)>>>>, outs |-> <<P(6)>>]

\* 7 and 6 are 4: what is left depends on the order in which fanins go.
Shared == [nPis |-> 3, ands |-> <<<<P(1), P(3)>>, <<N(1), P(2)>>, <<P(4), N(5)>>, <<P(1), P(4)>>>>,
           outs |-> <<P(6), P(7)>>]

\* 5 is the constant 0: an input of the window {6}.
Vanishing == [nPis |-> 3, ands |-> <<<<N(1), P(2)>>, <<P(1), P(4)>>, <<P(3), N(5)>>>>, outs |-> <<P(6)>>]

\* 5 is ~1: an input of the window {6, 7} is replaced by a complemented edge.
Inverted == [nPis |-> 3, ands |-> <<<<P(1), P(2)>>, <<N(1), N(4)>>, <<P(3), P(5)>>, <<P(2), P(6)>>>>, outs |-> <<P(7)>>]

\* 5 is 4: the window {6, 7} comes to have one node twice as an input.
Twins == [nPis |-> 3, ands |-> <<<<P(1), P(2)>>, <<P(1), P(4)>>, <<P(4), P(5)>>, <<P(3), P(6)>>>>, outs |-> <<P(7)>>]

\* 7 is 5: a node with 5 and 7 as fanins gets 5 twice, and 5 is then replaced.
Echo == [nPis |-> 3, ands |-> <<<<P(1), P(2)>>, <<P(3), P(4)>>, <<P(1), N(5)>>, <<P(5), N(6)>>, <<P(5), P(7)>>>>,
         outs |-> <<P(8)>>]

Way(w, m, d, s, g, t) == [way |-> w, fMultiThreading |-> m, fDeterministic |-> d,
                          fSort |-> s, fGreedy |-> g, fTimeout |-> t]

\* Windows are optimized by two workers, or by the main thread; there any order
\* of the fanins and any time limit is tried.
Threaded == Way("partitions", TRUE, TRUE, FALSE, TRUE, FALSE)
Serial == {Way("partitions", FALSE, TRUE, s, g, t) : s, g, t \in BOOLEAN}
Whole == {Way("copies", TRUE, TRUE, TRUE, TRUE, FALSE), Way("copies", TRUE, FALSE, TRUE, FALSE, FALSE),
          Way("copies", FALSE, TRUE, TRUE, TRUE, TRUE),
          Way("single", TRUE, TRUE, TRUE, TRUE, TRUE), Way("single", FALSE, TRUE, TRUE, FALSE, FALSE)}

CallsAll == ({Threaded} \X {Shadowed, Vanishing, Inverted, Twins, Echo})
              \cup (Serial \X {Shadowed, Vanishing, Inverted, Twins})
              \cup (Whole \X {Shared})
CallsSerial == Serial \X {Vanishing}
=============================================================================
