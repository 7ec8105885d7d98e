--------------------------- MODULE FrameStackProofs ---------------------------
(***************************************************************************)
(* The list of saved networks is sound, its steps count down, nothing      *)
(* leaks with backup on, and each command changes the history of networks  *)
(* as documented, for every number of addresses, every content and every   *)
(* setting of savesteps (module FrameStack).                               *)
(***************************************************************************)
EXTENDS FrameStack, FiniteSetTheorems, SequenceTheorems, WellFoundedInduction, TLAPS

(* The networks of sequence s are linked from pNtkCur on, without repetition.*)
Chain(f, s) ==
  /\ s \in Seq(DOMAIN f.ntks)
  /\ \A m, n \in 1 .. Len(s) : s[m] = s[n] => m = n
  /\ f.pNtkCur = IF s = <<>> THEN NULL ELSE s[1]
  /\ \A n \in 1 .. Len(s) :
       f.ntks[s[n]].pNetBackup = IF n < Len(s) THEN s[n + 1] ELSE NULL

Shape(f) ==
  /\ f = [ntks |-> f.ntks, pNtkCur |-> f.pNtkCur, nSteps |-> f.nSteps]
  /\ f.ntks = [a \in DOMAIN f.ntks |-> f.ntks[a]]
  /\ DOMAIN f.ntks \subseteq Addresses
  /\ f.nSteps \in Nat \ {0}
  /\ \A a \in DOMAIN f.ntks :
       f.ntks[a] \in [data : Data, pNetBackup : Addresses \cup {NULL}, iStep : 0 .. f.nSteps]

Numbered(f, s) == \A n \in 1 .. Len(s) : f.ntks[s[n]].iStep = f.nSteps - n + 1

Good(f, s) == Shape(f) /\ Chain(f, s) /\ Numbered(f, s)

(* The networks of a list, those outside it, and what a user sees.           *)
On(s) == {s[n] : n \in 1 .. Len(s)}
Loose(f, s) == DOMAIN f.ntks \ On(s)
Seen(f, s) == [n \in 1 .. Len(s) |-> f.ntks[s[n]].data]

-----------------------------------------------------------------------------
(* The walk along the list. *)

(* A set of numbers has a least element.                                     *)
LEMMA LeastOf ==
  ASSUME NEW T \in SUBSET Nat, T # {}
  PROVE  \E m \in T : \A k \in T : m <= k
<1>1. PICK m \in T : \A k \in T : <<k, m>> \notin OpToRel(<, Nat)
  BY NatLessThanWellFounded, WFMin
<1>2. \A k \in T : ~(k < m)
  BY <1>1 DEF OpToRel
<1> QED BY <1>2

LEMMA CardUpTo ==
  ASSUME NEW n \in Nat
  PROVE  Cardinality(1 .. n) = n
  BY FS_Interval

(* A list is never longer than there are addresses.                          *)
LEMMA ChainShort ==
  ASSUME NEW f, NEW s, Shape(f), Chain(f, s)
  PROVE  Len(s) \in Nat /\ Len(s) <= Cardinality(Addresses)
<1>1. Len(s) \in Nat /\ s \in [1 .. Len(s) -> Addresses]
  BY DEF Chain, Shape
<1>2. s \in Injection(1 .. Len(s), Addresses)
  BY <1>1 DEF Chain, Injection, IsInjective
<1>3. Cardinality(1 .. Len(s)) <= Cardinality(Addresses)
  BY <1>2, FS_Injection, FrameStackAssumption
<1> QED BY <1>1, <1>3, CardUpTo

(* The walk along the pointers finds the networks of a chain.                *)
LEMMA ListOfChain ==
  ASSUME NEW f, NEW s, Shape(f), Chain(f, s)
  PROVE  List(f) = s
<1> DEFINE K == Cardinality(Addresses) + 1
           Walk(h) == h = [n \in 1 .. K |-> IF n = 1 THEN f.pNtkCur
                                            ELSE Abc_NtkBackup(f, h[n - 1])]
           g == [n \in 1 .. K |-> IF n <= Len(s) THEN s[n] ELSE NULL]
<1>1. /\ Len(s) \in Nat /\ Len(s) < K /\ K \in Nat
      /\ s \in [1 .. Len(s) -> DOMAIN f.ntks]
  BY ChainShort, FS_CardinalityType, FrameStackAssumption DEF Chain
<1>2. NULL \notin DOMAIN f.ntks
  BY FrameStackAssumption DEF Shape
<1>3. Walk(g)
  <2>1. ASSUME NEW n \in 1 .. K, n # 1
        PROVE  g[n] = Abc_NtkBackup(f, g[n - 1])
    <3>1. n - 1 \in 1 .. K
      BY <1>1, <2>1
    <3>2. CASE n - 1 <= Len(s)
      <4>1. g[n - 1] = s[n - 1] /\ n - 1 \in 1 .. Len(s)
        BY <3>1, <3>2, <1>1
      <4>2. Abc_NtkBackup(f, g[n - 1]) = f.ntks[s[n - 1]].pNetBackup
        BY <1>1, <4>1 DEF Abc_NtkBackup
      <4>3. f.ntks[s[n - 1]].pNetBackup = IF n - 1 < Len(s) THEN s[n - 1 + 1] ELSE NULL
        BY <4>1 DEF Chain
      <4> QED BY <1>1, <4>2, <4>3
    <3>3. CASE ~(n - 1 <= Len(s))
      BY <1>1, <1>2, <3>1, <3>3 DEF Abc_NtkBackup
    <3> QED BY <3>2, <3>3
  <2>2. g[1] = f.pNtkCur
    <3>1. s = <<>> => Len(s) = 0
      OBVIOUS
    <3>2. s # <<>> => Len(s) # 0
      BY <1>1 DEF Chain
    <3> QED BY <1>1, <3>1, <3>2 DEF Chain
  <2> QED BY <1>1, <2>1, <2>2
<1>4. ASSUME NEW h, Walk(h)
      PROVE  h = g
  <2> DEFINE T == {n \in 1 .. K : h[n] # g[n]}
  <2>1. CASE T = {}
    <3>1. h = [n \in 1 .. K |-> h[n]] /\ g = [n \in 1 .. K |-> g[n]]
      BY <1>4
    <3> QED BY <2>1, <3>1
  <2>2. CASE T # {}
    <3>1. T \in SUBSET Nat
      BY <1>1
    <3>2. PICK m \in T : \A n \in T : m <= n
      BY <2>2, <3>1, LeastOf
    <3>3. m # 1
      BY <1>3, <1>4, <3>2
    <3>4. m - 1 \in 1 .. K /\ m - 1 \notin T
      BY <1>1, <3>2, <3>3
    <3>5. h[m] = Abc_NtkBackup(f, h[m - 1])
      BY <1>4, <3>2, <3>3
    <3>6. g[m] = Abc_NtkBackup(f, g[m - 1])
      BY <1>3, <3>2, <3>3
    <3>7. h[m - 1] = g[m - 1]
      BY <3>4
    <3> QED BY <3>2, <3>5, <3>6, <3>7
  <2> QED BY <2>1, <2>2
<1> DEFINE at == CHOOSE h : Walk(h)
<1>5. at = g
  <2> HIDE DEF Walk, g
  <2> QED BY <1>3, <1>4, Zenon
<1>6. List(f) = [n \in 1 .. Cardinality({m \in DOMAIN at : at[m] # NULL}) |-> at[n]]
  BY DEF List
<1>7. {m \in DOMAIN g : g[m] # NULL} = 1 .. Len(s)
  <2>1. \A m \in 1 .. Len(s) : s[m] # NULL
    BY <1>1, <1>2
  <2>2. DOMAIN g = 1 .. K /\ \A m \in 1 .. K : g[m] = IF m <= Len(s) THEN s[m] ELSE NULL
    OBVIOUS
  <2> HIDE DEF g, K
  <2>3. \A m \in 1 .. K : m <= Len(s) <=> m \in 1 .. Len(s)
    BY <1>1
  <2>4. 1 .. Len(s) \subseteq 1 .. K
    BY <1>1
  <2> QED BY <2>1, <2>2, <2>3, <2>4
<1>8. Cardinality(1 .. Len(s)) = Len(s)
  <2>1. Len(s) \in Nat
    BY <1>1
  <2> QED BY <2>1, CardUpTo
<1> HIDE DEF at
<1>9. List(f) = [n \in 1 .. Len(s) |-> g[n]]
  <2> HIDE DEF g, K
  <2>1. List(f) = [n \in 1 .. Cardinality({m \in DOMAIN g : g[m] # NULL}) |-> g[n]]
    BY <1>5, <1>6, Zenon
  <2>2. Cardinality({m \in DOMAIN g : g[m] # NULL}) = Len(s)
    BY <1>7, <1>8, Zenon
  <2> QED BY <2>1, <2>2, Zenon
<1>10. \A n \in 1 .. Len(s) : g[n] = s[n]
  BY <1>1
<1>11. s = [n \in 1 .. Len(s) |-> s[n]]
  BY <1>1
<1> QED BY <1>9, <1>10, <1>11

-----------------------------------------------------------------------------
(* The functions of mainFrame.c. *)

LEMMA GoodFacts ==
  ASSUME NEW f, NEW s, Good(f, s)
  PROVE  /\ Len(s) \in Nat /\ s \in [1 .. Len(s) -> DOMAIN f.ntks]
         /\ On(s) \subseteq DOMAIN f.ntks /\ DOMAIN f.ntks \subseteq Addresses
         /\ NULL \notin DOMAIN f.ntks
         /\ s = <<>> <=> Len(s) = 0
         /\ f.pNtkCur = IF Len(s) = 0 THEN NULL ELSE s[1]
         /\ f.pNtkCur # NULL <=> s # <<>>
         /\ List(f) = s
<1>1. /\ Len(s) \in Nat /\ s \in [1 .. Len(s) -> DOMAIN f.ntks]
      /\ s = <<>> <=> Len(s) = 0
  BY DEF Good, Chain
<1>2. DOMAIN f.ntks \subseteq Addresses /\ NULL \notin DOMAIN f.ntks
  BY FrameStackAssumption DEF Good, Shape
<1>3. On(s) \subseteq DOMAIN f.ntks
  BY <1>1 DEF On
<1>4. f.pNtkCur = IF Len(s) = 0 THEN NULL ELSE s[1]
  BY <1>1 DEF Good, Chain
<1>5. f.pNtkCur # NULL <=> s # <<>>
  BY <1>1, <1>2, <1>4
<1>6. List(f) = s
  BY ListOfChain DEF Good
<1> QED BY <1>1, <1>2, <1>3, <1>4, <1>5, <1>6

(* A new block of memory is in no list.                                      *)
LEMMA NewGood ==
  ASSUME NEW f, NEW s, Good(f, s), NEW a \in Addresses \ DOMAIN f.ntks, NEW d \in Data
  PROVE  LET g == New(f, a, d)
         IN  /\ Good(g, s) /\ a \in DOMAIN g.ntks /\ a \notin On(s)
             /\ DOMAIN g.ntks = DOMAIN f.ntks \cup {a}
             /\ g.ntks[a].data = d /\ Seen(g, s) = Seen(f, s)
             /\ g.nSteps = f.nSteps /\ g.pNtkCur = f.pNtkCur
             /\ Loose(g, s) = Loose(f, s) \cup {a}
<1> DEFINE new == [data |-> d, pNetBackup |-> NULL, iStep |-> 0]
           ntk == [x \in DOMAIN f.ntks \cup {a} |-> IF x = a THEN new ELSE f.ntks[x]]
           g == New(f, a, d)
<1>1. f = [ntks |-> f.ntks, pNtkCur |-> f.pNtkCur, nSteps |-> f.nSteps]
  BY DEF Good, Shape
<1>2. g = [ntks |-> ntk, pNtkCur |-> f.pNtkCur, nSteps |-> f.nSteps]
  BY <1>1 DEF New
<1>3. g.ntks = ntk /\ g.pNtkCur = f.pNtkCur /\ g.nSteps = f.nSteps
  BY <1>2
<1>4. /\ DOMAIN ntk = DOMAIN f.ntks \cup {a} /\ ntk[a] = new
      /\ \A x \in DOMAIN f.ntks : ntk[x] = f.ntks[x]
      /\ ntk = [x \in DOMAIN ntk |-> ntk[x]]
  OBVIOUS
<1>5. /\ new \in [data : Data, pNetBackup : Addresses \cup {NULL}, iStep : 0 .. f.nSteps]
      /\ new.data = d
  BY DEF Good, Shape
<1> HIDE DEF new, ntk, g
<1>6. Shape(g)
  BY <1>2, <1>3, <1>4, <1>5 DEF Good, Shape
<1>7. /\ Len(s) \in Nat /\ s \in [1 .. Len(s) -> DOMAIN f.ntks]
      /\ On(s) \subseteq DOMAIN f.ntks
  BY GoodFacts
<1>8. \A n \in 1 .. Len(s) : g.ntks[s[n]] = f.ntks[s[n]]
  BY <1>3, <1>4, <1>7
<1>9. s \in Seq(DOMAIN g.ntks)
  BY <1>3, <1>4 DEF Good, Chain
<1>10. Chain(g, s)
  BY <1>3, <1>8, <1>9 DEF Good, Chain
<1>11. Numbered(g, s)
  BY <1>3, <1>8 DEF Good, Numbered
<1>12. Seen(g, s) = Seen(f, s)
  BY <1>8 DEF Seen
<1>14. Loose(g, s) = Loose(f, s) \cup {a}
  BY <1>3, <1>4, <1>7 DEF Loose
<1> QED BY <1>3, <1>4, <1>5, <1>6, <1>7, <1>10, <1>11, <1>12, <1>14 DEF Good, g

(* The fields of two networks after assignments to them.                     *)
Entry(f, a, back, step) == [data |-> f.ntks[a].data, pNetBackup |-> back, iStep |-> step]

LEMMA Linked ==
  ASSUME NEW f, Shape(f), NEW a \in DOMAIN f.ntks, NEW back
  PROVE  [f.ntks EXCEPT ![a].pNetBackup = back]
           = [x \in DOMAIN f.ntks |-> IF x = a THEN Entry(f, a, back, f.ntks[a].iStep)
                                      ELSE f.ntks[x]]
<1>1. /\ f.ntks = [x \in DOMAIN f.ntks |-> f.ntks[x]]
      /\ f.ntks[a] \in [data : Data, pNetBackup : Addresses \cup {NULL}, iStep : 0 .. f.nSteps]
  BY DEF Shape
<1> QED BY <1>1 DEF Entry

LEMMA Stepped ==
  ASSUME NEW f, Shape(f), NEW a \in DOMAIN f.ntks, NEW step
  PROVE  [f.ntks EXCEPT ![a].iStep = step]
           = [x \in DOMAIN f.ntks |-> IF x = a THEN Entry(f, a, f.ntks[a].pNetBackup, step)
                                      ELSE f.ntks[x]]
<1>1. /\ f.ntks = [x \in DOMAIN f.ntks |-> f.ntks[x]]
      /\ f.ntks[a] \in [data : Data, pNetBackup : Addresses \cup {NULL}, iStep : 0 .. f.nSteps]
  BY DEF Shape
<1> QED BY <1>1 DEF Entry

LEMMA LinkedAndStepped ==
  ASSUME NEW f, Shape(f), NEW a \in DOMAIN f.ntks, NEW back, NEW step
  PROVE  [[f.ntks EXCEPT ![a].pNetBackup = back] EXCEPT ![a].iStep = step]
           = [x \in DOMAIN f.ntks |-> IF x = a THEN Entry(f, a, back, step) ELSE f.ntks[x]]
<1> DEFINE linked == [f.ntks EXCEPT ![a].pNetBackup = back]
<1>1. linked = [x \in DOMAIN f.ntks |-> IF x = a THEN Entry(f, a, back, f.ntks[a].iStep)
                                        ELSE f.ntks[x]]
  BY Linked
<1> HIDE DEF linked
<1>2. [linked EXCEPT ![a].iStep = step]
        = [x \in DOMAIN f.ntks |-> IF x = a THEN Entry(f, a, back, step) ELSE f.ntks[x]]
  BY <1>1 DEF Entry
<1> QED BY <1>2 DEF linked

(* One assignment after another.                                             *)
Fields(N, cur, steps) == [ntks |-> N, pNtkCur |-> cur, nSteps |-> steps]

TopOf(f, a, back, step, steps, cur) ==
  [f EXCEPT !.ntks[a].pNetBackup = back, !.ntks[a].iStep = step, !.nSteps = steps, !.pNtkCur = cur]

LEMMA AssignedTop ==
  ASSUME NEW f, Shape(f), NEW a, NEW back, NEW step, NEW steps, NEW cur
  PROVE  TopOf(f, a, back, step, steps, cur)
           = Fields([[f.ntks EXCEPT ![a].pNetBackup = back] EXCEPT ![a].iStep = step], cur, steps)
<1> DEFINE N0 == f.ntks
           f0 == f
           C == f.pNtkCur
           S == f.nSteps
           N1 == [N0 EXCEPT ![a].pNetBackup = back]
           f1 == [f0 EXCEPT !.ntks[a].pNetBackup = back]
           N2 == [N1 EXCEPT ![a].iStep = step]
           f2 == [f1 EXCEPT !.ntks[a].iStep = step]
           f3 == [f2 EXCEPT !.nSteps = steps]
           f4 == [f3 EXCEPT !.pNtkCur = cur]
<1>0. f0 = Fields(N0, C, S)
  BY DEF Shape, Fields
<1>1. f1 = Fields(N1, C, S)
  <2> HIDE DEF f0, N0, C, S
  <2> QED BY <1>0, SMT DEF Fields
<1>2. f2 = Fields(N2, C, S)
  <2> HIDE DEF f1, N1, C, S
  <2> QED BY <1>1, SMT DEF Fields
<1>3. f3 = Fields(N2, C, steps)
  <2> HIDE DEF f2, N2, C, S
  <2> QED BY <1>2, SMT DEF Fields
<1>4. f4 = Fields(N2, cur, steps)
  <2> HIDE DEF f3, N2, C, S
  <2> QED BY <1>3, SMT DEF Fields
<1> QED BY <1>4, Zenon DEF TopOf

PlaceOf(f, a, back, step, cur) ==
  [f EXCEPT !.ntks[a].pNetBackup = back, !.ntks[a].iStep = step, !.pNtkCur = cur]

LEMMA AssignedPlace ==
  ASSUME NEW f, Shape(f), NEW a, NEW back, NEW step, NEW cur
  PROVE  PlaceOf(f, a, back, step, cur)
           = Fields([[f.ntks EXCEPT ![a].pNetBackup = back] EXCEPT ![a].iStep = step], cur, f.nSteps)
<1> DEFINE N0 == f.ntks
           f0 == f
           C == f.pNtkCur
           S == f.nSteps
           N1 == [N0 EXCEPT ![a].pNetBackup = back]
           f1 == [f0 EXCEPT !.ntks[a].pNetBackup = back]
           N2 == [N1 EXCEPT ![a].iStep = step]
           f2 == [f1 EXCEPT !.ntks[a].iStep = step]
           f3 == [f2 EXCEPT !.pNtkCur = cur]
<1>0. f0 = Fields(N0, C, S)
  BY DEF Shape, Fields
<1>1. f1 = Fields(N1, C, S)
  <2> HIDE DEF f0, N0, C, S
  <2> QED BY <1>0, SMT DEF Fields
<1>2. f2 = Fields(N2, C, S)
  <2> HIDE DEF f1, N1, C, S
  <2> QED BY <1>1, SMT DEF Fields
<1>3. f3 = Fields(N2, cur, S)
  <2> HIDE DEF f2, N2, C, S
  <2> QED BY <1>2, SMT DEF Fields
<1> QED BY <1>3, Zenon DEF PlaceOf

AloneOf(f, a, step, steps, cur) ==
  [f EXCEPT !.ntks[a].iStep = step, !.nSteps = steps, !.pNtkCur = cur]

LEMMA AssignedAlone ==
  ASSUME NEW f, Shape(f), NEW a, NEW step, NEW steps, NEW cur
  PROVE  AloneOf(f, a, step, steps, cur)
           = Fields([f.ntks EXCEPT ![a].iStep = step], cur, steps)
<1> DEFINE N0 == f.ntks
           f0 == f
           C == f.pNtkCur
           S == f.nSteps
           N1 == [N0 EXCEPT ![a].iStep = step]
           f1 == [f0 EXCEPT !.ntks[a].iStep = step]
           f2 == [f1 EXCEPT !.nSteps = steps]
           f3 == [f2 EXCEPT !.pNtkCur = cur]
<1>0. f0 = Fields(N0, C, S)
  BY DEF Shape, Fields
<1>1. f1 = Fields(N1, C, S)
  <2> HIDE DEF f0, N0, C, S
  <2> QED BY <1>0, SMT DEF Fields
<1>2. f2 = Fields(N1, C, steps)
  <2> HIDE DEF f1, N1, C, S
  <2> QED BY <1>1, SMT DEF Fields
<1>3. f3 = Fields(N1, cur, steps)
  <2> HIDE DEF f2, N1, C, S
  <2> QED BY <1>2, SMT DEF Fields
<1> QED BY <1>3, Zenon DEF AloneOf

LinkOf(f, a, back) ==
  [f EXCEPT !.ntks[a].pNetBackup = back]

LEMMA AssignedLink ==
  ASSUME NEW f, Shape(f), NEW a, NEW back
  PROVE  LinkOf(f, a, back)
           = Fields([f.ntks EXCEPT ![a].pNetBackup = back], f.pNtkCur, f.nSteps)
<1> DEFINE N0 == f.ntks
           f0 == f
           C == f.pNtkCur
           S == f.nSteps
           N1 == [N0 EXCEPT ![a].pNetBackup = back]
           f1 == [f0 EXCEPT !.ntks[a].pNetBackup = back]
<1>0. f0 = Fields(N0, C, S)
  BY DEF Shape, Fields
<1>1. f1 = Fields(N1, C, S)
  <2> HIDE DEF f0, N0, C, S
  <2> QED BY <1>0, SMT DEF Fields
<1> QED BY <1>1, Zenon DEF LinkOf

SwapOf(f, a, back, step, b, back2, step2, cur) ==
  [f EXCEPT !.ntks[a].pNetBackup = back, !.ntks[a].iStep = step, !.ntks[b].pNetBackup = back2, !.ntks[b].iStep = step2, !.pNtkCur = cur]

SwapNets(f, a, back, step, b, back2, step2) ==
  [[[[f.ntks EXCEPT ![a].pNetBackup = back] EXCEPT ![a].iStep = step]
     EXCEPT ![b].pNetBackup = back2] EXCEPT ![b].iStep = step2]

LEMMA AssignedSwap ==
  ASSUME NEW f, Shape(f), NEW a, NEW back, NEW step, NEW b, NEW back2, NEW step2, NEW cur
  PROVE  SwapOf(f, a, back, step, b, back2, step2, cur)
           = Fields(SwapNets(f, a, back, step, b, back2, step2), cur, f.nSteps)
<1> DEFINE N0 == f.ntks
           f0 == f
           C == f.pNtkCur
           S == f.nSteps
           N1 == [N0 EXCEPT ![a].pNetBackup = back]
           f1 == [f0 EXCEPT !.ntks[a].pNetBackup = back]
           N2 == [N1 EXCEPT ![a].iStep = step]
           f2 == [f1 EXCEPT !.ntks[a].iStep = step]
           N3 == [N2
     EXCEPT ![b].pNetBackup = back2]
           f3 == [f2 EXCEPT !.ntks[b].pNetBackup = back2]
           N4 == [N3 EXCEPT ![b].iStep = step2]
           f4 == [f3 EXCEPT !.ntks[b].iStep = step2]
           f5 == [f4 EXCEPT !.pNtkCur = cur]
<1>0. f0 = Fields(N0, C, S)
  BY DEF Shape, Fields
<1>1. f1 = Fields(N1, C, S)
  <2> HIDE DEF f0, N0, C, S
  <2> QED BY <1>0, SMT DEF Fields
<1>2. f2 = Fields(N2, C, S)
  <2> HIDE DEF f1, N1, C, S
  <2> QED BY <1>1, SMT DEF Fields
<1>3. f3 = Fields(N3, C, S)
  <2> HIDE DEF f2, N2, C, S
  <2> QED BY <1>2, SMT DEF Fields
<1>4. f4 = Fields(N4, C, S)
  <2> HIDE DEF f3, N3, C, S
  <2> QED BY <1>3, SMT DEF Fields
<1>5. f5 = Fields(N4, cur, S)
  <2> HIDE DEF f4, N4, C, S
  <2> QED BY <1>4, SMT DEF Fields
<1> QED BY <1>5, Zenon DEF SwapOf, SwapNets

(* The same with the networks spelled out.                                   *)
Put(f, a, entry) == [x \in DOMAIN f.ntks |-> IF x = a THEN entry ELSE f.ntks[x]]

LEMMA TopFields ==
  ASSUME NEW f, Shape(f), NEW a \in DOMAIN f.ntks, NEW back, NEW step, NEW steps, NEW cur
  PROVE  TopOf(f, a, back, step, steps, cur) = Fields(Put(f, a, Entry(f, a, back, step)), cur, steps)
<1>1. [[f.ntks EXCEPT ![a].pNetBackup = back] EXCEPT ![a].iStep = step]
        = Put(f, a, Entry(f, a, back, step))
  BY LinkedAndStepped DEF Put
<1>2. TopOf(f, a, back, step, steps, cur)
        = Fields([[f.ntks EXCEPT ![a].pNetBackup = back] EXCEPT ![a].iStep = step], cur, steps)
  BY AssignedTop
<1> QED BY <1>1, <1>2

LEMMA PlaceFields ==
  ASSUME NEW f, Shape(f), NEW a \in DOMAIN f.ntks, NEW back, NEW step, NEW cur
  PROVE  PlaceOf(f, a, back, step, cur) = Fields(Put(f, a, Entry(f, a, back, step)), cur, f.nSteps)
<1>1. [[f.ntks EXCEPT ![a].pNetBackup = back] EXCEPT ![a].iStep = step]
        = Put(f, a, Entry(f, a, back, step))
  BY LinkedAndStepped DEF Put
<1>2. PlaceOf(f, a, back, step, cur)
        = Fields([[f.ntks EXCEPT ![a].pNetBackup = back] EXCEPT ![a].iStep = step], cur, f.nSteps)
  BY AssignedPlace
<1> QED BY <1>1, <1>2

LEMMA AloneFields ==
  ASSUME NEW f, Shape(f), NEW a \in DOMAIN f.ntks, NEW step, NEW steps, NEW cur
  PROVE  AloneOf(f, a, step, steps, cur)
           = Fields(Put(f, a, Entry(f, a, f.ntks[a].pNetBackup, step)), cur, steps)
<1>1. [f.ntks EXCEPT ![a].iStep = step] = Put(f, a, Entry(f, a, f.ntks[a].pNetBackup, step))
  BY Stepped DEF Put
<1>2. AloneOf(f, a, step, steps, cur) = Fields([f.ntks EXCEPT ![a].iStep = step], cur, steps)
  BY AssignedAlone
<1> QED BY <1>1, <1>2

LEMMA LinkFields ==
  ASSUME NEW f, Shape(f), NEW a \in DOMAIN f.ntks, NEW back
  PROVE  LinkOf(f, a, back)
           = Fields(Put(f, a, Entry(f, a, back, f.ntks[a].iStep)), f.pNtkCur, f.nSteps)
<1>1. [f.ntks EXCEPT ![a].pNetBackup = back] = Put(f, a, Entry(f, a, back, f.ntks[a].iStep))
  BY Linked DEF Put
<1>2. LinkOf(f, a, back) = Fields([f.ntks EXCEPT ![a].pNetBackup = back], f.pNtkCur, f.nSteps)
  BY AssignedLink
<1> QED BY <1>1, <1>2

LEMMA SwapFields ==
  ASSUME NEW f, Shape(f), NEW a \in DOMAIN f.ntks, NEW b \in DOMAIN f.ntks, a # b,
         NEW back, NEW step, NEW back2, NEW step2, NEW cur
  PROVE  SwapOf(f, a, back, step, b, back2, step2, cur)
           = Fields([x \in DOMAIN f.ntks |-> IF x = a THEN Entry(f, a, back, step)
                                             ELSE IF x = b THEN Entry(f, b, back2, step2)
                                             ELSE f.ntks[x]], cur, f.nSteps)
<1> DEFINE N1 == [[f.ntks EXCEPT ![a].pNetBackup = back] EXCEPT ![a].iStep = step]
           N2 == [N1 EXCEPT ![b].pNetBackup = back2]
           N3 == [N2 EXCEPT ![b].iStep = step2]
<1>1. N1 = [x \in DOMAIN f.ntks |-> IF x = a THEN Entry(f, a, back, step) ELSE f.ntks[x]]
  BY LinkedAndStepped
<1>2. f.ntks[b] \in [data : Data, pNetBackup : Addresses \cup {NULL}, iStep : 0 .. f.nSteps]
  BY DEF Shape
<1>3. SwapOf(f, a, back, step, b, back2, step2, cur) = Fields(SwapNets(f, a, back, step, b, back2, step2), cur, f.nSteps)
  BY AssignedSwap
<1>7. SwapNets(f, a, back, step, b, back2, step2) = N3
  BY Zenon DEF SwapNets
<1> HIDE DEF N1
<1>4. N1[b] = f.ntks[b]
  BY <1>1
<1>5. N2 = [x \in DOMAIN f.ntks |-> IF x = a THEN Entry(f, a, back, step)
                                     ELSE IF x = b THEN Entry(f, b, back2, f.ntks[b].iStep)
                                     ELSE f.ntks[x]]
  BY <1>1, <1>2, <1>4 DEF Entry
<1> HIDE DEF N2
<1>6. N3 = [x \in DOMAIN f.ntks |-> IF x = a THEN Entry(f, a, back, step)
                                     ELSE IF x = b THEN Entry(f, b, back2, step2)
                                     ELSE f.ntks[x]]
  BY <1>5 DEF Entry
<1> HIDE DEF N3
<1> QED BY <1>3, <1>6, <1>7, Zenon

LEMMA Cons ==
  ASSUME NEW X, NEW a \in X, NEW s \in Seq(X)
  PROVE  /\ <<a>> \o s \in Seq(X) /\ Len(<<a>> \o s) = Len(s) + 1 /\ Len(s) \in Nat
         /\ \A n \in 1 .. (Len(s) + 1) : (<<a>> \o s)[n] = IF n = 1 THEN a ELSE s[n - 1]
<1> DEFINE one == <<a>>
<1>1. one \in Seq(X) /\ Len(one) = 1 /\ one[1] = a
  OBVIOUS
<1> HIDE DEF one
<1>2. /\ one \o s \in Seq(X)
      /\ Len(one \o s) = Len(one) + Len(s)
      /\ \A n \in 1 .. Len(one) + Len(s) :
           (one \o s)[n] = IF n <= Len(one) THEN one[n] ELSE s[n - Len(one)]
  BY <1>1, ConcatProperties, Zenon
<1>3. Len(s) \in Nat
  BY LenProperties
<1>4. \A n \in 1 .. (Len(s) + 1) : (one \o s)[n] = IF n = 1 THEN a ELSE s[n - 1]
  BY <1>1, <1>2, <1>3
<1>5. Len(one \o s) = Len(s) + 1
  BY <1>1, <1>2, <1>3
<1> QED BY <1>2, <1>3, <1>4, <1>5 DEF one

(* What a network that is put on top of a list is, and what is left alone.   *)
LEMMA TopGood ==
  ASSUME NEW f, NEW s, Good(f, s), NEW a \in Loose(f, s)
  PROVE  LET g == TopOf(f, a, f.pNtkCur, f.nSteps + 1, f.nSteps + 1, a)
             t == <<a>> \o s
         IN  /\ Good(g, t) /\ DOMAIN g.ntks = DOMAIN f.ntks
             /\ Seen(g, t) = <<f.ntks[a].data>> \o Seen(f, s)
             /\ Loose(g, t) = Loose(f, s) \ {a} /\ g.nSteps = f.nSteps + 1
<1> DEFINE g == TopOf(f, a, f.pNtkCur, f.nSteps + 1, f.nSteps + 1, a)
           t == <<a>> \o s
           top == Entry(f, a, f.pNtkCur, f.nSteps + 1)
           N == Put(f, a, top)
<1>1. a \in DOMAIN f.ntks /\ a \notin On(s) /\ Shape(f)
  BY DEF Loose, Good
<1>2. g = Fields(N, a, f.nSteps + 1)
  <2> DEFINE next == f.nSteps + 1
             head == f.pNtkCur
  <2> HIDE DEF next, head
  <2>1. TopOf(f, a, head, next, next, a) = Fields(Put(f, a, Entry(f, a, head, next)), a, next)
    BY <1>1, TopFields
  <2> QED BY <2>1 DEF next, head
<1>3. g.ntks = N /\ g.pNtkCur = a /\ g.nSteps = f.nSteps + 1
  BY <1>2 DEF Fields
<1>4. /\ DOMAIN N = DOMAIN f.ntks /\ N[a] = top
      /\ \A x \in DOMAIN f.ntks : x # a => N[x] = f.ntks[x]
      /\ N = [x \in DOMAIN N |-> N[x]]
  BY <1>1 DEF Put
<1>5. /\ Len(s) \in Nat /\ s \in [1 .. Len(s) -> DOMAIN f.ntks] /\ s \in Seq(DOMAIN f.ntks)
      /\ f.nSteps \in Nat \ {0}
      /\ f.pNtkCur = IF Len(s) = 0 THEN NULL ELSE s[1]
      /\ \A n \in 1 .. Len(s) : s[n] # a
  BY <1>1, GoodFacts DEF Good, Chain, Shape, On
<1>6. f.pNtkCur \in Addresses \cup {NULL}
  BY <1>1, <1>5 DEF Shape
<1>7. /\ top.data = f.ntks[a].data /\ top.pNetBackup = f.pNtkCur /\ top.iStep = f.nSteps + 1
      /\ top \in [data : Data, pNetBackup : Addresses \cup {NULL}, iStep : 0 .. (f.nSteps + 1)]
  BY <1>1, <1>5, <1>6 DEF Entry, Shape
<1>8. /\ t \in Seq(DOMAIN f.ntks) /\ Len(t) = Len(s) + 1
      /\ t[1] = a /\ \A n \in 1 .. Len(s) : t[n + 1] = s[n]
      /\ \A n \in 1 .. Len(t) : n = 1 \/ \E m \in 1 .. Len(s) : n = m + 1
  <2>1. /\ t \in Seq(DOMAIN f.ntks) /\ Len(t) = Len(s) + 1
        /\ \A n \in 1 .. (Len(s) + 1) : t[n] = IF n = 1 THEN a ELSE s[n - 1]
    <3> DEFINE X == DOMAIN f.ntks
    <3>1. a \in X /\ s \in Seq(X)
      BY <1>1, <1>5
    <3> HIDE DEF X
    <3>2. /\ <<a>> \o s \in Seq(X) /\ Len(<<a>> \o s) = Len(s) + 1
          /\ \A n \in 1 .. (Len(s) + 1) : (<<a>> \o s)[n] = IF n = 1 THEN a ELSE s[n - 1]
      BY <3>1, Cons
    <3> QED BY <3>2 DEF X
  <2> HIDE DEF t
  <2>2. \A n \in 1 .. Len(s) : t[n + 1] = s[n]
    BY <1>5, <2>1
  <2>3. ASSUME NEW n \in 1 .. Len(t), n # 1
        PROVE  n - 1 \in 1 .. Len(s) /\ n = (n - 1) + 1
    BY <1>5, <2>1, <2>3
  <2> QED BY <1>5, <2>1, <2>2, <2>3
<1> HIDE DEF top, N, g, t
<1>9. Shape(g)
  <2>1. \A x \in DOMAIN f.ntks : x # a => N[x] \in [data : Data, pNetBackup : Addresses \cup {NULL}, iStep : 0 .. (f.nSteps + 1)]
    BY <1>1, <1>4, <1>5 DEF Shape
  <2> QED BY <1>1, <1>2, <1>3, <1>4, <1>5, <1>7, <2>1 DEF Shape, Fields
<1>10. Chain(g, t)
  <2>1. t \in Seq(DOMAIN g.ntks) /\ t # <<>> /\ g.pNtkCur = t[1]
    BY <1>3, <1>4, <1>5, <1>8
  <2>2. ASSUME NEW m \in 1 .. Len(t), NEW n \in 1 .. Len(t), t[m] = t[n]
        PROVE  m = n
    BY <1>5, <1>8, <2>2 DEF Good, Chain
  <2>3. ASSUME NEW n \in 1 .. Len(t)
        PROVE  g.ntks[t[n]].pNetBackup = IF n < Len(t) THEN t[n + 1] ELSE NULL
    <3>1. CASE n = 1
      <4>1. g.ntks[t[n]].pNetBackup = f.pNtkCur
        BY <1>3, <1>4, <1>7, <1>8, <3>1
      <4>2. Len(s) # 0 => t[2] = s[1]
        BY <1>5, <1>8
      <4> QED BY <1>5, <1>8, <3>1, <4>1, <4>2
    <3>2. CASE n # 1
      <4>1. PICK m \in 1 .. Len(s) : n = m + 1
        BY <1>8, <3>2
      <4>2. g.ntks[t[n]] = f.ntks[s[m]]
        BY <1>3, <1>4, <1>5, <1>8, <4>1
      <4>3. f.ntks[s[m]].pNetBackup = IF m < Len(s) THEN s[m + 1] ELSE NULL
        BY DEF Good, Chain
      <4> QED BY <1>5, <1>8, <4>1, <4>2, <4>3
    <3> QED BY <3>1, <3>2
  <2> QED BY <2>1, <2>2, <2>3 DEF Chain
<1>11. Numbered(g, t)
  <2>1. ASSUME NEW n \in 1 .. Len(t)
        PROVE  g.ntks[t[n]].iStep = g.nSteps - n + 1
    <3>1. CASE n = 1
      BY <1>3, <1>4, <1>5, <1>7, <1>8, <3>1
    <3>2. CASE n # 1
      <4>1. PICK m \in 1 .. Len(s) : n = m + 1
        BY <1>8, <3>2
      <4>2. g.ntks[t[n]] = f.ntks[s[m]]
        BY <1>3, <1>4, <1>5, <1>8, <4>1
      <4>3. f.ntks[s[m]].iStep = f.nSteps - m + 1
        BY DEF Good, Numbered
      <4> QED BY <1>3, <1>5, <4>1, <4>2, <4>3
    <3> QED BY <3>1, <3>2
  <2> QED BY <2>1 DEF Numbered
<1>12. Seen(g, t) = <<f.ntks[a].data>> \o Seen(f, s)
  <2>1. Seen(f, s) \in Seq(Data) /\ Len(Seen(f, s)) = Len(s) /\ f.ntks[a].data \in Data
    BY <1>1, <1>5 DEF Seen, Shape
  <2>2. \A n \in 1 .. Len(s) : Seen(f, s)[n] = f.ntks[s[n]].data
    BY DEF Seen
  <2> DEFINE old == Seen(f, s)
             d == f.ntks[a].data
  <2> HIDE DEF old, d
  <2>3. /\ <<d>> \o old \in Seq(Data) /\ Len(<<d>> \o old) = Len(s) + 1
        /\ \A n \in 1 .. (Len(s) + 1) : (<<d>> \o old)[n] = IF n = 1 THEN d ELSE old[n - 1]
    BY <2>1, Cons DEF old, d
  <2>4. \A n \in 1 .. Len(t) : g.ntks[t[n]].data = IF n = 1 THEN d ELSE old[n - 1]
    BY <1>3, <1>4, <1>5, <1>7, <1>8, <2>2 DEF old, d
  <2>5. Seen(g, t) = [n \in 1 .. (Len(s) + 1) |-> IF n = 1 THEN d ELSE old[n - 1]]
    BY <1>8, <2>4 DEF Seen
  <2>6. <<d>> \o old = [n \in 1 .. (Len(s) + 1) |-> (<<d>> \o old)[n]]
    BY <2>3
  <2> QED BY <2>3, <2>5, <2>6 DEF old, d
<1>14. Loose(g, t) = Loose(f, s) \ {a}
  <2>1. On(t) = On(s) \cup {a}
    BY <1>5, <1>8 DEF On
  <2> QED BY <1>3, <1>4, <2>1 DEF Loose
<1> QED BY <1>3, <1>4, <1>9, <1>10, <1>11, <1>12, <1>14 DEF Good, g, t

(* Networks in no list can be deleted.                                       *)
LEMMA DeletedGood ==
  ASSUME NEW f, NEW s, Good(f, s), NEW A, A \cap On(s) = {}
  PROVE  LET g == Deleted(f, A)
         IN  /\ Good(g, s) /\ DOMAIN g.ntks = DOMAIN f.ntks \ A
             /\ Seen(g, s) = Seen(f, s) /\ Loose(g, s) = Loose(f, s) \ A
             /\ g.nSteps = f.nSteps /\ g.pNtkCur = f.pNtkCur
<1> DEFINE N == [x \in DOMAIN f.ntks \ A |-> f.ntks[x]]
           g == Deleted(f, A)
<1>1. f = [ntks |-> f.ntks, pNtkCur |-> f.pNtkCur, nSteps |-> f.nSteps]
  BY DEF Good, Shape
<1>2. g = [ntks |-> N, pNtkCur |-> f.pNtkCur, nSteps |-> f.nSteps]
  BY <1>1 DEF Deleted
<1>3. g.ntks = N /\ g.pNtkCur = f.pNtkCur /\ g.nSteps = f.nSteps
  BY <1>2
<1>4. /\ DOMAIN N = DOMAIN f.ntks \ A
      /\ \A x \in DOMAIN f.ntks \ A : N[x] = f.ntks[x]
      /\ N = [x \in DOMAIN N |-> N[x]]
  OBVIOUS
<1> HIDE DEF N, g
<1>5. /\ Len(s) \in Nat /\ s \in [1 .. Len(s) -> DOMAIN f.ntks \ A]
      /\ s \in Seq(DOMAIN f.ntks) /\ On(s) \subseteq DOMAIN f.ntks
  <2>1. Len(s) \in Nat /\ s \in [1 .. Len(s) -> DOMAIN f.ntks]
    BY GoodFacts
  <2>2. \A n \in 1 .. Len(s) : s[n] \notin A
    BY DEF On
  <2>3. s \in [1 .. Len(s) -> DOMAIN f.ntks \ A]
    BY <2>1, <2>2
  <2>4. s \in Seq(DOMAIN f.ntks) /\ On(s) \subseteq DOMAIN f.ntks
    BY GoodFacts DEF Good, Chain
  <2> QED BY <2>1, <2>3, <2>4
<1>6. Shape(g)
  BY <1>2, <1>3, <1>4 DEF Good, Shape
<1>7. \A n \in 1 .. Len(s) : g.ntks[s[n]] = f.ntks[s[n]]
  BY <1>3, <1>4, <1>5
<1>8. s \in Seq(DOMAIN g.ntks)
  BY <1>3, <1>4, <1>5
<1>9. Chain(g, s)
  BY <1>3, <1>7, <1>8 DEF Good, Chain
<1>10. Numbered(g, s)
  BY <1>3, <1>7 DEF Good, Numbered
<1>11. Seen(g, s) = Seen(f, s)
  BY <1>7 DEF Seen
<1>13. Loose(g, s) = Loose(f, s) \ A
  BY <1>3, <1>4 DEF Loose
<1> QED BY <1>3, <1>4, <1>6, <1>9, <1>10, <1>11, <1>13 DEF Good, g

(* All but the last of a sequence.                                           *)
AllButLast(s) == SubSeq(s, 1, Len(s) - 1)

LEMMA Shortened ==
  ASSUME NEW X, NEW s \in Seq(X), s # <<>>
  PROVE  /\ AllButLast(s) \in Seq(X) /\ Len(AllButLast(s)) = Len(s) - 1
         /\ Len(s) \in Nat \ {0}
         /\ \A n \in 1 .. (Len(s) - 1) : AllButLast(s)[n] = s[n]
<1>1. Len(s) \in Nat \ {0} /\ s \in [1 .. Len(s) -> X]
  OBVIOUS
<1>2. 1 \in 1 .. (Len(s) + 1) /\ Len(s) - 1 \in (1 - 1) .. Len(s)
  BY <1>1
<1>3. /\ SubSeq(s, 1, Len(s) - 1) \in Seq(X)
      /\ Len(SubSeq(s, 1, Len(s) - 1)) = (Len(s) - 1) - 1 + 1
      /\ \A i \in 1 .. ((Len(s) - 1) - 1 + 1) : SubSeq(s, 1, Len(s) - 1)[i] = s[1 + i - 1]
  BY <1>1, <1>2
<1> QED BY <1>1, <1>3 DEF AllButLast

(* The list ends one network earlier.                                        *)
LEMMA EndedGood ==
  ASSUME NEW f, NEW t, Good(f, t), Len(t) > 1
  PROVE  LET g == LinkOf(f, t[Len(t) - 1], NULL)
             u == AllButLast(t)
         IN  /\ Good(g, u) /\ DOMAIN g.ntks = DOMAIN f.ntks
             /\ Seen(g, u) = AllButLast(Seen(f, t))
             /\ Loose(g, u) = Loose(f, t) \cup {t[Len(t)]} /\ g.nSteps = f.nSteps
<1> DEFINE b == t[Len(t) - 1]
           g == LinkOf(f, t[Len(t) - 1], NULL)
           u == AllButLast(t)
           L == Len(t)
           new == Entry(f, b, NULL, f.ntks[b].iStep)
           N == Put(f, b, new)
<1>1. /\ L \in Nat /\ L > 1 /\ t \in [1 .. L -> DOMAIN f.ntks] /\ t # <<>>
      /\ t \in Seq(DOMAIN f.ntks) /\ b \in DOMAIN f.ntks /\ b = t[L - 1] /\ L - 1 \in 1 .. L
      /\ Shape(f)
      /\ \A m, n \in 1 .. L : t[m] = t[n] => m = n
      /\ f.pNtkCur = t[1]
  <2>1. L \in Nat /\ t \in [1 .. L -> DOMAIN f.ntks] /\ Shape(f) /\ t \in Seq(DOMAIN f.ntks)
    BY GoodFacts DEF Good, Chain
  <2>2. L - 1 \in 1 .. L
    BY <2>1
  <2>3. /\ \A m, n \in 1 .. L : t[m] = t[n] => m = n
        /\ f.pNtkCur = t[1]
    BY <2>1, GoodFacts DEF Good, Chain
  <2>4. t # <<>>
    BY <2>1, GoodFacts
  <2> QED BY <2>1, <2>2, <2>3, <2>4
<1>2. g = Fields(N, f.pNtkCur, f.nSteps)
  BY <1>1, LinkFields
<1>3. g.ntks = N /\ g.pNtkCur = f.pNtkCur /\ g.nSteps = f.nSteps
  BY <1>2 DEF Fields
<1>4. /\ DOMAIN N = DOMAIN f.ntks /\ N[b] = new
      /\ \A x \in DOMAIN f.ntks : x # b => N[x] = f.ntks[x]
      /\ N = [x \in DOMAIN N |-> N[x]]
  BY <1>1 DEF Put
<1>5. /\ new.data = f.ntks[b].data /\ new.pNetBackup = NULL /\ new.iStep = f.ntks[b].iStep
      /\ new \in [data : Data, pNetBackup : Addresses \cup {NULL}, iStep : 0 .. f.nSteps]
  BY <1>1 DEF Entry, Shape
<1>6. /\ u \in Seq(DOMAIN f.ntks) /\ Len(u) = L - 1
      /\ \A n \in 1 .. (L - 1) : u[n] = t[n]
  BY <1>1, Shortened
<1> HIDE DEF new, N, g, u, b
<1>7. Shape(g)
  <2>1. \A x \in DOMAIN f.ntks : N[x] \in [data : Data, pNetBackup : Addresses \cup {NULL}, iStep : 0 .. f.nSteps]
    BY <1>1, <1>4, <1>5 DEF Shape
  <2>2. DOMAIN f.ntks \subseteq Addresses /\ f.nSteps \in Nat \ {0}
    BY <1>1 DEF Shape
  <2> QED BY <1>2, <1>3, <1>4, <2>1, <2>2 DEF Shape, Fields
<1>8. ASSUME NEW n \in 1 .. L, n # L - 1
      PROVE  g.ntks[t[n]] = f.ntks[t[n]]
  <2>1. t[n] \in DOMAIN f.ntks /\ t[n] # b
    BY <1>1, <1>8
  <2> QED BY <1>3, <1>4, <2>1
<1>9. ASSUME NEW n \in 1 .. L
      PROVE  /\ g.ntks[t[n]].data = f.ntks[t[n]].data
             /\ g.ntks[t[n]].iStep = f.ntks[t[n]].iStep
  BY <1>1, <1>3, <1>4, <1>5, <1>8
<1>10. Chain(g, u)
  <2>1. u \in Seq(DOMAIN g.ntks) /\ u # <<>> /\ g.pNtkCur = u[1]
    BY <1>1, <1>3, <1>4, <1>6
  <2>2. \A m, n \in 1 .. Len(u) : u[m] = u[n] => m = n
    BY <1>1, <1>6
  <2>3. ASSUME NEW n \in 1 .. Len(u)
        PROVE  g.ntks[u[n]].pNetBackup = IF n < Len(u) THEN u[n + 1] ELSE NULL
    <3>1. CASE n = L - 1
      <4>1. u[n] = b /\ ~(n < Len(u))
        BY <1>1, <1>6, <3>1
      <4> QED BY <1>3, <1>4, <1>5, <4>1
    <3>2. CASE n # L - 1
      <4>1. n \in 1 .. (L - 1) /\ n \in 1 .. L /\ n + 1 \in 1 .. (L - 1)
        <5>1. 1 .. Len(u) = 1 .. (L - 1)
          BY <1>6
        <5>2. n \in 1 .. (L - 1) /\ L \in Nat
          BY <1>1, <5>1
        <5> HIDE DEF L
        <5> QED BY <3>2, <5>2
      <4>2. u[n] = t[n] /\ u[n + 1] = t[n + 1]
        BY <1>6, <4>1
      <4>3. g.ntks[u[n]] = f.ntks[t[n]]
        BY <1>8, <3>2, <4>1, <4>2
      <4>4. f.ntks[t[n]].pNetBackup = t[n + 1]
        BY <1>1, <4>1 DEF Good, Chain
      <4> QED BY <1>1, <1>6, <4>1, <4>2, <4>3, <4>4
    <3> QED BY <3>1, <3>2
  <2> QED BY <2>1, <2>2, <2>3 DEF Chain
<1>11. Numbered(g, u)
  <2>1. ASSUME NEW n \in 1 .. Len(u)
        PROVE  g.ntks[u[n]].iStep = g.nSteps - n + 1
    <3>1. n \in 1 .. L /\ u[n] = t[n]
      BY <1>1, <1>6
    <3>2. f.ntks[t[n]].iStep = f.nSteps - n + 1
      BY <3>1 DEF Good, Numbered
    <3> QED BY <1>3, <1>9, <3>1, <3>2
  <2> QED BY <2>1 DEF Numbered
<1>12. Seen(g, u) = AllButLast(Seen(f, t))
  <2> DEFINE old == Seen(f, t)
  <2>1. old \in Seq(Data) /\ Len(old) = L /\ old # <<>>
    BY <1>1 DEF Seen, Shape
  <2>2. \A n \in 1 .. L : old[n] = f.ntks[t[n]].data
    BY DEF Seen
  <2> HIDE DEF old
  <2>3. /\ AllButLast(old) \in Seq(Data) /\ Len(AllButLast(old)) = L - 1
        /\ \A n \in 1 .. (L - 1) : AllButLast(old)[n] = old[n]
    BY <2>1, Shortened
  <2>4. AllButLast(old) = [n \in 1 .. (L - 1) |-> AllButLast(old)[n]]
    <3> DEFINE v == AllButLast(old)
    <3>1. v \in Seq(Data) /\ Len(v) = L - 1
      BY <2>3
    <3> HIDE DEF v
    <3>2. v = [n \in 1 .. Len(v) |-> v[n]]
      BY <3>1
    <3> QED BY <3>1, <3>2 DEF v
  <2>5. \A n \in 1 .. (L - 1) : g.ntks[u[n]].data = AllButLast(old)[n]
    BY <1>1, <1>6, <1>9, <2>2, <2>3
  <2>6. Seen(g, u) = [n \in 1 .. (L - 1) |-> g.ntks[u[n]].data]
    BY <1>6 DEF Seen
  <2> QED BY <2>4, <2>5, <2>6 DEF old
<1>14. Loose(g, u) = Loose(f, t) \cup {t[L]}
  <2>1. On(u) = On(t) \ {t[L]}
    BY <1>1, <1>6 DEF On
  <2>2. t[L] \in DOMAIN f.ntks
    BY <1>1
  <2> QED BY <1>3, <1>4, <2>1, <2>2 DEF Loose
<1> QED BY <1>3, <1>4, <1>7, <1>10, <1>11, <1>12, <1>14 DEF Good, g, u

(* The list after the cut: its last network goes if it is too long.          *)
CutTo(s) == IF Len(s) - 1 > savesteps THEN AllButLast(s) ELSE s

LEMMA CutGood ==
  ASSUME NEW f, NEW t, Good(f, t), savesteps \in Nat
  PROVE  LET g == Cut(f)
             u == CutTo(t)
         IN  /\ Good(g, u) /\ Seen(g, u) = CutTo(Seen(f, t))
             /\ DOMAIN g.ntks \subseteq DOMAIN f.ntks
             /\ Loose(g, u) = Loose(f, t) /\ g.nSteps = f.nSteps
<1>1. List(f) = t /\ Len(t) \in Nat /\ t \in [1 .. Len(t) -> DOMAIN f.ntks]
  BY GoodFacts
<1>2. Len(Seen(f, t)) = Len(t)
  BY <1>1 DEF Seen
<1>3. CASE ~(Len(t) - 1 > savesteps)
  <2>1. Cut(f) = f /\ CutTo(t) = t /\ CutTo(Seen(f, t)) = Seen(f, t)
    BY <1>1, <1>2, <1>3 DEF Cut, CutTo
  <2> QED BY <2>1
<1>4. CASE Len(t) - 1 > savesteps
  <2> DEFINE h == LinkOf(f, t[Len(t) - 1], NULL)
             g == Deleted(h, {t[Len(t)]})
             u == AllButLast(t)
  <2>1. Cut(f) = g /\ CutTo(t) = u /\ CutTo(Seen(f, t)) = AllButLast(Seen(f, t))
    BY <1>1, <1>2, <1>4 DEF Cut, CutTo, LinkOf
  <2>2. Len(t) > 1
    BY <1>1, <1>4
  <2>3. /\ Good(h, u) /\ DOMAIN h.ntks = DOMAIN f.ntks
        /\ Seen(h, u) = AllButLast(Seen(f, t))
        /\ Loose(h, u) = Loose(f, t) \cup {t[Len(t)]} /\ h.nSteps = f.nSteps
    BY <2>2, EndedGood
  <2>4. t[Len(t)] \in On(t) /\ t[Len(t)] \notin Loose(f, t)
    BY <1>1, <2>2 DEF On, Loose
  <2> HIDE DEF h, u
  <2>5. {t[Len(t)]} \cap On(u) = {}
    BY <2>3 DEF Loose
  <2>6. /\ Good(g, u) /\ DOMAIN g.ntks = DOMAIN h.ntks \ {t[Len(t)]}
        /\ Seen(g, u) = Seen(h, u) /\ Loose(g, u) = Loose(h, u) \ {t[Len(t)]}
        /\ g.nSteps = h.nSteps
    BY <2>3, <2>5, DeletedGood
  <2> HIDE DEF g
  <2>8. Loose(g, u) = Loose(f, t)
    BY <2>3, <2>4, <2>6
  <2> QED BY <2>1, <2>3, <2>6, <2>8
<1> QED BY <1>3, <1>4

(* One network rewritten.                                                    *)
Rewritten(f, g, a, back, step, cur, steps) ==
  /\ Shape(g) /\ DOMAIN g.ntks = DOMAIN f.ntks
  /\ g.pNtkCur = cur /\ g.nSteps = steps
  /\ g.ntks[a].data = f.ntks[a].data
  /\ g.ntks[a].pNetBackup = back /\ g.ntks[a].iStep = step
  /\ \A x \in DOMAIN f.ntks : x # a => g.ntks[x] = f.ntks[x]

LEMMA PutShape ==
  ASSUME NEW f, Shape(f), NEW a \in DOMAIN f.ntks, NEW cur, NEW steps \in Nat, f.nSteps <= steps,
         NEW back \in Addresses \cup {NULL}, NEW step \in 0 .. steps
  PROVE  Rewritten(f, Fields(Put(f, a, Entry(f, a, back, step)), cur, steps),
                   a, back, step, cur, steps)
<1> DEFINE new == Entry(f, a, back, step)
           N == Put(f, a, new)
           g == Fields(N, cur, steps)
<1>1. g.ntks = N /\ g.pNtkCur = cur /\ g.nSteps = steps /\ g = Fields(N, cur, steps)
  BY DEF Fields
<1>2. /\ DOMAIN N = DOMAIN f.ntks /\ N[a] = new
      /\ \A x \in DOMAIN f.ntks : x # a => N[x] = f.ntks[x]
      /\ N = [x \in DOMAIN N |-> N[x]]
  BY DEF Put
<1>3. /\ new.data = f.ntks[a].data /\ new.pNetBackup = back /\ new.iStep = step
      /\ new \in [data : Data, pNetBackup : Addresses \cup {NULL}, iStep : 0 .. steps]
  BY DEF Entry, Shape
<1> HIDE DEF g, N, new
<1>4. Shape(g)
  <2>1. DOMAIN f.ntks \subseteq Addresses /\ f.nSteps \in Nat \ {0}
    BY DEF Shape
  <2>2. \A x \in DOMAIN f.ntks : N[x] \in [data : Data, pNetBackup : Addresses \cup {NULL}, iStep : 0 .. steps]
    BY <1>2, <1>3, <2>1 DEF Shape
  <2>3. steps \in Nat \ {0}
    BY <2>1
  <2> QED BY <1>1, <1>2, <2>1, <2>2, <2>3 DEF Shape, Fields
<1> QED BY <1>1, <1>2, <1>3, <1>4 DEF g, N, new, Rewritten

(* T is S without x.                                                         *)
Without(T, S, x) == T = S \ {x}

LEMMA SetGood ==
  ASSUME NEW f, NEW s, Good(f, s), NEW a \in Loose(f, s), savesteps \in Nat
  PROVE  LET g == Abc_FrameSetCurrentNetwork(f, a)
             u == CutTo(<<a>> \o s)
         IN  /\ Good(g, u) /\ Seen(g, u) = CutTo(<<f.ntks[a].data>> \o Seen(f, s))
             /\ DOMAIN g.ntks \subseteq DOMAIN f.ntks
             /\ Without(Loose(g, u), Loose(f, s), a) /\ g.nSteps = f.nSteps + 1
<1> DEFINE h == TopOf(f, a, f.pNtkCur, f.nSteps + 1, f.nSteps + 1, a)
           t == <<a>> \o s
           g == Cut(h)
           u == CutTo(t)
<1>1. Abc_FrameSetCurrentNetwork(f, a) = g
  BY Zenon DEF Abc_FrameSetCurrentNetwork, TopOf
<1>2. /\ Good(h, t) /\ DOMAIN h.ntks = DOMAIN f.ntks
      /\ Seen(h, t) = <<f.ntks[a].data>> \o Seen(f, s)
      /\ Loose(h, t) = Loose(f, s) \ {a} /\ h.nSteps = f.nSteps + 1
  BY TopGood
<1> HIDE DEF h, t
<1>3. /\ Good(g, u) /\ Seen(g, u) = CutTo(Seen(h, t))
      /\ DOMAIN g.ntks \subseteq DOMAIN h.ntks
      /\ Loose(g, u) = Loose(h, t) /\ g.nSteps = h.nSteps
  BY <1>2, CutGood
<1> HIDE DEF g, u
<1> QED BY <1>1, <1>2, <1>3 DEF u, t, Without

(* The first two change places.                                              *)
Swapped(s) == [n \in 1 .. Len(s) |-> IF n = 1 THEN s[2] ELSE IF n = 2 THEN s[1] ELSE s[n]]

LEMMA SwapGood ==
  ASSUME NEW f, NEW s, Good(f, s), Len(s) > 1
  PROVE  LET g == Abc_FrameSwapCurrentAndBackup(f)
             u == Swapped(s)
         IN  /\ Good(g, u) /\ Seen(g, u) = Swapped(Seen(f, s))
             /\ DOMAIN g.ntks = DOMAIN f.ntks
             /\ Loose(g, u) = Loose(f, s) /\ g.nSteps = f.nSteps
<1> DEFINE a == s[1]
           b == s[2]
           L == Len(s)
           next == f.ntks[b].pNetBackup
           stepA == f.ntks[b].iStep
           stepB == f.ntks[a].iStep
           newA == Entry(f, a, next, stepA)
           newB == Entry(f, b, a, stepB)
           N == [x \in DOMAIN f.ntks |-> IF x = a THEN newA ELSE IF x = b THEN newB ELSE f.ntks[x]]
           g == Abc_FrameSwapCurrentAndBackup(f)
           u == Swapped(s)
<1>1. /\ L \in Nat /\ L > 1 /\ L = Len(s) /\ s \in [1 .. L -> DOMAIN f.ntks] /\ s # <<>>
      /\ \A m, n \in 1 .. L : s[m] = s[n] => m = n
      /\ 1 \in 1 .. L /\ 2 \in 1 .. L
      /\ s[1] = a /\ s[2] = b
      /\ Shape(f) /\ NULL \notin DOMAIN f.ntks
  BY GoodFacts DEF Good, Chain
<1>2. /\ a \in DOMAIN f.ntks /\ b \in DOMAIN f.ntks /\ a # b /\ f.pNtkCur = a
      /\ f.ntks[a].pNetBackup = b /\ b # NULL
      /\ next = IF 2 < L THEN s[3] ELSE NULL
      /\ stepB = f.nSteps /\ stepA = f.nSteps - 1
  <2>1. a \in DOMAIN f.ntks /\ b \in DOMAIN f.ntks /\ a # b /\ b # NULL
    BY <1>1
  <2>2. f.pNtkCur = a /\ f.ntks[a].pNetBackup = b /\ next = IF 2 < L THEN s[3] ELSE NULL
    BY <1>1 DEF Good, Chain
  <2>3. stepB = f.nSteps - 1 + 1 /\ stepA = f.nSteps - 2 + 1 /\ f.nSteps \in Nat
    BY <1>1 DEF Good, Numbered, Shape
  <2> QED BY <2>1, <2>2, <2>3
<1> HIDE DEF a, b, L
<1>3. g = SwapOf(f, a, next, stepA, b, a, stepB, b)
  <2> DEFINE cur == f.pNtkCur
             back == f.ntks[cur].pNetBackup
  <2>1. g = [f EXCEPT !.ntks[cur].pNetBackup = f.ntks[back].pNetBackup,
                     !.ntks[cur].iStep = f.ntks[back].iStep,
                     !.ntks[back].pNetBackup = cur,
                     !.ntks[back].iStep = f.ntks[cur].iStep,
                     !.pNtkCur = back]
    BY <1>2, Zenon DEF Abc_FrameSwapCurrentAndBackup
  <2>2. cur = a /\ back = b
    BY <1>2
  <2>3. g = SwapOf(f, cur, f.ntks[back].pNetBackup, f.ntks[back].iStep, back, cur, f.ntks[cur].iStep, back)
    BY <2>1, Zenon DEF SwapOf
  <2> HIDE DEF cur, back
  <2> QED BY <2>2, <2>3
<1> HIDE DEF g, next, stepA, stepB
<1>4. g = Fields(N, b, f.nSteps)
  BY <1>1, <1>2, <1>3, SwapFields
<1>5. g.ntks = N /\ g.pNtkCur = b /\ g.nSteps = f.nSteps
  BY <1>4 DEF Fields
<1>6. /\ DOMAIN N = DOMAIN f.ntks /\ N[a] = newA /\ N[b] = newB
      /\ \A x \in DOMAIN f.ntks : x # a /\ x # b => N[x] = f.ntks[x]
      /\ N = [x \in DOMAIN N |-> N[x]]
  BY <1>2
<1>7. /\ newA.data = f.ntks[a].data /\ newA.pNetBackup = next /\ newA.iStep = f.nSteps - 1
      /\ newB.data = f.ntks[b].data /\ newB.pNetBackup = a /\ newB.iStep = f.nSteps
      /\ newA \in [data : Data, pNetBackup : Addresses \cup {NULL}, iStep : 0 .. f.nSteps]
      /\ newB \in [data : Data, pNetBackup : Addresses \cup {NULL}, iStep : 0 .. f.nSteps]
  <2>1. next \in Addresses \cup {NULL} /\ a \in Addresses
    BY <1>1, <1>2 DEF Shape, next
  <2>2. stepA \in 0 .. f.nSteps /\ stepB \in 0 .. f.nSteps
    BY <1>1, <1>2 DEF Shape
  <2>3. f.ntks[a].data \in Data /\ f.ntks[b].data \in Data
    BY <1>1, <1>2 DEF Shape
  <2> QED BY <1>2, <2>1, <2>2, <2>3 DEF Entry
<1>8. /\ Len(u) = L /\ DOMAIN u = 1 .. L /\ u[1] = b /\ u[2] = a
      /\ \A n \in 1 .. L : n # 1 /\ n # 2 => u[n] = s[n]
      /\ u = [n \in 1 .. L |-> u[n]]
  BY <1>1 DEF Swapped
<1> HIDE DEF N, newA, newB, u
<1>9. u \in [1 .. L -> DOMAIN f.ntks] /\ u \in Seq(DOMAIN f.ntks)
  <2>1. u \in [1 .. L -> DOMAIN f.ntks]
    BY <1>1, <1>2, <1>8
  <2> QED BY <1>1, <2>1
<1>10. Shape(g)
  <2>1. \A x \in DOMAIN f.ntks : N[x] \in [data : Data, pNetBackup : Addresses \cup {NULL}, iStep : 0 .. f.nSteps]
    BY <1>1, <1>6, <1>7 DEF Shape
  <2>2. DOMAIN f.ntks \subseteq Addresses /\ f.nSteps \in Nat \ {0}
    BY <1>1 DEF Shape
  <2> QED BY <1>4, <1>5, <1>6, <2>1, <2>2 DEF Shape, Fields
<1>11. ASSUME NEW n \in 1 .. L, n # 1, n # 2
       PROVE  g.ntks[u[n]] = f.ntks[s[n]] /\ u[n] = s[n] /\ u[n] # a /\ u[n] # b
  BY <1>1, <1>5, <1>6, <1>8, <1>11
<1>12. Chain(g, u)
  <2>1. u # <<>> /\ g.pNtkCur = u[1] /\ u \in Seq(DOMAIN g.ntks)
    BY <1>1, <1>5, <1>6, <1>8, <1>9
  <2>2. ASSUME NEW m \in 1 .. L, NEW n \in 1 .. L, u[m] = u[n]
        PROVE  m = n
    BY <1>1, <1>2, <1>8, <1>11, <2>2
  <2>3. ASSUME NEW n \in 1 .. L
        PROVE  g.ntks[u[n]].pNetBackup = IF n < L THEN u[n + 1] ELSE NULL
    <3>1. CASE n = 1
      BY <1>1, <1>5, <1>6, <1>7, <1>8, <3>1
    <3>2. CASE n = 2
      <4>1. 2 < L => u[3] = s[3]
        BY <1>1, <1>8
      <4> QED BY <1>1, <1>2, <1>5, <1>6, <1>7, <1>8, <3>2, <4>1
    <3>3. CASE n # 1 /\ n # 2
      <4>1. n < L => u[n + 1] = s[n + 1]
        <5>1. L \in Nat
          BY <1>1
        <5>2. n < L => n + 1 \in 1 .. L /\ n + 1 # 1 /\ n + 1 # 2
          BY <3>3, <5>1
        <5> QED BY <1>8, <5>2
      <4>2. f.ntks[s[n]].pNetBackup = IF n < L THEN s[n + 1] ELSE NULL
        BY <1>1 DEF Good, Chain
      <4> QED BY <1>11, <3>3, <4>1, <4>2
    <3> QED BY <3>1, <3>2, <3>3
  <2> QED BY <1>8, <2>1, <2>2, <2>3 DEF Chain
<1>13. Numbered(g, u)
  <2>1. ASSUME NEW n \in 1 .. L
        PROVE  g.ntks[u[n]].iStep = g.nSteps - n + 1
    <3>0. f.nSteps \in Nat
      BY <1>1 DEF Shape
    <3>1. CASE n = 1
      BY <1>5, <1>6, <1>7, <1>8, <3>0, <3>1
    <3>2. CASE n = 2
      BY <1>5, <1>6, <1>7, <1>8, <3>0, <3>2
    <3>3. CASE n # 1 /\ n # 2
      <4>1. f.ntks[s[n]].iStep = f.nSteps - n + 1
        BY <1>1 DEF Good, Numbered
      <4> QED BY <1>5, <1>11, <3>3, <4>1
    <3> QED BY <3>1, <3>2, <3>3
  <2> QED BY <1>8, <2>1 DEF Numbered
<1>14. \A x \in DOMAIN f.ntks : g.ntks[x].data = f.ntks[x].data
  BY <1>5, <1>6, <1>7
<1>15. Seen(g, u) = Swapped(Seen(f, s))
  <2>1. Seen(f, s) = [n \in 1 .. L |-> f.ntks[s[n]].data] /\ Len(Seen(f, s)) = L
    BY <1>1 DEF Seen
  <2>2. Swapped(Seen(f, s)) = [n \in 1 .. L |-> f.ntks[u[n]].data]
    <3>1. Swapped(Seen(f, s)) = [n \in 1 .. L |-> IF n = 1 THEN Seen(f, s)[2] ELSE IF n = 2 THEN Seen(f, s)[1] ELSE Seen(f, s)[n]]
      BY <2>1 DEF Swapped
    <3>2. ASSUME NEW n \in 1 .. L
          PROVE  (IF n = 1 THEN Seen(f, s)[2] ELSE IF n = 2 THEN Seen(f, s)[1] ELSE Seen(f, s)[n])
                   = f.ntks[u[n]].data
      BY <1>1, <1>8, <2>1
    <3> QED BY <3>1, <3>2
  <2>3. Seen(g, u) = [n \in 1 .. L |-> g.ntks[u[n]].data]
    BY <1>8 DEF Seen
  <2>4. \A n \in 1 .. L : g.ntks[u[n]].data = f.ntks[u[n]].data
    BY <1>9, <1>14
  <2> QED BY <2>2, <2>3, <2>4
<1>16. Loose(g, u) = Loose(f, s)
  <2>1. On(u) = On(s)
    <3>1. ASSUME NEW n \in 1 .. L
          PROVE  u[n] \in {s[m] : m \in 1 .. L} /\ s[n] \in {u[m] : m \in 1 .. L}
      BY <1>1, <1>8
    <3> QED BY <1>1, <1>8, <3>1 DEF On
  <2> QED BY <1>5, <1>6, <2>1 DEF Loose
<1> QED BY <1>5, <1>6, <1>10, <1>12, <1>13, <1>15, <1>16 DEF Good, g, u

(* What the dispatcher saved is replaced at the head of the list.            *)
WithHead(s, a) == [n \in 1 .. Len(s) |-> IF n = 1 THEN a ELSE s[n]]

LEMMA PlaceGood ==
  ASSUME NEW f, NEW s, Good(f, s), s # <<>>, NEW a \in Loose(f, s)
  PROVE  LET g == PlaceOf(f, a, f.ntks[f.pNtkCur].pNetBackup, f.ntks[f.pNtkCur].iStep, a)
             u == WithHead(s, a)
         IN  /\ Good(g, u) /\ Seen(g, u) = WithHead(Seen(f, s), f.ntks[a].data)
             /\ DOMAIN g.ntks = DOMAIN f.ntks
             /\ Loose(g, u) = (Loose(f, s) \ {a}) \cup {s[1]} /\ g.nSteps = f.nSteps
<1> DEFINE L == Len(s)
           b == s[1]
           back == f.ntks[b].pNetBackup
           step == f.ntks[b].iStep
           g == PlaceOf(f, a, back, step, a)
           u == WithHead(s, a)
<1>1. /\ L \in Nat /\ L > 0 /\ L = Len(s) /\ s \in [1 .. L -> DOMAIN f.ntks]
      /\ \A m, n \in 1 .. L : s[m] = s[n] => m = n
      /\ 1 \in 1 .. L /\ s[1] = b /\ b \in DOMAIN f.ntks /\ f.pNtkCur = b
      /\ Shape(f) /\ a \in DOMAIN f.ntks /\ a \notin On(s) /\ On(s) \subseteq DOMAIN f.ntks
  <2>1. /\ L \in Nat /\ L # 0 /\ s \in [1 .. L -> DOMAIN f.ntks] /\ f.pNtkCur = b
        /\ On(s) \subseteq DOMAIN f.ntks
    BY GoodFacts
  <2>2. 1 \in 1 .. L
    BY <2>1
  <2> QED BY <2>1, <2>2 DEF Good, Chain, Loose
<1>2. /\ back = IF 1 < L THEN s[2] ELSE NULL
      /\ step = f.nSteps /\ f.nSteps \in Nat
      /\ back \in Addresses \cup {NULL} /\ step \in 0 .. f.nSteps
  <2>1. back = (IF 1 < L THEN s[1 + 1] ELSE NULL) /\ step = f.nSteps - 1 + 1
    BY <1>1 DEF Good, Chain, Numbered
  <2>2. f.nSteps \in Nat /\ back \in Addresses \cup {NULL}
    BY <1>1 DEF Shape
  <2> QED BY <2>1, <2>2
<1> HIDE DEF b, L, back, step
<1>3. g = Fields(Put(f, a, Entry(f, a, back, step)), a, f.nSteps)
  BY <1>1, PlaceFields
<1>4. /\ Shape(g) /\ DOMAIN g.ntks = DOMAIN f.ntks
      /\ g.pNtkCur = a /\ g.nSteps = f.nSteps
      /\ g.ntks[a].data = f.ntks[a].data
      /\ g.ntks[a].pNetBackup = back /\ g.ntks[a].iStep = step
      /\ \A x \in DOMAIN f.ntks : x # a => g.ntks[x] = f.ntks[x]
  <2>1. f.nSteps <= f.nSteps
    BY <1>2
  <2> HIDE DEF g
  <2>2. /\ Shape(f) /\ a \in DOMAIN f.ntks /\ f.nSteps \in Nat
        /\ back \in Addresses \cup {NULL} /\ step \in 0 .. f.nSteps
    BY <1>1, <1>2
  <2>3. Rewritten(f, g, a, back, step, a, f.nSteps)
    BY <1>3, <2>1, <2>2, PutShape
  <2> QED BY <2>3 DEF Rewritten
<1>5. /\ Len(u) = L /\ DOMAIN u = 1 .. L /\ u[1] = a
      /\ \A n \in 1 .. L : n # 1 => u[n] = s[n]
      /\ u = [n \in 1 .. L |-> u[n]]
  BY <1>1 DEF WithHead
<1> HIDE DEF g, u
<1>6. u \in [1 .. L -> DOMAIN f.ntks] /\ u \in Seq(DOMAIN f.ntks)
  <2>1. u \in [1 .. L -> DOMAIN f.ntks]
    BY <1>1, <1>5
  <2> QED BY <1>1, <2>1
<1>7. ASSUME NEW n \in 1 .. L, n # 1
      PROVE  g.ntks[u[n]] = f.ntks[s[n]] /\ u[n] = s[n] /\ u[n] # a
  <2>1. s[n] # a /\ s[n] \in DOMAIN f.ntks
    BY <1>1 DEF On
  <2> QED BY <1>4, <1>5, <1>7, <2>1
<1>8. Chain(g, u)
  <2>1. u # <<>> /\ g.pNtkCur = u[1] /\ u \in Seq(DOMAIN g.ntks)
    BY <1>1, <1>4, <1>5, <1>6
  <2>2. ASSUME NEW m \in 1 .. L, NEW n \in 1 .. L, u[m] = u[n]
        PROVE  m = n
    BY <1>1, <1>5, <1>7, <2>2
  <2>3. ASSUME NEW n \in 1 .. L
        PROVE  g.ntks[u[n]].pNetBackup = IF n < L THEN u[n + 1] ELSE NULL
    <3>0. n < L => u[n + 1] = s[n + 1]
      <4>1. n < L => n + 1 \in 1 .. L /\ n + 1 # 1
        BY <1>1
      <4> QED BY <1>5, <4>1
    <3>1. CASE n = 1
      BY <1>2, <1>4, <1>5, <3>0, <3>1
    <3>2. CASE n # 1
      <4>1. f.ntks[s[n]].pNetBackup = IF n < L THEN s[n + 1] ELSE NULL
        BY <1>1 DEF Good, Chain
      <4> QED BY <1>7, <3>0, <3>2, <4>1
    <3> QED BY <3>1, <3>2
  <2> QED BY <1>5, <2>1, <2>2, <2>3 DEF Chain
<1>9. Numbered(g, u)
  <2>1. ASSUME NEW n \in 1 .. L
        PROVE  g.ntks[u[n]].iStep = g.nSteps - n + 1
    <3>1. CASE n = 1
      BY <1>2, <1>4, <1>5, <3>1
    <3>2. CASE n # 1
      <4>1. f.ntks[s[n]].iStep = f.nSteps - n + 1
        BY <1>1 DEF Good, Numbered
      <4> QED BY <1>4, <1>7, <3>2, <4>1
    <3> QED BY <3>1, <3>2
  <2> QED BY <1>5, <2>1 DEF Numbered
<1>10. Seen(g, u) = WithHead(Seen(f, s), f.ntks[a].data)
  <2>1. Seen(f, s) = [n \in 1 .. L |-> f.ntks[s[n]].data] /\ Len(Seen(f, s)) = L
    BY <1>1 DEF Seen
  <2>2. WithHead(Seen(f, s), f.ntks[a].data) = [n \in 1 .. L |-> g.ntks[u[n]].data]
    <3>1. WithHead(Seen(f, s), f.ntks[a].data)
            = [n \in 1 .. L |-> IF n = 1 THEN f.ntks[a].data ELSE Seen(f, s)[n]]
      BY <2>1 DEF WithHead
    <3>2. ASSUME NEW n \in 1 .. L
          PROVE  (IF n = 1 THEN f.ntks[a].data ELSE Seen(f, s)[n]) = g.ntks[u[n]].data
      BY <1>4, <1>5, <1>7, <2>1
    <3> QED BY <3>1, <3>2
  <2>3. Seen(g, u) = [n \in 1 .. L |-> g.ntks[u[n]].data]
    BY <1>5 DEF Seen
  <2> QED BY <2>2, <2>3
<1>11. Loose(g, u) = (Loose(f, s) \ {a}) \cup {b}
  <2>1. On(u) = (On(s) \ {b}) \cup {a}
    <3>1. On(u) = {u[n] : n \in 1 .. L} /\ On(s) = {s[n] : n \in 1 .. L}
      BY <1>1, <1>5 DEF On
    <3>2. ASSUME NEW n \in 1 .. L
          PROVE  u[n] \in (On(s) \ {b}) \cup {a} /\ (s[n] # b => s[n] \in On(u))
      BY <1>1, <1>5, <1>7, <3>1
    <3>3. a \in On(u)
      BY <1>1, <1>5, <3>1
    <3> QED BY <3>1, <3>2, <3>3
  <2>2. b \in On(s)
    BY <1>1 DEF On
  <2> QED BY <1>1, <1>4, <2>1, <2>2 DEF Loose
<1> QED BY <1>1, <1>4, <1>8, <1>9, <1>10, <1>11 DEF Good, g, u, b, back, step

(* A network starts a list of its own.                                       *)
LEMMA AloneGood ==
  ASSUME NEW f, NEW s, Good(f, s), NEW a \in Loose(f, s), f.ntks[a].pNetBackup = NULL
  PROVE  LET g == AloneOf(f, a, f.nSteps + 1, f.nSteps + 1, a)
         IN  /\ Good(g, <<a>>) /\ Seen(g, <<a>>) = <<f.ntks[a].data>>
             /\ DOMAIN g.ntks = DOMAIN f.ntks
             /\ Loose(g, <<a>>) = DOMAIN f.ntks \ {a} /\ g.nSteps = f.nSteps + 1
<1> DEFINE next == f.nSteps + 1
           g == AloneOf(f, a, next, next, a)
           u == <<a>>
<1>1. /\ a \in DOMAIN f.ntks /\ Shape(f) /\ next \in Nat /\ f.nSteps <= next /\ next \in 0 .. next
      /\ f.nSteps \in Nat
  BY DEF Good, Shape, Loose
<1>2. Len(u) = 1 /\ u[1] = a /\ 1 .. Len(u) = {1} /\ u # <<>> /\ u \in Seq(DOMAIN f.ntks)
  <2>1. Len(u) = 1 /\ u[1] = a
    OBVIOUS
  <2>2. u # <<>> /\ u \in Seq(DOMAIN f.ntks)
    <3> DEFINE X == DOMAIN f.ntks
    <3>1. a \in X
      BY <1>1
    <3> HIDE DEF X
    <3>2. <<a>> # <<>> /\ <<a>> \in Seq(X)
      BY <3>1
    <3> QED BY <3>2 DEF X
  <2> HIDE DEF u
  <2> QED BY <2>1, <2>2
<1> HIDE DEF next, u
<1>3. g = Fields(Put(f, a, Entry(f, a, NULL, next)), a, next)
  BY <1>1, AloneFields
<1>4. /\ Shape(g) /\ DOMAIN g.ntks = DOMAIN f.ntks
      /\ g.pNtkCur = a /\ g.nSteps = next
      /\ g.ntks[a].data = f.ntks[a].data
      /\ g.ntks[a].pNetBackup = NULL /\ g.ntks[a].iStep = next
  <2> HIDE DEF g
  <2>1. NULL \in Addresses \cup {NULL}
    OBVIOUS
  <2>2. Rewritten(f, g, a, NULL, next, a, next)
    BY <1>1, <1>3, <2>1, PutShape
  <2> QED BY <2>2 DEF Rewritten
<1> HIDE DEF g
<1>5. Chain(g, u)
  BY <1>2, <1>4 DEF Chain
<1>6. Numbered(g, u)
  BY <1>1, <1>2, <1>4 DEF Numbered
<1>7. Seen(g, u) = <<f.ntks[a].data>>
  <2>1. Seen(g, u) = [n \in {1} |-> f.ntks[a].data]
    BY <1>2, <1>4 DEF Seen
  <2> QED BY <2>1
<1>8. Loose(g, u) = DOMAIN f.ntks \ {a}
  BY <1>2, <1>4 DEF Loose, On
<1> QED BY <1>4, <1>5, <1>6, <1>7, <1>8 DEF Good, g, u, next

(* A replacement: with backup it is the head of the list that goes, without   *)
(* the rest of the list is left behind.                                      *)
LEMMA ReplaceOnTop ==
  ASSUME NEW f, NEW s, Good(f, s), s # <<>>, backup, NEW a \in Loose(f, s)
  PROVE  LET g == Abc_FrameReplaceCurrentNetwork(f, a)
             u == WithHead(s, a)
         IN  /\ Good(g, u) /\ Seen(g, u) = WithHead(Seen(f, s), f.ntks[a].data)
             /\ DOMAIN g.ntks \subseteq DOMAIN f.ntks
             /\ Loose(g, u) = Loose(f, s) \ {a} /\ g.nSteps = f.nSteps
<1> DEFINE h == PlaceOf(f, a, f.ntks[f.pNtkCur].pNetBackup, f.ntks[f.pNtkCur].iStep, a)
           u == WithHead(s, a)
           g == Deleted(h, {s[1]})
<1>1. f.pNtkCur = s[1] /\ f.pNtkCur # NULL /\ s[1] \in On(s)
  <2>1. f.pNtkCur = s[1] /\ f.pNtkCur # NULL /\ 1 \in 1 .. Len(s)
    BY GoodFacts
  <2> QED BY <2>1 DEF On
<1>2. Abc_FrameReplaceCurrentNetwork(f, a) = g
  <2>1. Abc_FrameReplaceCurrentNetwork(f, a)
          = Deleted(IF f.pNtkCur # NULL /\ backup THEN h
                    ELSE [f EXCEPT !.ntks[a].iStep = f.nSteps + 1, !.nSteps = f.nSteps + 1,
                                   !.pNtkCur = a], {f.pNtkCur})
    BY Zenon DEF Abc_FrameReplaceCurrentNetwork, PlaceOf
  <2> HIDE DEF h
  <2> QED BY <1>1, <2>1, Zenon
<1>3. /\ Good(h, u) /\ Seen(h, u) = WithHead(Seen(f, s), f.ntks[a].data)
      /\ DOMAIN h.ntks = DOMAIN f.ntks
      /\ Loose(h, u) = (Loose(f, s) \ {a}) \cup {s[1]} /\ h.nSteps = f.nSteps
  BY PlaceGood
<1> HIDE DEF h, u
<1>4. {s[1]} \cap On(u) = {}
  BY <1>3 DEF Loose
<1>5. /\ Good(g, u) /\ DOMAIN g.ntks = DOMAIN h.ntks \ {s[1]}
      /\ Seen(g, u) = Seen(h, u) /\ Loose(g, u) = Loose(h, u) \ {s[1]}
      /\ g.nSteps = h.nSteps
  BY <1>3, <1>4, DeletedGood
<1> HIDE DEF g
<1>7. Loose(g, u) = Loose(f, s) \ {a}
  <2>1. s[1] \notin Loose(f, s)
    BY <1>1 DEF Loose
  <2> QED BY <1>3, <1>5, <2>1
<1> QED BY <1>2, <1>3, <1>5, <1>7 DEF u

LEMMA ReplaceAlone ==
  ASSUME NEW f, NEW s, Good(f, s), s = <<>> \/ ~backup, NEW a \in Loose(f, s),
         f.ntks[a].pNetBackup = NULL
  PROVE  LET g == Abc_FrameReplaceCurrentNetwork(f, a)
         IN  /\ Good(g, <<a>>) /\ Seen(g, <<a>>) = <<f.ntks[a].data>>
             /\ DOMAIN g.ntks \subseteq DOMAIN f.ntks
             /\ Loose(g, <<a>>) = DOMAIN f.ntks \ {a, f.pNtkCur} /\ g.nSteps = f.nSteps + 1
<1> DEFINE h == AloneOf(f, a, f.nSteps + 1, f.nSteps + 1, a)
           u == <<a>>
           g == Deleted(h, {f.pNtkCur})
<1>1. ~(f.pNtkCur # NULL /\ backup)
  BY GoodFacts
<1>2. Abc_FrameReplaceCurrentNetwork(f, a) = g
  <2>1. Abc_FrameReplaceCurrentNetwork(f, a)
          = Deleted(IF f.pNtkCur # NULL /\ backup
                    THEN [f EXCEPT !.ntks[a].pNetBackup = f.ntks[f.pNtkCur].pNetBackup,
                                   !.ntks[a].iStep = f.ntks[f.pNtkCur].iStep, !.pNtkCur = a]
                    ELSE h, {f.pNtkCur})
    BY Zenon DEF Abc_FrameReplaceCurrentNetwork, AloneOf
  <2> HIDE DEF h
  <2> QED BY <1>1, <2>1, Zenon
<1>3. /\ Good(h, u) /\ Seen(h, u) = <<f.ntks[a].data>>
      /\ DOMAIN h.ntks = DOMAIN f.ntks
      /\ Loose(h, u) = DOMAIN f.ntks \ {a} /\ h.nSteps = f.nSteps + 1
  BY AloneGood
<1>4. On(u) = {a}
  <2>1. Len(u) = 1 /\ u[1] = a
    OBVIOUS
  <2> HIDE DEF u
  <2> QED BY <2>1 DEF On
<1> HIDE DEF h, u
<1>5. {f.pNtkCur} \cap On(u) = {}
  <2>1. a \in DOMAIN f.ntks /\ a \notin On(s)
    BY DEF Loose
  <2>2. f.pNtkCur # NULL => f.pNtkCur \in On(s)
    <3>1. f.pNtkCur # NULL => f.pNtkCur = s[1] /\ 1 \in 1 .. Len(s)
      BY GoodFacts
    <3> QED BY <3>1 DEF On
  <2>3. NULL \notin DOMAIN f.ntks
    BY GoodFacts
  <2> QED BY <1>4, <2>1, <2>2, <2>3
<1>6. /\ Good(g, u) /\ DOMAIN g.ntks = DOMAIN h.ntks \ {f.pNtkCur}
      /\ Seen(g, u) = Seen(h, u) /\ Loose(g, u) = Loose(h, u) \ {f.pNtkCur}
      /\ g.nSteps = h.nSteps
  BY <1>3, <1>5, DeletedGood
<1> HIDE DEF g
<1>8. Loose(g, u) = DOMAIN f.ntks \ {a, f.pNtkCur}
  BY <1>3, <1>6
<1> QED BY <1>2, <1>3, <1>6, <1>8 DEF u

(* Nothing of the list is left, and nothing else goes.                       *)
LEMMA DeleteAllGood ==
  ASSUME NEW f, NEW s, Good(f, s)
  PROVE  LET g == Abc_FrameDeleteAllNetworks(f)
         IN  /\ Good(g, <<>>) /\ Seen(g, <<>>) = <<>>
             /\ DOMAIN g.ntks = Loose(f, s) /\ Loose(g, <<>>) = Loose(f, s)
             /\ g.nSteps = f.nSteps
<1> DEFINE N == [x \in DOMAIN f.ntks \ On(s) |-> f.ntks[x]]
           g == Abc_FrameDeleteAllNetworks(f)
<1>1. List(f) = s /\ DOMAIN s = 1 .. Len(s)
  BY GoodFacts
<1>2. f = [ntks |-> f.ntks, pNtkCur |-> f.pNtkCur, nSteps |-> f.nSteps]
  BY DEF Good, Shape
<1>3. g = [Deleted(f, On(s)) EXCEPT !.pNtkCur = NULL]
  <2>1. g = [Deleted(f, {s[n] : n \in DOMAIN s}) EXCEPT !.pNtkCur = NULL]
    BY <1>1, Zenon DEF Abc_FrameDeleteAllNetworks
  <2>2. {s[n] : n \in DOMAIN s} = On(s)
    BY <1>1 DEF On
  <2> QED BY <2>1, <2>2, Zenon
<1>4. Deleted(f, On(s)) = [ntks |-> N, pNtkCur |-> f.pNtkCur, nSteps |-> f.nSteps]
  BY <1>2 DEF Deleted
<1> HIDE DEF g, N
<1>5. g = [ntks |-> N, pNtkCur |-> NULL, nSteps |-> f.nSteps]
  BY <1>3, <1>4
<1>6. g.ntks = N /\ g.pNtkCur = NULL /\ g.nSteps = f.nSteps
  BY <1>5
<1>7. /\ DOMAIN N = Loose(f, s) /\ N = [x \in DOMAIN N |-> N[x]]
      /\ \A x \in DOMAIN N : x \in DOMAIN f.ntks /\ N[x] = f.ntks[x]
  BY DEF N, Loose
<1>8. Shape(g)
  BY <1>5, <1>6, <1>7 DEF Good, Shape
<1>9. Chain(g, <<>>) /\ Numbered(g, <<>>) /\ On(<<>>) = {}
  BY <1>6 DEF Chain, Numbered, On
<1>10. Loose(g, <<>>) = Loose(f, s)
  BY <1>6, <1>7, <1>9 DEF Loose
<1>11. Seen(g, <<>>) = <<>>
  BY DEF Seen
<1> QED BY <1>6, <1>7, <1>8, <1>9, <1>10, <1>11 DEF Good, g

-----------------------------------------------------------------------------
(* The commands. *)

LEMMA UnusedFacts ==
  ASSUME NEW f, NEW s, Good(f, s), Enough(f, 1)
  PROVE  Unused(f) \in Addresses \ DOMAIN f.ntks
<1>1. DOMAIN f.ntks \subseteq Addresses
  BY GoodFacts
<1>2. Cardinality(Addresses) \in Nat /\ IsFiniteSet(Addresses)
  BY FS_CardinalityType, FrameStackAssumption
<1>3. DOMAIN f.ntks # Addresses
  BY <1>2 DEF Enough
<1>4. \E a \in Addresses : a \notin DOMAIN f.ntks
  BY <1>1, <1>3
<1> QED BY <1>4 DEF Unused

(* One block of memory more or less.                                         *)
LEMMA EnoughLeft ==
  ASSUME NEW f, NEW g, DOMAIN f.ntks \subseteq Addresses, NEW a,
         DOMAIN g.ntks \subseteq DOMAIN f.ntks \cup {a}
  PROVE  /\ Enough(f, 2) => Enough(g, 1)
         /\ Enough(f, 1) /\ DOMAIN g.ntks \subseteq DOMAIN f.ntks => Enough(g, 1)
<1> DEFINE F == DOMAIN f.ntks
           G == DOMAIN g.ntks
<1>1. /\ IsFiniteSet(F) /\ Cardinality(F) \in Nat /\ Cardinality(Addresses) \in Nat
  BY FS_CardinalityType, FS_Subset, FrameStackAssumption
<1>2. /\ IsFiniteSet(F \cup {a}) /\ Cardinality(F \cup {a}) \in Nat
      /\ Cardinality(F \cup {a}) <= Cardinality(F) + 1
  <2> HIDE DEF F
  <2>1. IsFiniteSet(F \cup {a}) /\ Cardinality(F \cup {a}) = IF a \in F THEN Cardinality(F) ELSE Cardinality(F) + 1
    BY <1>1, FS_AddElement
  <2> QED BY <1>1, <2>1
<1>3. Cardinality(G) \in Nat /\ Cardinality(G) <= Cardinality(F) + 1
  <2>1. Cardinality(G) \in Nat /\ Cardinality(G) <= Cardinality(F \cup {a})
    BY <1>2, FS_Subset, FS_CardinalityType
  <2> HIDE DEF F, G
  <2> QED BY <1>1, <1>2, <2>1
<1>4. G \subseteq F => Cardinality(G) <= Cardinality(F)
  BY <1>1, FS_Subset
<1> HIDE DEF F, G
<1>5. Enough(f, 2) <=> Cardinality(F) + 2 <= Cardinality(Addresses)
  BY DEF Enough, F
<1>6. Enough(f, 1) <=> Cardinality(F) + 1 <= Cardinality(Addresses)
  BY DEF Enough, F
<1>7. Enough(g, 1) <=> Cardinality(G) + 1 <= Cardinality(Addresses)
  BY DEF Enough, G
<1>8. Enough(f, 2) => Enough(g, 1)
  BY <1>1, <1>3, <1>5, <1>7
<1>9. Enough(f, 1) /\ G \subseteq F => Enough(g, 1)
  BY <1>1, <1>3, <1>4, <1>6, <1>7
<1> QED BY <1>8, <1>9 DEF F, G

(* A copy on top of the list is what "undo", "recall" and the dispatcher     *)
(* push.                                                                     *)
LEMMA CopyPushed ==
  ASSUME NEW f, NEW s, Good(f, s), Enough(f, 1), savesteps \in Nat, NEW d \in Data
  PROVE  LET a == Unused(f)
             h == New(f, a, d)
             g == Abc_FrameSetCurrentNetwork(h, a)
             u == CutTo(<<a>> \o s)
         IN  /\ Good(h, s) /\ a \in Loose(h, s) /\ h.ntks[a].data = d
             /\ Good(g, u) /\ Seen(g, u) = CutTo(<<d>> \o Seen(f, s))
             /\ DOMAIN g.ntks \subseteq DOMAIN f.ntks \cup {a}
             /\ Loose(g, u) = Loose(f, s) /\ g.nSteps = f.nSteps + 1
<1> DEFINE a == Unused(f)
           h == New(f, a, d)
           g == Abc_FrameSetCurrentNetwork(h, a)
           u == CutTo(<<a>> \o s)
<1>1. a \in Addresses \ DOMAIN f.ntks
  BY UnusedFacts
<1> HIDE DEF a
<1>2. /\ Good(h, s) /\ a \in DOMAIN h.ntks /\ a \notin On(s)
      /\ DOMAIN h.ntks = DOMAIN f.ntks \cup {a}
      /\ h.ntks[a].data = d /\ Seen(h, s) = Seen(f, s)
      /\ h.nSteps = f.nSteps /\ Loose(h, s) = Loose(f, s) \cup {a}
  BY <1>1, NewGood
<1> HIDE DEF h
<1>3. a \in Loose(h, s) /\ a \notin Loose(f, s)
  BY <1>1, <1>2 DEF Loose
<1>4. /\ Good(g, u) /\ Seen(g, u) = CutTo(<<h.ntks[a].data>> \o Seen(h, s))
      /\ DOMAIN g.ntks \subseteq DOMAIN h.ntks
      /\ Loose(g, u) = Loose(h, s) \ {a} /\ g.nSteps = h.nSteps + 1
  <2> USE DEF g, u
  <2>1. savesteps \in Nat /\ Good(h, s) /\ a \in Loose(h, s)
    BY <1>2, <1>3
  <2>2. Good(g, u)
    BY <2>1, SetGood, Zenon
  <2>3. Seen(g, u) = CutTo(<<h.ntks[a].data>> \o Seen(h, s))
    BY <2>1, SetGood, Zenon
  <2>4. DOMAIN g.ntks \subseteq DOMAIN h.ntks
    BY <2>1, SetGood, Zenon
  <2>5. Without(Loose(g, u), Loose(h, s), a)
    BY <2>1, SetGood, Zenon
  <2>6. g.nSteps = h.nSteps + 1
    BY <2>1, SetGood, Zenon
  <2> QED BY <2>2, <2>3, <2>4, <2>5, <2>6 DEF Without
<1> HIDE DEF g, u
<1>5. Loose(g, u) = Loose(f, s)
  BY <1>2, <1>3, <1>4
<1> QED BY <1>2, <1>3, <1>4, <1>5 DEF a, h, g, u

(* What a network put on a list with contents h leaves of it.                *)
Pushed(h, d) == CutTo(<<d>> \o h)

LEMMA PushedFacts ==
  ASSUME NEW X, NEW s \in Seq(X), NEW a \in X, savesteps \in Nat
  PROVE  /\ CutTo(<<a>> \o s) \in Seq(X) /\ Len(CutTo(<<a>> \o s)) \in Nat \ {0}
         /\ Len(CutTo(<<a>> \o s)) <= Len(s) + 1 /\ Len(s) \in Nat
         /\ CutTo(<<a>> \o s)[1] = a
         /\ \A n \in 2 .. Len(CutTo(<<a>> \o s)) : CutTo(<<a>> \o s)[n] = s[n - 1]
<1> DEFINE t == <<a>> \o s
           u == CutTo(t)
<1>1. /\ t \in Seq(X) /\ Len(t) = Len(s) + 1 /\ Len(s) \in Nat
      /\ \A n \in 1 .. (Len(s) + 1) : t[n] = IF n = 1 THEN a ELSE s[n - 1]
  BY Cons
<1> HIDE DEF t
<1>2. t[1] = a /\ \A n \in 2 .. (Len(s) + 1) : t[n] = s[n - 1]
  BY <1>1
<1>3. CASE ~(Len(t) - 1 > savesteps)
  <2>1. u = t
    BY <1>3 DEF CutTo
  <2> HIDE DEF u
  <2>2. /\ u \in Seq(X) /\ Len(u) \in Nat \ {0} /\ Len(u) <= Len(s) + 1 /\ Len(s) \in Nat
        /\ u[1] = a /\ \A n \in 2 .. Len(u) : u[n] = s[n - 1]
    BY <1>1, <1>2, <2>1
  <2> QED BY <2>2 DEF t, u
<1>4. CASE Len(t) - 1 > savesteps
  <2>1. u = AllButLast(t)
    BY <1>4, Zenon DEF CutTo
  <2>2. Len(t) > 1 /\ t # <<>>
    BY <1>1, <1>4
  <2>3. /\ u \in Seq(X) /\ Len(u) = Len(t) - 1
        /\ \A n \in 1 .. (Len(t) - 1) : u[n] = t[n]
    BY <1>1, <2>1, <2>2, Shortened
  <2> HIDE DEF u
  <2>4. Len(u) = Len(s) /\ Len(u) > 0
    BY <1>1, <2>2, <2>3
  <2>5. u[1] = a /\ \A n \in 2 .. Len(u) : u[n] = s[n - 1]
    BY <1>1, <1>2, <2>3, <2>4
  <2> QED BY <1>1, <2>3, <2>4, <2>5 DEF t, u
<1> QED BY <1>3, <1>4

(* The dispatcher saves a copy of the current network, if there is one and   *)
(* backup is on.                                                             *)
LEMMA DispatchedGood ==
  ASSUME NEW f, NEW s, Good(f, s), Enough(f, 1), savesteps \in Nat, s # <<>>, backup
  PROVE  LET g == Dispatched(f)
         IN  \E u : /\ Good(g, u) /\ u # <<>>
                    /\ Seen(g, u) = Pushed(Seen(f, s), Seen(f, s)[1])
                    /\ DOMAIN g.ntks \subseteq DOMAIN f.ntks \cup {Unused(f)}
                    /\ Loose(g, u) = Loose(f, s) /\ g.nSteps = f.nSteps + 1
<1> DEFINE a == Unused(f)
           d == f.ntks[f.pNtkCur].data
           h == New(f, a, d)
           k == Abc_FrameSetCurrentNetwork(h, a)
           t == CutTo(<<a>> \o s)
           g == Dispatched(f)
<1>1. /\ f.pNtkCur # NULL /\ f.pNtkCur = s[1] /\ 1 \in 1 .. Len(s) /\ Len(s) \in Nat
      /\ s \in [1 .. Len(s) -> DOMAIN f.ntks] /\ s \in Seq(DOMAIN f.ntks) /\ Shape(f)
  BY GoodFacts DEF Good, Chain
<1>2. g = Abc_FrameSwapCurrentAndBackup(k)
  BY <1>1, Zenon DEF Dispatched, Copy
<1>3. d \in Data /\ d = Seen(f, s)[1]
  BY <1>1 DEF Shape, Seen
<1> HIDE DEF d
<1>4. /\ Good(h, s) /\ a \in Loose(h, s) /\ h.ntks[a].data = d
      /\ Good(k, t) /\ Seen(k, t) = CutTo(<<d>> \o Seen(f, s))
      /\ DOMAIN k.ntks \subseteq DOMAIN f.ntks \cup {a}
      /\ Loose(k, t) = Loose(f, s) /\ k.nSteps = f.nSteps + 1
  BY <1>3, CopyPushed, Zenon
<1> HIDE DEF h, k, g
<1>5. Len(t) \in Nat \ {0} /\ t # <<>>
  <2>1. Len(t) \in Nat \ {0}
    <3> DEFINE X == DOMAIN h.ntks
    <3>1. s \in Seq(X) /\ a \in X
      BY <1>4 DEF Good, Chain, Loose
    <3> HIDE DEF X, a
    <3> QED BY <3>1, PushedFacts
  <2> HIDE DEF t
  <2> QED BY <2>1
<1> HIDE DEF t
<1>6. Seen(k, t) = Pushed(Seen(f, s), Seen(f, s)[1])
  BY <1>3, <1>4 DEF Pushed
<1>7. CASE Len(t) = 1
  <2>1. k.pNtkCur = t[1] /\ 1 \in 1 .. Len(t) /\ ~(1 < Len(t))
    BY <1>4, <1>5, <1>7, GoodFacts
  <2>2. k.ntks[k.pNtkCur].pNetBackup = NULL
    BY <1>4, <2>1 DEF Good, Chain
  <2>3. g = k
    BY <1>2, <2>2, Zenon DEF Abc_FrameSwapCurrentAndBackup
  <2> QED BY <1>4, <1>5, <1>6, <2>3 DEF g, a
<1>8. CASE Len(t) # 1
  <2> DEFINE u == Swapped(t)
             H == Seen(k, t)
  <2>1. Len(t) > 1
    BY <1>5, <1>8
  <2>2. /\ Good(g, u) /\ Seen(g, u) = Swapped(H)
        /\ DOMAIN g.ntks = DOMAIN k.ntks
        /\ Loose(g, u) = Loose(k, t) /\ g.nSteps = k.nSteps
    BY <1>2, <1>4, <2>1, SwapGood
  <2>3. u # <<>>
    <3>1. 1 \in DOMAIN u
      BY <1>5 DEF Swapped
    <3> HIDE DEF u
    <3> QED BY <3>1
  <2>4. Swapped(H) = H
    <3> DEFINE old == Seen(f, s)
    <3>1. /\ H = CutTo(<<d>> \o old) /\ Len(H) = Len(t) /\ H = [n \in 1 .. Len(H) |-> H[n]]
          /\ old \in Seq(Data) /\ old[1] = d /\ d \in Data
      <4>1. Len(H) = Len(t) /\ H = [n \in 1 .. Len(H) |-> H[n]]
        BY <1>5 DEF Seen
      <4>2. old \in Seq(Data)
        BY <1>1 DEF Seen, Shape
      <4> QED BY <1>3, <1>4, <4>1, <4>2
    <3> HIDE DEF H, old
    <3>2. H[1] = d /\ \A n \in 2 .. Len(H) : H[n] = old[n - 1]
      <4>1. /\ CutTo(<<d>> \o old)[1] = d
            /\ \A n \in 2 .. Len(CutTo(<<d>> \o old)) : CutTo(<<d>> \o old)[n] = old[n - 1]
        <5>1. old \in Seq(Data) /\ d \in Data
          BY <3>1
        <5>2. CutTo(<<d>> \o old)[1] = d
          BY <5>1, PushedFacts
        <5>3. \A n \in 2 .. Len(CutTo(<<d>> \o old)) : CutTo(<<d>> \o old)[n] = old[n - 1]
          BY <5>1, PushedFacts
        <5> QED BY <5>2, <5>3
      <4> QED BY <3>1, <4>1, Zenon
    <3>3. 2 \in 2 .. Len(H)
      BY <1>5, <2>1, <3>1
    <3>4. H[2] = H[1]
      BY <3>1, <3>2, <3>3
    <3>5. \A n \in 1 .. Len(H) : (IF n = 1 THEN H[2] ELSE IF n = 2 THEN H[1] ELSE H[n]) = H[n]
      BY <3>4
    <3> QED BY <3>1, <3>5 DEF Swapped
  <2> HIDE DEF u
  <2> QED BY <1>4, <1>6, <2>2, <2>3, <2>4 DEF g, a
<1> QED BY <1>7, <1>8

-----------------------------------------------------------------------------
(* The inductive invariant. *)

IInv ==
  /\ Good(Frame, Stack)
  /\ pNtkBackup \in Loose(Frame, Stack) \cup {NULL}
  /\ nSteps <= MaxSteps /\ backup \in BOOLEAN /\ savesteps \in SaveSteps

(* What the state is in terms of the list.                                   *)
LEMMA IInvFacts ==
  ASSUME IInv
  PROVE  /\ Good(Frame, Stack) /\ savesteps \in Nat
         /\ Frame.ntks = ntks /\ Frame.pNtkCur = pNtkCur /\ Frame.nSteps = nSteps
         /\ nSteps \in Nat \ {0}
         /\ Contents = Seen(Frame, Stack) /\ Len(Contents) = Len(Stack)
         /\ Len(Stack) \in Nat /\ Stack \in [1 .. Len(Stack) -> DOMAIN ntks]
         /\ Contents \in Seq(Data)
         /\ Stacked = On(Stack) /\ Leaked = Loose(Frame, Stack) \ {pNtkBackup}
         /\ pNtkCur # NULL <=> Contents # <<>>
         /\ Stack # <<>> <=> Contents # <<>>
         /\ pNtkCur # NULL => pNtkCur = Stack[1] /\ 1 \in 1 .. Len(Stack)
         /\ NULL \notin DOMAIN ntks
<1>1. Good(Frame, Stack) /\ savesteps \in Nat
  BY FrameStackAssumption DEF IInv
<1>2. Frame.ntks = ntks /\ Frame.pNtkCur = pNtkCur /\ Frame.nSteps = nSteps
  BY DEF Frame
<1> HIDE DEF Stack, Frame
<1>3. /\ Len(Stack) \in Nat /\ Stack \in [1 .. Len(Stack) -> DOMAIN Frame.ntks]
      /\ NULL \notin DOMAIN Frame.ntks
      /\ Stack = <<>> <=> Len(Stack) = 0
      /\ Frame.pNtkCur = IF Len(Stack) = 0 THEN NULL ELSE Stack[1]
      /\ Frame.pNtkCur # NULL <=> Stack # <<>>
  BY <1>1, GoodFacts
<1>4. Contents = Seen(Frame, Stack) /\ Len(Contents) = Len(Stack) /\ Contents \in Seq(Data)
  <2>1. DOMAIN Stack = 1 .. Len(Stack)
    BY <1>3
  <2>2. Contents = [n \in 1 .. Len(Stack) |-> ntks[Stack[n]].data]
    BY <2>1 DEF Contents
  <2>3. \A n \in 1 .. Len(Stack) : ntks[Stack[n]].data \in Data
    BY <1>1, <1>2, <1>3 DEF Good, Shape
  <2> QED BY <1>2, <1>3, <2>2, <2>3 DEF Seen
<1>5. Stacked = On(Stack)
  <2>1. DOMAIN Stack = 1 .. Len(Stack)
    BY <1>3
  <2> QED BY <2>1 DEF Stacked, On
<1>6. Leaked = Loose(Frame, Stack) \ {pNtkBackup}
  BY <1>2, <1>5 DEF Leaked, Loose
<1>7. Contents # <<>> <=> Len(Stack) # 0
  BY <1>3, <1>4
<1>8. nSteps \in Nat \ {0}
  BY <1>1, <1>2 DEF Good, Shape
<1>9. pNtkCur # NULL => pNtkCur = Stack[1] /\ 1 \in 1 .. Len(Stack)
  BY <1>2, <1>3
<1> QED BY <1>1, <1>2, <1>3, <1>4, <1>5, <1>6, <1>7, <1>8, <1>9

(* The state in which a command leaves a list.                               *)
LEMMA Reached ==
  ASSUME NEW f, NEW u, Good(f, u), Become(f), f.nSteps <= MaxSteps,
         pNtkBackup' \in Loose(f, u) \cup {NULL},
         backup' \in BOOLEAN, savesteps' \in SaveSteps
  PROVE  /\ IInv' /\ Contents' = Seen(f, u) /\ nSteps' = f.nSteps
         /\ Leaked' = Loose(f, u) \ {pNtkBackup'}
<1>1. Frame' = f
  BY DEF Frame, Become, Good, Shape
<1>2. Stack' = u
  <2>1. List(f) = u
    BY GoodFacts
  <2> QED BY <1>1, <2>1 DEF Stack
<1>3. nSteps' = f.nSteps /\ ntks' = f.ntks
  BY DEF Become
<1>4. Len(u) \in Nat /\ DOMAIN u = 1 .. Len(u)
  BY GoodFacts
<1>5. IInv'
  BY <1>1, <1>2, <1>3 DEF IInv
<1>6. Contents' = Seen(f, u)
  BY <1>2, <1>3, <1>4 DEF Contents, Seen
<1>7. Leaked' = Loose(f, u) \ {pNtkBackup'}
  BY <1>2, <1>3, <1>4 DEF Leaked, Stacked, On, Loose
<1> QED BY <1>3, <1>5, <1>6, <1>7

-----------------------------------------------------------------------------
(* One command: the invariant is kept, the history changes as documented and *)
(* what is leaked is known.                                                  *)

LEMMA KeptIsCut ==
  ASSUME NEW h
  PROVE  History!Kept(h) = CutTo(h)
  BY DEF History!Kept, CutTo, AllButLast

LEMMA SavedStep ==
  ASSUME IInv, NEW d \in Data, More, Enough(Frame, 1),
         Become(Abc_FrameSetCurrentNetwork(New(Frame, Unused(Frame), d), Unused(Frame))),
         UNCHANGED <<pNtkBackup, settings>>
  PROVE  IInv' /\ History!Push(d) /\ Leaked' = Leaked
<1> DEFINE f == Frame
           s == Stack
           a == Unused(f)
           g == Abc_FrameSetCurrentNetwork(New(f, a, d), a)
           u == CutTo(<<a>> \o s)
<1>1. /\ Good(f, s) /\ savesteps \in Nat /\ f.nSteps = nSteps /\ nSteps \in Nat \ {0}
      /\ Contents = Seen(f, s) /\ Leaked = Loose(f, s) \ {pNtkBackup}
      /\ pNtkBackup \in Loose(f, s) \cup {NULL} /\ backup \in BOOLEAN /\ savesteps \in SaveSteps
  BY IInvFacts DEF IInv
<1>2. Become(g) /\ Enough(f, 1)
  OBVIOUS
<1> HIDE DEF f, s
<1>3. /\ Good(g, u) /\ Seen(g, u) = CutTo(<<d>> \o Seen(f, s))
      /\ Loose(g, u) = Loose(f, s) /\ g.nSteps = f.nSteps + 1
  BY <1>1, <1>2, CopyPushed, Zenon
<1> HIDE DEF g, u
<1>4. /\ g.nSteps <= MaxSteps /\ pNtkBackup' \in Loose(g, u) \cup {NULL}
      /\ backup' \in BOOLEAN /\ savesteps' \in SaveSteps
  BY <1>1, <1>3, FrameStackAssumption DEF More, settings
<1>5. /\ IInv' /\ Contents' = Seen(g, u) /\ nSteps' = g.nSteps
      /\ Leaked' = Loose(g, u) \ {pNtkBackup'}
  BY <1>2, <1>3, <1>4, Reached
<1>6. Contents' = CutTo(<<d>> \o Contents) /\ nSteps' = nSteps + 1 /\ Leaked' = Leaked
  BY <1>1, <1>3, <1>5
<1>7. Contents' = History!Kept(<<d>> \o Contents)
  BY <1>6, KeptIsCut
<1>8. UNCHANGED History!settings
  BY DEF settings, History!settings
<1> QED BY <1>5, <1>6, <1>7, <1>8 DEF History!Push

(* A state without a change to the networks.                                 *)
LEMMA SameStep ==
  ASSUME IInv, UNCHANGED <<ntks, pNtkCur, nSteps, pNtkBackup>>, backup' \in BOOLEAN,
         savesteps' \in SaveSteps
  PROVE  IInv' /\ Contents' = Contents /\ Leaked' = Leaked
<1> DEFINE f == Frame
           s == Stack
<1>1. /\ Good(f, s) /\ f.nSteps = nSteps
      /\ Contents = Seen(f, s) /\ Leaked = Loose(f, s) \ {pNtkBackup}
      /\ pNtkBackup \in Loose(f, s) \cup {NULL} /\ nSteps <= MaxSteps
  BY IInvFacts DEF IInv
<1>2. Become(f)
  BY DEF Become, Frame
<1> HIDE DEF f, s
<1>3. /\ IInv' /\ Contents' = Seen(f, s) /\ Leaked' = Loose(f, s) \ {pNtkBackup'}
  BY <1>1, <1>2, Reached
<1> QED BY <1>1, <1>3

(* A replacement, with the block of memory it takes.                         *)
LEMMA ReplaceGood ==
  ASSUME NEW f, NEW s, Good(f, s), Enough(f, 1), NEW d \in Data
  PROVE  LET g == Abc_FrameReplaceCurrentNetwork(New(f, Unused(f), d), Unused(f))
         IN  \E u : /\ Good(g, u)
                    /\ Loose(f, s) \subseteq Loose(g, u)
                    /\ backup => Loose(g, u) = Loose(f, s)
                    /\ IF backup /\ s # <<>>
                       THEN Seen(g, u) = WithHead(Seen(f, s), d) /\ g.nSteps = f.nSteps
                       ELSE Seen(g, u) = <<d>> /\ g.nSteps = f.nSteps + 1
<1> DEFINE a == Unused(f)
           h == New(f, a, d)
           g == Abc_FrameReplaceCurrentNetwork(h, a)
<1>1. a \in Addresses \ DOMAIN f.ntks
  BY UnusedFacts
<1>2. h.ntks[a].pNetBackup = NULL
  BY DEF New, Good, Shape
<1> HIDE DEF a
<1>3. /\ Good(h, s) /\ a \in DOMAIN h.ntks /\ a \notin On(s)
      /\ DOMAIN h.ntks = DOMAIN f.ntks \cup {a}
      /\ h.ntks[a].data = d /\ Seen(h, s) = Seen(f, s)
      /\ h.nSteps = f.nSteps /\ h.pNtkCur = f.pNtkCur /\ Loose(h, s) = Loose(f, s) \cup {a}
  BY <1>1, NewGood
<1> HIDE DEF h
<1>4. a \in Loose(h, s) /\ a \notin Loose(f, s)
  BY <1>1, <1>3 DEF Loose
<1> HIDE DEF g
<1>5. CASE backup /\ s # <<>>
  <2> DEFINE u == WithHead(s, a)
  <2>1. /\ Good(g, u) /\ Seen(g, u) = WithHead(Seen(h, s), h.ntks[a].data)
        /\ Loose(g, u) = Loose(h, s) \ {a} /\ g.nSteps = h.nSteps
    BY <1>3, <1>4, <1>5, ReplaceOnTop DEF g
  <2> HIDE DEF u
  <2>2. Loose(g, u) = Loose(f, s)
    BY <1>3, <1>4, <2>1
  <2>3. Seen(g, u) = WithHead(Seen(f, s), d) /\ g.nSteps = f.nSteps
    BY <1>3, <2>1
  <2> QED BY <1>5, <2>1, <2>2, <2>3 DEF g, h, a
<1>6. CASE ~(backup /\ s # <<>>)
  <2> DEFINE u == <<a>>
  <2>1. /\ Good(g, u) /\ Seen(g, u) = <<h.ntks[a].data>>
        /\ Loose(g, u) = DOMAIN h.ntks \ {a, h.pNtkCur} /\ g.nSteps = h.nSteps + 1
    BY <1>2, <1>3, <1>4, <1>6, ReplaceAlone DEF g
  <2> HIDE DEF u
  <2>2. f.pNtkCur \notin Loose(f, s) /\ (s = <<>> => f.pNtkCur = NULL /\ On(s) = {})
        /\ NULL \notin DOMAIN f.ntks
    <3>1. /\ f.pNtkCur # NULL => f.pNtkCur = s[1] /\ 1 \in 1 .. Len(s)
          /\ s = <<>> => f.pNtkCur = NULL /\ 1 .. Len(s) = {}
          /\ NULL \notin DOMAIN f.ntks
      BY GoodFacts
    <3> QED BY <3>1 DEF On, Loose
  <2>3. Loose(g, u) = DOMAIN f.ntks \ {f.pNtkCur}
    BY <1>1, <1>3, <2>1
  <2>4. Loose(f, s) \subseteq Loose(g, u) /\ (backup => Loose(g, u) = Loose(f, s))
    BY <1>6, <2>2, <2>3 DEF Loose
  <2>5. Seen(g, u) = <<d>> /\ g.nSteps = f.nSteps + 1
    BY <1>3, <2>1
  <2> QED BY <1>6, <2>1, <2>4, <2>5 DEF g, h, a
<1> QED BY <1>5, <1>6

(* The head of what was pushed replaced.                                     *)
LEMMA PushedReplaced ==
  ASSUME NEW X, NEW h \in Seq(X), NEW c \in X, NEW d \in X
  PROVE  WithHead(Pushed(h, c), d) = Pushed(h, d)
<1> DEFINE t == <<c>> \o h
           v == <<d>> \o h
<1>1. /\ t \in Seq(X) /\ Len(t) = Len(h) + 1 /\ Len(h) \in Nat
      /\ \A n \in 1 .. (Len(h) + 1) : t[n] = IF n = 1 THEN c ELSE h[n - 1]
  BY Cons
<1>2. /\ v \in Seq(X) /\ Len(v) = Len(h) + 1
      /\ \A n \in 1 .. (Len(h) + 1) : v[n] = IF n = 1 THEN d ELSE h[n - 1]
  BY Cons
<1>3. Pushed(h, c) = CutTo(t) /\ Pushed(h, d) = CutTo(v)
  BY DEF Pushed
<1> HIDE DEF t, v
<1>4. CASE ~(Len(t) - 1 > savesteps)
  <2>1. CutTo(t) = t /\ CutTo(v) = v
    BY <1>1, <1>2, <1>4 DEF CutTo
  <2>2. v = [n \in 1 .. Len(v) |-> v[n]]
    BY <1>2
  <2> QED BY <1>1, <1>2, <1>3, <2>1, <2>2 DEF WithHead
<1>5. CASE Len(t) - 1 > savesteps
  <2> DEFINE tt == AllButLast(t)
             vv == AllButLast(v)
  <2>1. CutTo(t) = tt /\ CutTo(v) = vv
    BY <1>1, <1>2, <1>5 DEF CutTo
  <2>2. t # <<>> /\ v # <<>>
    <3>1. Len(t) # 0 /\ Len(v) # 0
      BY <1>1, <1>2
    <3> QED BY <3>1
  <2>3. /\ Len(tt) = Len(h) /\ Len(vv) = Len(h)
        /\ \A n \in 1 .. Len(h) : tt[n] = t[n] /\ vv[n] = v[n]
        /\ vv \in Seq(X)
    <3>1. /\ Len(tt) = Len(t) - 1
          /\ \A n \in 1 .. (Len(t) - 1) : tt[n] = t[n]
      BY <1>1, <2>2, Shortened
    <3>2. /\ Len(vv) = Len(v) - 1 /\ vv \in Seq(X)
          /\ \A n \in 1 .. (Len(v) - 1) : vv[n] = v[n]
      BY <1>2, <2>2, Shortened
    <3>3. Len(t) - 1 = Len(h) /\ Len(v) - 1 = Len(h)
      BY <1>1, <1>2
    <3> HIDE DEF tt, vv
    <3> QED BY <3>1, <3>2, <3>3
  <2> HIDE DEF tt, vv
  <2>4. vv = [n \in 1 .. Len(h) |-> vv[n]]
    BY <2>3
  <2>5. \A n \in 1 .. Len(h) : (IF n = 1 THEN d ELSE tt[n]) = vv[n]
    <3>1. ASSUME NEW n \in 1 .. Len(h)
          PROVE  (IF n = 1 THEN d ELSE tt[n]) = vv[n]
      <4>1. n \in 1 .. (Len(h) + 1)
        BY <1>1
      <4>2. t[n] = (IF n = 1 THEN c ELSE h[n - 1]) /\ v[n] = (IF n = 1 THEN d ELSE h[n - 1])
        BY <1>1, <1>2, <4>1
      <4> QED BY <2>3, <4>2
    <3> QED BY <3>1
  <2> QED BY <1>3, <2>1, <2>3, <2>4, <2>5 DEF WithHead
<1> QED BY <1>4, <1>5

LEMMA HeadReplaced ==
  ASSUME NEW X, NEW h \in Seq(X), h # <<>>, NEW d \in X
  PROVE  WithHead(h, d) = <<d>> \o Tail(h)
<1> DEFINE r == Tail(h)
           v == <<d>> \o r
<1>1. /\ Len(h) \in Nat \ {0} /\ r \in Seq(X) /\ Len(r) = Len(h) - 1
      /\ \A n \in 1 .. Len(r) : r[n] = h[n + 1]
  BY HeadTailProperties
<1> HIDE DEF r
<1>2. /\ v \in Seq(X) /\ Len(v) = Len(r) + 1
      /\ \A n \in 1 .. (Len(r) + 1) : v[n] = IF n = 1 THEN d ELSE r[n - 1]
  BY <1>1, Cons
<1> HIDE DEF v
<1>3. Len(v) = Len(h) /\ v = [n \in 1 .. Len(h) |-> v[n]]
  BY <1>1, <1>2
<1>4. ASSUME NEW n \in 1 .. Len(h)
      PROVE  v[n] = IF n = 1 THEN d ELSE h[n]
  <2>1. CASE n = 1
    BY <1>1, <1>2, <2>1
  <2>2. CASE n # 1
    <3>1. n - 1 \in 1 .. Len(r) /\ n \in 1 .. (Len(r) + 1)
      BY <1>1, <2>2
    <3>2. r[n - 1] = h[n - 1 + 1]
      BY <1>1, <3>1
    <3> QED BY <1>1, <1>2, <2>2, <3>1, <3>2
  <2> QED BY <2>1, <2>2
<1> QED BY <1>3, <1>4 DEF WithHead, v, r

LEMMA DeriveStep ==
  ASSUME IInv, NEW d \in Data, Derive(d)
  PROVE  IInv' /\ History!Push(d) /\ Leaked' = Leaked
  BY SavedStep DEF Derive

LEMMA UndoStep ==
  ASSUME IInv, Undo
  PROVE  IInv' /\ History!Undo /\ Leaked' = Leaked
<1> DEFINE back == ntks[pNtkCur].pNetBackup
           d == ntks[back].data
<1>1. /\ Len(Stack) > 1 /\ back = Stack[2]
  <2>1. pNtkCur = Stack[1] /\ 1 \in 1 .. Len(Stack) /\ Good(Frame, Stack) /\ Frame.ntks = ntks
    BY IInvFacts DEF Undo
  <2>2. back = IF 1 < Len(Stack) THEN Stack[1 + 1] ELSE NULL
    BY <2>1 DEF Good, Chain
  <2>3. Len(Stack) \in Nat
    BY IInvFacts
  <2> HIDE DEF Stack
  <2> QED BY <2>2, <2>3 DEF Undo
<1>2. d \in Data /\ d = Contents[2] /\ Len(Contents) > 1
  <2>1. /\ Contents = Seen(Frame, Stack) /\ Len(Contents) = Len(Stack) /\ Frame.ntks = ntks
        /\ Contents \in Seq(Data) /\ Len(Stack) \in Nat
    BY IInvFacts
  <2> HIDE DEF Stack, Contents, Frame
  <2>2. 2 \in 1 .. Len(Stack)
    BY <1>1, <2>1
  <2>3. d = Contents[2] /\ Len(Contents) > 1
    BY <1>1, <2>1, <2>2 DEF Seen
  <2>4. Contents[2] \in Data
    BY <2>1, <2>2
  <2> QED BY <2>3, <2>4
<1>3. /\ Become(Abc_FrameSetCurrentNetwork(New(Frame, Unused(Frame), d), Unused(Frame)))
      /\ More /\ Enough(Frame, 1) /\ UNCHANGED <<pNtkBackup, settings>>
  <2>1. Copy(Frame, back) = New(Frame, Unused(Frame), d)
    BY DEF Copy, Frame
  <2> QED BY <2>1 DEF Undo
<1> HIDE DEF d
<1>4. IInv' /\ History!Push(d) /\ Leaked' = Leaked
  BY <1>2, <1>3, SavedStep
<1> QED BY <1>2, <1>4 DEF History!Undo

LEMMA RecallStep ==
  ASSUME IInv, NEW iStep \in 1 .. nSteps, Recall(iStep)
  PROVE  IInv' /\ History!Recall(iStep) /\ Leaked' = Leaked
<1>0. /\ Good(Frame, Stack) /\ Frame.ntks = ntks /\ Frame.nSteps = nSteps
      /\ Len(Stack) \in Nat /\ DOMAIN Stack = 1 .. Len(Stack) /\ nSteps \in Nat
      /\ Contents = Seen(Frame, Stack) /\ Len(Contents) = Len(Stack) /\ Contents \in Seq(Data)
  BY IInvFacts
<1>1. PICK a \in Found(iStep) :
        Become(Abc_FrameSetCurrentNetwork(Copy(Frame, a), Unused(Frame)))
  BY DEF Recall
<1>2. PICK n \in 1 .. Len(Stack) : a = Stack[n] /\ ntks[a].iStep = iStep
  <2>1. Found(iStep) = {Stack[n] : n \in {m \in DOMAIN Stack : ntks[Stack[m]].iStep = iStep}}
    BY DEF Found, Stack
  <2> QED BY <1>0, <2>1
<1>3. iStep = nSteps - n + 1 /\ iStep < nSteps
  <2>1. Frame.ntks[Stack[n]].iStep = Frame.nSteps - n + 1
    BY <1>0 DEF Good, Numbered
  <2> QED BY <1>0, <1>2, <2>1 DEF Recall
<1> DEFINE d == ntks[a].data
<1>4. d = Contents[n] /\ d \in Data
  <2> HIDE DEF Stack, Contents, Frame
  <2>1. d = Contents[n]
    BY <1>0, <1>2 DEF Seen
  <2>2. Contents[n] \in Data
    BY <1>0
  <2> QED BY <2>1, <2>2
<1>5. /\ Become(Abc_FrameSetCurrentNetwork(New(Frame, Unused(Frame), d), Unused(Frame)))
      /\ More /\ Enough(Frame, 1) /\ UNCHANGED <<pNtkBackup, settings>>
  <2>1. Copy(Frame, a) = New(Frame, Unused(Frame), d)
    BY DEF Copy, Frame
  <2> QED BY <1>1, <2>1 DEF Recall
<1> HIDE DEF d
<1>6. IInv' /\ History!Push(d) /\ Leaked' = Leaked
  BY <1>4, <1>5, SavedStep
<1>7. iStep \in (nSteps - Len(Contents) + 1) .. (nSteps - 1) /\ n = nSteps - iStep + 1
  <2> HIDE DEF Stack, Contents, Frame
  <2>1. iStep \in Int /\ n \in Int /\ 1 <= n /\ n <= Len(Contents) /\ Len(Contents) \in Nat
    BY <1>0
  <2> QED BY <1>0, <1>3, <2>1
<1>8. History!Push(Contents[nSteps - iStep + 1])
  BY <1>4, <1>6, <1>7
<1> QED BY <1>6, <1>7, <1>8 DEF History!Recall

LEMMA EmptyStep ==
  ASSUME IInv, Empty
  PROVE  IInv' /\ History!Empty /\ Leaked' = Leaked
<1> DEFINE f == Frame
           s == Stack
           g == Abc_FrameDeleteAllNetworks(f)
           u == <<>>
<1>1. /\ Good(f, s) /\ f.nSteps = nSteps /\ Leaked = Loose(f, s) \ {pNtkBackup}
      /\ pNtkBackup \in Loose(f, s) \cup {NULL} /\ nSteps <= MaxSteps
      /\ backup \in BOOLEAN /\ savesteps \in SaveSteps
  BY IInvFacts DEF IInv
<1>2. Become(g) /\ pNtkBackup' = pNtkBackup /\ backup' = backup /\ savesteps' = savesteps
  BY DEF Empty, settings
<1> HIDE DEF f, s
<1>3. /\ Good(g, u) /\ Seen(g, u) = <<>> /\ Loose(g, u) = Loose(f, s) /\ g.nSteps = f.nSteps
  BY <1>1, DeleteAllGood, Zenon
<1> HIDE DEF g, u
<1>4. /\ g.nSteps <= MaxSteps /\ pNtkBackup' \in Loose(g, u) \cup {NULL}
      /\ backup' \in BOOLEAN /\ savesteps' \in SaveSteps
  BY <1>1, <1>2, <1>3
<1>5. /\ IInv' /\ Contents' = Seen(g, u) /\ nSteps' = g.nSteps
      /\ Leaked' = Loose(g, u) \ {pNtkBackup'}
  BY <1>2, <1>3, <1>4, Reached
<1>6. UNCHANGED <<nSteps, History!settings>>
  BY <1>1, <1>2, <1>3, <1>5 DEF History!settings
<1> QED BY <1>1, <1>2, <1>3, <1>5, <1>6 DEF History!Empty

LEMMA BackupStep ==
  ASSUME IInv, Backup
  PROVE  IInv' /\ Contents' = Contents /\ Leaked' = Leaked
<1> DEFINE f0 == Frame
           s == Stack
           f == Deleted(f0, {pNtkBackup})
           a == Unused(f)
           d == f.ntks[pNtkCur].data
           h == New(f, a, d)
<1>1. /\ Good(f0, s) /\ f0.nSteps = nSteps /\ Leaked = Loose(f0, s) \ {pNtkBackup}
      /\ pNtkBackup \in Loose(f0, s) \cup {NULL} /\ nSteps <= MaxSteps
      /\ backup \in BOOLEAN /\ savesteps \in SaveSteps /\ Contents = Seen(f0, s)
      /\ pNtkCur = s[1] /\ 1 \in 1 .. Len(s)
      /\ s \in [1 .. Len(s) -> DOMAIN ntks]
      /\ NULL \notin DOMAIN ntks
      /\ DOMAIN f0.ntks \subseteq Addresses
  <2>1. DOMAIN Frame.ntks \subseteq Addresses
    BY IInvFacts, GoodFacts
  <2> QED BY <2>1, IInvFacts DEF IInv, Backup
<1>2. Become(h) /\ pNtkBackup' = a /\ backup' = backup /\ savesteps' = savesteps /\ Enough(f0, 1)
  BY DEF Backup, settings, Copy
<1> HIDE DEF f0, s
<1>3. {pNtkBackup} \cap On(s) = {}
  BY <1>1 DEF On, Loose
<1>4. /\ Good(f, s) /\ DOMAIN f.ntks = DOMAIN f0.ntks \ {pNtkBackup}
      /\ Seen(f, s) = Seen(f0, s) /\ Loose(f, s) = Loose(f0, s) \ {pNtkBackup}
      /\ f.nSteps = f0.nSteps
  BY <1>1, <1>3, DeletedGood
<1>5. Enough(f, 1)
  <2>1. DOMAIN f.ntks \subseteq DOMAIN f0.ntks /\ DOMAIN f.ntks \subseteq DOMAIN f0.ntks \cup {a}
    BY <1>4
  <2> HIDE DEF f, a
  <2> QED BY <1>1, <1>2, <2>1, EnoughLeft
<1> HIDE DEF f
<1>6. a \in Addresses \ DOMAIN f.ntks
  BY <1>4, <1>5, UnusedFacts
<1>7. d \in Data
  <2>1. /\ pNtkCur \in DOMAIN f.ntks
    BY <1>1, <1>4, GoodFacts
  <2> QED BY <1>4, <2>1 DEF Good, Shape
<1> HIDE DEF a, d
<1>8. /\ Good(h, s) /\ a \in DOMAIN h.ntks /\ a \notin On(s) /\ Seen(h, s) = Seen(f, s)
      /\ h.nSteps = f.nSteps /\ Loose(h, s) = Loose(f, s) \cup {a}
  BY <1>4, <1>6, <1>7, NewGood
<1> HIDE DEF h
<1>9. /\ h.nSteps <= MaxSteps /\ pNtkBackup' \in Loose(h, s) \cup {NULL}
      /\ backup' \in BOOLEAN /\ savesteps' \in SaveSteps
  BY <1>1, <1>2, <1>4, <1>8
<1>10. /\ IInv' /\ Contents' = Seen(h, s) /\ Leaked' = Loose(h, s) \ {pNtkBackup'}
  BY <1>2, <1>8, <1>9, Reached
<1>11. a \notin Loose(f, s)
  BY <1>6 DEF Loose
<1> QED BY <1>1, <1>2, <1>4, <1>8, <1>10, <1>11

LEMMA CommandFailsStep ==
  ASSUME IInv, CommandFails
  PROVE  IInv' /\ History!Again /\ Leaked' = Leaked
<1> DEFINE f == Frame
           s == Stack
           g == Dispatched(f)
<1>1. /\ Good(f, s) /\ savesteps \in Nat /\ f.nSteps = nSteps /\ nSteps \in Nat \ {0}
      /\ Contents = Seen(f, s) /\ Leaked = Loose(f, s) \ {pNtkBackup}
      /\ pNtkBackup \in Loose(f, s) \cup {NULL} /\ backup \in BOOLEAN /\ savesteps \in SaveSteps
      /\ f.pNtkCur = pNtkCur
      /\ pNtkCur # NULL <=> Contents # <<>>
      /\ s # <<>> <=> Contents # <<>>
      /\ nSteps <= MaxSteps
  BY IInvFacts DEF IInv
<1>2. /\ Become(g) /\ pNtkBackup' = pNtkBackup /\ backup' = backup /\ savesteps' = savesteps
      /\ Enough(f, 1) /\ nSteps < MaxSteps
  BY DEF CommandFails, settings, More
<1>3. UNCHANGED History!settings
  BY <1>2 DEF History!settings
<1>4. CASE backup /\ Contents # <<>>
  <2> HIDE DEF f, s, g
  <2>1. PICK u : /\ Good(g, u) /\ Seen(g, u) = Pushed(Seen(f, s), Seen(f, s)[1])
                 /\ Loose(g, u) = Loose(f, s) /\ g.nSteps = f.nSteps + 1
    BY <1>1, <1>2, <1>4, DispatchedGood DEF g
  <2>2. /\ g.nSteps <= MaxSteps /\ pNtkBackup' \in Loose(g, u) \cup {NULL}
        /\ backup' \in BOOLEAN /\ savesteps' \in SaveSteps
    BY <1>1, <1>2, <2>1, FrameStackAssumption
  <2>3. /\ IInv' /\ Contents' = Seen(g, u) /\ nSteps' = g.nSteps
        /\ Leaked' = Loose(g, u) \ {pNtkBackup'}
    BY <1>2, <2>1, <2>2, Reached
  <2>4. Contents' = History!Kept(<<Contents[1]>> \o Contents)
    BY <1>1, <2>1, <2>3, KeptIsCut DEF Pushed
  <2>5. nSteps' = nSteps + 1 /\ Leaked' = Leaked
    BY <1>1, <1>2, <2>1, <2>3
  <2> QED BY <1>3, <1>4, <2>3, <2>4, <2>5 DEF History!Again, History!Push
<1>5. CASE ~(backup /\ Contents # <<>>)
  <2>1. g = f
    BY <1>1, <1>5, Zenon DEF Dispatched
  <2>2. ntks' = ntks /\ pNtkCur' = pNtkCur /\ nSteps' = nSteps
    <3>1. Become(Frame)
      BY <1>2, <2>1
    <3> QED BY <3>1 DEF Become, Frame
  <2>3. IInv' /\ Contents' = Contents /\ Leaked' = Leaked
    <3>1. backup' \in BOOLEAN /\ savesteps' \in SaveSteps
      BY <1>1, <1>2
    <3> QED BY <1>2, <2>2, <3>1, SameStep
  <2> HIDE DEF f, s, g
  <2>4. UNCHANGED <<Contents, nSteps, History!settings>>
    BY <1>3, <2>2, <2>3
  <2> QED BY <1>5, <2>3, <2>4 DEF History!Again
<1> QED BY <1>4, <1>5

(* A replacement by the shell, and the state it leaves.                      *)
LEMMA ReplacedStep ==
  ASSUME NEW f, NEW s, Good(f, s), Enough(f, 1), NEW d \in Data,
         Become(Abc_FrameReplaceCurrentNetwork(New(f, Unused(f), d), Unused(f))),
         f.nSteps < MaxSteps \/ (f.nSteps <= MaxSteps /\ backup /\ s # <<>>),
         pNtkBackup \in Loose(f, s) \cup {NULL}, backup \in BOOLEAN, savesteps \in SaveSteps,
         UNCHANGED <<pNtkBackup, settings>>
  PROVE  /\ IInv' /\ (backup => Leaked' = Loose(f, s) \ {pNtkBackup})
         /\ IF backup /\ s # <<>>
            THEN Contents' = WithHead(Seen(f, s), d) /\ nSteps' = f.nSteps
            ELSE Contents' = <<d>> /\ nSteps' = f.nSteps + 1
<1> DEFINE g == Abc_FrameReplaceCurrentNetwork(New(f, Unused(f), d), Unused(f))
<1>1. PICK u : /\ Good(g, u)
               /\ Loose(f, s) \subseteq Loose(g, u)
               /\ backup => Loose(g, u) = Loose(f, s)
               /\ IF backup /\ s # <<>>
                  THEN Seen(g, u) = WithHead(Seen(f, s), d) /\ g.nSteps = f.nSteps
                  ELSE Seen(g, u) = <<d>> /\ g.nSteps = f.nSteps + 1
  BY ReplaceGood
<1>2. Become(g) /\ pNtkBackup' = pNtkBackup /\ backup' = backup /\ savesteps' = savesteps
  BY DEF settings
<1>3. f.nSteps \in Nat
  BY DEF Good, Shape
<1> HIDE DEF g
<1>4. g.nSteps <= MaxSteps
  BY <1>1, <1>3, FrameStackAssumption
<1>5. /\ IInv' /\ Contents' = Seen(g, u) /\ nSteps' = g.nSteps
      /\ Leaked' = Loose(g, u) \ {pNtkBackup'}
  <2>1. /\ pNtkBackup' \in Loose(g, u) \cup {NULL}
        /\ backup' \in BOOLEAN /\ savesteps' \in SaveSteps
    BY <1>1, <1>2
  <2> QED BY <1>1, <1>2, <1>4, <2>1, Reached
<1> QED BY <1>1, <1>2, <1>5

(* Without the dispatcher's copy the top changes in place.                   *)
LEMMA OverwriteStep ==
  ASSUME IInv, More, Enough(Frame, 1), NEW d \in Data,
         Become(Abc_FrameReplaceCurrentNetwork(New(Frame, Unused(Frame), d), Unused(Frame))),
         UNCHANGED <<pNtkBackup, settings>>
  PROVE  IInv' /\ History!Overwrite(d) /\ (backup => Leaked' = Leaked)
<1> DEFINE f == Frame
           s == Stack
<1>1. /\ Good(f, s) /\ f.nSteps = nSteps /\ nSteps \in Nat \ {0}
      /\ Contents = Seen(f, s) /\ Leaked = Loose(f, s) \ {pNtkBackup}
      /\ pNtkBackup \in Loose(f, s) \cup {NULL} /\ backup \in BOOLEAN /\ savesteps \in SaveSteps
      /\ s # <<>> <=> Contents # <<>>
      /\ Contents \in Seq(Data)
  BY IInvFacts DEF IInv
<1>2. /\ Enough(f, 1) /\ f.nSteps < MaxSteps
      /\ Become(Abc_FrameReplaceCurrentNetwork(New(f, Unused(f), d), Unused(f)))
  BY <1>1 DEF More
<1> HIDE DEF f, s
<1>3. /\ IInv' /\ (backup => Leaked' = Loose(f, s) \ {pNtkBackup})
      /\ IF backup /\ s # <<>>
         THEN Contents' = WithHead(Seen(f, s), d) /\ nSteps' = f.nSteps
         ELSE Contents' = <<d>> /\ nSteps' = f.nSteps + 1
  BY <1>1, <1>2, ReplacedStep
<1>4. UNCHANGED History!settings
  BY DEF settings, History!settings
<1>5. CASE backup /\ Contents # <<>>
  <2>1. Contents' = WithHead(Contents, d) /\ nSteps' = nSteps
    BY <1>1, <1>3, <1>5
  <2>2. WithHead(Contents, d) = <<d>> \o Tail(Contents)
    <3> HIDE DEF Contents
    <3> QED BY <1>1, <1>5, HeadReplaced
  <2> QED BY <1>1, <1>3, <1>4, <1>5, <2>1, <2>2 DEF History!Overwrite
<1>6. CASE ~(backup /\ Contents # <<>>)
  <2>1. Contents' = <<d>> /\ nSteps' = nSteps + 1
    BY <1>1, <1>3, <1>6
  <2>2. History!Command(d)
    <3>1. CASE backup
      <4>1. Contents = <<>>
        BY <1>6, <3>1
      <4>2. <<d>> \o Contents = <<d>>
        BY <4>1
      <4>3. CutTo(<<d>>) = <<d>>
        <5>1. savesteps \in Nat
          BY IInvFacts
        <5> DEFINE one == <<d>>
        <5>2. Len(one) = 1
          OBVIOUS
        <5> HIDE DEF one
        <5>3. CutTo(one) = one
          BY <5>1, <5>2 DEF CutTo
        <5> QED BY <5>3 DEF one
      <4>4. Contents' = History!Kept(<<d>> \o Contents)
        BY <2>1, <4>2, <4>3, KeptIsCut
      <4> QED BY <1>4, <2>1, <3>1, <4>4 DEF History!Command, History!Push
    <3>2. CASE ~backup
      BY <1>4, <2>1, <3>2 DEF History!Command
    <3> QED BY <3>1, <3>2
  <2> QED BY <1>1, <1>3, <1>6, <2>2 DEF History!Overwrite
<1> QED BY <1>5, <1>6

LEMMA RestoreStep ==
  ASSUME IInv, Restore
  PROVE  IInv' /\ History!Overwrite(ntks[pNtkBackup].data) /\ (backup => Leaked' = Leaked)
<1> DEFINE d == ntks[pNtkBackup].data
<1>1. d \in Data
  <2>1. Good(Frame, Stack) /\ Frame.ntks = ntks /\ pNtkBackup \in DOMAIN ntks
    BY IInvFacts DEF IInv, Restore, Loose
  <2> QED BY <2>1 DEF Good, Shape
<1>2. Copy(Frame, pNtkBackup) = New(Frame, Unused(Frame), d)
  BY DEF Copy, Frame
<1>3. /\ Become(Abc_FrameReplaceCurrentNetwork(New(Frame, Unused(Frame), d), Unused(Frame)))
      /\ More /\ Enough(Frame, 1) /\ UNCHANGED <<pNtkBackup, settings>>
  BY <1>2 DEF Restore
<1> HIDE DEF d
<1>4. IInv' /\ History!Overwrite(d) /\ (backup => Leaked' = Leaked)
  BY <1>1, <1>3, OverwriteStep
<1> QED BY <1>4 DEF d

LEMMA CommandStep ==
  ASSUME IInv, NEW d \in Data, Command(d)
  PROVE  IInv' /\ History!Command(d) /\ (backup => Leaked' = Leaked)
<1> DEFINE f == Frame
           s == Stack
           g == Dispatched(f)
<1>1. /\ Good(f, s) /\ savesteps \in Nat /\ f.nSteps = nSteps /\ nSteps \in Nat \ {0}
      /\ Contents = Seen(f, s) /\ Leaked = Loose(f, s) \ {pNtkBackup}
      /\ pNtkBackup \in Loose(f, s) \cup {NULL} /\ backup \in BOOLEAN /\ savesteps \in SaveSteps
      /\ f.pNtkCur = pNtkCur /\ Contents \in Seq(Data) /\ Len(Contents) = Len(s)
      /\ pNtkCur # NULL <=> Contents # <<>>
      /\ s # <<>> <=> Contents # <<>>
      /\ DOMAIN f.ntks \subseteq Addresses
  BY IInvFacts, GoodFacts DEF IInv
<1>2. /\ Become(Abc_FrameReplaceCurrentNetwork(New(g, Unused(g), d), Unused(g)))
      /\ pNtkBackup' = pNtkBackup /\ UNCHANGED settings
      /\ Enough(f, 2) /\ nSteps < MaxSteps /\ UNCHANGED <<pNtkBackup, settings>>
  BY DEF Command, More
<1>3. Enough(f, 1)
  BY <1>1, <1>2, EnoughLeft
<1>4. UNCHANGED History!settings
  BY <1>2 DEF settings, History!settings
<1>5. CASE backup /\ Contents # <<>>
  <2> HIDE DEF f, s
  <2>1. PICK u : /\ Good(g, u) /\ u # <<>> /\ Seen(g, u) = Pushed(Seen(f, s), Seen(f, s)[1])
                 /\ DOMAIN g.ntks \subseteq DOMAIN f.ntks \cup {Unused(f)}
                 /\ Loose(g, u) = Loose(f, s) /\ g.nSteps = f.nSteps + 1
    BY <1>1, <1>3, <1>5, DispatchedGood
  <2> HIDE DEF g
  <2>2. Enough(g, 1)
    BY <1>1, <1>2, <2>1, EnoughLeft
  <2>3. g.nSteps <= MaxSteps /\ pNtkBackup \in Loose(g, u) \cup {NULL}
    BY <1>1, <1>2, <2>1, FrameStackAssumption
  <2>4. /\ IInv' /\ (backup => Leaked' = Loose(g, u) \ {pNtkBackup})
        /\ IF backup /\ u # <<>>
           THEN Contents' = WithHead(Seen(g, u), d) /\ nSteps' = g.nSteps
           ELSE Contents' = <<d>> /\ nSteps' = g.nSteps + 1
    BY <1>1, <1>2, <1>5, <2>1, <2>2, <2>3, ReplacedStep
  <2>5. Contents' = WithHead(Pushed(Contents, Contents[1]), d) /\ nSteps' = nSteps + 1
    BY <1>1, <1>5, <2>1, <2>4
  <2>6. WithHead(Pushed(Contents, Contents[1]), d) = Pushed(Contents, d)
    <3>1. Contents[1] \in Data
      <4> HIDE DEF Contents
      <4> QED BY <1>1, <1>5
    <3> HIDE DEF Contents
    <3> QED BY <1>1, <3>1, PushedReplaced
  <2>7. Contents' = History!Kept(<<d>> \o Contents)
    BY <2>5, <2>6, KeptIsCut DEF Pushed
  <2>8. Leaked' = Leaked
    BY <1>1, <1>5, <2>1, <2>4
  <2> QED BY <1>4, <1>5, <2>4, <2>5, <2>7, <2>8 DEF History!Command, History!Push
<1>6. CASE ~(backup /\ Contents # <<>>)
  <2>1. g = f
    BY <1>1, <1>6, Zenon DEF Dispatched
  <2>2. IInv' /\ History!Overwrite(d) /\ (backup => Leaked' = Leaked)
    <3>1. Become(Abc_FrameReplaceCurrentNetwork(New(Frame, Unused(Frame), d), Unused(Frame)))
      BY <1>2, <2>1
    <3>2. More /\ Enough(Frame, 1) /\ UNCHANGED <<pNtkBackup, settings>>
      BY <1>2, <1>3 DEF More
    <3> QED BY <3>1, <3>2, OverwriteStep
  <2> HIDE DEF f, s, g
  <2> QED BY <1>6, <2>2 DEF History!Overwrite
<1> QED BY <1>5, <1>6

LEMMA SetStep ==
  ASSUME IInv, Set
  PROVE  IInv' /\ Contents' = Contents /\ Leaked' = Leaked
  BY SameStep DEF Set

-----------------------------------------------------------------------------
(* The theorems. *)

LEMMA InitInvariant ==
  ASSUME Init
  PROVE  IInv
<1> DEFINE f == Frame
<1>1. ntks = <<>> /\ pNtkCur = NULL /\ nSteps = 1 /\ DOMAIN ntks = {} /\ ntks = [a \in {} |-> ntks[a]]
  BY DEF Init
<1>2. Shape(f)
  BY <1>1 DEF Shape, Frame
<1>3. Chain(f, <<>>) /\ Numbered(f, <<>>)
  BY <1>1 DEF Chain, Numbered, Frame
<1>4. Good(f, <<>>) /\ List(f) = <<>>
  BY <1>2, <1>3, ListOfChain DEF Good
<1>5. 1 <= MaxSteps
  BY FrameStackAssumption
<1> QED BY <1>1, <1>4, <1>5 DEF IInv, Init, Stack

(* A step of the shell, and what is leaked by it.                            *)
LEMMA NextStep ==
  ASSUME IInv, [Next]_vars
  PROVE  IInv' /\ (backup => Leaked' \subseteq Leaked)
<1>1. ASSUME NEW d \in Data, Command(d)
      PROVE  IInv' /\ (backup => Leaked' \subseteq Leaked)
  BY <1>1, CommandStep
<1>2. ASSUME NEW d \in Data, Derive(d)
      PROVE  IInv' /\ Leaked' \subseteq Leaked
  BY <1>2, DeriveStep
<1>3. CASE CommandFails
  BY <1>3, CommandFailsStep
<1>4. CASE Undo
  BY <1>4, UndoStep
<1>5. ASSUME NEW iStep \in 1 .. nSteps, Recall(iStep)
      PROVE  IInv' /\ Leaked' \subseteq Leaked
  BY <1>5, RecallStep
<1>6. CASE Empty
  BY <1>6, EmptyStep
<1>7. CASE Backup
  BY <1>7, BackupStep
<1>8. CASE Restore
  BY <1>8, RestoreStep
<1>9. CASE Set
  BY <1>9, SetStep
<1>10. CASE UNCHANGED vars
  <2>1. /\ UNCHANGED <<ntks, pNtkCur, nSteps, pNtkBackup>>
        /\ backup' \in BOOLEAN /\ savesteps' \in SaveSteps
    BY <1>10 DEF vars, settings, IInv
  <2> QED BY <2>1, SameStep
<1> QED BY <1>1, <1>2, <1>3, <1>4, <1>5, <1>6, <1>7, <1>8, <1>9, <1>10 DEF Next

(* The networks of the shell always form a list without a cycle, numbered    *)
(* downwards from nSteps; the network of "backup" is in memory and not in it.*)
THEOREM Invariant == Spec => []IInv
<1>1. Init => IInv
  BY InitInvariant
<1>2. IInv /\ [Next]_vars => IInv'
  BY NextStep
<1> QED BY <1>1, <1>2, PTL DEF Spec

LEMMA TypeOfInvariant ==
  ASSUME IInv
  PROVE  TypeOK
<1>1. /\ Shape(Frame) /\ Frame.ntks = ntks /\ Frame.pNtkCur = pNtkCur /\ Frame.nSteps = nSteps
      /\ nSteps \in Nat \ {0}
  BY IInvFacts DEF Good
<1>2. /\ DOMAIN ntks \subseteq Addresses
      /\ \A a \in DOMAIN ntks :
           ntks[a] \in [data : Data, pNetBackup : Addresses \cup {NULL}, iStep : 0 .. nSteps]
  BY <1>1 DEF Shape
<1>3. nSteps \in 1 .. MaxSteps /\ 0 .. nSteps \subseteq 0 .. MaxSteps
  BY <1>1, FrameStackAssumption DEF IInv
<1>4. \A a \in DOMAIN ntks :
        ntks[a] \in [data : Data, pNetBackup : Addresses \cup {NULL}, iStep : 0 .. MaxSteps]
  BY <1>2, <1>3
<1>5. pNtkCur \in Addresses \cup {NULL} /\ pNtkBackup \in Addresses \cup {NULL}
  <2>1. pNtkCur # NULL => pNtkCur \in DOMAIN ntks
    BY IInvFacts
  <2>2. pNtkBackup # NULL => pNtkBackup \in DOMAIN ntks
    BY <1>1 DEF IInv, Loose
  <2> QED BY <1>2, <2>1, <2>2
<1> QED BY <1>2, <1>3, <1>4, <1>5 DEF IInv, TypeOK

LEMMA SoundOfInvariant ==
  ASSUME IInv
  PROVE  StackSound
<1>1. /\ Good(Frame, Stack) /\ Frame.ntks = ntks /\ Stacked = On(Stack)
      /\ Len(Stack) \in Nat /\ Stack \in [1 .. Len(Stack) -> DOMAIN ntks] /\ NULL \notin DOMAIN ntks
      /\ pNtkBackup \in Loose(Frame, Stack) \cup {NULL}
  BY IInvFacts DEF IInv
<1> HIDE DEF Stack, Frame, Stacked
<1>2. On(Stack) \subseteq DOMAIN ntks
  BY <1>1 DEF On
<1>3. Cardinality(On(Stack)) = Len(Stack)
  <2>1. Stack \in Bijection(1 .. Len(Stack), On(Stack))
    <3>1. Stack \in [1 .. Len(Stack) -> On(Stack)]
      BY <1>1 DEF On
    <3>2. \A m, n \in 1 .. Len(Stack) : Stack[m] = Stack[n] => m = n
      BY <1>1 DEF Good, Chain
    <3>3. \A a \in On(Stack) : \E n \in 1 .. Len(Stack) : Stack[n] = a
      BY DEF On
    <3> QED BY <3>1, <3>2, <3>3 DEF Bijection, Injection, Surjection, IsInjective
  <2>2. IsFiniteSet(1 .. Len(Stack)) /\ Cardinality(1 .. Len(Stack)) = Len(Stack)
    BY <1>1, FS_Interval, CardUpTo
  <2> DEFINE T == On(Stack)
             S == 1 .. Len(Stack)
  <2> HIDE DEF T, S
  <2>3. Cardinality(T) = Cardinality(S)
    <3>1. ExistsBijection(S, T)
      BY <2>1 DEF T, S, ExistsBijection
    <3>2. IsFiniteSet(S)
      BY <2>2 DEF S
    <3> QED BY <3>1, <3>2, FS_Bijection
  <2> QED BY <2>2, <2>3 DEF T, S
<1>4. pNtkBackup \notin On(Stack) /\ (pNtkBackup # NULL => pNtkBackup \in DOMAIN ntks)
  BY <1>1, <1>2 DEF Loose
<1> QED BY <1>1, <1>2, <1>3, <1>4 DEF StackSound

(* The pointers, step numbers and settings of the shell keep their types.    *)
THEOREM TypeCorrect == Spec => []TypeOK
<1>1. IInv => TypeOK
  BY TypeOfInvariant
<1> QED BY <1>1, Invariant, PTL

(* No cycle, no freed network and none of the command "backup" is ever in    *)
(* the list of saved networks, whatever commands are run.                    *)
THEOREM StackIsSound == Spec => []StackSound
<1>1. IInv => StackSound
  BY SoundOfInvariant
<1> QED BY <1>1, Invariant, PTL

(* "recall" finds a network by its step: the steps of the list count down    *)
(* from nSteps without a gap.                                                *)
THEOREM StepsAreNumbered == Spec => []StepsCountDown
<1>1. IInv => StepsCountDown
  <2> SUFFICES ASSUME IInv PROVE StepsCountDown
    OBVIOUS
  <2>1. Numbered(Frame, Stack) /\ Frame.ntks = ntks /\ Frame.nSteps = nSteps
        /\ DOMAIN Stack = 1 .. Len(Stack)
    BY IInvFacts DEF Good
  <2> HIDE DEF Stack, Frame
  <2> QED BY <2>1 DEF StepsCountDown, Numbered
<1> QED BY <1>1, Invariant, PTL

(* A command run with backup on leaves no network behind that nothing points *)
(* to.                                                                       *)
THEOREM NothingLeaks == Spec => NoLeakWithBackup
<1>1. IInv /\ [Next]_vars => [backup => Leaked' \subseteq Leaked]_vars
  BY NextStep
<1> QED BY <1>1, Invariant, PTL DEF Spec, NoLeakWithBackup

(* The copies, swaps and deletions of mainFrame.c implement the history a    *)
(* user is told of: every command changes the contents of the list and the   *)
(* number of steps as NtkHistory says.                                       *)
THEOREM HistoryImplemented == Spec => CommandsActOnHistory
<1>1. IInv => ActsOnHistory
  <2> SUFFICES ASSUME IInv PROVE ActsOnHistory
    OBVIOUS
  <2>1. ASSUME NEW d \in Data
        PROVE  (Command(d) => History!Command(d)) /\ (Derive(d) => History!Push(d))
    BY CommandStep, DeriveStep
  <2>2. (CommandFails => History!Again) /\ (Undo => History!Undo) /\ (Empty => History!Empty)
    BY CommandFailsStep, UndoStep, EmptyStep
  <2>3. ASSUME NEW iStep \in 1 .. nSteps
        PROVE  Recall(iStep) => History!Recall(iStep)
    BY RecallStep
  <2>4. (Backup => UNCHANGED Contents) /\ (Set => UNCHANGED Contents)
    BY BackupStep, SetStep
  <2>5. Restore => History!Overwrite(ntks[pNtkBackup].data)
    BY RestoreStep
  <2> QED BY <2>1, <2>2, <2>3, <2>4, <2>5 DEF ActsOnHistory
<1> QED BY <1>1, Invariant, PTL DEF CommandsActOnHistory
=============================================================================
