-------------------------- MODULE RrrNetworkProofs --------------------------
(***************************************************************************)
(* Facts about the networks of the rrr optimizer: whatever is read, cut    *)
(* out, optimized or put back is a network whose edges point at nodes that *)
(* are there and whose list of internal nodes is in topological order.     *)
(*                                                                         *)
(* Networks(k, q) are those with k inputs and q outputs.  Reading an AIG   *)
(* gives one (NetworkRead), as do cleaning up (SweptSound), cutting out a  *)
(* window (Extracted), optimizing (OptimizedIn) and, unless it stops the   *)
(* program, putting a window back (InsertIn).                              *)
(*                                                                         *)
(* Most operations are folds.  A lemma cannot take an operator as a        *)
(* parameter, so that each of their proofs says again what its fold is:    *)
(* a function from sets of places (FoldExists), of which the prefixes are  *)
(* followed (FoldStays).                                                   *)
(***************************************************************************)
EXTENDS RrrOptimizer, FiniteSetTheorems, SequenceTheorems, NaturalsInduction, WellFoundedInduction, TLAPS

-----------------------------------------------------------------------------
(* Numbers.                                                                *)

\* A set of numbers has a least element.
LEMMA LeastOf ==
  ASSUME NEW T \in SUBSET Nat, T # {}
  PROVE  \E m \in T : \A k \in T : m <= k
<1>1. PICK m \in T : \A k \in T : <<k, m>> \notin OpToRel(<, Nat)
  BY NatLessThanWellFounded, WFMin
<1>2. \A k \in T : ~(k < m)
  BY <1>1 DEF OpToRel
<1> QED BY <1>2

\* Induction over an interval that starts at 0.
LEMMA UpTo ==
  ASSUME NEW n \in Nat, NEW S, 0 \in S, \A k \in 1..n : k - 1 \in S => k \in S
  PROVE  0..n \subseteq S
<1> SUFFICES ASSUME (0..n) \ S # {} PROVE FALSE
  OBVIOUS
<1>1. PICK m \in (0..n) \ S : \A k \in (0..n) \ S : m <= k
  <2>1. (0..n) \ S \in SUBSET Nat
    OBVIOUS
  <2> QED BY <2>1, LeastOf
<1>2. m # 0 /\ m - 1 \in 0..n /\ m - 1 \in S /\ m \in 1..n
  BY <1>1
<1> QED BY <1>1, <1>2

\* The largest of a set of numbers that has one.
LEMMA MaxIs ==
  ASSUME NEW n \in Nat, NEW s \in SUBSET (1..n), s # {}
  PROVE  Max(s) \in s /\ \A y \in s : y <= Max(s)
<1> DEFINE T == {n - y : y \in s}
<1>0. \A y \in s : n - y \in Nat
  OBVIOUS
<1>1. T \in SUBSET Nat /\ T # {}
  BY <1>0
<1>2. PICK k \in T : \A l \in T : k <= l
  BY <1>1, LeastOf
<1>3. PICK x \in s : k = n - x
  BY <1>2
<1>4. \A y \in s : x >= y
  <2> TAKE y \in s
  <2>1. n - y \in T
    OBVIOUS
  <2> QED BY <1>2, <1>3, <2>1
<1>5. \E z \in s : \A y \in s : z >= y
  BY <1>4
<1> QED BY <1>5 DEF Max

\* The smallest of a set of numbers.
LEMMA MinIs ==
  ASSUME NEW s \in SUBSET Nat, s # {}
  PROVE  Min(s) \in s /\ \A y \in s : Min(s) <= y
<1>1. \E z \in s : \A y \in s : z =< y
  BY LeastOf
<1> QED BY <1>1 DEF Min

-----------------------------------------------------------------------------
(* Loops.                                                                  *)

\* The step g, which may depend on the number of the round, does not leave S.
StaysIn(S, n, g) == \A y \in S, i \in 1..n : g[<<y, i>>] \in S

\* f has the results after 0, 1, ... n rounds of g that start with x.
IsLoop(f, S, n, x, g) ==
  f \in [0..n -> S] /\ f[0] = x /\ \A k \in 1..n : f[k] = g[<<f[k - 1], k>>]

\* A loop has results.
LEMMA RoundsExist ==
  ASSUME NEW n \in Nat, NEW S, NEW x \in S, NEW g, StaysIn(S, n, g)
  PROVE  \E f : IsLoop(f, S, n, x, g)
<1> USE DEF StaysIn, IsLoop
<1> DEFINE Rounds(f, m) == /\ f = [k \in 0..m |-> f[k]] /\ f[0] = x
                           /\ \A k \in 1..m : f[k] = g[<<f[k - 1], k>>]
                           /\ \A k \in 0..m : f[k] \in S
           good == {m \in Nat : \E f : Rounds(f, m)}
<1>1. 0 \in good
  <2> DEFINE f == [k \in 0..0 |-> x]
  <2>1. Rounds(f, 0)
    OBVIOUS
  <2> QED BY <2>1
<1>2. ASSUME NEW m \in 1..n, m - 1 \in good PROVE m \in good
  <2>1. PICK h : Rounds(h, m - 1)
    BY <1>2
  <2> DEFINE f == [k \in 0..m |-> IF k = m THEN g[<<h[m - 1], m>>] ELSE h[k]]
  <2>2. \A k \in 0..(m - 1) : k \in 0..m /\ k # m /\ f[k] = h[k]
    OBVIOUS
  <2>3. f[m] = g[<<h[m - 1], m>>] /\ m \in 1..n /\ m - 1 \in 0..(m - 1) /\ 0 \in 0..(m - 1)
    OBVIOUS
  <2>4. f = [k \in 0..m |-> f[k]]
    OBVIOUS
  <2> HIDE DEF f
  <2>5. ASSUME NEW k \in 1..m PROVE f[k] = g[<<f[k - 1], k>>]
    <3>1. k - 1 \in 0..(m - 1) /\ (k = m \/ (k \in 1..(m - 1) /\ k \in 0..(m - 1)))
      OBVIOUS
    <3> QED BY <3>1, <2>1, <2>2, <2>3
  <2>6. ASSUME NEW k \in 0..m PROVE f[k] \in S
    <3>1. k = m \/ k \in 0..(m - 1)
      OBVIOUS
    <3> QED BY <3>1, <2>1, <2>2, <2>3
  <2>7. Rounds(f, m)
    BY <2>1, <2>2, <2>3, <2>4, <2>5, <2>6
  <2> HIDE DEF Rounds
  <2>8. m \in Nat
    OBVIOUS
  <2> QED BY <2>7, <2>8
<1> HIDE DEF good
<1>3. n \in good
  BY <1>1, <1>2, UpTo
<1>4. PICK f : Rounds(f, n)
  BY <1>3 DEF good
<1>5. f \in [0..n -> S]
  BY <1>4
<1> QED BY <1>4, <1>5

\* What each round keeps holds after the last one.
LEMMA RoundsStay ==
  ASSUME NEW n \in Nat, NEW S, NEW f, f[0] \in S,
         \A k \in 1..n : f[k - 1] \in S => f[k] \in S
  PROVE  f[n] \in S
<1> DEFINE good == {k \in 0..n : f[k] \in S}
<1>1. 0 \in good /\ \A k \in 1..n : k - 1 \in good => k \in good
  OBVIOUS
<1> HIDE DEF good
<1>2. n \in good
  BY <1>1, UpTo
<1> QED BY <1>2 DEF good

\* The values of a fold, for every set of places of the sequence.
LEMMA FoldExists ==
  ASSUME NEW n \in Nat, NEW S, NEW base \in S, NEW g, \A x \in S, i \in 1..n : g[<<x, i>>] \in S
  PROVE  \E f : /\ f = [s \in SUBSET (1..n) |-> IF s = {} THEN base ELSE g[<<f[s \ {Max(s)}], Max(s)>>]]
                /\ \A s \in SUBSET (1..n) : s # {} => f[s \ {Max(s)}] \in S /\ Max(s) \in 1..n
<1> DEFINE Fold(f, m) ==
             /\ f = [s \in SUBSET (1..m) |-> IF s = {} THEN base ELSE g[<<f[s \ {Max(s)}], Max(s)>>]]
             /\ \A s \in SUBSET (1..m) : f[s] \in S
           good == {m \in Nat : \E f : Fold(f, m)}
<1>1. 0 \in good
  <2> DEFINE f == [s \in SUBSET (1..0) |-> base]
  <2>1. SUBSET (1..0) = {{}}
    OBVIOUS
  <2>2. Fold(f, 0)
    BY <2>1
  <2> QED BY <2>2
<1>2. ASSUME NEW m \in 1..n, m - 1 \in good PROVE m \in good
  <2>1. PICK h : Fold(h, m - 1)
    BY <1>2
  <2> DEFINE f == [s \in SUBSET (1..m) |-> IF m \in s THEN g[<<h[s \ {m}], m>>] ELSE h[s]]
  <2>2. \A s \in SUBSET (1..m) : m \in s => s \ {m} \in SUBSET (1..(m - 1)) /\ Max(s) = m
    <3> SUFFICES ASSUME NEW s \in SUBSET (1..m), m \in s
                 PROVE  s \ {m} \in SUBSET (1..(m - 1)) /\ Max(s) = m
      OBVIOUS
    <3>0. m \in Nat /\ s # {}
      OBVIOUS
    <3>1. Max(s) \in s /\ \A y \in s : y <= Max(s)
      BY <3>0, MaxIs
    <3>2. m <= Max(s) /\ Max(s) \in 1..m
      BY <3>1
    <3>3. Max(s) = m
      BY <3>2
    <3>4. \A y \in s \ {m} : y \in 1..(m - 1)
      OBVIOUS
    <3> QED BY <3>3, <3>4
  <2>3. \A s \in SUBSET (1..m) : m \notin s =>
          /\ s \in SUBSET (1..(m - 1))
          /\ s # {} => Max(s) \in s /\ s \ {Max(s)} \in SUBSET (1..m) /\ m \notin s \ {Max(s)}
    <3> SUFFICES ASSUME NEW s \in SUBSET (1..m), m \notin s
                 PROVE  /\ s \in SUBSET (1..(m - 1))
                        /\ s # {} => Max(s) \in s
      OBVIOUS
    <3>1. m \in Nat
      OBVIOUS
    <3>2. s # {} => Max(s) \in s
      BY <3>1, MaxIs
    <3>3. \A y \in s : y \in 1..(m - 1)
      OBVIOUS
    <3> QED BY <3>2, <3>3
  <2>4. \A s \in SUBSET (1..(m - 1)) : /\ h[s] \in S
                                       /\ h[s] = IF s = {} THEN base ELSE g[<<h[s \ {Max(s)}], Max(s)>>]
    BY <2>1
  <2>5. \A s \in SUBSET (1..m) : f[s] = IF s = {} THEN base ELSE g[<<f[s \ {Max(s)}], Max(s)>>]
    <3> SUFFICES ASSUME NEW s \in SUBSET (1..m)
                 PROVE  f[s] = IF s = {} THEN base ELSE g[<<f[s \ {Max(s)}], Max(s)>>]
      OBVIOUS
    <3>1. CASE m \in s
      <4>1. f[s \ {m}] = h[s \ {m}]
        OBVIOUS
      <4> QED BY <3>1, <4>1, <2>2
    <3>2. CASE m \notin s
      BY <3>2, <2>3, <2>4
    <3> QED BY <3>1, <3>2
  <2>6. \A s \in SUBSET (1..m) : f[s] \in S
    BY <2>2, <2>3, <2>4
  <2>7. f = [s \in SUBSET (1..m) |-> f[s]]
    OBVIOUS
  <2> HIDE DEF f
  <2>8. f = [s \in SUBSET (1..m) |-> IF s = {} THEN base ELSE g[<<f[s \ {Max(s)}], Max(s)>>]]
    BY <2>5, <2>7
  <2>9. Fold(f, m)
    BY <2>6, <2>8
  <2> HIDE DEF Fold
  <2>10. \E e : Fold(e, m)
    BY <2>9
  <2>11. m \in Nat
    OBVIOUS
  <2> QED BY <2>10, <2>11
<1> HIDE DEF good
<1>3. n \in good
  BY <1>1, <1>2, UpTo
<1>4. PICK f : Fold(f, n)
  BY <1>3 DEF good
<1>5. \A s \in SUBSET (1..n) : s # {} => s \ {Max(s)} \in SUBSET (1..n) /\ Max(s) \in 1..n
  BY MaxIs
<1> QED BY <1>4, <1>5

\* A fold goes from one prefix of the sequence to the next.
LEMMA PrefixIs ==
  ASSUME NEW n \in Nat, NEW m \in 1..n
  PROVE  /\ 1..m \in SUBSET (1..n) /\ 1..m # {} /\ 1..(m - 1) \in SUBSET (1..n)
         /\ Max(1..m) = m /\ (1..m) \ {m} = 1..(m - 1)
<1>1. m \in Nat /\ 1..m \in SUBSET (1..m) /\ m \in 1..m
  OBVIOUS
<1>2. Max(1..m) \in 1..m /\ \A y \in 1..m : y <= Max(1..m)
  BY <1>1, MaxIs
<1>3. m <= Max(1..m)
  BY <1>1, <1>2
<1>4. (1..m) \ {m} = 1..(m - 1) /\ 1..m \in SUBSET (1..n) /\ 1..(m - 1) \in SUBSET (1..n)
  OBVIOUS
<1> QED BY <1>1, <1>2, <1>3, <1>4

\* What each step of a fold keeps holds at its end; T[m] is what holds after m
\* steps.
LEMMA FoldStays ==
  ASSUME NEW n \in Nat, NEW T, NEW f, f[{}] \in T[0],
         \A m \in 1..n : f[1..(m - 1)] \in T[m - 1] => f[1..m] \in T[m]
  PROVE  f[1..n] \in T[n]
<1> DEFINE good == {m \in 0..n : f[1..m] \in T[m]}
<1>1. 0 \in good
  <2>1. 1..0 = {}
    OBVIOUS
  <2> QED BY <2>1
<1>2. \A m \in 1..n : m - 1 \in good => m \in good
  OBVIOUS
<1> HIDE DEF good
<1>3. n \in good
  <2>1. 0..n \subseteq good
    BY <1>1, <1>2, UpTo
  <2> QED BY <2>1
<1> QED BY <1>3 DEF good

\* So a fold stays in a set that each step stays in.
LEMMA FoldIn ==
  ASSUME NEW n \in Nat, NEW S, NEW f, f[{}] \in S,
         \A m \in 1..n : f[1..(m - 1)] \in S => f[1..m] \in S
  PROVE  f[1..n] \in S
<1> DEFINE T == [m \in 0..n |-> S]
<1>1. f[{}] \in T[0] /\ \A m \in 1..n : f[1..(m - 1)] \in T[m - 1] => f[1..m] \in T[m]
  OBVIOUS
<1> HIDE DEF T
<1>2. f[1..n] \in T[n]
  BY <1>1, FoldStays
<1> QED BY <1>2 DEF T

-----------------------------------------------------------------------------
(* Networks.                                                               *)

\* The number of edges is a number.
LEMMA EdgesCounted ==
  ASSUME NEW ntk, NEW X, ntk.ints \in Seq(X), \A id \in X : Len(ntk.fanin[id]) \in Nat
  PROVE  EdgeCount(ntk) \in Nat
<1> DEFINE seq == ntk.ints
           n == Len(seq)
           op(x, i) == x + Len(ntk.fanin[seq[i]])
           Fold(f) == f = [s \in SUBSET (1..n) |-> IF s = {} THEN 0 ELSE op(f[s \ {Max(s)}], Max(s))]
           iter == CHOOSE f : Fold(f)
<1>1. n \in Nat /\ DOMAIN seq = 1..n /\ \A i \in 1..n : seq[i] \in X
  OBVIOUS
<1>2. EdgeCount(ntk) = iter[1..n]
  BY <1>1 DEF EdgeCount, FoldLeft, MapThenFoldSet
<1>3. \A x \in Nat, i \in 1..n : op(x, i) \in Nat
  BY <1>1
<1> HIDE DEF n, op
<1>4. \E f : Fold(f)
  <2> DEFINE g == [p \in Nat \X (1..n) |-> op(p[1], p[2])]
  <2>1. \A x \in Nat, i \in 1..n : g[<<x, i>>] = op(x, i) /\ g[<<x, i>>] \in Nat
    BY <1>3
  <2> HIDE DEF g
  <2>2. 0 \in Nat
    OBVIOUS
  <2>3. PICK f : /\ f = [s \in SUBSET (1..n) |-> IF s = {} THEN 0 ELSE g[<<f[s \ {Max(s)}], Max(s)>>]]
                 /\ \A s \in SUBSET (1..n) : s # {} => f[s \ {Max(s)}] \in Nat /\ Max(s) \in 1..n
    BY <1>1, <2>1, <2>2, FoldExists
  <2>4. \A s \in SUBSET (1..n) : f[s] = IF s = {} THEN 0 ELSE op(f[s \ {Max(s)}], Max(s))
    BY <2>1, <2>3
  <2>5. Fold(f)
    BY <2>3, <2>4
  <2> HIDE DEF Fold
  <2> QED BY <2>5
<1>5. Fold(iter)
  <2> HIDE DEF Fold
  <2> QED BY <1>4
<1> HIDE DEF iter
<1>6. iter[{}] = 0 /\ \A m \in 1..n : iter[1..m] = op(iter[1..(m - 1)], m)
  <2>1. iter[{}] = 0
    BY <1>5
  <2>2. ASSUME NEW m \in 1..n PROVE iter[1..m] = op(iter[1..(m - 1)], m)
    <3>1. /\ 1..m \in SUBSET (1..n) /\ 1..m # {} /\ Max(1..m) = m
          /\ (1..m) \ {m} = 1..(m - 1)
      BY <1>1, PrefixIs
    <3> QED BY <1>5, <3>1
  <2> QED BY <2>1, <2>2
<1> HIDE DEF Fold
<1>7. iter[1..n] \in Nat
  <2>1. iter[{}] \in Nat /\ \A m \in 1..n : iter[1..(m - 1)] \in Nat => iter[1..m] \in Nat
    <3>1. ASSUME NEW m \in 1..n, iter[1..(m - 1)] \in Nat PROVE iter[1..m] \in Nat
      BY <1>3, <1>6, <3>1
    <3> QED BY <1>6, <3>1
  <2> QED BY <1>1, <2>1, FoldIn
<1> QED BY <1>2, <1>7

-----------------------------------------------------------------------------
(* Places in a list.                                                       *)

\* The place found is the first.
LEMMA IndexIs ==
  ASSUME NEW X, NEW s \in Seq(X), NEW x
  PROVE  /\ IndexOf(s, x) \in 0..Len(s)
         /\ x \in ToSet(s) <=> IndexOf(s, x) > 0
         /\ IndexOf(s, x) > 0 => s[IndexOf(s, x)] = x
         /\ \A i \in 1..Len(s) : s[i] = x => IndexOf(s, x) \in 1..i
<1> DEFINE I == {i \in 1..Len(s) : s[i] = x}
<1>1. IndexOf(s, x) = IF I # {} THEN Min(I) ELSE 0
  BY DEF IndexOf, SelectInSeq
<1>2. Len(s) \in Nat /\ ToSet(s) = {s[i] : i \in 1..Len(s)}
  BY DEF ToSet
<1>3. I # {} => Min(I) \in I /\ \A i \in I : Min(I) <= i
  <2>1. I \in SUBSET Nat
    OBVIOUS
  <2> QED BY <2>1, MinIs
<1>4. CASE I = {}
  BY <1>1, <1>2, <1>4
<1>5. CASE I # {}
  <2> DEFINE m == IndexOf(s, x)
  <2>1. m \in 1..Len(s) /\ s[m] = x /\ \A i \in I : m <= i
    BY <1>1, <1>3, <1>5
  <2> HIDE DEF m
  <2>2. x \in ToSet(s) /\ m \in 0..Len(s) /\ m > 0
    BY <1>2, <2>1
  <2>3. \A i \in 1..Len(s) : s[i] = x => m \in 1..i
    BY <2>1
  <2> QED BY <2>1, <2>2, <2>3 DEF m
<1> QED BY <1>4, <1>5

\* The first place where x stands is the place of x.
LEMMA IndexFirst ==
  ASSUME NEW X, NEW s \in Seq(X), NEW i \in 1..Len(s), \A j \in 1..(i - 1) : s[j] # s[i]
  PROVE  IndexOf(s, s[i]) = i
<1>1. IndexOf(s, s[i]) \in 1..i /\ s[IndexOf(s, s[i])] = s[i]
  BY IndexIs
<1> QED BY <1>1

\* Different elements have different places.
LEMMA IndexApart ==
  ASSUME NEW X, NEW s \in Seq(X), NEW x \in ToSet(s), NEW y, x # y
  PROVE  IndexOf(s, x) # IndexOf(s, y)
<1>1. IndexOf(s, x) > 0 /\ s[IndexOf(s, x)] = x
  BY IndexIs
<1>2. IndexOf(s, y) > 0 => s[IndexOf(s, y)] = y
  BY IndexIs
<1> QED BY <1>1, <1>2

\* An element added at the end comes last, and the others stay where they are.
LEMMA IndexAppend ==
  ASSUME NEW X, NEW s \in Seq(X), NEW y \in X
  PROVE  /\ ToSet(Append(s, y)) = ToSet(s) \cup {y}
         /\ \A x \in ToSet(s) : IndexOf(Append(s, y), x) = IndexOf(s, x)
         /\ y \notin ToSet(s) => IndexOf(Append(s, y), y) = Len(s) + 1
<1> DEFINE t == Append(s, y)
<1>1. t \in Seq(X) /\ Len(t) = Len(s) + 1 /\ Len(s) \in Nat
      /\ (\A i \in 1..Len(s) : t[i] = s[i]) /\ t[Len(s) + 1] = y
  OBVIOUS
<1> HIDE DEF t
<1>2. ToSet(t) = ToSet(s) \cup {y}
  <2>1. ToSet(s) = {s[i] : i \in 1..Len(s)} /\ ToSet(t) = {t[i] : i \in 1..Len(t)}
    BY <1>1 DEF ToSet
  <2> QED BY <1>1, <2>1
<1>3. ASSUME NEW x \in ToSet(s) PROVE IndexOf(t, x) = IndexOf(s, x)
  <2> DEFINE i == IndexOf(s, x)
  <2>1. i \in 1..Len(s) /\ s[i] = x /\ \A j \in 1..Len(s) : s[j] = x => i <= j
    BY IndexIs
  <2> HIDE DEF i
  <2>2. i \in 1..Len(t) /\ t[i] = x /\ \A j \in 1..(i - 1) : t[j] # x
    BY <1>1, <2>1
  <2>3. IndexOf(t, x) = i
    BY <1>1, <2>2, IndexFirst
  <2> QED BY <2>3 DEF i
<1>4. ASSUME y \notin ToSet(s) PROVE IndexOf(t, y) = Len(s) + 1
  <2>1. \A j \in 1..Len(s) : s[j] # y
    BY <1>4 DEF ToSet
  <2>2. Len(s) + 1 \in 1..Len(t) /\ \A j \in 1..(Len(s) + 1 - 1) : t[j] # t[Len(s) + 1]
    BY <1>1, <2>1
  <2> QED BY <1>1, <2>2, IndexFirst
<1> QED BY <1>2, <1>3, <1>4 DEF t

\* The elements that are kept keep their order.
LEMMA OnlyKeeps ==
  ASSUME NEW X, NEW seq \in Seq(X), NEW S
  PROVE  /\ Only(seq, S) \in Seq(X)
         /\ ToSet(Only(seq, S)) = ToSet(seq) \cap S
         /\ \A x, y \in ToSet(Only(seq, S)) :
              IndexOf(seq, x) < IndexOf(seq, y) => IndexOf(Only(seq, S), x) < IndexOf(Only(seq, S), y)
<1> DEFINE n == Len(seq)
           op(x, i) == IF seq[i] \in S THEN Append(x, seq[i]) ELSE x
           Kept(f) == f = [i \in 0..n |-> IF i = 0 THEN <<>>
                             ELSE IF seq[i] \in S THEN Append(f[i - 1], seq[i]) ELSE f[i - 1]]
           kept == CHOOSE f : Kept(f)
<1>1. n \in Nat /\ \A i \in 1..n : seq[i] \in X
  OBVIOUS
<1>2. Only(seq, S) = kept[n]
  BY DEF Only
<1>3. \A x \in Seq(X), i \in 1..n : op(x, i) \in Seq(X)
  BY <1>1
<1>4. \E f : Kept(f)
  <2> DEFINE Lists == Seq(X)
             g == [p \in Lists \X (1..n) |-> op(p[1], p[2])]
  <2>1. \A x \in Lists, i \in 1..n : g[<<x, i>>] = op(x, i) /\ g[<<x, i>>] \in Lists
    BY <1>3
  <2> DEFINE none == <<>>
  <2>2. none \in Lists /\ n \in Nat
    BY <1>1
  <2> HIDE DEF g, n, Lists, op, none
  <2>3. PICK f : IsLoop(f, Lists, n, none, g)
    <3>1. StaysIn(Lists, n, g)
      BY <2>1 DEF StaysIn
    <3> QED BY <2>2, <3>1, RoundsExist
  <2>4. \A k \in 0..n : k # 0 => k \in 1..n /\ k - 1 \in 0..n
    BY <1>1
  <2>5. \A k \in 0..n : f[k] = IF k = 0 THEN none ELSE op(f[k - 1], k)
    BY <2>1, <2>3, <2>4 DEF IsLoop
  <2>6. Kept(f)
    BY <2>3, <2>5 DEF op, none, IsLoop
  <2> HIDE DEF Kept
  <2> QED BY <2>6
<1>5. Kept(kept)
  <2> HIDE DEF Kept
  <2> QED BY <1>4
<1> HIDE DEF kept
<1>6. kept[0] = <<>> /\ \A i \in 1..n : kept[i] = op(kept[i - 1], i)
  <2> HIDE DEF n
  <2>1. \A i \in 1..n : i \in 0..n /\ i # 0
    BY <1>1
  <2>2. 0 \in 0..n
    BY <1>1
  <2> QED BY <1>5, <2>1, <2>2
<1> HIDE DEF Kept, n
<1> DEFINE Here(i) == {seq[j] : j \in 1..i} \cap S
           good == {i \in 0..n :
              /\ kept[i] \in Seq(X) /\ ToSet(kept[i]) = Here(i)
              /\ \A x, y \in Here(i) : IndexOf(seq, x) < IndexOf(seq, y)
                                         => IndexOf(kept[i], x) < IndexOf(kept[i], y)}
<1>7. 0 \in good
  <2>1. 0 \in 0..n /\ Here(0) = {} /\ kept[0] = <<>> /\ ToSet(<<>>) = {} /\ <<>> \in Seq(X)
    BY <1>1, <1>6 DEF ToSet
  <2> QED BY <2>1
<1>8. ASSUME NEW i \in 1..n, i - 1 \in good PROVE i \in good
  <2>1. /\ kept[i - 1] \in Seq(X) /\ ToSet(kept[i - 1]) = Here(i - 1)
        /\ \A x, y \in Here(i - 1) : IndexOf(seq, x) < IndexOf(seq, y)
                                       => IndexOf(kept[i - 1], x) < IndexOf(kept[i - 1], y)
    BY <1>8
  <2>2. i \in 0..n /\ 1..i = 1..(i - 1) \cup {i} /\ seq[i] \in X
    BY <1>1
  <2>3. CASE seq[i] \notin S
    <3>1. Here(i) = Here(i - 1) /\ kept[i] = kept[i - 1]
      BY <1>6, <2>2, <2>3
    <3> QED BY <2>1, <2>2, <3>1
  <2>4. CASE seq[i] \in S
    <3> DEFINE old == kept[i - 1]
               z == seq[i]
    <3>1. kept[i] = Append(old, z) /\ Here(i) = Here(i - 1) \cup {z}
      BY <1>6, <2>2, <2>4
    <3>2. /\ kept[i] \in Seq(X)
          /\ ToSet(kept[i]) = Here(i - 1) \cup {z}
          /\ \A x \in Here(i - 1) : IndexOf(kept[i], x) = IndexOf(old, x)
          /\ z \notin Here(i - 1) => IndexOf(kept[i], z) = Len(old) + 1
      <4>1. old \in Seq(X) /\ z \in X /\ ToSet(old) = Here(i - 1)
        BY <2>1, <2>2
      <4> HIDE DEF old, z, Here
      <4>2. /\ ToSet(Append(old, z)) = ToSet(old) \cup {z}
            /\ \A x \in ToSet(old) : IndexOf(Append(old, z), x) = IndexOf(old, x)
            /\ z \notin ToSet(old) => IndexOf(Append(old, z), z) = Len(old) + 1
        BY <4>1, IndexAppend
      <4>3. Append(old, z) \in Seq(X)
        BY <4>1
      <4> QED BY <3>1, <4>1, <4>2, <4>3
    <3>3. \A x \in Here(i - 1) : IndexOf(old, x) \in 1..Len(old) /\ IndexOf(seq, x) \in 1..(i - 1)
      <4> TAKE x \in Here(i - 1)
      <4>1. IndexOf(old, x) \in 1..Len(old)
        BY <2>1, IndexIs
      <4>2. PICK j \in 1..(i - 1) : x = seq[j]
        OBVIOUS
      <4>3. j \in 1..Len(seq)
        BY <2>2, <1>1 DEF n
      <4>4. IndexOf(seq, x) \in 1..j
        BY <4>2, <4>3, IndexIs
      <4> QED BY <4>1, <4>4
    <3>4. z \notin Here(i - 1) => IndexOf(seq, z) = i
      <4> HAVE z \notin Here(i - 1)
      <4>1. \A j \in 1..(i - 1) : seq[j] # seq[i]
        BY <2>4
      <4>2. i \in 1..Len(seq)
        BY DEF n
      <4> QED BY <4>1, <4>2, IndexFirst
    <3>5. Len(old) \in Nat
      BY <2>1
    <3> HIDE DEF Here, z, old
    <3>6. ASSUME NEW x \in Here(i), NEW y \in Here(i), IndexOf(seq, x) < IndexOf(seq, y)
          PROVE  IndexOf(kept[i], x) < IndexOf(kept[i], y)
      <4>1. CASE y = z /\ z \notin Here(i - 1)
        <5>1. x # z
          BY <3>4, <3>6, <4>1
        <5>2. x \in Here(i - 1)
          BY <3>1, <5>1
        <5> QED BY <3>2, <3>3, <3>5, <4>1, <5>2
      <4>2. CASE x = z /\ z \notin Here(i - 1)
        <5>1. IndexOf(seq, x) = i /\ i \in Nat
          BY <3>4, <4>2
        <5>2. y \in Here(i - 1) \/ y = z
          BY <3>1
        <5>3. y # z
          BY <3>6, <4>2, <5>1
        <5>4. IndexOf(seq, y) \in 1..(i - 1)
          BY <3>3, <5>2, <5>3
        <5> QED BY <3>6, <5>1, <5>4
      <4>3. CASE x \in Here(i - 1) /\ y \in Here(i - 1)
        BY <2>1, <3>2, <3>6, <4>3 DEF old
      <4> QED BY <3>1, <4>1, <4>2, <4>3
    <3> QED BY <2>2, <3>1, <3>2, <3>6
  <2> QED BY <2>3, <2>4
<1>9. n \in good
  <2> HIDE DEF good
  <2>1. 0..n \subseteq good
    BY <1>1, <1>7, <1>8, UpTo
  <2>2. n \in 0..n
    BY <1>1
  <2> QED BY <2>1, <2>2
<1>10. Here(n) = ToSet(seq) \cap S
  <2>1. ToSet(seq) = {seq[j] : j \in 1..n}
    BY DEF ToSet, n
  <2> QED BY <2>1
<1> HIDE DEF Here
<1> QED BY <1>2, <1>9, <1>10

-----------------------------------------------------------------------------
(* Networks.                                                               *)

\* The nodes that edges point at.
Targets(es) == {Node(e) : e \in ToSet(es)}

\* A network in which fo has other edges.
Rewire(ntk, fo, es) == [ntk EXCEPT !.fanin[fo] = es]

\* The edges to N nodes.
Edges(N) == (0..(N - 1)) \X BOOLEAN

\* The networks of N nodes with k inputs and q outputs.
Nets(k, q, N) ==
  [nNodes : {N}, pis : {[i \in 1..k |-> i]}, ints : Seq((k + 1)..(N - 1)),
   pos : [1..q -> (k + 1)..(N - 1)], fanin : [0..(N - 1) -> Seq(Edges(N))]]

\* The nodes an edge may point at: a node with fanins must be in the list.
Alive(ntk) == {n \in 0..(ntk.nNodes - 1) : ntk.fanin[n] = <<>> \/ n \in ToSet(ntk.ints)}

\* Inputs have no fanins, and edges point at nodes that are alive.
Wired(k, q, N) ==
  {ntk \in Nets(k, q, N) : /\ \A n \in 0..k : ntk.fanin[n] = <<>>
                           /\ \A n \in 0..(N - 1) : Fanins(ntk, n) \subseteq Alive(ntk)}

\* The list is in topological order.
Ordered(ntk) ==
  \A n, m \in ToSet(ntk.ints) :
    m \in Fanins(ntk, n) => IndexOf(ntk.ints, m) < IndexOf(ntk.ints, n)

\* Networks in order.
Sound(k, q, N) == {ntk \in Wired(k, q, N) : Ordered(ntk)}

\* Networks with the list and the outputs of ntk, in which a node n has no
\* other fanins than there, and those in more[n].
Variants(k, q, N, ntk, more) ==
  {r \in Wired(k, q, N) : /\ r.ints = ntk.ints /\ r.pos = ntk.pos
                          /\ Alive(ntk) \subseteq Alive(r)
                          /\ \A n \in 0..(N - 1) : Fanins(r, n) \subseteq Fanins(ntk, n) \cup more[n]}

\* The parts of a network.
LEMMA NetFields ==
  ASSUME NEW k, NEW q, NEW N, NEW ntk \in Nets(k, q, N)
  PROVE  /\ ntk.nNodes = N /\ ntk.pis = [i \in 1..k |-> i]
         /\ ntk.ints \in Seq((k + 1)..(N - 1)) /\ ntk.pos \in [1..q -> (k + 1)..(N - 1)]
         /\ ntk.fanin \in [0..(N - 1) -> Seq(Edges(N))]
BY DEF Nets

\* The outputs of a network are a sequence of nodes.
LEMMA NetOutputs ==
  ASSUME NEW k, NEW q \in Nat, NEW N, NEW ntk \in Nets(k, q, N)
  PROVE  ntk.pos \in Seq((k + 1)..(N - 1)) /\ Len(ntk.pos) = q
<1>1. ntk.pos \in [1..q -> (k + 1)..(N - 1)]
  BY NetFields
<1>2. ntk.pos \in Seq((k + 1)..(N - 1))
  BY <1>1, SeqDef
<1>3. Len(ntk.pos) \in Nat /\ DOMAIN ntk.pos = 1..Len(ntk.pos) /\ DOMAIN ntk.pos = 1..q
  BY <1>1, <1>2
<1>4. Len(ntk.pos) = q
  BY <1>3
<1> QED BY <1>2, <1>4

\* The elements of a sequence.
LEMMA SeqIn ==
  ASSUME NEW X, NEW s \in Seq(X)
  PROVE  ToSet(s) \subseteq X /\ ToSet(s) = {s[i] : i \in 1..Len(s)} /\ Len(s) \in Nat
BY DEF ToSet

\* The list and the outputs have nodes that are no inputs.
LEMMA NetIds ==
  ASSUME NEW k, NEW q \in Nat, NEW N, NEW ntk \in Nets(k, q, N)
  PROVE  ToSet(ntk.ints) \subseteq (k + 1)..(N - 1) /\ ToSet(ntk.pos) \subseteq (k + 1)..(N - 1)
BY NetFields, NetOutputs, SeqIn

\* What IsInt and IsPi say.
LEMMA NetKinds ==
  ASSUME NEW k \in Nat, NEW q, NEW N, NEW ntk \in Nets(k, q, N), NEW n
  PROVE  (IsInt(ntk, n) <=> n \in ToSet(ntk.ints)) /\ (IsPi(ntk, n) <=> n \in 1..k)
<1>1. ntk.ints \in Seq((k + 1)..(N - 1)) /\ ntk.pis = [i \in 1..k |-> i]
  BY NetFields
<1>2. IsInt(ntk, n) <=> n \in ToSet(ntk.ints)
  BY <1>1 DEF IsInt, Contains, ToSet
<1>3. ntk.pis \in Seq(1..k) /\ Len(ntk.pis) = k
  BY <1>1
<1>4. IsPi(ntk, n) <=> n \in 1..k
  BY <1>1, <1>3 DEF IsPi, Contains
<1> QED BY <1>2, <1>4

\* A node of a network is alive if it has no fanins or is in the list.
LEMMA AliveIs ==
  ASSUME NEW k, NEW q, NEW N, NEW ntk \in Nets(k, q, N), NEW n
  PROVE  n \in Alive(ntk) <=> n \in 0..(N - 1) /\ (ntk.fanin[n] = <<>> \/ n \in ToSet(ntk.ints))
<1>1. ntk.nNodes = N
  BY DEF Nets
<1> QED BY <1>1 DEF Alive

\* A list of edges, and the nodes they point at.
LEMMA EdgesTo ==
  ASSUME NEW N \in Nat, NEW es \in Seq(Edges(N))
  PROVE  /\ Len(es) \in Nat /\ ToSet(es) = {es[i] : i \in 1..Len(es)}
         /\ \A i \in 1..Len(es) : /\ Node(es[i]) \in 0..(N - 1) /\ IsCompl(es[i]) \in BOOLEAN
                                  /\ es[i] = <<Node(es[i]), IsCompl(es[i])>>
         /\ Targets(es) = {Node(es[i]) : i \in 1..Len(es)}
<1>1. Len(es) \in Nat /\ ToSet(es) = {es[i] : i \in 1..Len(es)}
  BY DEF ToSet
<1>2. \A i \in 1..Len(es) : es[i] \in Edges(N)
  OBVIOUS
<1>3. \A e \in Edges(N) : Node(e) \in 0..(N - 1) /\ IsCompl(e) \in BOOLEAN /\ e = <<Node(e), IsCompl(e)>>
  BY DEF Edges, Node, IsCompl
<1>4. Targets(es) = {Node(es[i]) : i \in 1..Len(es)}
  BY <1>1 DEF Targets
<1> QED BY <1>1, <1>2, <1>3, <1>4

\* The edge found points at the node looked for.
LEMMA FaninFound ==
  ASSUME NEW X, NEW ntk, NEW id, NEW fi, ntk.fanin[id] \in Seq(X)
  PROVE  /\ FindFanin(ntk, id, fi) \in 0..Len(ntk.fanin[id])
         /\ FindFanin(ntk, id, fi) # 0 => Node(ntk.fanin[id][FindFanin(ntk, id, fi)]) = fi
         /\ FindFanin(ntk, id, fi) # 0 <=> fi \in Fanins(ntk, id)
<1> DEFINE s == ntk.fanin[id]
           I == {i \in 1..Len(s) : Node(s[i]) = fi}
<1>1. FindFanin(ntk, id, fi) = IF I # {} THEN Min(I) ELSE 0
  BY DEF FindFanin, SelectInSeq
<1>2. Len(s) \in Nat /\ Fanins(ntk, id) = {Node(s[i]) : i \in 1..Len(s)}
  BY DEF ToSet, Fanins
<1>3. I # {} => Min(I) \in I
  <2>1. I \in SUBSET Nat
    OBVIOUS
  <2> QED BY <2>1, MinIs
<1> HIDE DEF s
<1>4. CASE I = {}
  <2>1. \A i \in 1..Len(s) : Node(s[i]) # fi
    BY <1>4
  <2> QED BY <1>1, <1>2, <1>4, <2>1 DEF s
<1>5. CASE I # {}
  <2>1. Min(I) \in 1..Len(s) /\ Node(s[Min(I)]) = fi
    BY <1>3, <1>5
  <2>2. fi \in Fanins(ntk, id)
    BY <1>2, <2>1
  <2>3. FindFanin(ntk, id, fi) = Min(I) /\ Min(I) # 0
    BY <1>1, <1>2, <1>5, <2>1
  <2> HIDE DEF I
  <2> QED BY <1>2, <2>1, <2>2, <2>3 DEF s
<1> QED BY <1>4, <1>5

\* The fanouts of a node.
LEMMA FanoutsAre ==
  ASSUME NEW k \in Nat, NEW q \in Nat, NEW N \in Nat, k < N, NEW ntk \in Nets(k, q, N),
         NEW id, NEW fPos \in BOOLEAN
  PROVE  /\ FanoutSeq(ntk, id, fPos) \in Seq((k + 1)..(N - 1))
         /\ \A fo \in ToSet(FanoutSeq(ntk, id, fPos)) :
              /\ id \in Fanins(ntk, fo) /\ fo \in (k + 1)..(N - 1)
              /\ fo \in ToSet(ntk.ints) \/ fo \in ToSet(ntk.pos)
<1> DEFINE X == (k + 1)..(N - 1)
           after == SubSeq(ntk.ints, IndexOf(ntk.ints, id) + 1, Len(ntk.ints))
           outs == IF fPos THEN ntk.pos ELSE <<>>
           visited == after \o outs
<1> HIDE DEF X
<1>1. ntk.ints \in Seq(X) /\ ntk.pos \in Seq(X)
  BY NetFields, NetOutputs DEF X
<1>2. after \in Seq(X) /\ ToSet(after) \subseteq ToSet(ntk.ints)
  <2> DEFINE i == IndexOf(ntk.ints, id)
             list == ntk.ints
  <2>1. i \in 0..Len(list) /\ list \in Seq(X)
    BY <1>1, IndexIs
  <2> HIDE DEF i, list
  <2>2. SubSeq(list, i + 1, Len(list)) \in Seq(X)
    BY <2>1
  <2>3. ToSet(SubSeq(list, i + 1, Len(list))) \subseteq ToSet(list)
    BY <2>1 DEF ToSet
  <2> QED BY <2>2, <2>3 DEF i, list
<1>3. outs \in Seq(X) /\ ToSet(outs) \subseteq ToSet(ntk.pos)
  <2>1. ToSet(<<>>) = {} /\ <<>> \in Seq(X)
    BY DEF ToSet
  <2> QED BY <1>1, <2>1
<1> HIDE DEF after, outs
<1>4. visited \in Seq(X) /\ ToSet(visited) \subseteq ToSet(after) \cup ToSet(outs)
  <2>1. visited \in Seq(X)
    BY <1>2, <1>3
  <2>2. \A i \in 1..Len(visited) : visited[i] \in ToSet(after) \cup ToSet(outs)
    BY <1>2, <1>3 DEF ToSet
  <2> HIDE DEF visited
  <2> QED BY <2>1, <2>2 DEF ToSet
<1> HIDE DEF visited
<1> DEFINE S == {fo \in ToSet(visited) : id \in Fanins(ntk, fo)}
<1>5. FanoutSeq(ntk, id, fPos) = Only(visited, S)
  BY DEF FanoutSeq, visited, after, outs
<1> HIDE DEF S
<1>6. Only(visited, S) \in Seq(X) /\ ToSet(Only(visited, S)) = ToSet(visited) \cap S
  BY <1>4, OnlyKeeps
<1>7. ToSet(visited) \subseteq X
  BY <1>4, SeqIn
<1> QED BY <1>2, <1>3, <1>4, <1>5, <1>6, <1>7 DEF S, X

\* The edges of a node are changed.
LEMMA Rewired ==
  ASSUME NEW k \in Nat, NEW q \in Nat, NEW N \in Nat, k < N, NEW ntk \in Wired(k, q, N),
         NEW fo \in (k + 1)..(N - 1), NEW es \in Seq(Edges(N)),
         Targets(es) \subseteq Alive(ntk),
         fo \in ToSet(ntk.ints) \/ (ntk.fanin[fo] = <<>> => es = <<>>)
  PROVE  LET t == Rewire(ntk, fo, es)
         IN  /\ t \in Wired(k, q, N) /\ t.ints = ntk.ints /\ t.pos = ntk.pos
             /\ Alive(ntk) \subseteq Alive(t)
             /\ \A n : n # fo => Fanins(t, n) = Fanins(ntk, n)
             /\ Fanins(t, fo) = Targets(es)
<1> DEFINE t == Rewire(ntk, fo, es)
<1>1. ntk \in Nets(k, q, N)
  BY DEF Wired
<1>3. t \in Nets(k, q, N) /\ t.ints = ntk.ints /\ t.pos = ntk.pos /\ t.nNodes = N
  BY <1>1 DEF Nets, Rewire
<1>4. t.fanin[fo] = es /\ \A n : n # fo => t.fanin[n] = ntk.fanin[n]
  BY <1>1 DEF Nets, Rewire
<1>5. (\A n : n # fo => Fanins(t, n) = Fanins(ntk, n)) /\ Fanins(t, fo) = Targets(es)
  BY <1>4 DEF Fanins, Targets
<1> HIDE DEF t
<1>7. Alive(ntk) \subseteq Alive(t)
  BY <1>1, <1>3, <1>4, AliveIs
<1>8. \A n \in 0..(N - 1) : Fanins(t, n) \subseteq Alive(t)
  <2>1. \A n \in 0..(N - 1) : Fanins(ntk, n) \subseteq Alive(ntk)
    BY DEF Wired
  <2> QED BY <1>5, <1>7, <2>1
<1>9. \A n \in 0..k : t.fanin[n] = <<>>
  <2>1. \A n \in 0..k : ntk.fanin[n] = <<>> /\ n # fo
    BY DEF Wired
  <2> QED BY <1>4, <2>1
<1>10. t \in Wired(k, q, N)
  BY <1>3, <1>8, <1>9 DEF Wired
<1> QED BY <1>3, <1>5, <1>7, <1>10 DEF t

\* The same of a network that is that one.
LEMMA RewiredTo ==
  ASSUME NEW k \in Nat, NEW q \in Nat, NEW N \in Nat, k < N, NEW ntk \in Wired(k, q, N),
         NEW fo \in (k + 1)..(N - 1), NEW es \in Seq(Edges(N)),
         Targets(es) \subseteq Alive(ntk), fo \in ToSet(ntk.ints),
         NEW t, t = Rewire(ntk, fo, es)
  PROVE  /\ t \in Wired(k, q, N) /\ t.ints = ntk.ints
         /\ \A n : n # fo => Fanins(t, n) = Fanins(ntk, n)
         /\ Fanins(t, fo) = Targets(es)
BY Rewired

\* An element is taken out of a list.
LEMMA RemoveAtIs ==
  ASSUME NEW X, NEW s \in Seq(X), NEW i \in 0..Len(s)
  PROVE  /\ RemoveAt(s, i) \in Seq(X) /\ ToSet(RemoveAt(s, i)) \subseteq ToSet(s)
         /\ s = <<>> => RemoveAt(s, i) = <<>>
<1> DEFINE a == SubSeq(s, 1, i - 1)
           b == SubSeq(s, i + 1, Len(s))
<1>1. a \in Seq(X) /\ b \in Seq(X)
  OBVIOUS
<1>2. (\A j \in 1..Len(a) : a[j] \in ToSet(s)) /\ (\A j \in 1..Len(b) : b[j] \in ToSet(s))
  BY DEF ToSet
<1>3. s = <<>> => a = <<>> /\ b = <<>>
  OBVIOUS
<1> HIDE DEF a, b
<1>4. a \o b \in Seq(X) /\ (s = <<>> => a \o b = <<>>)
  BY <1>1, <1>3
<1> DEFINE c == a \o b
<1>5. ASSUME NEW j \in 1..Len(c) PROVE c[j] \in ToSet(s)
  <2>1. \/ j \in 1..Len(a) /\ c[j] = a[j]
        \/ j - Len(a) \in 1..Len(b) /\ c[j] = b[j - Len(a)]
    BY <1>1
  <2> HIDE DEF c
  <2> QED BY <1>2, <2>1
<1>6. RemoveAt(s, i) = c /\ c \in Seq(X) /\ (s = <<>> => c = <<>>)
  BY <1>4 DEF RemoveAt, a, b
<1> HIDE DEF c
<1>7. ToSet(c) = {c[j] : j \in 1..Len(c)}
  BY <1>6, SeqIn
<1>8. ToSet(c) \subseteq ToSet(s)
  BY <1>5, <1>7
<1> QED BY <1>6, <1>8

\* A network is a variant of itself.
LEMMA VariantOfItself ==
  ASSUME NEW k, NEW q, NEW N, NEW ntk \in Wired(k, q, N), NEW more
  PROVE  ntk \in Variants(k, q, N, ntk, more)
BY DEF Variants

\* The edges of one node are changed again.
LEMMA VariantStep ==
  ASSUME NEW k \in Nat, NEW q \in Nat, NEW N \in Nat, k < N, NEW ntk, NEW more,
         NEW r \in Variants(k, q, N, ntk, more),
         NEW fo \in (k + 1)..(N - 1), NEW es \in Seq(Edges(N)),
         Targets(es) \subseteq Alive(r),
         Targets(es) \subseteq Fanins(r, fo) \cup more[fo],
         r.fanin[fo] = <<>> => es = <<>>
  PROVE  Rewire(r, fo, es) \in Variants(k, q, N, ntk, more)
<1> DEFINE t == Rewire(r, fo, es)
<1>1. r \in Wired(k, q, N)
  BY DEF Variants
<1>2. /\ t \in Wired(k, q, N) /\ t.ints = r.ints /\ t.pos = r.pos
      /\ Alive(r) \subseteq Alive(t)
      /\ \A n : n # fo => Fanins(t, n) = Fanins(r, n)
      /\ Fanins(t, fo) = Targets(es)
  BY <1>1, Rewired
<1> HIDE DEF t
<1>3. t \in Variants(k, q, N, ntk, more)
  BY <1>2 DEF Variants
<1> QED BY <1>3 DEF t

\* A fanin is removed.
LEMMA FaninRemoved ==
  ASSUME NEW k \in Nat, NEW q \in Nat, NEW N \in Nat, k < N, NEW ntk, NEW more,
         NEW r \in Variants(k, q, N, ntk, more),
         NEW fo \in (k + 1)..(N - 1), NEW idx \in 0..Len(r.fanin[fo])
  PROVE  RemoveFanin(r, fo, idx) \in Variants(k, q, N, ntk, more)
<1>1. r \in Wired(k, q, N) /\ r \in Nets(k, q, N)
  BY DEF Variants, Wired
<1>2. fo \in 0..(N - 1) /\ r.fanin[fo] \in Seq(Edges(N))
  BY <1>1 DEF Nets
<1> DEFINE es == RemoveAt(r.fanin[fo], idx)
<1>3. /\ es \in Seq(Edges(N)) /\ ToSet(es) \subseteq ToSet(r.fanin[fo])
      /\ r.fanin[fo] = <<>> => es = <<>>
  BY <1>2, RemoveAtIs
<1> HIDE DEF es
<1>4. Targets(es) \subseteq Fanins(r, fo)
  BY <1>3 DEF Fanins, Targets
<1>5. Fanins(r, fo) \subseteq Alive(r)
  BY <1>1, <1>2 DEF Wired
<1>6. Rewire(r, fo, es) \in Variants(k, q, N, ntk, more)
  BY <1>3, <1>4, <1>5, VariantStep
<1>7. RemoveFanin(r, fo, idx) = Rewire(r, fo, es)
  BY DEF RemoveFanin, es, Rewire
<1> QED BY <1>6, <1>7

\* One edge of a node is replaced by another.
LEMMA FaninReplaced ==
  ASSUME NEW k \in Nat, NEW q \in Nat, NEW N \in Nat, k < N, NEW ntk, NEW more,
         NEW r \in Variants(k, q, N, ntk, more),
         NEW fo \in (k + 1)..(N - 1), NEW idx \in 0..Len(r.fanin[fo]),
         NEW n \in Alive(r) \cap more[fo], NEW c \in BOOLEAN
  PROVE  [r EXCEPT !.fanin[fo][idx] = <<n, c>>] \in Variants(k, q, N, ntk, more)
<1>1. r \in Wired(k, q, N) /\ r \in Nets(k, q, N)
  BY DEF Variants, Wired
<1>2. fo \in 0..(N - 1) /\ r.fanin[fo] \in Seq(Edges(N))
  BY <1>1 DEF Nets
<1> DEFINE old == r.fanin[fo]
           es == [old EXCEPT ![idx] = <<n, c>>]
<1>3. <<n, c>> \in Edges(N)
  BY <1>1, AliveIs DEF Edges
<1>4. es \in Seq(Edges(N)) /\ (old = <<>> => es = <<>>) /\ Len(es) = Len(old)
      /\ \A i \in 1..Len(es) : es[i] = old[i] \/ es[i] = <<n, c>>
  <2> DEFINE e == <<n, c>>
             X == Edges(N)
  <2>1. old \in Seq(X) /\ e \in X
    BY <1>2, <1>3
  <2> HIDE DEF old, e, X
  <2>2. CASE idx = 0
    <3>1. [old EXCEPT ![idx] = e] = old
      BY <2>1, <2>2
    <3> QED BY <2>1, <3>1 DEF e, X
  <2>3. CASE idx # 0
    <3>1. idx \in 1..Len(old) /\ Len(old) \in Nat
      BY <2>1, <2>3 DEF old
    <3>2. /\ [old EXCEPT ![idx] = e] \in Seq(X) /\ Len([old EXCEPT ![idx] = e]) = Len(old)
          /\ \A j \in 1..Len(old) : [old EXCEPT ![idx] = e][j] = IF j = idx THEN e ELSE old[j]
      BY <2>1, <3>1, ExceptSeq
    <3>3. old # <<>>
      BY <3>1
    <3> QED BY <3>2, <3>3 DEF e, X
  <2> QED BY <2>2, <2>3
<1>5. \A i \in 1..Len(es) : es[i] \in ToSet(old) \cup {<<n, c>>}
  BY <1>2, <1>4, SeqIn
<1> HIDE DEF es
<1>6. Targets(es) \subseteq Fanins(r, fo) \cup {n}
  <2>1. ToSet(es) = {es[i] : i \in 1..Len(es)}
    BY <1>4, SeqIn
  <2>2. ToSet(es) \subseteq ToSet(old) \cup {<<n, c>>} /\ Node(<<n, c>>) = n
    BY <1>5, <2>1 DEF Node
  <2> QED BY <2>2 DEF Fanins, Targets
<1>7. Fanins(r, fo) \subseteq Alive(r)
  BY <1>1, <1>2 DEF Wired
<1>8. Rewire(r, fo, es) \in Variants(k, q, N, ntk, more)
  BY <1>4, <1>6, <1>7, VariantStep
<1>9. [r EXCEPT !.fanin[fo][idx] = <<n, c>>] = Rewire(r, fo, es)
  BY <1>1, <1>2 DEF es, Rewire
<1> QED BY <1>8, <1>9

\* Dropping repeated edges gives no node a new fanin.
LEMMA DroppedIn ==
  ASSUME NEW k \in Nat, NEW q \in Nat, NEW N \in Nat, k < N, NEW ntk \in Wired(k, q, N), NEW more,
         NEW id, NEW fi, NEW c
  PROVE  DropRepeated(ntk, id, fi, c) \in Variants(k, q, N, ntk, more)
<1> DEFINE V == Variants(k, q, N, ntk, more)
<1> DEFINE seq == FanoutSeq(ntk, id, FALSE)
           n == Len(seq)
           op(x, i) == IF Repeats(x, seq[i], id, fi, c)
                       THEN RemoveFanin(x, seq[i], FindFanin(x, seq[i], id)) ELSE x
           Fold(f) == f = [s \in SUBSET (1..n) |-> IF s = {} THEN ntk ELSE op(f[s \ {Max(s)}], Max(s))]
           iter == CHOOSE f : Fold(f)
<1>1. n \in Nat /\ DOMAIN seq = 1..n /\ \A i \in 1..n : seq[i] \in (k + 1)..(N - 1)
  <2>1. ntk \in Nets(k, q, N)
    BY DEF Wired
  <2>2. seq \in Seq((k + 1)..(N - 1))
    BY <2>1, FanoutsAre
  <2> HIDE DEF seq
  <2> QED BY <2>2
<1>2. DropRepeated(ntk, id, fi, c) = iter[1..n]
  <2> HIDE DEF seq
  <2> QED BY <1>1 DEF DropRepeated, FoldLeft, MapThenFoldSet, seq
<1>3. ASSUME NEW x \in V, NEW i \in 1..n PROVE op(x, i) \in V
  <2> DEFINE fo == seq[i]
             idx == FindFanin(x, fo, id)
  <2> HIDE DEF seq, n
  <2>1. fo \in (k + 1)..(N - 1) /\ fo \in 0..(N - 1)
    BY <1>1
  <2>2. x.fanin[fo] \in Seq(Edges(N))
    BY <2>1 DEF Variants, Wired, Nets
  <2>3. idx \in 0..Len(x.fanin[fo])
    BY <2>2, FaninFound
  <2> HIDE DEF fo, idx
  <2>4. RemoveFanin(x, fo, idx) \in V
    BY <2>1, <2>3, FaninRemoved
  <2>5. op(x, i) \in {RemoveFanin(x, fo, idx), x}
    BY Zenon DEF fo, idx
  <2> QED BY <2>4, <2>5
<1> HIDE DEF V, seq
<1> HIDE DEF n, op
<1>4. \E f : Fold(f)
  <2> DEFINE g == [p \in V \X (1..n) |-> op(p[1], p[2])]
  <2>1. \A x \in V, i \in 1..n : g[<<x, i>>] = op(x, i) /\ g[<<x, i>>] \in V
    BY <1>3
  <2> HIDE DEF g
  <2>2. ntk \in V
    BY VariantOfItself DEF V
  <2>3. PICK f : /\ f = [s \in SUBSET (1..n) |-> IF s = {} THEN ntk ELSE g[<<f[s \ {Max(s)}], Max(s)>>]]
                 /\ \A s \in SUBSET (1..n) : s # {} => f[s \ {Max(s)}] \in V /\ Max(s) \in 1..n
    BY <1>1, <2>1, <2>2, FoldExists
  <2>4. \A s \in SUBSET (1..n) : f[s] = IF s = {} THEN ntk ELSE op(f[s \ {Max(s)}], Max(s))
    BY <2>1, <2>3
  <2>5. Fold(f)
    BY <2>3, <2>4
  <2> HIDE DEF Fold
  <2> QED BY <2>5
<1>5. Fold(iter)
  <2> HIDE DEF Fold
  <2> QED BY <1>4
<1> HIDE DEF iter
<1>6. iter[{}] = ntk /\ \A m \in 1..n : iter[1..m] = op(iter[1..(m - 1)], m)
  <2>1. iter[{}] = ntk
    BY <1>5
  <2>2. ASSUME NEW m \in 1..n PROVE iter[1..m] = op(iter[1..(m - 1)], m)
    <3>1. /\ 1..m \in SUBSET (1..n) /\ 1..m # {} /\ Max(1..m) = m
          /\ (1..m) \ {m} = 1..(m - 1)
      BY <1>1, PrefixIs
    <3> QED BY <1>5, <3>1
  <2> QED BY <2>1, <2>2
<1> HIDE DEF Fold
<1>7. iter[1..n] \in V
  <2>1. iter[{}] \in V /\ \A m \in 1..n : iter[1..(m - 1)] \in V => iter[1..m] \in V
    BY <1>3, <1>6, VariantOfItself DEF V
  <2> QED BY <1>1, <2>1, FoldIn
<1> QED BY <1>2, <1>7 DEF V

\* One fanout is redirected.
LEMMA RedirectedIn ==
  ASSUME NEW k \in Nat, NEW q \in Nat, NEW N \in Nat, k < N, NEW ntk, NEW more,
         NEW r \in Variants(k, q, N, ntk, more), NEW fo \in (k + 1)..(N - 1),
         NEW id, NEW fi \in Alive(r), NEW c, {0, fi} \subseteq more[fo]
  PROVE  Redirect(r, fo, id, fi, c) \in Variants(k, q, N, ntk, more)
<1>1. r \in Wired(k, q, N) /\ r \in Nets(k, q, N) /\ fo \in 0..(N - 1)
  BY DEF Variants, Wired
<1>2. r.fanin[fo] \in Seq(Edges(N))
  BY <1>1 DEF Nets
<1> DEFINE idx == FindFanin(r, fo, id)
           d == Xor(c, IsCompl(r.fanin[fo][idx]))
<1>3. idx \in 0..Len(r.fanin[fo]) /\ d \in BOOLEAN
  BY <1>2, FaninFound DEF Xor
<1>4. 0 \in Alive(r)
  <2>1. r.fanin[0] = <<>> /\ 0 \in 0..(N - 1)
    BY <1>1 DEF Wired
  <2> QED BY <1>1, <2>1, AliveIs
<1>5. Redirect(r, fo, id, fi, c) \in {[r EXCEPT !.fanin[fo][idx] = <<0, FALSE>>],
                                      [r EXCEPT !.fanin[fo][idx] = <<fi, d>>]}
  BY DEF Redirect, Const0
<1> HIDE DEF idx, d
<1>6. [r EXCEPT !.fanin[fo][idx] = <<fi, d>>] \in Variants(k, q, N, ntk, more)
  BY <1>3, FaninReplaced
<1>7. [r EXCEPT !.fanin[fo][idx] = <<0, FALSE>>] \in Variants(k, q, N, ntk, more)
  BY <1>3, <1>4, FaninReplaced
<1> QED BY <1>5, <1>6, <1>7

\* All fanouts are redirected: they may get fi and the constant as fanins.
LEMMA SubstitutedIn ==
  ASSUME NEW k \in Nat, NEW q \in Nat, NEW N \in Nat, k < N, NEW ntk \in Wired(k, q, N), NEW more,
         NEW id, NEW fi \in Alive(ntk), NEW c,
         \A fo \in ToSet(FanoutSeq(DropRepeated(ntk, id, fi, c), id, TRUE)) : {0, fi} \subseteq more[fo]
  PROVE  Substitute(ntk, id, fi, c) \in Variants(k, q, N, ntk, more)
<1> DEFINE V == Variants(k, q, N, ntk, more)
           dropped == DropRepeated(ntk, id, fi, c)
<1> DEFINE seq == FanoutSeq(dropped, id, TRUE)
           n == Len(seq)
           op(x, i) == Redirect(x, seq[i], id, fi, c)
           Fold(f) == f = [s \in SUBSET (1..n) |-> IF s = {} THEN dropped ELSE op(f[s \ {Max(s)}], Max(s))]
           iter == CHOOSE f : Fold(f)
<1>a. dropped \in V /\ dropped \in Nets(k, q, N)
  <2>1. dropped \in V
    BY DroppedIn
  <2>2. dropped \in Wired(k, q, N)
    BY <2>1 DEF Variants
  <2> QED BY <2>1, <2>2 DEF Wired
<1>1. n \in Nat /\ DOMAIN seq = 1..n /\ \A i \in 1..n : seq[i] \in (k + 1)..(N - 1) /\ {0, fi} \subseteq more[seq[i]]
  <2>1. seq \in Seq((k + 1)..(N - 1))
    BY <1>a, FanoutsAre
  <2>2. \A fo \in ToSet(seq) : {0, fi} \subseteq more[fo]
    OBVIOUS
  <2> HIDE DEF seq
  <2> QED BY <2>1, <2>2, SeqIn
<1>2. Substitute(ntk, id, fi, c) = iter[1..n]
  <2> HIDE DEF seq, dropped
  <2> QED BY <1>1 DEF Substitute, FoldLeft, MapThenFoldSet, seq, dropped
<1>3. ASSUME NEW x \in V, NEW i \in 1..n PROVE op(x, i) \in V
  <2>1. fi \in Alive(x)
    BY DEF Variants
  <2> HIDE DEF seq, n
  <2> QED BY <1>1, <2>1, RedirectedIn
<1> HIDE DEF V, seq, dropped
<1> HIDE DEF n, op
<1>4. \E f : Fold(f)
  <2> DEFINE g == [p \in V \X (1..n) |-> op(p[1], p[2])]
  <2>1. \A x \in V, i \in 1..n : g[<<x, i>>] = op(x, i) /\ g[<<x, i>>] \in V
    BY <1>3
  <2> HIDE DEF g
  <2>2. dropped \in V
    BY <1>a
  <2>3. PICK f : /\ f = [s \in SUBSET (1..n) |-> IF s = {} THEN dropped ELSE g[<<f[s \ {Max(s)}], Max(s)>>]]
                 /\ \A s \in SUBSET (1..n) : s # {} => f[s \ {Max(s)}] \in V /\ Max(s) \in 1..n
    BY <1>1, <2>1, <2>2, FoldExists
  <2>4. \A s \in SUBSET (1..n) : f[s] = IF s = {} THEN dropped ELSE op(f[s \ {Max(s)}], Max(s))
    BY <2>1, <2>3
  <2>5. Fold(f)
    BY <2>3, <2>4
  <2> HIDE DEF Fold
  <2> QED BY <2>5
<1>5. Fold(iter)
  <2> HIDE DEF Fold
  <2> QED BY <1>4
<1> HIDE DEF iter
<1>6. iter[{}] = dropped /\ \A m \in 1..n : iter[1..m] = op(iter[1..(m - 1)], m)
  <2>1. iter[{}] = dropped
    BY <1>5
  <2>2. ASSUME NEW m \in 1..n PROVE iter[1..m] = op(iter[1..(m - 1)], m)
    <3>1. /\ 1..m \in SUBSET (1..n) /\ 1..m # {} /\ Max(1..m) = m
          /\ (1..m) \ {m} = 1..(m - 1)
      BY <1>1, PrefixIs
    <3> QED BY <1>5, <3>1
  <2> QED BY <2>1, <2>2
<1> HIDE DEF Fold
<1>7. iter[1..n] \in V
  <2>1. iter[{}] \in V /\ \A m \in 1..n : iter[1..(m - 1)] \in V => iter[1..m] \in V
    BY <1>3, <1>6, <1>a
  <2> QED BY <1>1, <2>1, FoldIn
<1> QED BY <1>2, <1>7 DEF V

\* A constant takes the place of a node among the fanins.
LEMMA OnesDroppedIn ==
  ASSUME NEW k \in Nat, NEW q \in Nat, NEW N \in Nat, k < N, NEW ntk \in Wired(k, q, N), NEW more,
         NEW id, NEW one
  PROVE  DropOnes(ntk, id, one) \in Variants(k, q, N, ntk, more)
<1> DEFINE V == Variants(k, q, N, ntk, more)
<1> DEFINE seq == FanoutSeq(ntk, id, FALSE)
           n == Len(seq)
           op(x, i) == LET idx == FindFanin(x, seq[i], id)
                       IN  IF Xor(one, IsCompl(x.fanin[seq[i]][idx])) THEN RemoveFanin(x, seq[i], idx) ELSE x
           Fold(f) == f = [s \in SUBSET (1..n) |-> IF s = {} THEN ntk ELSE op(f[s \ {Max(s)}], Max(s))]
           iter == CHOOSE f : Fold(f)
<1>1. n \in Nat /\ DOMAIN seq = 1..n /\ \A i \in 1..n : seq[i] \in (k + 1)..(N - 1)
  <2>1. ntk \in Nets(k, q, N)
    BY DEF Wired
  <2>2. seq \in Seq((k + 1)..(N - 1))
    BY <2>1, FanoutsAre
  <2> HIDE DEF seq
  <2> QED BY <2>2
<1>2. DropOnes(ntk, id, one) = iter[1..n]
  <2> HIDE DEF seq
  <2> QED BY <1>1 DEF DropOnes, FoldLeft, MapThenFoldSet, seq
<1>3. ASSUME NEW x \in V, NEW i \in 1..n PROVE op(x, i) \in V
  <2> DEFINE fo == seq[i]
             idx == FindFanin(x, fo, id)
  <2> HIDE DEF seq, n
  <2>1. fo \in (k + 1)..(N - 1) /\ fo \in 0..(N - 1)
    BY <1>1
  <2>2. x.fanin[fo] \in Seq(Edges(N))
    BY <2>1 DEF Variants, Wired, Nets
  <2>3. idx \in 0..Len(x.fanin[fo])
    BY <2>2, FaninFound
  <2> HIDE DEF fo, idx
  <2>4. RemoveFanin(x, fo, idx) \in V
    BY <2>1, <2>3, FaninRemoved
  <2>5. op(x, i) \in {RemoveFanin(x, fo, idx), x}
    BY Zenon DEF fo, idx
  <2> QED BY <2>4, <2>5
<1> HIDE DEF V, seq
<1> HIDE DEF n, op
<1>4. \E f : Fold(f)
  <2> DEFINE g == [p \in V \X (1..n) |-> op(p[1], p[2])]
  <2>1. \A x \in V, i \in 1..n : g[<<x, i>>] = op(x, i) /\ g[<<x, i>>] \in V
    BY <1>3
  <2> HIDE DEF g
  <2>2. ntk \in V
    BY VariantOfItself DEF V
  <2>3. PICK f : /\ f = [s \in SUBSET (1..n) |-> IF s = {} THEN ntk ELSE g[<<f[s \ {Max(s)}], Max(s)>>]]
                 /\ \A s \in SUBSET (1..n) : s # {} => f[s \ {Max(s)}] \in V /\ Max(s) \in 1..n
    BY <1>1, <2>1, <2>2, FoldExists
  <2>4. \A s \in SUBSET (1..n) : f[s] = IF s = {} THEN ntk ELSE op(f[s \ {Max(s)}], Max(s))
    BY <2>1, <2>3
  <2>5. Fold(f)
    BY <2>3, <2>4
  <2> HIDE DEF Fold
  <2> QED BY <2>5
<1>5. Fold(iter)
  <2> HIDE DEF Fold
  <2> QED BY <1>4
<1> HIDE DEF iter
<1>6. iter[{}] = ntk /\ \A m \in 1..n : iter[1..m] = op(iter[1..(m - 1)], m)
  <2>1. iter[{}] = ntk
    BY <1>5
  <2>2. ASSUME NEW m \in 1..n PROVE iter[1..m] = op(iter[1..(m - 1)], m)
    <3>1. /\ 1..m \in SUBSET (1..n) /\ 1..m # {} /\ Max(1..m) = m
          /\ (1..m) \ {m} = 1..(m - 1)
      BY <1>1, PrefixIs
    <3> QED BY <1>5, <3>1
  <2> QED BY <2>1, <2>2
<1> HIDE DEF Fold
<1>7. iter[1..n] \in V
  <2>1. iter[{}] \in V /\ \A m \in 1..n : iter[1..(m - 1)] \in V => iter[1..m] \in V
    BY <1>3, <1>6, VariantOfItself DEF V
  <2> QED BY <1>1, <2>1, FoldIn
<1> QED BY <1>2, <1>7 DEF V

\* All fanouts of a node get a constant for it: 0 is the only new fanin.
LEMMA ToConstIn ==
  ASSUME NEW k \in Nat, NEW q \in Nat, NEW N \in Nat, k < N, NEW ntk \in Wired(k, q, N), NEW more,
         NEW id, NEW one, \A fo \in (k + 1)..(N - 1) : 0 \in more[fo]
  PROVE  ToConst(ntk, id, one) \in Variants(k, q, N, ntk, more)
<1> DEFINE V == Variants(k, q, N, ntk, more)
           kept == DropOnes(ntk, id, one)
<1> DEFINE seq == FanoutSeq(kept, id, TRUE)
           n == Len(seq)
           op(x, i) == [x EXCEPT !.fanin[seq[i]][FindFanin(x, seq[i], id)] =
                          <<Const0, Xor(one, IsCompl(@))>>]
           Fold(f) == f = [s \in SUBSET (1..n) |-> IF s = {} THEN kept ELSE op(f[s \ {Max(s)}], Max(s))]
           iter == CHOOSE f : Fold(f)
<1>a. kept \in V /\ kept \in Nets(k, q, N)
  BY OnesDroppedIn DEF Variants, Wired
<1>1. n \in Nat /\ DOMAIN seq = 1..n /\ \A i \in 1..n : seq[i] \in (k + 1)..(N - 1)
  <2>1. seq \in Seq((k + 1)..(N - 1))
    BY <1>a, FanoutsAre
  <2> HIDE DEF seq
  <2> QED BY <2>1
<1>2. ToConst(ntk, id, one) = iter[1..n]
  <2> HIDE DEF seq, kept
  <2> QED BY <1>1 DEF ToConst, FoldLeft, MapThenFoldSet, seq, kept
<1>3. ASSUME NEW x \in V, NEW i \in 1..n PROVE op(x, i) \in V
  <2> HIDE DEF seq, n
  <2> DEFINE fo == seq[i]
             idx == FindFanin(x, fo, id)
             c == Xor(one, IsCompl(x.fanin[fo][idx]))
  <2>1. fo \in (k + 1)..(N - 1) /\ fo \in 0..(N - 1)
    BY <1>1
  <2>2. x \in Nets(k, q, N) /\ x.fanin[fo] \in Seq(Edges(N))
    BY <2>1 DEF Variants, Wired, Nets
  <2>3. idx \in 0..Len(x.fanin[fo]) /\ c \in BOOLEAN
    BY <2>2, FaninFound DEF Xor
  <2>4. 0 \in Alive(x) \cap more[fo]
    <3>1. x.fanin[0] = <<>> /\ 0 \in 0..(N - 1)
      BY DEF Variants, Wired
    <3> QED BY <2>1, <2>2, <3>1, AliveIs
  <2>5. op(x, i) = [x EXCEPT !.fanin[fo][idx] = <<0, c>>]
    BY DEF Const0
  <2> HIDE DEF fo, idx, c, op
  <2>6. [x EXCEPT !.fanin[fo][idx] = <<0, c>>] \in V
    BY <2>1, <2>3, <2>4, FaninReplaced
  <2> QED BY <2>5, <2>6
<1> HIDE DEF V, seq, kept
<1> HIDE DEF n, op
<1>4. \E f : Fold(f)
  <2> DEFINE g == [p \in V \X (1..n) |-> op(p[1], p[2])]
  <2>1. \A x \in V, i \in 1..n : g[<<x, i>>] = op(x, i) /\ g[<<x, i>>] \in V
    BY <1>3
  <2> HIDE DEF g
  <2>2. kept \in V
    BY <1>a
  <2>3. PICK f : /\ f = [s \in SUBSET (1..n) |-> IF s = {} THEN kept ELSE g[<<f[s \ {Max(s)}], Max(s)>>]]
                 /\ \A s \in SUBSET (1..n) : s # {} => f[s \ {Max(s)}] \in V /\ Max(s) \in 1..n
    BY <1>1, <2>1, <2>2, FoldExists
  <2>4. \A s \in SUBSET (1..n) : f[s] = IF s = {} THEN kept ELSE op(f[s \ {Max(s)}], Max(s))
    BY <2>1, <2>3
  <2>5. Fold(f)
    BY <2>3, <2>4
  <2> HIDE DEF Fold
  <2> QED BY <2>5
<1>5. Fold(iter)
  <2> HIDE DEF Fold
  <2> QED BY <1>4
<1> HIDE DEF iter
<1>6. iter[{}] = kept /\ \A m \in 1..n : iter[1..m] = op(iter[1..(m - 1)], m)
  <2>1. iter[{}] = kept
    BY <1>5
  <2>2. ASSUME NEW m \in 1..n PROVE iter[1..m] = op(iter[1..(m - 1)], m)
    <3>1. /\ 1..m \in SUBSET (1..n) /\ 1..m # {} /\ Max(1..m) = m
          /\ (1..m) \ {m} = 1..(m - 1)
      BY <1>1, PrefixIs
    <3> QED BY <1>5, <3>1
  <2> QED BY <2>1, <2>2
<1> HIDE DEF Fold
<1>7. iter[1..n] \in V
  <2>1. iter[{}] \in V /\ \A m \in 1..n : iter[1..(m - 1)] \in V => iter[1..m] \in V
    BY <1>3, <1>6, <1>a
  <2> QED BY <1>1, <2>1, FoldIn
<1> QED BY <1>2, <1>7 DEF V

\* A node is taken out of the list.
LEMMA NodeRemoved ==
  ASSUME NEW k \in Nat, NEW q \in Nat, NEW N \in Nat, k < N, NEW ntk \in Wired(k, q, N), NEW id
  PROVE  LET t == RemoveNode(ntk, id)
         IN  /\ t \in Wired(k, q, N) /\ t.pos = ntk.pos /\ Alive(ntk) \subseteq Alive(t)
             /\ ToSet(t.ints) = ToSet(ntk.ints) \ {id}
             /\ \A n : n # id => t.fanin[n] = ntk.fanin[n]
             /\ Ordered(ntk) => Ordered(t)
<1> DEFINE t == RemoveNode(ntk, id)
           ints == Only(ntk.ints, ToSet(ntk.ints) \ {id})
<1>1. ntk \in Nets(k, q, N) /\ ntk.ints \in Seq((k + 1)..(N - 1))
  BY DEF Wired, Nets
<1>2. /\ ints \in Seq((k + 1)..(N - 1)) /\ ToSet(ints) = ToSet(ntk.ints) \ {id}
      /\ \A x, y \in ToSet(ints) :
           IndexOf(ntk.ints, x) < IndexOf(ntk.ints, y) => IndexOf(ints, x) < IndexOf(ints, y)
  <2> DEFINE S == ToSet(ntk.ints) \ {id}
  <2> HIDE DEF S
  <2>1. /\ Only(ntk.ints, S) \in Seq((k + 1)..(N - 1))
        /\ ToSet(Only(ntk.ints, S)) = ToSet(ntk.ints) \cap S
        /\ \A x, y \in ToSet(Only(ntk.ints, S)) :
             IndexOf(ntk.ints, x) < IndexOf(ntk.ints, y)
               => IndexOf(Only(ntk.ints, S), x) < IndexOf(Only(ntk.ints, S), y)
    BY <1>1, OnlyKeeps
  <2> QED BY <2>1 DEF S
<1> HIDE DEF ints
<1>3. t = [ntk EXCEPT !.fanin[id] = <<>>, !.ints = ints]
  BY <1>1 DEF RemoveNode, ints, Nets
<1> HIDE DEF t
<1>4. t \in Nets(k, q, N) /\ t.pos = ntk.pos /\ t.ints = ints
  <2> DEFINE fanin == [ntk.fanin EXCEPT ![id] = <<>>]
  <2>1. fanin \in [0..(N - 1) -> Seq(Edges(N))]
    <3>1. <<>> \in Seq(Edges(N)) /\ ntk.fanin \in [0..(N - 1) -> Seq(Edges(N))]
      BY <1>1 DEF Nets
    <3> QED BY <3>1
  <2>2. t = [ntk EXCEPT !.fanin = fanin, !.ints = ints]
    BY <1>3
  <2> HIDE DEF fanin
  <2> QED BY <1>1, <1>2, <2>1, <2>2 DEF Nets
<1>5. \A n \in 0..(N - 1) : t.fanin[n] = IF n = id THEN <<>> ELSE ntk.fanin[n]
  BY <1>1, <1>3 DEF Nets
<1>6. \A n : n # id => t.fanin[n] = ntk.fanin[n]
  BY <1>1, <1>3 DEF Nets
<1>7. Alive(ntk) \subseteq Alive(t)
  BY <1>1, <1>2, <1>4, <1>5, AliveIs
<1>8. \A n \in 0..(N - 1) : Fanins(t, n) \subseteq Fanins(ntk, n)
  <2>1. ToSet(<<>>) = {}
    BY DEF ToSet
  <2> QED BY <1>5, <2>1 DEF Fanins
<1>9. t \in Wired(k, q, N)
  <2>1. \A n \in 0..k : t.fanin[n] = <<>>
    BY <1>5 DEF Wired
  <2>2. \A n \in 0..(N - 1) : Fanins(t, n) \subseteq Alive(t)
    BY <1>7, <1>8 DEF Wired
  <2> QED BY <1>4, <2>1, <2>2 DEF Wired
<1>10. Ordered(ntk) => Ordered(t)
  <2>1. ToSet(ints) \subseteq 0..(N - 1) /\ ToSet(ints) \subseteq ToSet(ntk.ints)
    BY <1>2, SeqIn
  <2> QED BY <1>2, <1>4, <1>8, <2>1 DEF Ordered
<1> QED BY <1>2, <1>4, <1>6, <1>7, <1>9, <1>10 DEF t

\* A variant is in order if the new fanins stand before.
LEMMA VariantOrdered ==
  ASSUME NEW k \in Nat, NEW q \in Nat, NEW N \in Nat, k < N, NEW ntk \in Sound(k, q, N), NEW more,
         NEW r \in Variants(k, q, N, ntk, more),
         \A n, m \in ToSet(ntk.ints) : m \in more[n] => IndexOf(ntk.ints, m) < IndexOf(ntk.ints, n)
  PROVE  r \in Sound(k, q, N)
<1>1. r \in Wired(k, q, N) /\ r.ints = ntk.ints /\ ntk \in Nets(k, q, N)
      /\ \A n \in 0..(N - 1) : Fanins(r, n) \subseteq Fanins(ntk, n) \cup more[n]
  BY DEF Variants, Sound, Wired
<1>2. ToSet(ntk.ints) \subseteq (k + 1)..(N - 1)
  BY <1>1, NetIds
<1>3. \A n \in ToSet(ntk.ints) : n \in 0..(N - 1)
  BY <1>2
<1>4. Ordered(ntk)
  BY DEF Sound
<1>5. Ordered(r)
  BY <1>1, <1>3, <1>4 DEF Ordered
<1> QED BY <1>1, <1>5 DEF Sound

\* And the network stays in order.
LEMMA ToConstSound ==
  ASSUME NEW k \in Nat, NEW q \in Nat, NEW N \in Nat, k < N, NEW ntk \in Sound(k, q, N), NEW id, NEW one
  PROVE  ToConst(ntk, id, one) \in Sound(k, q, N) /\ Alive(ntk) \subseteq Alive(ToConst(ntk, id, one))
<1> DEFINE more == [n \in 0..(N - 1) |-> {0}]
           r == ToConst(ntk, id, one)
<1>1. ntk \in Wired(k, q, N) /\ ntk \in Nets(k, q, N)
  BY DEF Sound, Wired
<1>2. \A n \in 0..(N - 1) : more[n] = {0}
  OBVIOUS
<1> HIDE DEF more
<1>3. \A fo \in (k + 1)..(N - 1) : 0 \in more[fo]
  BY <1>2
<1>4. r \in Variants(k, q, N, ntk, more)
  BY <1>1, <1>3, ToConstIn
<1> HIDE DEF r
<1>5. ToSet(ntk.ints) \subseteq (k + 1)..(N - 1)
  BY <1>1, NetIds
<1>6. \A n, m \in ToSet(ntk.ints) : m \in more[n] => IndexOf(ntk.ints, m) < IndexOf(ntk.ints, n)
  BY <1>2, <1>5
<1>7. r \in Sound(k, q, N)
  BY <1>4, <1>6, VariantOrdered
<1>8. Alive(ntk) \subseteq Alive(r)
  BY <1>4 DEF Variants
<1> QED BY <1>7, <1>8 DEF r

\* A node without edges to it, or that has lost them, is removed.
LEMMA RemovedSound ==
  ASSUME NEW k \in Nat, NEW q \in Nat, NEW N \in Nat, k < N, NEW ntk \in Sound(k, q, N), NEW id
  PROVE  RemoveNode(ntk, id) \in Sound(k, q, N) /\ Alive(ntk) \subseteq Alive(RemoveNode(ntk, id))
<1> DEFINE t == RemoveNode(ntk, id)
<1>1. ntk \in Wired(k, q, N) /\ Ordered(ntk)
  BY DEF Sound
<1>2. t \in Wired(k, q, N) /\ Alive(ntk) \subseteq Alive(t) /\ (Ordered(ntk) => Ordered(t))
  BY <1>1, NodeRemoved
<1> HIDE DEF t
<1>3. t \in Sound(k, q, N)
  BY <1>1, <1>2 DEF Sound
<1> QED BY <1>2, <1>3 DEF t

\* The nodes that get fi as a fanin are fanouts of id.
LEMMA SubstituteWhere ==
  ASSUME NEW k \in Nat, NEW q \in Nat, NEW N \in Nat, k < N, NEW ntk \in Wired(k, q, N),
         NEW id, NEW fi \in Alive(ntk), NEW c
  PROVE  Substitute(ntk, id, fi, c) \in
           Variants(k, q, N, ntk, [n \in 0..(N - 1) |-> IF id \in Fanins(ntk, n) THEN {0, fi} ELSE {}])
<1> DEFINE none == [n \in 0..(N - 1) |-> {}]
           more == [n \in 0..(N - 1) |-> IF id \in Fanins(ntk, n) THEN {0, fi} ELSE {}]
           dropped == DropRepeated(ntk, id, fi, c)
<1>1. dropped \in Variants(k, q, N, ntk, none)
  BY DroppedIn
<1>2. dropped \in Nets(k, q, N) /\ \A n \in 0..(N - 1) : Fanins(dropped, n) \subseteq Fanins(ntk, n)
  BY <1>1 DEF Variants, Wired
<1>3. \A fo \in ToSet(FanoutSeq(dropped, id, TRUE)) : fo \in 0..(N - 1) /\ id \in Fanins(ntk, fo)
  <2> HIDE DEF dropped
  <2>1. \A fo \in ToSet(FanoutSeq(dropped, id, TRUE)) : id \in Fanins(dropped, fo) /\ fo \in (k + 1)..(N - 1)
    BY <1>2, FanoutsAre
  <2> TAKE fo \in ToSet(FanoutSeq(dropped, id, TRUE))
  <2>2. id \in Fanins(dropped, fo) /\ fo \in (k + 1)..(N - 1)
    BY Zenon, <2>1
  <2>3. fo \in 0..(N - 1)
    BY <2>2
  <2> QED BY Zenon, <1>2, <2>2, <2>3
<1>4. \A fo \in ToSet(FanoutSeq(dropped, id, TRUE)) : {0, fi} \subseteq more[fo]
  BY <1>3
<1> HIDE DEF more
<1>5. Substitute(ntk, id, fi, c) \in Variants(k, q, N, ntk, more)
  BY <1>4, SubstitutedIn
<1> QED BY <1>5 DEF more

\* A buffer or a constant is removed.
LEMMA PropagatedSound ==
  ASSUME NEW k \in Nat, NEW q \in Nat, NEW N \in Nat, k < N, NEW ntk \in Sound(k, q, N), NEW id \in Alive(ntk)
  PROVE  /\ PropagateNode(ntk, id) \in Sound(k, q, N)
         /\ Alive(ntk) \subseteq Alive(PropagateNode(ntk, id))
<1> DEFINE edges == ntk.fanin[id]
           fi == Node(edges[1])
           c == IsCompl(edges[1])
           S == {r \in Sound(k, q, N) : Alive(ntk) \subseteq Alive(r)}
<1>1. ntk \in Wired(k, q, N) /\ ntk \in Nets(k, q, N) /\ Ordered(ntk)
  BY DEF Sound, Wired
<1>2. ntk \in S
  OBVIOUS
<1>3. \A one : RemoveNode(ToConst(ntk, id, one), id) \in S
  <2> TAKE one
  <2>1. ToConst(ntk, id, one) \in S
    BY ToConstSound
  <2> QED BY <2>1, RemovedSound
<1>4. ASSUME Len(edges) = 1 PROVE RemoveNode(Substitute(ntk, id, fi, c), id) \in S
  <2> DEFINE more == [n \in 0..(N - 1) |-> IF id \in Fanins(ntk, n) THEN {0, fi} ELSE {}]
             r == Substitute(ntk, id, fi, c)
  <2>1. id \in 0..(N - 1) /\ edges \in Seq(Edges(N)) /\ (edges = <<>> \/ id \in ToSet(ntk.ints))
    BY <1>1, AliveIs DEF Nets
  <2>2. id \in ToSet(ntk.ints) /\ fi \in Fanins(ntk, id)
    <3>1. edges # <<>> /\ edges[1] \in ToSet(edges)
      BY <1>4, <2>1, SeqIn
    <3> QED BY <2>1, <3>1 DEF Fanins
  <2>3. fi \in Alive(ntk)
    BY <2>1, <2>2, <1>1 DEF Wired
  <2>4. \A n \in 0..(N - 1) : more[n] = IF id \in Fanins(ntk, n) THEN {0, fi} ELSE {}
    OBVIOUS
  <2>5. r \in Variants(k, q, N, ntk, more)
    <3> HIDE DEF fi, c
    <3> QED BY <1>1, <2>3, SubstituteWhere
  <2> HIDE DEF more, r, fi
  <2>6. ToSet(ntk.ints) \subseteq (k + 1)..(N - 1)
    BY <1>1, NetIds
  <2>7. \A n, m \in ToSet(ntk.ints) : m \in more[n] => IndexOf(ntk.ints, m) < IndexOf(ntk.ints, n)
    <3> SUFFICES ASSUME NEW n \in ToSet(ntk.ints), NEW m \in ToSet(ntk.ints), m \in more[n]
                 PROVE  IndexOf(ntk.ints, m) < IndexOf(ntk.ints, n)
      OBVIOUS
    <3>1. n \in 0..(N - 1) /\ m # 0
      BY <2>6
    <3>2. m = fi /\ id \in Fanins(ntk, n)
      BY <2>4, <3>1
    <3>3. IndexOf(ntk.ints, fi) < IndexOf(ntk.ints, id) /\ IndexOf(ntk.ints, id) < IndexOf(ntk.ints, n)
      BY <1>1, <2>2, <3>2 DEF Ordered
    <3>4. ntk.ints \in Seq((k + 1)..(N - 1))
      BY <1>1 DEF Nets
    <3>5. /\ IndexOf(ntk.ints, fi) \in Nat /\ IndexOf(ntk.ints, id) \in Nat
          /\ IndexOf(ntk.ints, n) \in Nat
      BY <3>4, IndexIs
    <3> QED BY <3>2, <3>3, <3>5
  <2>8. r \in Sound(k, q, N)
    BY <2>5, <2>7, VariantOrdered
  <2>9. r \in S
    BY <2>5, <2>8 DEF Variants
  <2>10. RemoveNode(r, id) \in S
    BY <2>9, RemovedSound
  <2> QED BY <2>10 DEF r, fi
<1>5. PropagateNode(ntk, id) \in S
  <2> HIDE DEF S
  <2> QED BY <1>2, <1>3, <1>4 DEF PropagateNode
<1> QED BY <1>5

\* Buffers and constants are removed one after another, whichever are marked.
LEMMA AllPropagatedSound ==
  ASSUME NEW k \in Nat, NEW q \in Nat, NEW N \in Nat, k < N, NEW ntk \in Sound(k, q, N),
         NEW marked \in SUBSET Nat
  PROVE  Propagate(ntk, marked) \in Sound(k, q, N)
<1> DEFINE A == {r \in Sound(k, q, N) : ToSet(ntk.ints) \subseteq Alive(r)}
           S == [ntk : A, marked : SUBSET Nat]
           start == [ntk |-> ntk, marked |-> marked]
<1> DEFINE seq == ntk.ints
           n == Len(seq)
           op(x, i) == IF seq[i] \in x.marked THEN MarkMore(x, PropagateNode(x.ntk, seq[i])) ELSE x
           Fold(f) == f = [s \in SUBSET (1..n) |-> IF s = {} THEN start ELSE op(f[s \ {Max(s)}], Max(s))]
           iter == CHOOSE f : Fold(f)
<1>1. n \in Nat /\ DOMAIN seq = 1..n /\ \A i \in 1..n : seq[i] \in ToSet(ntk.ints)
  <2>1. seq \in Seq((k + 1)..(N - 1))
    BY DEF Sound, Wired, Nets
  <2> QED BY <2>1, SeqIn
<1>2. Propagate(ntk, marked) = iter[1..n].ntk
  <2> HIDE DEF seq, start
  <2> QED BY <1>1 DEF Propagate, FoldLeft, MapThenFoldSet, seq, start
<1>3. ASSUME NEW x \in S, NEW i \in 1..n PROVE op(x, i) \in S
  <2> DEFINE after == PropagateNode(x.ntk, seq[i])
             more == {fo \in ToSet(after.ints) : Degenerates(x.ntk, after, fo)}
  <2> HIDE DEF seq, n
  <2>1. x.ntk \in Sound(k, q, N) /\ seq[i] \in Alive(x.ntk) /\ x.marked \in SUBSET Nat
    BY <1>1
  <2>2. after \in Sound(k, q, N) /\ Alive(x.ntk) \subseteq Alive(after)
    BY <2>1, PropagatedSound
  <2> HIDE DEF after
  <2>3. after \in A
    BY <2>2
  <2>4. ToSet(after.ints) \subseteq Nat
    <3>1. after \in Nets(k, q, N)
      BY <2>2 DEF Sound, Wired
    <3>2. ToSet(after.ints) \subseteq (k + 1)..(N - 1)
      BY <3>1, NetIds
    <3> QED BY <3>2
  <2>5. x.marked \cup more \in SUBSET Nat
    BY <2>1, <2>4
  <2> HIDE DEF A, more
  <2>6. MarkMore(x, after) \in S
    BY <2>3, <2>5 DEF MarkMore, more
  <2> QED BY <2>6 DEF after
<1>a. start \in S
  <2>1. ntk \in Nets(k, q, N)
    BY DEF Sound, Wired
  <2>2. ToSet(ntk.ints) \subseteq (k + 1)..(N - 1)
    BY <2>1, NetIds
  <2>3. ntk \in A
    BY <2>1, <2>2, AliveIs
  <2> HIDE DEF A
  <2> QED BY <2>3
<1>b. \A x \in S : x.ntk \in Sound(k, q, N)
  OBVIOUS
<1> HIDE DEF A, start
<1> HIDE DEF S, seq
<1> HIDE DEF n, op
<1>4. \E f : Fold(f)
  <2> DEFINE g == [p \in S \X (1..n) |-> op(p[1], p[2])]
  <2>1. \A x \in S, i \in 1..n : g[<<x, i>>] = op(x, i) /\ g[<<x, i>>] \in S
    BY <1>3
  <2> HIDE DEF g
  <2>2. start \in S
    BY <1>a
  <2>3. PICK f : /\ f = [s \in SUBSET (1..n) |-> IF s = {} THEN start ELSE g[<<f[s \ {Max(s)}], Max(s)>>]]
                 /\ \A s \in SUBSET (1..n) : s # {} => f[s \ {Max(s)}] \in S /\ Max(s) \in 1..n
    BY <1>1, <2>1, <2>2, FoldExists
  <2>4. \A s \in SUBSET (1..n) : f[s] = IF s = {} THEN start ELSE op(f[s \ {Max(s)}], Max(s))
    BY <2>1, <2>3
  <2>5. Fold(f)
    BY <2>3, <2>4
  <2> HIDE DEF Fold
  <2> QED BY <2>5
<1>5. Fold(iter)
  <2> HIDE DEF Fold
  <2> QED BY <1>4
<1> HIDE DEF iter
<1>6. iter[{}] = start /\ \A m \in 1..n : iter[1..m] = op(iter[1..(m - 1)], m)
  <2>1. iter[{}] = start
    BY <1>5
  <2>2. ASSUME NEW m \in 1..n PROVE iter[1..m] = op(iter[1..(m - 1)], m)
    <3>1. /\ 1..m \in SUBSET (1..n) /\ 1..m # {} /\ Max(1..m) = m
          /\ (1..m) \ {m} = 1..(m - 1)
      BY <1>1, PrefixIs
    <3> QED BY <1>5, <3>1
  <2> QED BY <2>1, <2>2
<1> HIDE DEF Fold
<1>7. iter[1..n] \in S
  <2>1. iter[{}] \in S /\ \A m \in 1..n : iter[1..(m - 1)] \in S => iter[1..m] \in S
    BY <1>3, <1>6, <1>a
  <2> QED BY <1>1, <2>1, FoldIn
<1> QED BY <1>2, <1>7, <1>b

\* Cleaning up leaves a network in order.
LEMMA SweptSound ==
  ASSUME NEW k \in Nat, NEW q \in Nat, NEW N \in Nat, k < N, NEW ntk \in Sound(k, q, N)
  PROVE  Sweep(ntk) \in Sound(k, q, N)
<1> DEFINE S == Sound(k, q, N)
           base == Propagate(ntk, Degenerate(ntk))
<1> DEFINE seq == Reverse(ntk.ints)
           n == Len(seq)
           op(x, i) == IF Refs(x, seq[i]) = 0 THEN RemoveNode(x, seq[i]) ELSE x
           Fold(f) == f = [s \in SUBSET (1..n) |-> IF s = {} THEN base ELSE op(f[s \ {Max(s)}], Max(s))]
           iter == CHOOSE f : Fold(f)
<1>1. n \in Nat /\ DOMAIN seq = 1..n
  <2>1. ntk.ints \in Seq((k + 1)..(N - 1))
    BY DEF Sound, Wired, Nets
  <2>2. Reverse(ntk.ints) \in Seq((k + 1)..(N - 1))
    <3> DEFINE s == ntk.ints
               X == (k + 1)..(N - 1)
    <3>1. s \in Seq(X) /\ Len(s) \in Nat
      BY <2>1
    <3> HIDE DEF s, X
    <3>2. \A i \in 1..Len(s) : Len(s) - i + 1 \in 1..Len(s)
      BY <3>1
    <3>3. \A i \in 1..Len(s) : s[i] \in X
      BY <3>1
    <3>4. Reverse(s) \in [1..Len(s) -> X]
      BY <3>2, <3>3 DEF Reverse
    <3>5. Reverse(s) \in Seq(X)
      BY <3>1, <3>4, SeqDef
    <3> QED BY <3>5 DEF s, X
  <2> QED BY <2>2
<1>2. Sweep(ntk) = iter[1..n]
  <2> HIDE DEF seq, base
  <2> QED BY <1>1 DEF Sweep, FoldLeft, MapThenFoldSet, seq, base
<1>3. ASSUME NEW x \in S, NEW i \in 1..n PROVE op(x, i) \in S
  <2> HIDE DEF seq, n
  <2>1. RemoveNode(x, seq[i]) \in S
    BY RemovedSound
  <2> QED BY <2>1
<1>a. base \in S
  <2>1. ntk \in Nets(k, q, N)
    BY DEF Sound, Wired
  <2>2. ToSet(ntk.ints) \subseteq (k + 1)..(N - 1)
    BY <2>1, NetIds
  <2>3. Degenerate(ntk) \in SUBSET Nat
    BY <2>2 DEF Degenerate
  <2> QED BY <2>3, AllPropagatedSound
<1> HIDE DEF S, seq, base
<1> HIDE DEF n, op
<1>4. \E f : Fold(f)
  <2> DEFINE g == [p \in S \X (1..n) |-> op(p[1], p[2])]
  <2>1. \A x \in S, i \in 1..n : g[<<x, i>>] = op(x, i) /\ g[<<x, i>>] \in S
    BY <1>3
  <2> HIDE DEF g
  <2>2. base \in S
    BY <1>a
  <2>3. PICK f : /\ f = [s \in SUBSET (1..n) |-> IF s = {} THEN base ELSE g[<<f[s \ {Max(s)}], Max(s)>>]]
                 /\ \A s \in SUBSET (1..n) : s # {} => f[s \ {Max(s)}] \in S /\ Max(s) \in 1..n
    BY <1>1, <2>1, <2>2, FoldExists
  <2>4. \A s \in SUBSET (1..n) : f[s] = IF s = {} THEN base ELSE op(f[s \ {Max(s)}], Max(s))
    BY <2>1, <2>3
  <2>5. Fold(f)
    BY <2>3, <2>4
  <2> HIDE DEF Fold
  <2> QED BY <2>5
<1>5. Fold(iter)
  <2> HIDE DEF Fold
  <2> QED BY <1>4
<1> HIDE DEF iter
<1>6. iter[{}] = base /\ \A m \in 1..n : iter[1..m] = op(iter[1..(m - 1)], m)
  <2>1. iter[{}] = base
    BY <1>5
  <2>2. ASSUME NEW m \in 1..n PROVE iter[1..m] = op(iter[1..(m - 1)], m)
    <3>1. /\ 1..m \in SUBSET (1..n) /\ 1..m # {} /\ Max(1..m) = m
          /\ (1..m) \ {m} = 1..(m - 1)
      BY <1>1, PrefixIs
    <3> QED BY <1>5, <3>1
  <2> QED BY <2>1, <2>2
<1> HIDE DEF Fold
<1>7. iter[1..n] \in S
  <2>1. iter[{}] \in S /\ \A m \in 1..n : iter[1..(m - 1)] \in S => iter[1..m] \in S
    BY <1>3, <1>6, <1>a
  <2> QED BY <1>1, <2>1, FoldIn
<1> QED BY <1>2, <1>7 DEF S

-----------------------------------------------------------------------------
(* Nodes moved in the list.                                                *)

\* m is put in front of n, and what stood between moves by one.
LEMMA InFrontIs ==
  ASSUME NEW X, NEW list \in Seq(X), NEW n, NEW m, Behind(list, n, m)
  PROVE  /\ InFront(list, n, m) \in Seq(X) /\ ToSet(InFront(list, n, m)) = ToSet(list)
         /\ IndexOf(InFront(list, n, m), m) = IndexOf(list, n)
         /\ \A x \in ToSet(list) : x # m =>
              IndexOf(InFront(list, n, m), x) =
                IF IndexOf(list, n) <= IndexOf(list, x) /\ IndexOf(list, x) < IndexOf(list, m)
                THEN IndexOf(list, x) + 1 ELSE IndexOf(list, x)
<1> DEFINE to == IndexOf(list, n)
           from == IndexOf(list, m)
           new == InFront(list, n, m)
           len == Len(list)
<1>1. /\ to \in 1..len /\ from \in 1..len /\ to < from /\ len \in Nat
      /\ list[to] = n /\ list[from] = m
  <2>1. 0 < to /\ to < from
    BY DEF Behind
  <2>2. to \in 0..len /\ from \in 0..len /\ len \in Nat
    BY IndexIs
  <2>3. (to > 0 => list[to] = n) /\ (from > 0 => list[from] = m)
    BY IndexIs
  <2> HIDE DEF to, from, len
  <2> QED BY <2>1, <2>2, <2>3
<1>2. new = [i \in 1..len |-> IF i = to THEN m
                               ELSE IF to < i /\ i <= from THEN list[i - 1] ELSE list[i]]
  BY DEF InFront
<1>3. \A i \in 1..len : list[i] \in X
  OBVIOUS
<1>4. \A x \in ToSet(list) : /\ IndexOf(list, x) \in 1..len /\ list[IndexOf(list, x)] = x
                             /\ \A j \in 1..len : list[j] = x => IndexOf(list, x) <= j
  <2> TAKE x \in ToSet(list)
  <2>1. /\ IndexOf(list, x) \in 0..len /\ IndexOf(list, x) > 0
        /\ (IndexOf(list, x) > 0 => list[IndexOf(list, x)] = x)
        /\ \A i \in 1..len : list[i] = x => IndexOf(list, x) \in 1..i
    BY IndexIs
  <2> QED BY <2>1
<1>5. ToSet(list) = {list[i] : i \in 1..len}
  BY SeqIn
<1> HIDE DEF to, from, new, len
<1>6. \A i \in 1..len : new[i] = IF i = to THEN m ELSE IF to < i /\ i <= from THEN list[i - 1] ELSE list[i]
  BY <1>2
<1>7. new \in Seq(X) /\ Len(new) = len
  <2>1. \A i \in 1..len : new[i] \in X
    <3> TAKE i \in 1..len
    <3>1. to < i => i - 1 \in 1..len
      BY <1>1
    <3> QED BY <1>1, <1>3, <1>6, <3>1
  <2>2. new \in [1..len -> X]
    BY <1>2, <1>6, <2>1
  <2> QED BY <1>1, <2>2
<1>8. IndexOf(new, m) = to
  <2>1. to \in 1..Len(new) /\ new[to] = m
    BY <1>1, <1>6, <1>7
  <2>2. \A j \in 1..(to - 1) : new[j] # m
    <3> TAKE j \in 1..(to - 1)
    <3>1. j \in 1..len /\ new[j] = list[j]
      BY <1>1, <1>6
    <3>2. m \in ToSet(list)
      BY <1>1, <1>5
    <3>3. list[j] = m => from <= j
      BY <1>4, <3>1, <3>2 DEF from
    <3> QED BY <1>1, <3>1, <3>3
  <2> QED BY <1>7, <2>1, <2>2, IndexFirst
<1>9. ASSUME NEW x \in ToSet(list), x # m
      PROVE  IndexOf(new, x) = IF to <= IndexOf(list, x) /\ IndexOf(list, x) < from
                               THEN IndexOf(list, x) + 1 ELSE IndexOf(list, x)
  <2> DEFINE i == IndexOf(list, x)
             l == IF to <= i /\ i < from THEN i + 1 ELSE i
  <2>1. i \in 1..len /\ list[i] = x /\ i # from /\ \A j \in 1..len : j < i => list[j] # x
    <3>1. i \in 1..len /\ list[i] = x
      BY <1>4
    <3>2. \A j \in 1..len : list[j] = x => i <= j
      BY <1>4
    <3> HIDE DEF i
    <3> QED BY <1>1, <1>9, <3>1, <3>2
  <2> HIDE DEF i
  <2>2. l \in 1..len /\ new[l] = x
    BY <1>1, <1>6, <2>1
  <2>3. ASSUME NEW j \in 1..(l - 1) PROVE new[j] # x
    <3>1. j \in 1..len
      BY <1>1, <2>1, <2>2
    <3>2. CASE j = to
      BY <1>6, <1>9, <3>1, <3>2
    <3>3. CASE to < j /\ j <= from
      <4>1. new[j] = list[j - 1] /\ j - 1 \in 1..len /\ j - 1 < i
        BY <1>1, <1>6, <2>1, <3>1, <3>3
      <4> QED BY <2>1, <4>1
    <3>4. CASE j # to /\ ~(to < j /\ j <= from)
      <4>1. new[j] = list[j] /\ j < i
        BY <1>1, <1>6, <2>1, <3>1, <3>4
      <4> QED BY <2>1, <3>1, <4>1
    <3> QED BY <3>2, <3>3, <3>4
  <2>4. IndexOf(new, x) = l
    <3> HIDE DEF l
    <3>1. l \in 1..Len(new) /\ \A j \in 1..(l - 1) : new[j] # new[l]
      BY <1>7, <2>2, <2>3
    <3>2. IndexOf(new, new[l]) = l
      BY <1>7, <3>1, IndexFirst
    <3> QED BY <2>2, <3>2
  <2> QED BY <2>4 DEF i
<1>10. ToSet(new) = ToSet(list)
  <2>1. ToSet(new) = {new[i] : i \in 1..len}
    BY <1>7, SeqIn
  <2>2. ASSUME NEW i \in 1..len PROVE new[i] \in ToSet(list)
    <3>1. to < i => i - 1 \in 1..len
      BY <1>1
    <3> QED BY <1>1, <1>5, <1>6, <3>1
  <2>3. ASSUME NEW x \in ToSet(list) PROVE x \in ToSet(new)
    <3>1. IndexOf(new, x) > 0
      <4>1. IndexOf(list, x) \in 1..len
        BY <1>4
      <4> QED BY <1>1, <1>8, <1>9, <4>1
    <3> QED BY <1>7, <3>1, IndexIs
  <2> QED BY <2>1, <2>2, <2>3
<1> QED BY <1>7, <1>8, <1>9, <1>10 DEF to, from, new

\* What is in order stays in order, unless the second is the one moved.
LEMMA InFrontOrder ==
  ASSUME NEW X, NEW list \in Seq(X), NEW n, NEW m, Behind(list, n, m)
  PROVE  /\ \A a, b \in ToSet(list) :
              a # m /\ IndexOf(list, b) < IndexOf(list, a)
                => IndexOf(InFront(list, n, m), b) < IndexOf(InFront(list, n, m), a)
         /\ \A a \in ToSet(list) : a # m /\ IndexOf(list, n) <= IndexOf(list, a)
                => IndexOf(InFront(list, n, m), m) < IndexOf(InFront(list, n, m), a)
<1> DEFINE to == IndexOf(list, n)
           from == IndexOf(list, m)
           Old(x) == IndexOf(list, x)
           New(x) == IndexOf(InFront(list, n, m), x)
<1>1. 0 < to /\ to < from /\ to \in Nat /\ from \in Nat
  <2>1. to \in 0..Len(list) /\ from \in 0..Len(list)
    BY IndexIs
  <2> QED BY <2>1 DEF Behind
<1>2. New(m) = to /\ \A x \in ToSet(list) : x # m =>
              New(x) = IF to <= Old(x) /\ Old(x) < from THEN Old(x) + 1 ELSE Old(x)
  BY InFrontIs
<1>3. \A x \in ToSet(list) : Old(x) \in Nat /\ (x # m => Old(x) # from)
  <2> TAKE x \in ToSet(list)
  <2>1. Old(x) \in 0..Len(list) /\ (x # m => Old(x) # from)
    BY IndexIs, IndexApart
  <2> QED BY <2>1
<1>4. Old(m) = from
  OBVIOUS
<1> HIDE DEF to, from, Old, New
<1>5. ASSUME NEW a \in ToSet(list), NEW b \in ToSet(list), a # m, Old(b) < Old(a)
      PROVE  New(b) < New(a)
  <2>1. CASE b = m
    BY <1>1, <1>2, <1>3, <1>4, <1>5, <2>1
  <2>2. CASE b # m
    BY <1>1, <1>2, <1>3, <1>5, <2>2
  <2> QED BY <2>1, <2>2
<1>6. ASSUME NEW a \in ToSet(list), a # m, to <= Old(a)
      PROVE  New(m) < New(a)
  BY <1>1, <1>2, <1>3, <1>6
<1> QED BY <1>5, <1>6 DEF to, from, Old, New

-----------------------------------------------------------------------------
(* SortInts.                                                               *)

\* The calls of the sort that have not returned.
SortCalls(N) == (0..(N - 1)) \X Seq(Edges(N))

\* A call that has not returned has still to look at an edge from a to b.
Pending(open, a, b) == \E i \in 1..Len(open) : open[i][1] = a /\ b \in Targets(open[i][2])

\* A fanin that does not stand before its fanout will be looked at.
InOrderOrPending(ntk, list, open) ==
  \A a, b \in ToSet(ntk.ints) : b \in Fanins(ntk, a)
    => IndexOf(list, b) < IndexOf(list, a) \/ Pending(open, a, b)

\* The states of the sort of a list; ord says that only the fanin to be moved
\* was out of order.
Sorting(X, N, ntk, ord) ==
  {r \in [list : Seq(X), open : Seq(SortCalls(N))] :
     ToSet(r.list) = ToSet(ntk.ints) /\ (ord => InOrderOrPending(ntk, r.list, r.open))}

\* The parts of a state of the sort.
LEMMA SortingIs ==
  ASSUME NEW X, NEW N, NEW ntk, NEW ord, NEW r \in Sorting(X, N, ntk, ord)
  PROVE  /\ r = [list |-> r.list, open |-> r.open] /\ r.list \in Seq(X) /\ r.open \in Seq(SortCalls(N))
         /\ ToSet(r.list) = ToSet(ntk.ints) /\ (ord => InOrderOrPending(ntk, r.list, r.open))
BY DEF Sorting

\* A state of the sort is one with such parts.
LEMMA SortingIn ==
  ASSUME NEW X, NEW N, NEW ntk, NEW ord, NEW list \in Seq(X), NEW open \in Seq(SortCalls(N)),
         ToSet(list) = ToSet(ntk.ints), ord => InOrderOrPending(ntk, list, open)
  PROVE  [list |-> list, open |-> open] \in Sorting(X, N, ntk, ord)
BY DEF Sorting

\* The parts of a call.
LEMMA SortCallsAre ==
  ASSUME NEW N, NEW p \in SortCalls(N)
  PROVE  p = <<p[1], p[2]>> /\ p[1] \in 0..(N - 1) /\ p[2] \in Seq(Edges(N))
BY DEF SortCalls

\* The edges behind the first.
LEMMA TargetsSplit ==
  ASSUME NEW N \in Nat, NEW es \in Seq(Edges(N)), es # <<>>
  PROVE  /\ Tail(es) \in Seq(Edges(N)) /\ Head(es) \in Edges(N)
         /\ Targets(es) \subseteq Targets(Tail(es)) \cup {Node(Head(es))}
<1>1. /\ Tail(es) \in Seq(Edges(N)) /\ Head(es) \in Edges(N) /\ Len(Tail(es)) = Len(es) - 1
      /\ Len(es) \in Nat /\ Head(es) = es[1]
      /\ \A i \in 1..Len(es) : i # 1 => i - 1 \in 1..(Len(es) - 1) /\ es[i] = Tail(es)[i - 1]
  OBVIOUS
<1>2. ToSet(es) = {es[i] : i \in 1..Len(es)}
  BY SeqIn
<1> DEFINE t == Tail(es)
           h == Head(es)
<1>3. t \in Seq(Edges(N))
  BY <1>1
<1> HIDE DEF t, h
<1>4. ToSet(t) = {t[i] : i \in 1..Len(t)}
  BY <1>3, SeqIn
<1>5. ToSet(es) \subseteq ToSet(t) \cup {h}
  <2> SUFFICES ASSUME NEW i \in 1..Len(es) PROVE es[i] \in ToSet(t) \cup {h}
    BY <1>2
  <2>1. CASE i = 1
    BY <1>1, <2>1 DEF h
  <2>2. CASE i # 1
    <3>1. i - 1 \in 1..Len(t) /\ es[i] = t[i - 1]
      BY <1>1, <2>2 DEF t
    <3> QED BY <1>4, <3>1
  <2> QED BY <2>1, <2>2
<1>6. Targets(es) \subseteq Targets(t) \cup {Node(h)}
  BY <1>5 DEF Targets
<1> QED BY <1>1, <1>6 DEF t, h

\* No edge points at nothing.
LEMMA NoTargets == Targets(<<>>) = {}
BY DEF Targets, ToSet

\* The first open call makes progress, the others stay.
LEMMA PendingAfter ==
  ASSUME NEW A, NEW open \in Seq(A), NEW first \in Seq(A), NEW a, NEW b, open # <<>>,
         Pending(open, a, b), ~(a = open[1][1] /\ b \in Targets(open[1][2]))
  PROVE  Pending(first \o Tail(open), a, b)
<1>1. PICK i \in 1..Len(open) : open[i][1] = a /\ b \in Targets(open[i][2])
  BY DEF Pending
<1>2. i # 1
  BY <1>1
<1> DEFINE new == first \o Tail(open)
           j == Len(first) + i - 1
<1>3. j \in 1..Len(new) /\ new[j] = open[i]
  BY <1>1, <1>2
<1> HIDE DEF new, j
<1>4. Pending(new, a, b)
  BY <1>1, <1>3 DEF Pending
<1> QED BY <1>4 DEF new

\* What is pending in the calls put in front is pending.
LEMMA PendingFirst ==
  ASSUME NEW A, NEW open \in Seq(A), NEW first \in Seq(A),
         NEW i \in 1..Len(first), NEW a, NEW b, first[i][1] = a, b \in Targets(first[i][2])
  PROVE  Pending(first \o open, a, b)
<1> DEFINE new == first \o open
<1>1. i \in 1..Len(new) /\ new[i] = first[i]
  OBVIOUS
<1> HIDE DEF new
<1>2. Pending(new, a, b)
  BY <1>1 DEF Pending
<1> QED BY <1>2 DEF new

\* What is pending in the calls behind stays pending.
LEMMA PendingLater ==
  ASSUME NEW A, NEW open \in Seq(A), NEW first \in Seq(A), NEW a, NEW b, Pending(open, a, b)
  PROVE  Pending(first \o open, a, b)
<1>1. PICK i \in 1..Len(open) : open[i][1] = a /\ b \in Targets(open[i][2])
  BY DEF Pending
<1> DEFINE new == first \o open
           j == Len(first) + i
<1>2. j \in 1..Len(new) /\ new[j] = open[i]
  OBVIOUS
<1> HIDE DEF new, j
<1>3. Pending(new, a, b)
  BY <1>1, <1>2 DEF Pending
<1> QED BY <1>3 DEF new

\* A step of the sort keeps what it has put in order.
LEMMA SortStepIn ==
  ASSUME NEW k \in Nat, NEW q \in Nat, NEW N \in Nat, k < N, NEW ntk \in Nets(k, q, N), NEW X,
         X = (k + 1)..(N - 1), NEW ord, NEW r \in Sorting(X, N, ntk, ord)
  PROVE  SortStep(ntk.fanin, r) \in Sorting(X, N, ntk, ord)
<1> DEFINE A == SortCalls(N)
           list == r.list
           open == r.open
           n == open[1][1]
           edges == open[1][2]
           m == Node(Head(edges))
           ints == ToSet(ntk.ints)
<1>1. /\ r = [list |-> list, open |-> open] /\ list \in Seq(X) /\ open \in Seq(A)
      /\ ToSet(list) = ints /\ (ord => InOrderOrPending(ntk, list, open))
  BY SortingIs
<1>2. SortStep(ntk.fanin, r) =
        IF open = <<>> THEN r
        ELSE IF edges = <<>> THEN [list |-> list, open |-> Tail(open)]
        ELSE IF m = n THEN r
        ELSE IF Behind(list, n, m)
        THEN [list |-> InFront(list, n, m),
              open |-> <<<<m, ntk.fanin[m]>>>> \o (<<<<n, Tail(edges)>>>> \o Tail(open))]
        ELSE [list |-> list, open |-> <<<<n, Tail(edges)>>>> \o Tail(open)]
  <2>1. \A o : [r EXCEPT !.open = o] = [list |-> list, open |-> o]
    BY <1>1
  <2> DEFINE rest == <<<<n, Tail(edges)>>>> \o Tail(open)
  <2>2. SortStep(ntk.fanin, r) =
          IF open = <<>> THEN r
          ELSE IF edges = <<>> THEN [r EXCEPT !.open = Tail(@)]
          ELSE IF m = n THEN r
          ELSE IF Behind(list, n, m)
          THEN [list |-> InFront(list, n, m), open |-> <<<<m, ntk.fanin[m]>>>> \o rest]
          ELSE [r EXCEPT !.open = rest]
    BY Zenon DEF SortStep
  <2>3. [r EXCEPT !.open = Tail(@)] = [list |-> list, open |-> Tail(open)]
    BY <2>1
  <2>4. [r EXCEPT !.open = rest] = [list |-> list, open |-> rest]
    BY <2>1
  <2> QED BY Zenon, <2>2, <2>3, <2>4
<1> HIDE DEF list, open
<1>3. CASE open = <<>>
  BY <1>2, <1>3
<1>4. CASE open # <<>> /\ edges # <<>> /\ m = n
  BY <1>2, <1>4
<1> SUFFICES ASSUME open # <<>> PROVE SortStep(ntk.fanin, r) \in Sorting(X, N, ntk, ord)
  BY <1>3
<1> DEFINE tail == Tail(open)
           call == open[1]
<1>5. tail \in Seq(A) /\ call \in A
  BY <1>1
<1>6. n \in 0..(N - 1) /\ edges \in Seq(Edges(N))
  BY <1>5, SortCallsAre
<1>7. CASE edges = <<>>
  <2>1. SortStep(ntk.fanin, r) = [list |-> list, open |-> tail]
    BY <1>2, <1>7
  <2>2. ASSUME NEW a \in ints, NEW b \in ints, Pending(open, a, b) PROVE Pending(tail, a, b)
    <3>1. b \notin Targets(edges) /\ <<>> \in Seq(A)
      BY <1>7, NoTargets
    <3> HIDE DEF A, n, edges, m
    <3>2. Pending(<<>> \o Tail(open), a, b)
      BY <1>1, <2>2, <3>1, PendingAfter DEF edges
    <3>3. <<>> \o Tail(open) = tail
      BY <1>5
    <3> QED BY <3>2, <3>3
  <2>3. ord => InOrderOrPending(ntk, list, tail)
    <3> HIDE DEF tail
    <3> QED BY <1>1, <2>2 DEF InOrderOrPending
  <2> HIDE DEF tail, A
  <2>4. [list |-> list, open |-> tail] \in Sorting(X, N, ntk, ord)
    BY <1>1, <1>5, <2>3, SortingIn DEF A
  <2> QED BY <2>1, <2>4
<1> SUFFICES ASSUME edges # <<>>, m # n PROVE SortStep(ntk.fanin, r) \in Sorting(X, N, ntk, ord)
  BY <1>4, <1>7
<1> DEFINE left == <<n, Tail(edges)>>
           rest == <<left>> \o tail
<1>8. /\ Tail(edges) \in Seq(Edges(N)) /\ Head(edges) \in Edges(N)
      /\ Targets(edges) \subseteq Targets(Tail(edges)) \cup {m}
  BY <1>6, TargetsSplit
<1>9. left \in A /\ rest \in Seq(A)
  <2>1. left \in A
    BY <1>6, <1>8 DEF SortCalls
  <2> HIDE DEF left, A
  <2> QED BY <1>5, <2>1
<1>10. m \in 0..(N - 1)
  BY <1>8 DEF Edges, Node
<1>11. ASSUME NEW a, NEW b, Pending(open, a, b), ~(a = n /\ b = m)
       PROVE  Pending(rest, a, b)
  <2>1. <<left>> \in Seq(A)
    BY <1>9
  <2>2. CASE a = n /\ b \in Targets(edges)
    <3>1. b \in Targets(Tail(edges)) /\ 1 \in 1..Len(<<left>>) /\ <<left>>[1][1] = a /\ <<left>>[1][2] = Tail(edges)
      BY <1>8, <1>11, <2>2
    <3> HIDE DEF A, left, tail, n, edges, m
    <3> QED BY <1>5, <2>1, <3>1, PendingFirst
  <2>3. CASE ~(a = n /\ b \in Targets(edges))
    <3> HIDE DEF A, left
    <3> QED BY <1>1, <1>11, <2>1, <2>3, PendingAfter
  <2> QED BY <2>2, <2>3
<1>12. CASE ~Behind(list, n, m)
  <2>1. SortStep(ntk.fanin, r) = [list |-> list, open |-> rest]
    BY <1>2, <1>12
  <2> HIDE DEF rest, A, n, edges, m
  <2>2. ASSUME n \in ints, m \in ints PROVE IndexOf(list, m) < IndexOf(list, n)
    <3>1. n \in ToSet(list) /\ m \in ToSet(list) /\ m # n
      BY <1>1, <2>2
    <3>2. IndexOf(list, n) > 0 /\ IndexOf(list, n) \in 0..Len(list) /\ IndexOf(list, m) \in 0..Len(list)
      BY <1>1, <3>1, IndexIs
    <3>3. IndexOf(list, m) # IndexOf(list, n)
      BY <1>1, <3>1, IndexApart
    <3> QED BY <1>12, <3>2, <3>3 DEF Behind
  <2>3. ord => InOrderOrPending(ntk, list, rest)
    BY <1>1, <1>11, <2>2 DEF InOrderOrPending
  <2>4. [list |-> list, open |-> rest] \in Sorting(X, N, ntk, ord)
    BY <1>1, <1>9, <2>3, SortingIn DEF A
  <2> QED BY <2>1, <2>4
<1>13. CASE Behind(list, n, m)
  <2> DEFINE new == InFront(list, n, m)
             inner == <<m, ntk.fanin[m]>>
             deeper == <<inner>> \o rest
  <2>1. SortStep(ntk.fanin, r) = [list |-> new, open |-> deeper]
    BY <1>2, <1>13
  <2>2. ntk.fanin[m] \in Seq(Edges(N))
    BY <1>10 DEF Nets
  <2>3. inner \in A /\ deeper \in Seq(A) /\ <<inner>> \in Seq(A)
    <3>1. inner \in A
      BY <1>10, <2>2 DEF SortCalls
    <3> HIDE DEF inner, A, rest
    <3> QED BY <1>9, <3>1
  <2>4. ASSUME NEW a, NEW b, Pending(rest, a, b) PROVE Pending(deeper, a, b)
    <3> HIDE DEF A, inner, rest, n, edges, m
    <3> QED BY <1>9, <2>3, <2>4, PendingLater
  <2>5. \A b \in Fanins(ntk, m) : Pending(deeper, m, b)
    <3> TAKE b \in Fanins(ntk, m)
    <3>1. 1 \in 1..Len(<<inner>>) /\ <<inner>>[1][1] = m /\ <<inner>>[1][2] = ntk.fanin[m]
      OBVIOUS
    <3>2. b \in Targets(ntk.fanin[m])
      BY DEF Targets, Fanins
    <3> HIDE DEF A, inner, rest, n, edges, m
    <3> QED BY <1>9, <2>3, <3>1, <3>2, PendingFirst
  <2> HIDE DEF rest, A, n, edges, m, inner, deeper
  <2>6. new \in Seq(X) /\ ToSet(new) = ints
    BY <1>1, <1>13, InFrontIs
  <2>7. /\ \A a, b \in ToSet(list) : a # m /\ IndexOf(list, b) < IndexOf(list, a)
                => IndexOf(new, b) < IndexOf(new, a)
        /\ \A a \in ToSet(list) : a # m /\ IndexOf(list, n) <= IndexOf(list, a)
                => IndexOf(new, m) < IndexOf(new, a)
    BY <1>1, <1>13, InFrontOrder
  <2>8. n \in ints => IndexOf(new, m) < IndexOf(new, n)
    <3>1. IndexOf(list, n) \in 0..Len(list)
      BY <1>1, IndexIs
    <3> QED BY <1>1, <2>7, <3>1
  <2> HIDE DEF new
  <2>9. ord => InOrderOrPending(ntk, new, deeper)
    <3> SUFFICES ASSUME ord, NEW a \in ints, NEW b \in ints, b \in Fanins(ntk, a)
                 PROVE  IndexOf(new, b) < IndexOf(new, a) \/ Pending(deeper, a, b)
      BY DEF InOrderOrPending
    <3>1. CASE a = m
      BY <2>5, <3>1
    <3>2. CASE a # m /\ IndexOf(list, b) < IndexOf(list, a)
      BY <1>1, <2>7, <3>2
    <3>3. CASE Pending(open, a, b) /\ ~(a = n /\ b = m)
      BY <1>11, <2>4, <3>3
    <3>4. CASE a = n /\ b = m
      BY <2>8, <3>4
    <3> QED BY <1>1, <3>1, <3>2, <3>3, <3>4 DEF InOrderOrPending
  <2>10. [list |-> new, open |-> deeper] \in Sorting(X, N, ntk, ord)
    BY <2>3, <2>6, <2>9, SortingIn DEF A
  <2> QED BY <2>1, <2>10
<1> QED BY <1>12, <1>13

\* The edges of a network are counted.
LEMMA EdgeCountIs ==
  ASSUME NEW k \in Nat, NEW q \in Nat, NEW N \in Nat, k < N, NEW ntk \in Nets(k, q, N)
  PROVE  EdgeCount(ntk) \in Nat
<1> DEFINE X == (k + 1)..(N - 1)
<1>1. ntk.ints \in Seq(X) /\ ntk.fanin \in [0..(N - 1) -> Seq(Edges(N))]
  BY DEF Nets
<1>2. \A id \in X : Len(ntk.fanin[id]) \in Nat
  <2> TAKE id \in X
  <2>1. ntk.fanin[id] \in Seq(Edges(N))
    BY <1>1
  <2> QED BY <2>1
<1> HIDE DEF X
<1> QED BY <1>1, <1>2, EdgesCounted

\* The list of a network is changed for one with the same nodes.
LEMMA Relisted ==
  ASSUME NEW k \in Nat, NEW q \in Nat, NEW N \in Nat, k < N, NEW ntk \in Wired(k, q, N),
         NEW list \in Seq((k + 1)..(N - 1)), ToSet(list) = ToSet(ntk.ints)
  PROVE  LET t == [ntk EXCEPT !.ints = list]
         IN  /\ t \in Wired(k, q, N) /\ t.pos = ntk.pos /\ t.fanin = ntk.fanin /\ t.ints = list
             /\ Alive(t) = Alive(ntk)
<1> DEFINE t == [ntk EXCEPT !.ints = list]
<1>1. t \in Nets(k, q, N) /\ t.pos = ntk.pos /\ t.fanin = ntk.fanin /\ t.ints = list
      /\ t.nNodes = ntk.nNodes
  BY DEF Wired, Nets
<1> HIDE DEF t
<1>2. Alive(t) = Alive(ntk)
  BY <1>1 DEF Alive
<1>3. t \in Wired(k, q, N)
  BY <1>1, <1>2 DEF Wired, Fanins
<1> QED BY <1>1, <1>2, <1>3 DEF t

\* The only edges that may be out of order point at fi, from nodes that do not
\* stand before id.
NearlyOrdered(ntk, id, fi) ==
  /\ id \in ToSet(ntk.ints)
  /\ \A n, m \in ToSet(ntk.ints) : m \in Fanins(ntk, n) =>
       \/ IndexOf(ntk.ints, m) < IndexOf(ntk.ints, n)
       \/ m = fi /\ IndexOf(ntk.ints, id) <= IndexOf(ntk.ints, n)

\* The sort of a list.
LEMMA SortedIn ==
  ASSUME NEW k \in Nat, NEW q \in Nat, NEW N \in Nat, k < N, NEW ntk \in Nets(k, q, N),
         NEW ord, NEW x0 \in Sorting((k + 1)..(N - 1), N, ntk, ord)
  PROVE  Repeat(LAMBDA r : SortStep(ntk.fanin, r), EdgeCount(ntk) + Len(ntk.ints), x0)
           \in Sorting((k + 1)..(N - 1), N, ntk, ord)
<1> DEFINE X == (k + 1)..(N - 1)
           S == Sorting(X, N, ntk, ord)
<1> DEFINE n == EdgeCount(ntk) + Len(ntk.ints)
           op(x) == SortStep(ntk.fanin, x)
           Loop(f) == f = [i \in 0..n |-> IF i = 0 THEN x0 ELSE op(f[i - 1])]
           after == CHOOSE f : Loop(f)
<1>1. n \in Nat
  <2>1. Len(ntk.ints) \in Nat
    BY DEF Nets
  <2> QED BY <2>1, EdgeCountIs
<1>2. Repeat(LAMBDA r : SortStep(ntk.fanin, r), EdgeCount(ntk) + Len(ntk.ints), x0) = after[n]
  BY DEF Repeat
<1>3. \A x \in S : op(x) \in S
  BY SortStepIn
<1> HIDE DEF S
<1> HIDE DEF n, op
<1>4. x0 \in S
  BY DEF S
<1>5. \E f : Loop(f)
  <2> DEFINE g == [p \in S \X (1..n) |-> op(p[1])]
  <2>1. \A x \in S, i \in 1..n : g[<<x, i>>] = op(x) /\ g[<<x, i>>] \in S
    BY <1>3
  <2> HIDE DEF g
  <2>2. StaysIn(S, n, g)
    BY <2>1 DEF StaysIn
  <2>3. PICK f : IsLoop(f, S, n, x0, g)
    BY <1>1, <1>4, <2>2, RoundsExist
  <2>4. \A i \in 0..n : i # 0 => i \in 1..n /\ i - 1 \in 0..n
    BY <1>1
  <2>5. f = [i \in 0..n |-> f[i]] /\ \A i \in 0..n : f[i] = IF i = 0 THEN x0 ELSE op(f[i - 1])
    BY <2>1, <2>3, <2>4 DEF IsLoop
  <2>6. Loop(f)
    BY <2>5
  <2> HIDE DEF Loop
  <2> QED BY <2>6
<1>6. Loop(after)
  <2> HIDE DEF Loop
  <2> QED BY <1>5
<1> HIDE DEF after
<1>7. after[0] \in S /\ \A i \in 1..n : after[i - 1] \in S => after[i] \in S
  <2>1. 0 \in 0..n /\ \A i \in 1..n : i \in 0..n /\ i # 0
    BY <1>1
  <2>2. after[0] = x0 /\ \A i \in 1..n : after[i] = op(after[i - 1])
    BY <1>6, <2>1
  <2> QED BY <1>3, <1>4, <2>2
<1> HIDE DEF Loop
<1>8. after[n] \in S
  BY <1>1, <1>7, RoundsStay
<1> QED BY <1>2, <1>8 DEF S

\* MoveBefore brings a network in order in which fi is out of order.
LEMMA MovedIn ==
  ASSUME NEW k \in Nat, NEW q \in Nat, NEW N \in Nat, k < N, NEW ntk \in Wired(k, q, N),
         NEW id, NEW fi \in 0..(N - 1), fi # id, NEW ord, ord => NearlyOrdered(ntk, id, fi),
         NEW t \in MoveBefore(ntk, id, fi)
  PROVE  /\ t \in Wired(k, q, N) /\ t.pos = ntk.pos /\ Alive(t) = Alive(ntk)
         /\ ToSet(t.ints) = ToSet(ntk.ints)
         /\ ord => Ordered(t)
<1> DEFINE X == (k + 1)..(N - 1)
           ints == ntk.ints
           new == InFront(ints, id, fi)
           first == <<fi, ntk.fanin[fi]>>
           x0 == [list |-> new, open |-> <<first>>]
           sorted == Repeat(LAMBDA r : SortStep(ntk.fanin, r), EdgeCount(ntk) + Len(ntk.ints), x0)
<1>1. ntk \in Nets(k, q, N) /\ ints \in Seq(X) /\ ntk.fanin \in [0..(N - 1) -> Seq(Edges(N))]
  BY DEF Wired, Nets
<1>2. MoveBefore(ntk, id, fi) = IF ~Behind(ints, id, fi) THEN {ntk}
                                ELSE IF sorted.open = <<>> THEN {[ntk EXCEPT !.ints = sorted.list]}
                                ELSE {}
  BY DEF MoveBefore
<1>3. CASE ~Behind(ints, id, fi)
  <2>1. t = ntk
    BY <1>2, <1>3
  <2>2. ASSUME ord PROVE Ordered(ntk)
    <3> SUFFICES ASSUME NEW n \in ToSet(ints), NEW m \in ToSet(ints), m \in Fanins(ntk, n),
                        m = fi, IndexOf(ints, id) <= IndexOf(ints, n)
                 PROVE  IndexOf(ints, m) < IndexOf(ints, n)
      BY <2>2 DEF Ordered, NearlyOrdered
    <3>1. id \in ToSet(ints)
      BY <2>2 DEF NearlyOrdered
    <3>2. /\ IndexOf(ints, id) \in 0..Len(ints) /\ IndexOf(ints, id) > 0
          /\ IndexOf(ints, fi) \in 0..Len(ints) /\ IndexOf(ints, n) \in 0..Len(ints)
      BY <1>1, <3>1, IndexIs
    <3>3. IndexOf(ints, id) # IndexOf(ints, fi)
      BY <1>1, <3>1, IndexApart
    <3> QED BY <1>3, <3>2, <3>3 DEF Behind
  <2> QED BY <2>1, <2>2
<1>4. CASE Behind(ints, id, fi)
  <2> DEFINE A == SortCalls(N)
  <2>1. first \in A
    BY <1>1 DEF SortCalls
  <2>2. <<first>> \in Seq(A)
    <3> HIDE DEF first, A
    <3> QED BY <2>1
  <2>3. \A b \in Fanins(ntk, fi) : Pending(<<first>>, fi, b)
    BY DEF Pending, Targets, Fanins
  <2> HIDE DEF first, ints
  <2>4. new \in Seq(X) /\ ToSet(new) = ToSet(ints)
    BY <1>1, <1>4, InFrontIs
  <2>5. /\ \A a, b \in ToSet(ints) : a # fi /\ IndexOf(ints, b) < IndexOf(ints, a)
                => IndexOf(new, b) < IndexOf(new, a)
        /\ \A a \in ToSet(ints) : a # fi /\ IndexOf(ints, id) <= IndexOf(ints, a)
                => IndexOf(new, fi) < IndexOf(new, a)
    BY <1>1, <1>4, InFrontOrder
  <2> HIDE DEF new
  <2>6. ord => InOrderOrPending(ntk, new, <<first>>)
    BY <2>3, <2>5 DEF NearlyOrdered, InOrderOrPending, ints
  <2>7. x0 \in Sorting(X, N, ntk, ord)
    BY <2>2, <2>4, <2>6, SortingIn DEF ints
  <2> HIDE DEF x0
  <2>8. sorted \in Sorting(X, N, ntk, ord)
    BY <1>1, <2>7, SortedIn
  <2> HIDE DEF sorted
  <2>9. /\ sorted.list \in Seq(X) /\ ToSet(sorted.list) = ToSet(ntk.ints)
        /\ (ord => InOrderOrPending(ntk, sorted.list, sorted.open))
    BY <2>8, SortingIs
  <2>10. sorted.open = <<>> /\ t = [ntk EXCEPT !.ints = sorted.list]
    BY <1>2, <1>4 DEF ints
  <2>11. /\ t \in Wired(k, q, N) /\ t.pos = ntk.pos /\ t.fanin = ntk.fanin /\ t.ints = sorted.list
         /\ Alive(t) = Alive(ntk)
    <3> DEFINE list == sorted.list
               v == [ntk EXCEPT !.ints = list]
    <3>1. list \in Seq((k + 1)..(N - 1)) /\ ToSet(list) = ToSet(ntk.ints)
      BY <2>9
    <3>2. t = v
      BY <2>10
    <3> HIDE DEF list
    <3>3. /\ v \in Wired(k, q, N) /\ v.pos = ntk.pos /\ v.fanin = ntk.fanin /\ v.ints = list
          /\ Alive(v) = Alive(ntk)
      BY <3>1, Relisted
    <3> HIDE DEF v
    <3> QED BY <3>2, <3>3 DEF list
  <2>12. \A a, b : ~Pending(<<>>, a, b)
    BY DEF Pending
  <2>13. ord => Ordered(t)
    BY <2>9, <2>10, <2>11, <2>12 DEF InOrderOrPending, Ordered, Fanins
  <2> QED BY <2>9, <2>11, <2>13
<1> QED BY <1>3, <1>4

-----------------------------------------------------------------------------
(* Insert.                                                                 *)

\* Networks in order, if ord.
Kept(k, q, N, ord) == {ntk \in Wired(k, q, N) : ord => Ordered(ntk)}

\* What an output leaves unused is removed.
LEMMA UnusedRemoved ==
  ASSUME NEW k \in Nat, NEW q \in Nat, NEW N \in Nat, k < N, NEW ord, NEW ntk \in Kept(k, q, N, ord),
         NEW id \in 0..(N - 1)
  PROVE  /\ RemoveUnused(ntk, id) \in Kept(k, q, N, ord)
         /\ ToSet(RemoveUnused(ntk, id).ints) \subseteq ToSet(ntk.ints)
<1> DEFINE K == {t \in Kept(k, q, N, ord) : ToSet(t.ints) \subseteq ToSet(ntk.ints)}
           S == [ntk : K, edges : Seq(Edges(N))]
           x0 == [ntk |-> RemoveNode(ntk, id), edges |-> ntk.fanin[id]]
<1> DEFINE n == EdgeCount(ntk)
           op(x) == LET m == Node(Head(x.edges))
                    IN  IF x.edges = <<>> THEN x
                        ELSE IF Refs(x.ntk, m) = 0 /\ IsInt(x.ntk, m)
                        THEN [ntk |-> RemoveNode(x.ntk, m), edges |-> x.ntk.fanin[m] \o Tail(x.edges)]
                        ELSE [x EXCEPT !.edges = Tail(@)]
           Loop(f) == f = [i \in 0..n |-> IF i = 0 THEN x0 ELSE op(f[i - 1])]
           after == CHOOSE f : Loop(f)
<1>1. n \in Nat
  BY EdgeCountIs DEF Kept, Wired
<1>2. RemoveUnused(ntk, id) = after[n].ntk
  BY DEF RemoveUnused, Repeat
<1>a. ASSUME NEW t \in K, NEW m PROVE RemoveNode(t, m) \in K
  <2>1. t \in Wired(k, q, N) /\ (ord => Ordered(t))
    BY DEF Kept
  <2> DEFINE u == RemoveNode(t, m)
  <2>2. /\ u \in Wired(k, q, N) /\ ToSet(u.ints) = ToSet(t.ints) \ {m}
        /\ Ordered(t) => Ordered(u)
    BY <2>1, NodeRemoved
  <2> HIDE DEF u
  <2>3. u \in K
    BY <2>1, <2>2 DEF Kept
  <2> QED BY <2>3 DEF u
<1>b. ASSUME NEW t \in K, NEW m \in 0..(N - 1) PROVE t.fanin[m] \in Seq(Edges(N))
  BY DEF Kept, Wired, Nets
<1>c. ntk \in K
  OBVIOUS
<1> HIDE DEF K
<1>3. ASSUME NEW x \in S PROVE op(x) \in S
  <2> DEFINE m == Node(Head(x.edges))
             es == x.edges
             t == x.ntk
  <2>1. es \in Seq(Edges(N)) /\ t \in K /\ x = [ntk |-> t, edges |-> es]
    OBVIOUS
  <2> HIDE DEF es, t
  <2>2. CASE es = <<>>
    BY <2>2 DEF es
  <2>3. CASE es # <<>>
    <3>1. Tail(es) \in Seq(Edges(N)) /\ Head(es) \in Edges(N)
      BY <2>1, <2>3
    <3>2. m \in 0..(N - 1)
      BY <3>1 DEF Edges, Node, es
    <3>3. t.fanin[m] \in Seq(Edges(N)) /\ RemoveNode(t, m) \in K
      BY <1>a, <1>b, <2>1, <3>2
    <3>4. t.fanin[m] \o Tail(es) \in Seq(Edges(N))
      BY <3>1, <3>3
    <3>5. [ntk |-> RemoveNode(t, m), edges |-> t.fanin[m] \o Tail(es)] \in S
          /\ [ntk |-> t, edges |-> Tail(es)] \in S
      BY <2>1, <3>1, <3>3, <3>4
    <3>6. \A o : [x EXCEPT !.edges = o] = [ntk |-> t, edges |-> o]
      BY <2>1
    <3>7. \/ op(x) = [ntk |-> RemoveNode(t, m), edges |-> t.fanin[m] \o Tail(es)]
          \/ op(x) = [x EXCEPT !.edges = Tail(es)]
      BY <2>3 DEF t, es
    <3> HIDE DEF op, m, S
    <3> QED BY <3>5, <3>6, <3>7
  <2> QED BY <2>2, <2>3
<1>d. x0 \in S
  BY <1>a, <1>b, <1>c
<1> HIDE DEF S, x0
<1> HIDE DEF n, op
<1>4. x0 \in S
  BY <1>d
<1>5. \E f : Loop(f)
  <2> DEFINE g == [p \in S \X (1..n) |-> op(p[1])]
  <2>1. \A x \in S, i \in 1..n : g[<<x, i>>] = op(x) /\ g[<<x, i>>] \in S
    BY <1>3
  <2> HIDE DEF g
  <2>2. StaysIn(S, n, g)
    BY <2>1 DEF StaysIn
  <2>3. PICK f : IsLoop(f, S, n, x0, g)
    BY <1>1, <1>4, <2>2, RoundsExist
  <2>4. \A i \in 0..n : i # 0 => i \in 1..n /\ i - 1 \in 0..n
    BY <1>1
  <2>5. f = [i \in 0..n |-> f[i]] /\ \A i \in 0..n : f[i] = IF i = 0 THEN x0 ELSE op(f[i - 1])
    BY <2>1, <2>3, <2>4 DEF IsLoop
  <2>6. Loop(f)
    BY <2>5
  <2> HIDE DEF Loop
  <2> QED BY <2>6
<1>6. Loop(after)
  <2> HIDE DEF Loop
  <2> QED BY <1>5
<1> HIDE DEF after
<1>7. after[0] \in S /\ \A i \in 1..n : after[i - 1] \in S => after[i] \in S
  <2>1. 0 \in 0..n /\ \A i \in 1..n : i \in 0..n /\ i # 0
    BY <1>1
  <2>2. after[0] = x0 /\ \A i \in 1..n : after[i] = op(after[i - 1])
    BY <1>6, <2>1
  <2> QED BY <1>3, <1>4, <2>2
<1> HIDE DEF Loop
<1>8. after[n] \in S
  BY <1>1, <1>7, RoundsStay
<1>9. after[n].ntk \in K
  BY <1>8 DEF S
<1> QED BY <1>2, <1>9 DEF K

\* The nodes that get a new fanin are those still visited after repeated edges
\* were dropped.
LEMMA SubstituteAt ==
  ASSUME NEW k \in Nat, NEW q \in Nat, NEW N \in Nat, k < N, NEW ntk \in Wired(k, q, N),
         NEW id, NEW fi \in Alive(ntk), NEW c, NEW fos,
         fos = ToSet(FanoutSeq(DropRepeated(ntk, id, fi, c), id, TRUE))
  PROVE  /\ Substitute(ntk, id, fi, c) \in
              Variants(k, q, N, ntk, [n \in 0..(N - 1) |-> IF n \in fos THEN {0, fi} ELSE {}])
         /\ \A n \in 0..(N - 1) : Fanins(DropRepeated(ntk, id, fi, c), n) \subseteq Fanins(ntk, n)
         /\ \A fo \in fos : fo \in 0..(N - 1) /\ id \in Fanins(ntk, fo)
         /\ \A fo \in fos : DropRepeated(ntk, id, fi, c).fanin[fo] \in Seq(Edges(N))
<1> DEFINE none == [n \in 0..(N - 1) |-> {}]
           more == [n \in 0..(N - 1) |-> IF n \in fos THEN {0, fi} ELSE {}]
           dropped == DropRepeated(ntk, id, fi, c)
<1>1. dropped \in Variants(k, q, N, ntk, none)
  BY DroppedIn
<1>2. dropped \in Nets(k, q, N) /\ \A n \in 0..(N - 1) : Fanins(dropped, n) \subseteq Fanins(ntk, n)
  BY <1>1 DEF Variants, Wired
<1> HIDE DEF dropped
<1>3. ASSUME NEW fo \in fos
      PROVE  fo \in 0..(N - 1) /\ id \in Fanins(ntk, fo) /\ dropped.fanin[fo] \in Seq(Edges(N))
  <2>1. fo \in ToSet(FanoutSeq(dropped, id, TRUE))
    BY DEF dropped
  <2>2. id \in Fanins(dropped, fo) /\ fo \in (k + 1)..(N - 1)
    BY <1>2, <2>1, FanoutsAre
  <2>3. fo \in 0..(N - 1)
    BY <2>2
  <2>4. dropped.fanin[fo] \in Seq(Edges(N))
    BY <1>2, <2>3 DEF Nets
  <2> QED BY <1>2, <2>2, <2>3, <2>4
<1>4. \A fo \in fos : {0, fi} \subseteq more[fo]
  BY <1>3
<1> HIDE DEF more
<1>5. Substitute(ntk, id, fi, c) \in Variants(k, q, N, ntk, more)
  BY <1>4, SubstitutedIn
<1> QED BY <1>2, <1>3, <1>5 DEF more, dropped

\* How an Insert can end.
Ends == {"ok", "input", "map", "self", "repeated", "fanouts", "cycle", "used", "erase"}

\* What has become of the network base while outputs are replaced in it.
Replacing(k, q, N, ord, base) ==
  {r \in [ntk : Kept(k, q, N, ord), end : Ends] :
     ToSet(r.ntk.ints) = ToSet(base.ints) /\ Alive(base) \subseteq Alive(r.ntk)}

\* An output is replaced.
LEMMA ReplacedOrder ==
  ASSUME NEW k \in Nat, NEW q \in Nat, NEW N \in Nat, k < N, NEW ntk \in Wired(k, q, N),
         NEW old, NEW fi \in Alive(ntk), fi # old, NEW c
  PROVE  LET t == Substitute(ntk, old, fi, c)
             dropped == DropRepeated(ntk, old, fi, c)
             fos == ToSet(FanoutSeq(dropped, old, TRUE))
         IN  /\ t \in Wired(k, q, N) /\ t.ints = ntk.ints /\ Alive(ntk) \subseteq Alive(t)
             /\ Ordered(ntk) /\ old \in ToSet(ntk.ints) => NearlyOrdered(t, old, fi)
             /\ Ordered(ntk) /\ (\A fo \in fos : FindFanin(dropped, fo, fi) # 0) => Ordered(t)
<1> DEFINE t == Substitute(ntk, old, fi, c)
           dropped == DropRepeated(ntk, old, fi, c)
           fos == ToSet(FanoutSeq(dropped, old, TRUE))
           more == [n \in 0..(N - 1) |-> IF n \in fos THEN {0, fi} ELSE {}]
<1>0. fos = ToSet(FanoutSeq(DropRepeated(ntk, old, fi, c), old, TRUE))
  OBVIOUS
<1> HIDE DEF fos
<1>1. /\ t \in Variants(k, q, N, ntk, more)
      /\ \A n \in 0..(N - 1) : Fanins(dropped, n) \subseteq Fanins(ntk, n)
      /\ \A fo \in fos : fo \in 0..(N - 1) /\ old \in Fanins(ntk, fo)
      /\ \A fo \in fos : dropped.fanin[fo] \in Seq(Edges(N))
  BY <1>0, SubstituteAt
<1>2. \A n \in 0..(N - 1) : \A m \in more[n] : n \in fos /\ (m = 0 \/ m = fi)
  OBVIOUS
<1> HIDE DEF t, dropped, more, fos
<1>3. /\ t \in Wired(k, q, N) /\ t.ints = ntk.ints /\ Alive(ntk) \subseteq Alive(t)
      /\ \A n \in 0..(N - 1) : Fanins(t, n) \subseteq Fanins(ntk, n) \cup more[n]
  BY <1>1 DEF Variants
<1>4. ToSet(ntk.ints) \subseteq (k + 1)..(N - 1)
  BY NetIds DEF Wired
<1>5. \A n \in ToSet(ntk.ints) : n # 0 /\ n \in 0..(N - 1)
  BY <1>4
<1>6. ASSUME Ordered(ntk), old \in ToSet(ntk.ints) PROVE NearlyOrdered(t, old, fi)
  <2> SUFFICES ASSUME NEW n \in ToSet(ntk.ints), NEW m \in ToSet(ntk.ints), m \in Fanins(t, n)
               PROVE  \/ IndexOf(ntk.ints, m) < IndexOf(ntk.ints, n)
                      \/ m = fi /\ IndexOf(ntk.ints, old) <= IndexOf(ntk.ints, n)
    BY <1>3, <1>6 DEF NearlyOrdered
  <2>1. CASE m \in Fanins(ntk, n)
    BY <1>6, <2>1 DEF Ordered
  <2>2. CASE m \in more[n]
    <3>1. n \in fos /\ m = fi
      BY <1>2, <1>5, <2>2
    <3>2. IndexOf(ntk.ints, old) < IndexOf(ntk.ints, n)
      BY <1>1, <1>6, <3>1 DEF Ordered
    <3>3. IndexOf(ntk.ints, old) \in Nat /\ IndexOf(ntk.ints, n) \in Nat
      <4>1. ntk.ints \in Seq((k + 1)..(N - 1))
        BY NetFields DEF Wired
      <4>2. IndexOf(ntk.ints, old) \in 0..Len(ntk.ints) /\ IndexOf(ntk.ints, n) \in 0..Len(ntk.ints)
        BY <4>1, IndexIs
      <4> QED BY <4>2
    <3> QED BY <3>1, <3>2, <3>3
  <2> QED BY <1>3, <1>5, <2>1, <2>2
<1>7. ASSUME Ordered(ntk), \A fo \in fos : FindFanin(dropped, fo, fi) # 0 PROVE Ordered(t)
  <2>1. ntk \in Sound(k, q, N)
    BY <1>7 DEF Sound
  <2>2. ASSUME NEW n \in ToSet(ntk.ints), NEW m \in ToSet(ntk.ints), m \in more[n]
        PROVE  IndexOf(ntk.ints, m) < IndexOf(ntk.ints, n)
    <3>1. n \in fos /\ m = fi
      BY <1>2, <1>5, <2>2
    <3>2. dropped.fanin[n] \in Seq(Edges(N)) /\ FindFanin(dropped, n, fi) # 0
      BY <1>1, <1>7, <3>1
    <3>3. fi \in Fanins(dropped, n)
      BY <3>2, FaninFound
    <3>4. m \in Fanins(ntk, n)
      BY <1>1, <1>5, <3>1, <3>3
    <3> QED BY <1>7, <3>4 DEF Ordered
  <2>3. t \in Sound(k, q, N)
    BY <1>1, <2>1, <2>2, VariantOrdered
  <2> QED BY <2>3 DEF Sound
<1> QED BY <1>3, <1>6, <1>7 DEF t, dropped, fos

\* So the network with one more output replaced is one of those.
LEMMA ReplacedIn ==
  ASSUME NEW k \in Nat, NEW q \in Nat, NEW N \in Nat, k < N, NEW ord, NEW base \in Wired(k, q, N),
         NEW r \in Replacing(k, q, N, ord, base), NEW old, ord => old \in ToSet(base.ints),
         NEW signal, Node(signal) \in Alive(base)
  PROVE  ReplaceOutput(r, old, signal) \in Replacing(k, q, N, ord, base)
<1> DEFINE fi == Node(signal)
           ntk == r.ntk
           dropped == DropRepeated(ntk, old, fi, IsCompl(signal))
           fanouts == FanoutSeq(dropped, old, TRUE)
           fos == ToSet(fanouts)
           t == Substitute(ntk, old, fi, IsCompl(signal))
           needed == \E fo \in ToSet(fanouts) : FindFanin(dropped, fo, fi) = 0
           moved == IF needed THEN MoveBefore(t, old, fi) ELSE {t}
           u == CHOOSE n \in moved : TRUE
           S == Replacing(k, q, N, ord, base)
<1>1. /\ ntk \in Wired(k, q, N) /\ (ord => Ordered(ntk)) /\ r.end \in Ends
      /\ ToSet(ntk.ints) = ToSet(base.ints) /\ Alive(base) \subseteq Alive(ntk)
      /\ r = [ntk |-> ntk, end |-> r.end]
  BY DEF Replacing, Kept
<1>2. \A e : [r EXCEPT !.end = e] = [ntk |-> ntk, end |-> e]
  BY <1>1
<1>3. \A n : [r EXCEPT !.ntk = n] = [ntk |-> n, end |-> r.end]
  BY <1>1
<1>4. \A e \in Ends : [ntk |-> ntk, end |-> e] \in S
  BY <1>1 DEF Replacing, Kept
<1>5. \/ ReplaceOutput(r, old, signal) = r
      \/ \E e \in Ends : ReplaceOutput(r, old, signal) = [r EXCEPT !.end = e]
      \/ fi # old /\ moved # {} /\ ReplaceOutput(r, old, signal) = [r EXCEPT !.ntk = u]
  BY DEF ReplaceOutput, Moved, Ends
<1> HIDE DEF fi, ntk
<1>6. ASSUME fi # old, moved # {} PROVE [ntk |-> u, end |-> r.end] \in S
  <2>0. ntk \in Wired(k, q, N)
    BY <1>1
  <2>1. fi \in Alive(ntk)
    BY <1>1 DEF fi
  <2>2. fi \in 0..(N - 1)
    BY <1>1, <2>1, AliveIs DEF Wired
  <2>3. ord => old \in ToSet(ntk.ints)
    BY <1>1
  <2>4. /\ t \in Wired(k, q, N) /\ t.ints = ntk.ints /\ Alive(ntk) \subseteq Alive(t)
        /\ Ordered(ntk) /\ old \in ToSet(ntk.ints) => NearlyOrdered(t, old, fi)
        /\ Ordered(ntk) /\ (\A fo \in fos : FindFanin(dropped, fo, fi) # 0) => Ordered(t)
    BY <1>6, <2>1, <2>0, ReplacedOrder
  <2>5. ord => NearlyOrdered(t, old, fi)
    BY <1>1, <2>3, <2>4
  <2>6. ord /\ (\A fo \in fos : FindFanin(dropped, fo, fi) # 0) => Ordered(t)
    BY <1>1, <2>4
  <2> HIDE DEF t, dropped
  <2>7. u \in moved
    BY <1>6
  <2> HIDE DEF u
  <2>8. u \in Wired(k, q, N) /\ Alive(ntk) \subseteq Alive(u) /\ ToSet(u.ints) = ToSet(ntk.ints) /\ (ord => Ordered(u))
    <3>1. CASE needed
      <4>1. u \in MoveBefore(t, old, fi)
        BY <2>7, <3>1
      <4>2. u \in Wired(k, q, N) /\ Alive(u) = Alive(t) /\ ToSet(u.ints) = ToSet(t.ints) /\ (ord => Ordered(u))
        BY <1>6, <2>2, <2>4, <2>5, <4>1, MovedIn
      <4> QED BY <2>4, <4>2
    <3>2. CASE ~needed
      BY <2>4, <2>6, <2>7, <3>2
    <3> QED BY <3>1, <3>2
  <2> QED BY <1>1, <2>8 DEF Replacing, Kept
<1> HIDE DEF S, moved, u
<1>7. CASE ReplaceOutput(r, old, signal) = r
  BY <1>7 DEF S
<1>8. CASE \E e \in Ends : ReplaceOutput(r, old, signal) = [r EXCEPT !.end = e]
  BY <1>2, <1>4, <1>8 DEF S
<1>9. CASE fi # old /\ moved # {} /\ ReplaceOutput(r, old, signal) = [r EXCEPT !.ntk = u]
  BY <1>3, <1>6, <1>9 DEF S
<1> QED BY <1>5, <1>7, <1>8, <1>9

\* An output is dropped.
Dropping(k, q, N, ord, B) == {r \in [ntk : Kept(k, q, N, ord), end : Ends] : ToSet(r.ntk.ints) \subseteq B}

\* Only a node of the list can be dropped, and then it is no longer there.
LEMMA OutputDropped ==
  ASSUME NEW k \in Nat, NEW q \in Nat, NEW N \in Nat, k < N, NEW ord, NEW B,
         NEW r \in Dropping(k, q, N, ord, B), NEW old
  PROVE  /\ DropOutput(r, old) \in Dropping(k, q, N, ord, B)
         /\ DropOutput(r, old).end = "ok" => r.end = "ok" /\ old \in B
<1> DEFINE ntk == r.ntk
           t == RemoveUnused(ntk, old)
           S == Dropping(k, q, N, ord, B)
<1>1. /\ ntk \in Kept(k, q, N, ord) /\ r.end \in Ends /\ ToSet(ntk.ints) \subseteq B
      /\ r = [ntk |-> ntk, end |-> r.end]
  BY DEF Dropping
<1>2. \A e : [r EXCEPT !.end = e] = [ntk |-> ntk, end |-> e]
  BY <1>1
<1>3. \A n : [r EXCEPT !.ntk = n] = [ntk |-> n, end |-> r.end]
  BY <1>1
<1>4. \A e \in Ends : [ntk |-> ntk, end |-> e] \in S
  BY <1>1 DEF Dropping
<1>5. \/ r.end # "ok" /\ DropOutput(r, old) = r
      \/ \E e \in {"used", "erase"} : DropOutput(r, old) = [r EXCEPT !.end = e]
      \/ r.end = "ok" /\ IsInt(ntk, old) /\ DropOutput(r, old) = [r EXCEPT !.ntk = t]
  BY DEF DropOutput
<1> HIDE DEF ntk
<1>6. ASSUME r.end = "ok", IsInt(ntk, old) PROVE old \in B /\ [ntk |-> t, end |-> r.end] \in S
  <2>1. ntk \in Nets(k, q, N)
    BY <1>1 DEF Kept, Wired
  <2>2. old \in ToSet(ntk.ints) /\ ToSet(ntk.ints) \subseteq (k + 1)..(N - 1)
    BY <1>6, <2>1, NetKinds, NetIds
  <2>3. old \in 0..(N - 1)
    BY <2>2
  <2>4. t \in Kept(k, q, N, ord) /\ ToSet(t.ints) \subseteq ToSet(ntk.ints)
    BY <1>1, <2>3, UnusedRemoved
  <2> HIDE DEF t
  <2> QED BY <1>1, <2>2, <2>4 DEF Dropping
<1> HIDE DEF S, t
<1>7. CASE r.end # "ok" /\ DropOutput(r, old) = r
  BY <1>7 DEF S
<1>8. CASE \E e \in {"used", "erase"} : DropOutput(r, old) = [r EXCEPT !.end = e]
  BY <1>2, <1>4, <1>8 DEF S, Ends
<1>9. CASE r.end = "ok" /\ IsInt(ntk, old) /\ DropOutput(r, old) = [r EXCEPT !.ntk = t]
  BY <1>3, <1>6, <1>9 DEF S
<1> QED BY <1>5, <1>7, <1>8, <1>9

\* All outputs are dropped.
LEMMA OutputsDropped ==
  ASSUME NEW k \in Nat, NEW q \in Nat, NEW N \in Nat, k < N, NEW ord, NEW B,
         NEW r \in Dropping(k, q, N, ord, B), NEW X, NEW vOutputs \in Seq(X)
  PROVE  /\ FoldLeft(DropOutput, r, vOutputs) \in Dropping(k, q, N, ord, B)
         /\ FoldLeft(DropOutput, r, vOutputs).end = "ok" => ToSet(vOutputs) \subseteq B
<1> DEFINE S == Dropping(k, q, N, ord, B)
<1> DEFINE seq == vOutputs
           n == Len(seq)
           op(x, i) == DropOutput(x, vOutputs[i])
           Fold(f) == f = [s \in SUBSET (1..n) |-> IF s = {} THEN r ELSE op(f[s \ {Max(s)}], Max(s))]
           iter == CHOOSE f : Fold(f)
<1>1. n \in Nat /\ DOMAIN seq = 1..n
  OBVIOUS
<1>2. FoldLeft(DropOutput, r, vOutputs) = iter[1..n]
  BY <1>1 DEF FoldLeft, MapThenFoldSet
<1> HIDE DEF seq
<1>3. ASSUME NEW x \in S, NEW i \in 1..n
      PROVE  op(x, i) \in S /\ (op(x, i).end = "ok" => x.end = "ok" /\ vOutputs[i] \in B)
  BY OutputDropped
<1> HIDE DEF S
<1> HIDE DEF n, op
<1>4. \E f : Fold(f)
  <2> DEFINE g == [p \in S \X (1..n) |-> op(p[1], p[2])]
  <2>1. \A x \in S, i \in 1..n : g[<<x, i>>] = op(x, i) /\ g[<<x, i>>] \in S
    BY <1>3
  <2> HIDE DEF g
  <2>2. r \in S
    BY DEF S
  <2>3. PICK f : /\ f = [s \in SUBSET (1..n) |-> IF s = {} THEN r ELSE g[<<f[s \ {Max(s)}], Max(s)>>]]
                 /\ \A s \in SUBSET (1..n) : s # {} => f[s \ {Max(s)}] \in S /\ Max(s) \in 1..n
    BY <1>1, <2>1, <2>2, FoldExists
  <2>4. \A s \in SUBSET (1..n) : f[s] = IF s = {} THEN r ELSE op(f[s \ {Max(s)}], Max(s))
    BY <2>1, <2>3
  <2>5. Fold(f)
    BY <2>3, <2>4
  <2> HIDE DEF Fold
  <2> QED BY <2>5
<1>5. Fold(iter)
  <2> HIDE DEF Fold
  <2> QED BY <1>4
<1> HIDE DEF iter
<1>6. iter[{}] = r /\ \A m \in 1..n : iter[1..m] = op(iter[1..(m - 1)], m)
  <2>1. iter[{}] = r
    BY <1>5
  <2>2. ASSUME NEW m \in 1..n PROVE iter[1..m] = op(iter[1..(m - 1)], m)
    <3>1. /\ 1..m \in SUBSET (1..n) /\ 1..m # {} /\ Max(1..m) = m
          /\ (1..m) \ {m} = 1..(m - 1)
      BY <1>1, PrefixIs
    <3> QED BY <1>5, <3>1
  <2> QED BY <2>1, <2>2
<1> HIDE DEF Fold
<1>7. \A m \in 1..n : m - 1 \in 0..n /\ m \in 0..n /\ \A i \in 1..m : i = m \/ i \in 1..(m - 1)
  BY <1>1
<1> DEFINE T == [m \in 0..n |-> {x \in S : x.end = "ok" => \A i \in 1..m : vOutputs[i] \in B}]
<1>8. \A m \in 0..n : T[m] = {x \in S : x.end = "ok" => \A i \in 1..m : vOutputs[i] \in B}
  OBVIOUS
<1> HIDE DEF T
<1>9. ASSUME NEW m \in 1..n, iter[1..(m - 1)] \in T[m - 1] PROVE iter[1..m] \in T[m]
  <2>1. /\ iter[1..(m - 1)] \in S
        /\ iter[1..(m - 1)].end = "ok" => \A i \in 1..(m - 1) : vOutputs[i] \in B
    BY <1>7, <1>8, <1>9
  <2>2. iter[1..m] = op(iter[1..(m - 1)], m)
    BY <1>6
  <2>3. iter[1..m] \in S /\ (iter[1..m].end = "ok" => iter[1..(m - 1)].end = "ok" /\ vOutputs[m] \in B)
    BY <1>3, <2>1, <2>2
  <2>4. iter[1..m].end = "ok" => \A i \in 1..m : vOutputs[i] \in B
    BY <1>7, <2>1, <2>3
  <2> QED BY <1>7, <1>8, <2>3, <2>4
<1>10. iter[{}] \in T[0]
  <2>1. iter[{}] \in S
    BY <1>6 DEF S
  <2>2. 0 \in 0..n /\ \A i : i \notin 1..0
    BY <1>1
  <2> QED BY <1>8, <2>1, <2>2
<1>11. iter[1..n] \in T[n]
  BY <1>1, <1>9, <1>10, FoldStays
<1>12. n \in 0..n
  BY <1>1
<1>13. iter[1..n] \in S /\ (iter[1..n].end = "ok" => \A i \in 1..n : vOutputs[i] \in B)
  BY <1>8, <1>11, <1>12
<1>14. ToSet(vOutputs) = {vOutputs[i] : i \in 1..n}
  BY <1>1 DEF seq, ToSet
<1> QED BY <1>2, <1>13, <1>14 DEF S

\* All outputs are replaced.
AllReplaced(vOutputs, signals, r) ==
  FoldLeftDomain(LAMBDA x, i : ReplaceOutput(x, vOutputs[i], signals[i]), r, vOutputs)

\* All of them, one after another.
LEMMA OutputsReplaced ==
  ASSUME NEW k \in Nat, NEW q \in Nat, NEW N \in Nat, k < N, NEW ord, NEW base \in Wired(k, q, N),
         NEW r \in Replacing(k, q, N, ord, base), NEW X, NEW vOutputs \in Seq(X),
         ord => ToSet(vOutputs) \subseteq ToSet(base.ints),
         NEW signals, \A i \in 1..Len(vOutputs) : Node(signals[i]) \in Alive(base)
  PROVE  AllReplaced(vOutputs, signals, r) \in Replacing(k, q, N, ord, base)
<1> DEFINE S == Replacing(k, q, N, ord, base)
<1> DEFINE seq == [i \in DOMAIN vOutputs |-> i]
           n == Len(seq)
           op(x, i) == ReplaceOutput(x, vOutputs[seq[i]], signals[seq[i]])
           Fold(f) == f = [s \in SUBSET (1..n) |-> IF s = {} THEN r ELSE op(f[s \ {Max(s)}], Max(s))]
           iter == CHOOSE f : Fold(f)
<1>0. DOMAIN vOutputs = 1..Len(vOutputs) /\ Len(vOutputs) \in Nat
  OBVIOUS
<1>b. n \in Nat /\ DOMAIN seq = 1..n /\ n = Len(vOutputs) /\ \A i \in 1..n : seq[i] = i
  <2>1. seq \in [1..Len(vOutputs) -> Nat]
    BY <1>0
  <2>2. seq \in Seq(Nat)
    BY <1>0, <2>1, SeqDef
  <2>3. DOMAIN seq = 1..Len(seq) /\ Len(seq) \in Nat /\ DOMAIN seq = 1..Len(vOutputs)
    BY <2>1, <2>2
  <2>4. Len(seq) = Len(vOutputs)
    <3>1. ASSUME NEW a \in Nat, NEW b \in Nat, 1..a = 1..b PROVE a = b
      <4>1. a # 0 => a \in 1..b
        BY <3>1
      <4>2. b # 0 => b \in 1..a
        BY <3>1
      <4> QED BY <4>1, <4>2
    <3> HIDE DEF seq
    <3> QED BY <1>0, <2>3, <3>1
  <2> QED BY <1>0, <2>4
<1>1. n \in Nat
  BY <1>b
<1>2. AllReplaced(vOutputs, signals, r) = iter[1..n]
  <2> HIDE DEF seq
  <2> QED BY <1>b DEF AllReplaced, FoldLeftDomain, FoldLeft, MapThenFoldSet, seq
<1> HIDE DEF seq
<1>3. ASSUME NEW x \in S, NEW i \in 1..n PROVE op(x, i) \in S
  <2>1. seq[i] \in 1..Len(vOutputs)
    BY <1>b
  <2>2. vOutputs[seq[i]] \in ToSet(vOutputs)
    BY <1>0, <2>1 DEF ToSet
  <2>3. ord => vOutputs[seq[i]] \in ToSet(base.ints)
    BY <2>2
  <2>4. Node(signals[seq[i]]) \in Alive(base)
    BY <2>1
  <2> QED BY <2>3, <2>4, ReplacedIn
<1> HIDE DEF S
<1> HIDE DEF n, op
<1>4. \E f : Fold(f)
  <2> DEFINE g == [p \in S \X (1..n) |-> op(p[1], p[2])]
  <2>1. \A x \in S, i \in 1..n : g[<<x, i>>] = op(x, i) /\ g[<<x, i>>] \in S
    BY <1>3
  <2> HIDE DEF g
  <2>2. r \in S
    BY DEF S
  <2>3. PICK f : /\ f = [s \in SUBSET (1..n) |-> IF s = {} THEN r ELSE g[<<f[s \ {Max(s)}], Max(s)>>]]
                 /\ \A s \in SUBSET (1..n) : s # {} => f[s \ {Max(s)}] \in S /\ Max(s) \in 1..n
    BY <1>1, <2>1, <2>2, FoldExists
  <2>4. \A s \in SUBSET (1..n) : f[s] = IF s = {} THEN r ELSE op(f[s \ {Max(s)}], Max(s))
    BY <2>1, <2>3
  <2>5. Fold(f)
    BY <2>3, <2>4
  <2> HIDE DEF Fold
  <2> QED BY <2>5
<1>5. Fold(iter)
  <2> HIDE DEF Fold
  <2> QED BY <1>4
<1> HIDE DEF iter
<1>6. iter[{}] = r /\ \A m \in 1..n : iter[1..m] = op(iter[1..(m - 1)], m)
  <2>1. iter[{}] = r
    BY <1>5
  <2>2. ASSUME NEW m \in 1..n PROVE iter[1..m] = op(iter[1..(m - 1)], m)
    <3>1. /\ 1..m \in SUBSET (1..n) /\ 1..m # {} /\ Max(1..m) = m
          /\ (1..m) \ {m} = 1..(m - 1)
      BY <1>1, PrefixIs
    <3> QED BY <1>5, <3>1
  <2> QED BY <2>1, <2>2
<1> HIDE DEF Fold
<1>7. iter[1..n] \in S
  <2>1. iter[{}] \in S /\ \A m \in 1..n : iter[1..(m - 1)] \in S => iter[1..m] \in S
    BY <1>3, <1>6 DEF S
  <2> QED BY <1>1, <2>1, FoldIn
<1> QED BY <1>2, <1>7 DEF S

-----------------------------------------------------------------------------
(* Networks that grow.                                                     *)

\* The edges of a network and of one more node.
WithNode(ntk, N, es) == [n \in 0..N |-> IF n = N THEN es ELSE ntk.fanin[n]]

\* The network with these fields.
Net(n, pis, ints, pos, fanin) == [nNodes |-> n, pis |-> pis, ints |-> ints, pos |-> pos, fanin |-> fanin]

\* ntk with a node N more.
Grown(ntk, N, es, ints, pos) == Net(N + 1, ntk.pis, ints, pos, WithNode(ntk, N, es))

\* Three fields of a network are changed.
WithInts(ntk, a, b, f) == [ntk EXCEPT !.nNodes = a, !.ints = b, !.fanin = f]
WithPos(ntk, a, b, f) == [ntk EXCEPT !.nNodes = a, !.pos = b, !.fanin = f]

\* What a network becomes when three of its fields are changed.
LEMMA NetChanged ==
  ASSUME NEW n, NEW pis, NEW ints, NEW pos, NEW fanin, NEW a, NEW b, NEW f,
         NEW ntk, ntk = Net(n, pis, ints, pos, fanin)
  PROVE  /\ WithInts(ntk, a, b, f) = Net(a, pis, b, pos, f)
         /\ WithPos(ntk, a, b, f) = Net(a, pis, ints, b, f)
<1>1. [ntk EXCEPT !.nNodes = a, !.ints = b, !.fanin = f] = Net(a, pis, b, pos, f)
  <2>1. [ntk EXCEPT !.nNodes = a] = Net(a, pis, ints, pos, fanin)
    BY DEF Net
  <2>2. [Net(a, pis, ints, pos, fanin) EXCEPT !.ints = b] = Net(a, pis, b, pos, fanin)
    BY DEF Net
  <2>3. [Net(a, pis, b, pos, fanin) EXCEPT !.fanin = f] = Net(a, pis, b, pos, f)
    BY DEF Net
  <2>4. [ntk EXCEPT !.nNodes = a, !.ints = b, !.fanin = f]
          = [[[ntk EXCEPT !.nNodes = a] EXCEPT !.ints = b] EXCEPT !.fanin = f]
    OBVIOUS
  <2> QED BY <2>1, <2>2, <2>3, <2>4
<1>2. [ntk EXCEPT !.nNodes = a, !.pos = b, !.fanin = f] = Net(a, pis, ints, b, f)
  <2>1. [ntk EXCEPT !.nNodes = a] = Net(a, pis, ints, pos, fanin)
    BY DEF Net
  <2>2. [Net(a, pis, ints, pos, fanin) EXCEPT !.pos = b] = Net(a, pis, ints, b, fanin)
    BY DEF Net
  <2>3. [Net(a, pis, ints, b, fanin) EXCEPT !.fanin = f] = Net(a, pis, ints, b, f)
    BY DEF Net
  <2>4. [ntk EXCEPT !.nNodes = a, !.pos = b, !.fanin = f]
          = [[[ntk EXCEPT !.nNodes = a] EXCEPT !.pos = b] EXCEPT !.fanin = f]
    OBVIOUS
  <2> QED BY <2>1, <2>2, <2>3, <2>4
<1> QED BY <1>1, <1>2 DEF WithInts, WithPos

\* What the networks with three fields changed are.
LEMMA FieldsChanged ==
  ASSUME NEW k, NEW q, NEW N, NEW ntk \in Nets(k, q, N), NEW a, NEW b, NEW f
  PROVE  /\ WithInts(ntk, a, b, f) = Net(a, ntk.pis, b, ntk.pos, f)
         /\ WithPos(ntk, a, b, f) = Net(a, ntk.pis, ntk.ints, b, f)
<1>1. ntk = Net(ntk.nNodes, ntk.pis, ntk.ints, ntk.pos, ntk.fanin)
  BY DEF Nets, Net
<1> QED BY <1>1, NetChanged

\* t is a network made of ntk and a node N with the edges es.
Grows(k, q, N, ntk, es, t) ==
  /\ t \in Nets(k, q, N + 1)
  /\ \A n \in 0..(N - 1) : t.fanin[n] = ntk.fanin[n] /\ Fanins(t, n) = Fanins(ntk, n)
  /\ t.fanin[N] = es /\ Fanins(t, N) = Targets(es)

\* The lists that a network of a node more may have.
Lists(k, q, N) == [ints : Seq((k + 1)..N), pos : [1..q -> (k + 1)..N]]

\* A node is created, or an output: it has the number N.
LEMMA GrownIs ==
  ASSUME NEW k \in Nat, NEW q \in Nat, NEW N \in Nat, k < N, NEW ntk \in Wired(k, q, N),
         NEW es \in Seq(Edges(N)), NEW q2 \in Nat, NEW lists \in Lists(k, q2, N)
  PROVE  Grows(k, q2, N, ntk, es, Grown(ntk, N, es, lists.ints, lists.pos))
<1> DEFINE ints == lists.ints
           pos == lists.pos
<1>0. ints \in Seq((k + 1)..N) /\ pos \in [1..q2 -> (k + 1)..N]
  BY DEF Lists
<1> HIDE DEF ints, pos
<1> DEFINE t == Grown(ntk, N, es, ints, pos)
<1>1. /\ ntk.nNodes = N /\ ntk.pis = [i \in 1..k |-> i]
      /\ ntk.fanin \in [0..(N - 1) -> Seq(Edges(N))]
  BY NetFields DEF Wired
<1>2. \A n \in 0..N : n = N \/ n \in 0..(N - 1)
  OBVIOUS
<1>3. Edges(N) \subseteq Edges(N + 1)
  BY DEF Edges
<1>4. \A s \in Seq(Edges(N)) : s \in Seq(Edges(N + 1))
  BY <1>3
<1>5. WithNode(ntk, N, es) \in [0..N -> Seq(Edges(N + 1))]
  BY <1>1, <1>2, <1>4 DEF WithNode
<1>6. (N + 1) - 1 = N
  OBVIOUS
<1>7. t \in Nets(k, q2, N + 1)
  BY <1>0, <1>1, <1>5, <1>6 DEF Nets, Grown, Net
<1>8. t.fanin = WithNode(ntk, N, es) /\ t.ints = ints /\ t.pos = pos
  BY DEF Grown, Net
<1>9. \A n \in 0..(N - 1) : n \in 0..N /\ n # N
  OBVIOUS
<1>10. /\ \A n \in 0..(N - 1) : t.fanin[n] = ntk.fanin[n]
       /\ t.fanin[N] = es
  BY <1>8, <1>9 DEF WithNode
<1> QED BY <1>7, <1>8, <1>10 DEF Fanins, Targets, Grows, ints, pos

\* The nodes of ntk keep their fanins in t, and N has the edges es.
WithFanins(ntk, N, es, t) ==
  /\ \A n \in 0..(N - 1) : Fanins(t, n) = Fanins(ntk, n) /\ t.fanin[n] = ntk.fanin[n]
  /\ Fanins(t, N) = Targets(es)

\* t is ntk with a node N more, which has the edges es.
CreatedAs(k, q, N, ntk, es, t) ==
  /\ t \in Wired(k, q, N + 1) /\ t.ints = Append(ntk.ints, N)
  /\ ToSet(t.ints) = ToSet(ntk.ints) \cup {N}
  /\ Alive(t) = Alive(ntk) \cup {N}
  /\ Ordered(ntk) => Ordered(t)
  /\ WithFanins(ntk, N, es, t)

\* CreateNode adds a node with the edges given.
LEMMA CreatedNode ==
  ASSUME NEW k \in Nat, NEW q \in Nat, NEW N \in Nat, k < N, NEW ntk \in Wired(k, q, N),
         NEW es \in Seq(Edges(N)), Targets(es) \subseteq Alive(ntk)
  PROVE  CreatedAs(k, q, N, ntk, es, CreateNode(ntk, es))
<1> DEFINE t == CreateNode(ntk, es)
<1>1. ntk \in Nets(k, q, N)
  BY DEF Wired
<1>2. /\ ntk.nNodes = N /\ ntk.ints \in Seq((k + 1)..(N - 1)) /\ ntk.pos \in [1..q -> (k + 1)..(N - 1)]
  BY <1>1 DEF Nets
<1>3. t = Grown(ntk, N, es, Append(ntk.ints, N), ntk.pos)
  <2>2. t = [ntk EXCEPT !.nNodes = N + 1, !.ints = Append(ntk.ints, N), !.fanin = WithNode(ntk, N, es)]
    BY <1>2 DEF CreateNode, WithNode
  <2> DEFINE list == Append(ntk.ints, N)
             f == WithNode(ntk, N, es)
  <2>3. t = WithInts(ntk, N + 1, list, f)
    BY <2>2 DEF WithInts
  <2> HIDE DEF list, f
  <2>4. WithInts(ntk, N + 1, list, f) = Net(N + 1, ntk.pis, list, ntk.pos, f)
    BY <1>1, FieldsChanged
  <2> HIDE DEF t
  <2> QED BY <2>3, <2>4 DEF Grown, list, f
<1> HIDE DEF t
<1>5. ntk.pos \in [1..q -> (k + 1)..N] /\ ntk.ints \in Seq((k + 1)..N) /\ N \in (k + 1)..N
  <2>1. (k + 1)..(N - 1) \subseteq (k + 1)..N /\ N \in (k + 1)..N
    OBVIOUS
  <2>2. ntk.ints \in Seq((k + 1)..N)
    BY <1>2, <2>1
  <2>3. ntk.pos \in [1..q -> (k + 1)..N]
    BY <1>2, <2>1
  <2> QED BY <2>1, <2>2, <2>3
<1>6. Append(ntk.ints, N) \in Seq((k + 1)..N)
  BY <1>5
<1>7. /\ t \in Nets(k, q, N + 1) /\ t.ints = Append(ntk.ints, N)
      /\ \A n \in 0..(N - 1) : t.fanin[n] = ntk.fanin[n] /\ Fanins(t, n) = Fanins(ntk, n)
      /\ t.fanin[N] = es /\ Fanins(t, N) = Targets(es)
  <2> DEFINE list == Append(ntk.ints, N)
  <2> HIDE DEF list
  <2>1. t = Grown(ntk, N, es, list, ntk.pos)
    BY <1>3 DEF list
  <2>2. list \in Seq((k + 1)..N)
    BY <1>6 DEF list
  <2> DEFINE lists == [ints |-> list, pos |-> ntk.pos]
  <2>3. lists \in Lists(k, q, N) /\ lists.ints = list /\ lists.pos = ntk.pos
    BY <1>5, <2>2 DEF Lists
  <2> HIDE DEF lists
  <2>4. Grows(k, q, N, ntk, es, Grown(ntk, N, es, lists.ints, lists.pos))
    BY <2>3, GrownIs
  <2>5. Grows(k, q, N, ntk, es, t) /\ t.ints = list
    BY <2>1, <2>3, <2>4 DEF Grown, Net
  <2> QED BY <2>5 DEF list, Grows
<1>8. /\ ToSet(t.ints) = ToSet(ntk.ints) \cup {N}
      /\ \A x \in ToSet(ntk.ints) : IndexOf(t.ints, x) = IndexOf(ntk.ints, x)
      /\ N \notin ToSet(ntk.ints) => IndexOf(t.ints, N) = Len(ntk.ints) + 1
  <2>1. /\ ToSet(Append(ntk.ints, N)) = ToSet(ntk.ints) \cup {N}
        /\ \A x \in ToSet(ntk.ints) : IndexOf(Append(ntk.ints, N), x) = IndexOf(ntk.ints, x)
        /\ N \notin ToSet(ntk.ints) => IndexOf(Append(ntk.ints, N), N) = Len(ntk.ints) + 1
    <3> DEFINE s == ntk.ints
               X == (k + 1)..N
    <3>1. s \in Seq(X) /\ N \in X
      BY <1>5
    <3> HIDE DEF s, X
    <3>2. /\ ToSet(Append(s, N)) = ToSet(s) \cup {N}
          /\ \A x \in ToSet(s) : IndexOf(Append(s, N), x) = IndexOf(s, x)
          /\ N \notin ToSet(s) => IndexOf(Append(s, N), N) = Len(s) + 1
      BY <3>1, IndexAppend
    <3> QED BY <3>2 DEF s
  <2> QED BY <1>7, <2>1
<1>9. ToSet(ntk.ints) \subseteq (k + 1)..(N - 1)
  BY <1>1, NetIds
<1>10. \A n \in 0..((N + 1) - 1) : n = N \/ n \in 0..(N - 1)
  OBVIOUS
<1>11. \A n \in 0..(N - 1) : n \in 0..((N + 1) - 1) /\ n # N
  OBVIOUS
<1>12. N \in 0..((N + 1) - 1) /\ N \notin (k + 1)..(N - 1) /\ N \notin 0..(N - 1)
  OBVIOUS
<1>13. ASSUME NEW n PROVE n \in Alive(t) <=> n \in Alive(ntk) \cup {N}
  <2>1. n \in Alive(t) <=> n \in 0..((N + 1) - 1) /\ (t.fanin[n] = <<>> \/ n \in ToSet(t.ints))
    BY <1>7, AliveIs
  <2>2. n \in Alive(ntk) <=> n \in 0..(N - 1) /\ (ntk.fanin[n] = <<>> \/ n \in ToSet(ntk.ints))
    BY <1>1, AliveIs
  <2>3. CASE n = N
    BY <1>8, <1>12, <2>1, <2>3
  <2>4. CASE n # N
    BY <1>7, <1>8, <1>10, <1>11, <2>1, <2>2, <2>4
  <2> QED BY <2>3, <2>4
<1>14. Alive(t) = Alive(ntk) \cup {N}
  BY <1>13
<1>15. t \in Wired(k, q, N + 1)
  <2>1. \A n \in 0..k : t.fanin[n] = <<>>
    <3>1. \A n \in 0..k : n \in 0..(N - 1)
      OBVIOUS
    <3> QED BY <1>7, <3>1 DEF Wired
  <2>2. ASSUME NEW n \in 0..((N + 1) - 1) PROVE Fanins(t, n) \subseteq Alive(t)
    BY <1>7, <1>10, <1>14 DEF Wired
  <2> QED BY <1>7, <2>1, <2>2 DEF Wired
<1>16. ASSUME Ordered(ntk) PROVE Ordered(t)
  <2> SUFFICES ASSUME NEW n \in ToSet(t.ints), NEW m \in ToSet(t.ints), m \in Fanins(t, n)
               PROVE  IndexOf(t.ints, m) < IndexOf(t.ints, n)
    BY DEF Ordered
  <2>1. CASE n \in ToSet(ntk.ints)
    <3>1. n \in 0..(N - 1)
      BY <1>9, <2>1
    <3>2. m \in Fanins(ntk, n)
      BY <1>7, <3>1
    <3>3. m \in Alive(ntk)
      BY <3>1, <3>2 DEF Wired
    <3>4. m # N
      BY <1>1, <1>12, <3>3, AliveIs
    <3>5. m \in ToSet(ntk.ints)
      BY <1>8, <3>4
    <3> QED BY <1>8, <1>16, <2>1, <3>2, <3>5 DEF Ordered
  <2>2. CASE n = N
    <3>1. m \in Alive(ntk)
      BY <1>7, <2>2
    <3>2. m # N
      BY <1>1, <1>12, <3>1, AliveIs
    <3>3. m \in ToSet(ntk.ints)
      BY <1>8, <3>2
    <3>4. IndexOf(t.ints, m) = IndexOf(ntk.ints, m) /\ IndexOf(t.ints, n) = Len(ntk.ints) + 1
      BY <1>8, <1>9, <1>12, <2>2, <3>3
    <3>5. IndexOf(ntk.ints, m) \in 0..Len(ntk.ints) /\ Len(ntk.ints) \in Nat
      BY <1>2, IndexIs
    <3> QED BY <3>4, <3>5
  <2> QED BY <1>8, <2>1, <2>2
<1>17. WithFanins(ntk, N, es, t)
  BY <1>7 DEF WithFanins
<1>18. CreatedAs(k, q, N, ntk, es, t)
  BY <1>7, <1>8, <1>14, <1>15, <1>16, <1>17 DEF CreatedAs
<1> QED BY <1>18 DEF t

\* A node created with edges to nodes that are alive: the network stays in order.
LEMMA NodeCreated ==
  ASSUME NEW k \in Nat, NEW q \in Nat, NEW N \in Nat, k < N, NEW ntk \in Wired(k, q, N),
         NEW es \in Seq(Edges(N)), Targets(es) \subseteq Alive(ntk)
  PROVE  LET t == CreateNode(ntk, es)
         IN  /\ t \in Wired(k, q, N + 1)
             /\ Alive(t) = Alive(ntk) \cup {N}
             /\ Ordered(ntk) => Ordered(t)
BY CreatedNode DEF CreatedAs

\* An output is added.
LEMMA OutputAdded ==
  ASSUME NEW k \in Nat, NEW q \in Nat, NEW N \in Nat, k < N, NEW ntk \in Wired(k, q, N),
         NEW edge \in Edges(N), Node(edge) \in Alive(ntk)
  PROVE  LET t == AddPo(ntk, edge)
         IN  /\ t \in Wired(k, q + 1, N + 1) /\ t.ints = ntk.ints
             /\ Alive(ntk) \subseteq Alive(t)
             /\ Ordered(ntk) => Ordered(t)
<1> DEFINE t == AddPo(ntk, edge)
           es == <<edge>>
           pos == Append(ntk.pos, N)
<1>1. ntk \in Nets(k, q, N)
  BY DEF Wired
<1>2. /\ ntk.nNodes = N /\ ntk.ints \in Seq((k + 1)..(N - 1)) /\ ntk.pos \in [1..q -> (k + 1)..(N - 1)]
  BY <1>1 DEF Nets
<1>3. t = Grown(ntk, N, es, ntk.ints, pos)
  <2>2. t = [ntk EXCEPT !.nNodes = N + 1, !.pos = pos, !.fanin = WithNode(ntk, N, es)]
    BY <1>2 DEF AddPo, WithNode
  <2> DEFINE f == WithNode(ntk, N, es)
  <2>3. t = WithPos(ntk, N + 1, pos, f)
    BY <2>2 DEF WithPos
  <2> HIDE DEF pos, f
  <2>4. WithPos(ntk, N + 1, pos, f) = Net(N + 1, ntk.pis, ntk.ints, pos, f)
    BY <1>1, FieldsChanged
  <2> HIDE DEF t, es, pos
  <2> QED BY <2>3, <2>4 DEF Grown, f
<1>4. es \in Seq(Edges(N)) /\ Targets(es) = {Node(edge)}
  BY DEF Targets, ToSet
<1>5. pos \in [1..(q + 1) -> (k + 1)..N] /\ ntk.ints \in Seq((k + 1)..N)
  <2>1. (k + 1)..(N - 1) \subseteq (k + 1)..N /\ N \in (k + 1)..N
    OBVIOUS
  <2>2. ntk.ints \in Seq((k + 1)..N)
    BY <1>2, <2>1
  <2>3. ntk.pos \in Seq((k + 1)..(N - 1)) /\ Len(ntk.pos) = q
    BY <1>1, NetOutputs
  <2>4. ntk.pos \in Seq((k + 1)..N)
    BY <2>1, <2>3
  <2>5. pos \in Seq((k + 1)..N) /\ Len(pos) = q + 1
    BY <2>1, <2>3, <2>4
  <2> HIDE DEF pos
  <2> QED BY <2>2, <2>5
<1> HIDE DEF t, es, pos
<1>6. q + 1 \in Nat
  OBVIOUS
<1>7. /\ t \in Nets(k, q + 1, N + 1) /\ t.ints = ntk.ints
      /\ \A n \in 0..(N - 1) : t.fanin[n] = ntk.fanin[n] /\ Fanins(t, n) = Fanins(ntk, n)
      /\ t.fanin[N] = es /\ Fanins(t, N) = Targets(es)
  <2> DEFINE lists == [ints |-> ntk.ints, pos |-> pos]
  <2>3. lists \in Lists(k, q + 1, N) /\ lists.ints = ntk.ints /\ lists.pos = pos
    BY <1>5 DEF Lists
  <2> HIDE DEF lists
  <2>4. Grows(k, q + 1, N, ntk, es, Grown(ntk, N, es, lists.ints, lists.pos))
    BY <1>4, <1>6, <2>3, GrownIs
  <2>5. Grows(k, q + 1, N, ntk, es, t) /\ t.ints = ntk.ints
    BY <1>3, <2>3, <2>4 DEF Grown, Net
  <2> QED BY <2>5 DEF Grows
<1>8. ToSet(ntk.ints) \subseteq (k + 1)..(N - 1)
  BY <1>1, NetIds
<1>9. /\ \A n \in 0..((N + 1) - 1) : n = N \/ n \in 0..(N - 1)
      /\ \A n \in 0..(N - 1) : n \in 0..((N + 1) - 1)
      /\ \A n \in (k + 1)..(N - 1) : n \in 0..(N - 1)
      /\ \A n \in 0..k : n \in 0..(N - 1)
  OBVIOUS
<1>10. ASSUME NEW n \in Alive(ntk) PROVE n \in Alive(t)
  BY <1>1, <1>7, <1>9, AliveIs
<1>11. t \in Wired(k, q + 1, N + 1)
  <2>1. \A n \in 0..k : t.fanin[n] = <<>>
    BY <1>7, <1>9 DEF Wired
  <2>2. ASSUME NEW n \in 0..((N + 1) - 1) PROVE Fanins(t, n) \subseteq Alive(t)
    BY <1>4, <1>7, <1>9, <1>10 DEF Wired
  <2> QED BY <1>7, <2>1, <2>2 DEF Wired
<1>12. Ordered(ntk) => Ordered(t)
  BY <1>7, <1>8, <1>9 DEF Ordered
<1> QED BY <1>7, <1>10, <1>11, <1>12 DEF t

-----------------------------------------------------------------------------
(* Graft.                                                                  *)

\* Networks of any number of nodes, in order.
Networks(k, q) == UNION {Sound(k, q, N) : N \in {n \in Nat : k < n}}

\* Functions from numbers to edges.
EdgeMaps == UNION {[D -> Nat \X BOOLEAN] : D \in SUBSET Nat}

\* A map from the nodes of a window to edges of the network.
MapsInto(m, A) == m \in EdgeMaps /\ \A x \in DOMAIN m : m[x] \in A \X BOOLEAN

\* Such a network has some number of nodes.
LEMMA InNetworks ==
  ASSUME NEW k \in Nat, NEW q \in Nat, NEW ntk \in Networks(k, q)
  PROVE  \E N \in Nat : k < N /\ ntk \in Sound(k, q, N)
BY DEF Networks

\* And with any number of nodes it is one.
LEMMA NetworksHave ==
  ASSUME NEW k \in Nat, NEW q \in Nat, NEW N \in Nat, k < N, NEW ntk \in Sound(k, q, N)
  PROVE  ntk \in Networks(k, q)
BY DEF Networks

\* The constant is alive.
LEMMA ZeroAlive ==
  ASSUME NEW k \in Nat, NEW q \in Nat, NEW N \in Nat, k < N, NEW ntk \in Wired(k, q, N)
  PROVE  /\ 0 \in Alive(ntk) /\ \A n \in 1..k : n \in Alive(ntk)
         /\ \A n \in ToSet(ntk.ints) : n \in Alive(ntk)
         /\ Alive(ntk) \subseteq 0..(N - 1)
<1>1. ntk \in Nets(k, q, N) /\ \A n \in 0..k : ntk.fanin[n] = <<>> /\ n \in 0..(N - 1)
  BY DEF Wired
<1>2. ToSet(ntk.ints) \subseteq (k + 1)..(N - 1)
  BY <1>1, NetIds
<1>3. \A n \in (k + 1)..(N - 1) : n \in 0..(N - 1)
  OBVIOUS
<1>4. 0 \in 0..k /\ \A n \in 1..k : n \in 0..k
  OBVIOUS
<1> QED BY <1>1, <1>2, <1>3, <1>4, AliveIs

\* An edge of a window becomes an edge to a node that is alive.
LEMMA ViaIn ==
  ASSUME NEW A, 0 \in A, NEW m, MapsInto(m, A), NEW e
  PROVE  Via(m, e) \in A \X BOOLEAN
<1>1. LookUpEdge(m, Node(e)) \in A \X BOOLEAN
  BY DEF LookUpEdge, MapsInto, Const0
<1>2. Node(LookUpEdge(m, Node(e))) \in A
  BY <1>1 DEF Node
<1> QED BY <1>2 DEF Via, Xor

\* The edges of a node of a window.
EdgesVia(m, es) == [i \in DOMAIN es |-> Via(m, es[i])]

\* All of them are edges to nodes that are alive.
LEMMA ViaAll ==
  ASSUME NEW N \in Nat, NEW A, A \subseteq 0..(N - 1), 0 \in A, NEW m, MapsInto(m, A),
         NEW X, NEW es \in Seq(X)
  PROVE  EdgesVia(m, es) \in Seq(Edges(N)) /\ Targets(EdgesVia(m, es)) \subseteq A
<1> DEFINE t == EdgesVia(m, es)
<1>1. DOMAIN es = 1..Len(es) /\ Len(es) \in Nat
  OBVIOUS
<1>2. \A i \in DOMAIN es : Via(m, es[i]) \in A \X BOOLEAN
  BY ViaIn
<1>3. t \in [1..Len(es) -> A \X BOOLEAN]
  BY <1>1, <1>2 DEF EdgesVia
<1>4. t \in Seq(A \X BOOLEAN)
  BY <1>1, <1>3, SeqDef
<1> HIDE DEF t
<1>5. A \X BOOLEAN \subseteq Edges(N)
  BY DEF Edges
<1>6. t \in Seq(Edges(N))
  BY <1>4, <1>5
<1>7. ToSet(t) \subseteq A \X BOOLEAN
  BY <1>4, SeqIn
<1> QED BY <1>6, <1>7 DEF Targets, Node, t

\* The states of Graft.
Grafting(k, q) ==
  {acc \in [ntk : Networks(k, q), m : EdgeMaps, found : BOOLEAN] : MapsInto(acc.m, Alive(acc.ntk))}

\* What Graft makes of a node of the window.
CopyOf(sub, acc, id) ==
  [ntk |-> CreateNode(acc.ntk, [k \in DOMAIN sub.fanin[id] |-> Via(acc.m, sub.fanin[id][k])]),
   m |-> [n \in DOMAIN acc.m \cup {id} |-> IF n = id THEN <<acc.ntk.nNodes, FALSE>> ELSE acc.m[n]],
   found |-> acc.found /\ Fanins(sub, id) \subseteq DOMAIN acc.m]

\* A node of the window is copied into the network.
LEMMA CopiedIn ==
  ASSUME NEW k \in Nat, NEW q \in Nat, NEW acc \in Grafting(k, q), NEW sub, NEW id \in Nat,
         NEW X, sub.fanin[id] \in Seq(X)
  PROVE  CopyOf(sub, acc, id) \in Grafting(k, q)
<1> DEFINE ntk == acc.ntk
           m == acc.m
           es == EdgesVia(m, sub.fanin[id])
           t == CreateNode(ntk, es)
           m2 == [n \in DOMAIN m \cup {id} |-> IF n = id THEN <<ntk.nNodes, FALSE>> ELSE m[n]]
           found == acc.found /\ Fanins(sub, id) \subseteq DOMAIN m
<1>1. ntk \in Networks(k, q) /\ acc.found \in BOOLEAN /\ MapsInto(m, Alive(ntk))
  BY DEF Grafting
<1>2. CopyOf(sub, acc, id) = [ntk |-> t, m |-> m2, found |-> found]
  BY DEF CopyOf, EdgesVia
<1>3. found \in BOOLEAN
  OBVIOUS
<1> HIDE DEF ntk, m, found
<1>4. PICK N \in Nat : k < N /\ ntk \in Sound(k, q, N)
  BY <1>1, InNetworks
<1>5. ntk \in Wired(k, q, N) /\ Ordered(ntk) /\ ntk.nNodes = N
  BY <1>4 DEF Sound, Wired, Nets
<1>6. 0 \in Alive(ntk) /\ Alive(ntk) \subseteq 0..(N - 1)
  BY <1>4, <1>5, ZeroAlive
<1>7. es \in Seq(Edges(N)) /\ Targets(es) \subseteq Alive(ntk)
  BY <1>1, <1>6, ViaAll
<1> HIDE DEF es
<1>8. t \in Wired(k, q, N + 1) /\ Alive(t) = Alive(ntk) \cup {N} /\ Ordered(t)
  BY <1>4, <1>5, <1>7, NodeCreated
<1> HIDE DEF t
<1>9. t \in Networks(k, q)
  <2>1. t \in Sound(k, q, N + 1) /\ N + 1 \in Nat /\ k < N + 1
    BY <1>4, <1>8 DEF Sound
  <2> QED BY <2>1, NetworksHave
<1>10. MapsInto(m2, Alive(t))
  <2>1. \A x \in DOMAIN m2 : m2[x] \in Alive(t) \X BOOLEAN
    BY <1>1, <1>5, <1>8 DEF MapsInto
  <2>2. DOMAIN m2 \in SUBSET Nat
    BY <1>1 DEF MapsInto, EdgeMaps
  <2>3. m2 = [x \in DOMAIN m2 |-> m2[x]]
    OBVIOUS
  <2>4. Alive(t) \subseteq Nat
    BY <1>6, <1>8
  <2> HIDE DEF m2
  <2>5. m2 \in [DOMAIN m2 -> Nat \X BOOLEAN]
    BY <2>1, <2>3, <2>4
  <2> QED BY <2>1, <2>2, <2>5 DEF MapsInto, EdgeMaps
<1> HIDE DEF m2
<1>11. m2 \in EdgeMaps
  BY <1>10 DEF MapsInto
<1>12. [ntk |-> t, m |-> m2, found |-> found] \in Grafting(k, q)
  BY <1>3, <1>9, <1>10, <1>11 DEF Grafting
<1> QED BY <1>2, <1>12

\* Where Graft starts.
GraftStart(ntk, vInputs, vCompls) ==
  [ntk |-> ntk,
   m |-> [n \in 0..Len(vInputs) |->
            IF n = Const0 THEN <<Const0, FALSE>> ELSE <<vInputs[n], vCompls[n]>>],
   found |-> TRUE]

\* And what it makes of all nodes of the window.
AllCopied(sub, start) == FoldLeft(LAMBDA acc, id : CopyOf(sub, acc, id), start, sub.ints)

\* All nodes of the window are.
LEMMA AllCopiedIn ==
  ASSUME NEW k \in Nat, NEW q \in Nat, NEW start \in Grafting(k, q),
         NEW k2 \in Nat, NEW q2 \in Nat, NEW N2 \in Nat, k2 < N2, NEW sub \in Nets(k2, q2, N2)
  PROVE  AllCopied(sub, start) \in Grafting(k, q)
<1> DEFINE S == Grafting(k, q)
<1> DEFINE seq == sub.ints
           n == Len(seq)
           op(x, i) == CopyOf(sub, x, seq[i])
           Fold(f) == f = [s \in SUBSET (1..n) |-> IF s = {} THEN start ELSE op(f[s \ {Max(s)}], Max(s))]
           iter == CHOOSE f : Fold(f)
<1>a. seq \in Seq((k2 + 1)..(N2 - 1))
  BY NetFields
<1>1. n \in Nat
  BY <1>a
<1>b. DOMAIN seq = 1..n /\ \A i \in 1..n : seq[i] \in 0..(N2 - 1)
  <2> DEFINE X == (k2 + 1)..(N2 - 1)
  <2>1. seq \in Seq(X)
    BY <1>a
  <2>2. X \subseteq 0..(N2 - 1)
    OBVIOUS
  <2> HIDE DEF X, seq
  <2>3. DOMAIN seq = 1..n /\ \A i \in 1..n : seq[i] \in X
    BY <2>1
  <2> QED BY <2>2, <2>3
<1>2. AllCopied(sub, start) = iter[1..n]
  <2> HIDE DEF seq
  <2> QED BY <1>b DEF AllCopied, FoldLeft, MapThenFoldSet, seq
<1> HIDE DEF seq, n
<1>3. ASSUME NEW x \in S, NEW i \in 1..n PROVE op(x, i) \in S
  <2>1. seq[i] \in 0..(N2 - 1) /\ seq[i] \in Nat
    BY <1>b
  <2>2. sub.fanin[seq[i]] \in Seq(Edges(N2))
    BY <2>1 DEF Nets
  <2> QED BY <2>1, <2>2, CopiedIn
<1> HIDE DEF S
<1> HIDE DEF n, op
<1>4. \E f : Fold(f)
  <2> DEFINE g == [p \in S \X (1..n) |-> op(p[1], p[2])]
  <2>1. \A x \in S, i \in 1..n : g[<<x, i>>] = op(x, i) /\ g[<<x, i>>] \in S
    BY <1>3
  <2> HIDE DEF g
  <2>2. start \in S
    BY DEF S
  <2>3. PICK f : /\ f = [s \in SUBSET (1..n) |-> IF s = {} THEN start ELSE g[<<f[s \ {Max(s)}], Max(s)>>]]
                 /\ \A s \in SUBSET (1..n) : s # {} => f[s \ {Max(s)}] \in S /\ Max(s) \in 1..n
    BY <1>1, <2>1, <2>2, FoldExists
  <2>4. \A s \in SUBSET (1..n) : f[s] = IF s = {} THEN start ELSE op(f[s \ {Max(s)}], Max(s))
    BY <2>1, <2>3
  <2>5. Fold(f)
    BY <2>3, <2>4
  <2> HIDE DEF Fold
  <2> QED BY <2>5
<1>5. Fold(iter)
  <2> HIDE DEF Fold
  <2> QED BY <1>4
<1> HIDE DEF iter
<1>6. iter[{}] = start /\ \A m \in 1..n : iter[1..m] = op(iter[1..(m - 1)], m)
  <2>1. iter[{}] = start
    BY <1>5
  <2>2. ASSUME NEW m \in 1..n PROVE iter[1..m] = op(iter[1..(m - 1)], m)
    <3>1. /\ 1..m \in SUBSET (1..n) /\ 1..m # {} /\ Max(1..m) = m
          /\ (1..m) \ {m} = 1..(m - 1)
      BY <1>1, PrefixIs
    <3> QED BY <1>5, <3>1
  <2> QED BY <2>1, <2>2
<1> HIDE DEF Fold
<1>7. iter[1..n] \in S
  <2>1. iter[{}] \in S /\ \A m \in 1..n : iter[1..(m - 1)] \in S => iter[1..m] \in S
    BY <1>3, <1>6 DEF S
  <2> QED BY <1>1, <2>1, FoldIn
<1> QED BY <1>2, <1>7 DEF S

\* Graft starts with the inputs of the window.
LEMMA StartIn ==
  ASSUME NEW k \in Nat, NEW q \in Nat, NEW ntk \in Networks(k, q),
         NEW vInputs, NEW vCompls, Len(vInputs) \in Nat,
         \A i \in 1..Len(vInputs) : vInputs[i] \in Alive(ntk) /\ vCompls[i] \in BOOLEAN
  PROVE  GraftStart(ntk, vInputs, vCompls) \in Grafting(k, q)
<1> DEFINE m == [n \in 0..Len(vInputs) |->
                   IF n = Const0 THEN <<Const0, FALSE>> ELSE <<vInputs[n], vCompls[n]>>]
<1>1. PICK N \in Nat : k < N /\ ntk \in Sound(k, q, N)
  BY InNetworks
<1>2. 0 \in Alive(ntk) /\ Alive(ntk) \subseteq 0..(N - 1)
  BY <1>1, ZeroAlive DEF Sound
<1>3. \A n \in 0..Len(vInputs) : n = 0 \/ n \in 1..Len(vInputs)
  OBVIOUS
<1>4. ASSUME NEW n \in DOMAIN m PROVE m[n] \in Alive(ntk) \X BOOLEAN
  <2>1. CASE n = 0
    BY <1>2, <2>1 DEF Const0
  <2>2. CASE n # 0
    <3>1. n \in 1..Len(vInputs)
      BY <1>3, <2>2
    <3>2. m[n] = <<vInputs[n], vCompls[n]>>
      BY <2>2 DEF Const0
    <3> QED BY <3>1, <3>2
  <2> QED BY <2>1, <2>2
<1>5. DOMAIN m \in SUBSET Nat /\ m = [n \in DOMAIN m |-> m[n]]
  OBVIOUS
<1> HIDE DEF m
<1>6. Alive(ntk) \X BOOLEAN \subseteq Nat \X BOOLEAN
  BY <1>2
<1>7. m \in [DOMAIN m -> Nat \X BOOLEAN]
  BY <1>4, <1>5, <1>6
<1>8. MapsInto(m, Alive(ntk))
  BY <1>4, <1>5, <1>7 DEF MapsInto, EdgeMaps
<1>9. m \in EdgeMaps
  BY <1>8 DEF MapsInto
<1>10. GraftStart(ntk, vInputs, vCompls) = [ntk |-> ntk, m |-> m, found |-> TRUE]
  BY DEF GraftStart, m
<1>11. [ntk |-> ntk, m |-> m, found |-> TRUE] \in Grafting(k, q)
  BY <1>8, <1>9 DEF Grafting
<1> QED BY <1>10, <1>11

\* Graft leaves a network in order, with an edge for each output.
Fit(vInputs, vCompls, A) == \A i \in 1..Len(vInputs) : vInputs[i] \in A /\ vCompls[i] \in BOOLEAN

GraftSound(k, q, q2, g) ==
  /\ g.ntk \in Networks(k, q) /\ g.found \in BOOLEAN
  /\ \A i \in 1..q2 : g.signals[i] \in Alive(g.ntk) \X BOOLEAN

\* Graft, with its inputs alive.
LEMMA GraftedIn ==
  ASSUME NEW k \in Nat, NEW q \in Nat, NEW ntk \in Networks(k, q),
         NEW k2 \in Nat, NEW q2 \in Nat, NEW N2 \in Nat, k2 < N2, NEW sub \in Nets(k2, q2, N2),
         NEW vInputs, NEW vCompls, Len(vInputs) \in Nat,
         Fit(vInputs, vCompls, Alive(ntk))
  PROVE  GraftSound(k, q, q2, Graft(ntk, sub, vInputs, vCompls))
<1> DEFINE g == Graft(ntk, sub, vInputs, vCompls)
           copied == AllCopied(sub, GraftStart(ntk, vInputs, vCompls))
           start == GraftStart(ntk, vInputs, vCompls)
<1>1. start \in Grafting(k, q)
  BY StartIn DEF Fit
<1>2. copied \in Grafting(k, q)
  <2> HIDE DEF start
  <2>1. AllCopied(sub, start) \in Grafting(k, q)
    BY <1>1, AllCopiedIn
  <2> QED BY <2>1 DEF start
<1>3. g = [ntk |-> copied.ntk, found |-> copied.found,
           signals |-> [i \in DOMAIN sub.pos |-> Via(copied.m, sub.fanin[sub.pos[i]][1])]]
  BY DEF Graft, AllCopied, GraftStart, CopyOf
<1> HIDE DEF g, copied, start
<1>4. copied.ntk \in Networks(k, q) /\ copied.found \in BOOLEAN /\ MapsInto(copied.m, Alive(copied.ntk))
  BY <1>2 DEF Grafting
<1>5. 0 \in Alive(copied.ntk)
  <2>1. PICK N \in Nat : k < N /\ copied.ntk \in Sound(k, q, N)
    BY <1>4, InNetworks
  <2> QED BY <2>1, ZeroAlive DEF Sound
<1>6. \A e : Via(copied.m, e) \in Alive(copied.ntk) \X BOOLEAN
  BY <1>4, <1>5, ViaIn
<1>7. DOMAIN sub.pos = 1..q2
  BY DEF Nets
<1> QED BY <1>3, <1>4, <1>6, <1>7 DEF g, GraftSound

\* What the outputs replaced leave.
ReplacedAll(graft, vOutputs) ==
  AllReplaced(vOutputs, graft.signals, [ntk |-> graft.ntk, end |-> IF graft.found THEN "ok" ELSE "map"])

\* Insert leaves a network in order, unless the program stops.
LEMMA OutputsPutBack ==
  ASSUME NEW k \in Nat, NEW q \in Nat, NEW graft, graft.ntk \in Networks(k, q), graft.found \in BOOLEAN,
         NEW X, NEW vOutputs \in Seq(X),
         \A i \in 1..Len(vOutputs) : graft.signals[i] \in Alive(graft.ntk) \X BOOLEAN
  PROVE  LET r == FoldLeft(DropOutput, ReplacedAll(graft, vOutputs), vOutputs)
         IN  r.end \in Ends /\ (r.end = "ok" => r.ntk \in Networks(k, q))
<1> DEFINE base == graft.ntk
           B == ToSet(base.ints)
           ord == ToSet(vOutputs) \subseteq B
           signals == graft.signals
           end0 == IF graft.found THEN "ok" ELSE "map"
           r0 == [ntk |-> base, end |-> end0]
           replaced == ReplacedAll(graft, vOutputs)
           r == FoldLeft(DropOutput, replaced, vOutputs)
<1>1. PICK N \in Nat : k < N /\ base \in Sound(k, q, N)
  BY InNetworks
<1>2. base \in Wired(k, q, N) /\ Ordered(base)
  BY <1>1 DEF Sound
<1>3. \A i \in 1..Len(vOutputs) : Node(signals[i]) \in Alive(base)
  BY DEF Node
<1>4. end0 \in Ends
  BY DEF Ends
<1>5. replaced = AllReplaced(vOutputs, signals, r0)
  BY DEF ReplacedAll
<1>6. ord => ToSet(vOutputs) \subseteq ToSet(base.ints)
  OBVIOUS
<1>7. ToSet(base.ints) = B
  OBVIOUS
<1>a. ord <=> ToSet(vOutputs) \subseteq B
  OBVIOUS
<1> HIDE DEF base, B, signals, end0, replaced, ord
<1>8. r0 \in Replacing(k, q, N, ord, base)
  BY <1>2, <1>4 DEF Replacing, Kept
<1> HIDE DEF r0
<1>9. AllReplaced(vOutputs, signals, r0)
        \in Replacing(k, q, N, ord, base)
  BY <1>1, <1>2, <1>3, <1>6, <1>8, OutputsReplaced
<1>10. replaced \in Dropping(k, q, N, ord, B)
  BY <1>5, <1>7, <1>9 DEF Replacing, Dropping
<1>11. r \in Dropping(k, q, N, ord, B) /\ (r.end = "ok" => ToSet(vOutputs) \subseteq B)
  BY <1>1, <1>10, OutputsDropped
<1> HIDE DEF r
<1>12. r.end \in Ends /\ r.ntk \in Wired(k, q, N) /\ (ord => Ordered(r.ntk))
  BY <1>11 DEF Dropping, Kept
<1>13. ASSUME r.end = "ok" PROVE r.ntk \in Networks(k, q)
  <2>1. r.ntk \in Sound(k, q, N)
    BY <1>a, <1>11, <1>12, <1>13 DEF Sound
  <2> QED BY <1>1, <2>1, NetworksHave
<1> QED BY <1>12, <1>13 DEF r, replaced

\* Insert puts a window of any shape back: the network is in order, or the program stops.
LEMMA InsertIn ==
  ASSUME NEW k \in Nat, NEW q \in Nat, NEW ntk \in Networks(k, q),
         NEW k2 \in Nat, NEW q2 \in Nat, NEW N2 \in Nat, k2 < N2, NEW sub \in Nets(k2, q2, N2),
         NEW vInputs, NEW vCompls, Len(vInputs) \in Nat, DOMAIN vInputs = 1..Len(vInputs),
         \A i \in 1..Len(vInputs) : vCompls[i] \in BOOLEAN,
         NEW X, NEW vOutputs \in Seq(X), Len(vOutputs) = q2
  PROVE  LET r == Insert(ntk, sub, vInputs, vCompls, vOutputs)
         IN  /\ r.end \in Ends
             /\ r.end = "ok" => /\ r.ntk \in Networks(k, q)
                                /\ \A i \in 1..q2 : Node(r.signals[i]) \in Nat
<1> DEFINE graft == Graft(ntk, sub, vInputs, vCompls)
           dead == \E n \in ToSet(vInputs) : ~IsInt(ntk, n) /\ ~IsPi(ntk, n)
           last == FoldLeft(DropOutput, ReplacedAll(graft, vOutputs), vOutputs)
           r == Insert(ntk, sub, vInputs, vCompls, vOutputs)
<1>1. r = IF dead THEN [ntk |-> ntk, end |-> "input", signals |-> <<>>]
          ELSE [ntk |-> last.ntk, end |-> last.end, signals |-> graft.signals]
  BY DEF Insert, ReplacedAll, AllReplaced
<1> HIDE DEF r
<1>2. ASSUME ~dead, NEW i \in 1..Len(vInputs) PROVE vInputs[i] \in Alive(ntk)
  <2>1. PICK N \in Nat : k < N /\ ntk \in Sound(k, q, N)
    BY InNetworks
  <2>2. ntk \in Wired(k, q, N) /\ ntk \in Nets(k, q, N)
    BY <2>1 DEF Sound, Wired
  <2>3. vInputs[i] \in ToSet(vInputs)
    BY DEF ToSet
  <2>4. IsInt(ntk, vInputs[i]) \/ IsPi(ntk, vInputs[i])
    BY <1>2, <2>3
  <2> DEFINE x == vInputs[i]
  <2> HIDE DEF x
  <2>5. x \in ToSet(ntk.ints) \/ x \in 1..k
    BY <2>2, <2>4, NetKinds DEF x
  <2>6. x \in Alive(ntk)
    BY <2>1, <2>2, <2>5, ZeroAlive
  <2> QED BY <2>6 DEF x
<1>3. ASSUME ~dead
      PROVE  /\ graft.ntk \in Networks(k, q) /\ graft.found \in BOOLEAN
             /\ \A i \in 1..q2 : graft.signals[i] \in Alive(graft.ntk) \X BOOLEAN
  <2>1. Fit(vInputs, vCompls, Alive(ntk))
    BY <1>2, <1>3 DEF Fit
  <2>2. GraftSound(k, q, q2, Graft(ntk, sub, vInputs, vCompls))
    BY <2>1, GraftedIn
  <2> QED BY <2>2 DEF GraftSound, graft
<1> HIDE DEF dead, graft
<1>4. ASSUME ~dead PROVE last.end \in Ends /\ (last.end = "ok" => last.ntk \in Networks(k, q))
  BY <1>3, <1>4, OutputsPutBack
<1> HIDE DEF last
<1>5. ASSUME ~dead PROVE \A i \in 1..q2 : Node(graft.signals[i]) \in Nat
  <2>1. PICK N \in Nat : k < N /\ graft.ntk \in Sound(k, q, N)
    BY <1>3, <1>5, InNetworks
  <2>2. Alive(graft.ntk) \subseteq Nat
    BY <2>1, ZeroAlive DEF Sound
  <2> QED BY <1>3, <1>5, <2>2 DEF Node
<1> QED BY <1>1, <1>4, <1>5 DEF Ends, r

-----------------------------------------------------------------------------
(* Reading an AIG.                                                         *)

\* A network of inputs only.
LEMMA WithPisIs ==
  ASSUME NEW k \in Nat
  PROVE  WithPis(k) \in Sound(k, 0, k + 1) /\ Alive(WithPis(k)) = 0..k
<1> DEFINE t == WithPis(k)
<1>1. /\ t.nNodes = k + 1 /\ t.pis = [i \in 1..k |-> i] /\ t.ints = <<>> /\ t.pos = <<>>
      /\ t.fanin = [n \in 0..k |-> <<>>] /\ \A n \in 0..k : t.fanin[n] = <<>>
      /\ t = [nNodes |-> t.nNodes, pis |-> t.pis, ints |-> t.ints, pos |-> t.pos, fanin |-> t.fanin]
  BY DEF WithPis
<1>2. (k + 1) - 1 = k /\ 1..0 = {}
  OBVIOUS
<1>3. ToSet(<<>>) = {}
  BY DEF ToSet
<1>4. t.fanin \in [0..k -> Seq(Edges(k + 1))]
  <2>1. <<>> \in Seq(Edges(k + 1))
    OBVIOUS
  <2> HIDE DEF t
  <2> QED BY <1>1, <2>1
<1>5. t.pos \in [1..0 -> (k + 1)..k] /\ t.ints \in Seq((k + 1)..k)
  <2>1. <<>> \in [1..0 -> (k + 1)..k]
    BY <1>2
  <2>2. <<>> \in Seq((k + 1)..k)
    OBVIOUS
  <2> HIDE DEF t
  <2> QED BY <1>1, <2>1, <2>2
<1> HIDE DEF t
<1>6. t \in Nets(k, 0, k + 1)
  BY <1>1, <1>2, <1>4, <1>5 DEF Nets
<1>7. Alive(t) = 0..k
  BY <1>1, <1>2 DEF Alive
<1>8. \A n \in 0..k : Fanins(t, n) = {}
  BY <1>1, <1>3 DEF Fanins
<1>9. t \in Wired(k, 0, k + 1)
  BY <1>1, <1>2, <1>6, <1>8 DEF Wired
<1>10. Ordered(t)
  BY <1>1, <1>3 DEF Ordered
<1> QED BY <1>7, <1>9, <1>10 DEF Sound, t

\* Networks whose edges may point anywhere.
Loose(p) ==
  {r \in [nNodes : Nat, pis : {p}, ints : Seq(Nat), pos : Seq(Nat),
          fanin : UNION {[D -> Seq(Nat \X BOOLEAN)] : D \in SUBSET Nat}] :
     DOMAIN r.fanin = 0..(r.nNodes - 1)}

\* A network in order is one of them.
LEMMA SoundIsLoose ==
  ASSUME NEW k \in Nat, NEW q \in Nat, NEW N \in Nat, k < N, NEW ntk \in Nets(k, q, N)
  PROVE  ntk \in Loose([i \in 1..k |-> i])
<1>1. (k + 1)..(N - 1) \subseteq Nat /\ 0..(N - 1) \in SUBSET Nat /\ Edges(N) \subseteq Nat \X BOOLEAN
  BY DEF Edges
<1>a. \A s \in Seq((k + 1)..(N - 1)) : s \in Seq(Nat)
  BY <1>1
<1>2. ntk.ints \in Seq(Nat)
  BY <1>a DEF Nets
<1>3. ntk.pos \in Seq(Nat)
  <2>1. ntk.pos \in Seq((k + 1)..(N - 1))
    BY NetOutputs
  <2> QED BY <1>a, <2>1
<1>4. ntk.fanin \in [0..(N - 1) -> Seq(Edges(N))]
  BY NetFields
<1>5. \A s \in Seq(Edges(N)) : s \in Seq(Nat \X BOOLEAN)
  BY <1>1
<1>6. ntk.fanin \in [0..(N - 1) -> Seq(Nat \X BOOLEAN)] /\ DOMAIN ntk.fanin = 0..(N - 1)
  BY <1>4, <1>5
<1>7. ntk.fanin \in UNION {[D -> Seq(Nat \X BOOLEAN)] : D \in SUBSET Nat}
  BY <1>1, <1>6
<1>8. ntk = Net(N, [i \in 1..k |-> i], ntk.ints, ntk.pos, ntk.fanin)
  BY DEF Nets, Net
<1>9. ntk.nNodes = N
  BY DEF Nets
<1> DEFINE p == [i \in 1..k |-> i]
<1> HIDE DEF p
<1>10. ntk = Net(N, p, ntk.ints, ntk.pos, ntk.fanin)
  BY <1>8 DEF p
<1>11. ntk \in Loose(p)
  BY <1>2, <1>3, <1>6, <1>7, <1>9, <1>10 DEF Loose, Net
<1> QED BY <1>11 DEF p

\* A node created leaves one.
LEMMA LooseNode ==
  ASSUME NEW p, NEW ntk \in Loose(p), NEW es \in Seq(Nat \X BOOLEAN)
  PROVE  CreateNode(ntk, es) \in Loose(p)
<1> DEFINE N == ntk.nNodes
           f == WithNode(ntk, N, es)
           list == Append(ntk.ints, N)
           t == CreateNode(ntk, es)
           F == UNION {[D -> Seq(Nat \X BOOLEAN)] : D \in SUBSET Nat}
<1>1. /\ N \in Nat /\ ntk.ints \in Seq(Nat) /\ ntk.pos \in Seq(Nat)
      /\ ntk.fanin \in F /\ DOMAIN ntk.fanin = 0..(N - 1)
      /\ ntk = Net(N, p, ntk.ints, ntk.pos, ntk.fanin)
  BY DEF Loose, Net
<1>2. list \in Seq(Nat)
  BY <1>1
<1>3. f \in F /\ DOMAIN f = 0..N
  <2>1. \A n \in 0..(N - 1) : ntk.fanin[n] \in Seq(Nat \X BOOLEAN)
    BY <1>1
  <2>2. \A n \in 0..N : n = N \/ n \in 0..(N - 1)
    BY <1>1
  <2>3. f \in [0..N -> Seq(Nat \X BOOLEAN)]
    BY <2>1, <2>2 DEF WithNode
  <2>4. 0..N \in SUBSET Nat
    BY <1>1
  <2> HIDE DEF f
  <2> QED BY <2>3, <2>4
<1>4. t = [ntk EXCEPT !.nNodes = N + 1, !.ints = list, !.fanin = f]
  BY DEF CreateNode, WithNode
<1> HIDE DEF N, f, list, t, F
<1>5. t = Net(N + 1, p, list, ntk.pos, f)
  <2> DEFINE ints == ntk.ints
             pos == ntk.pos
             fanin == ntk.fanin
  <2> HIDE DEF ints, pos, fanin
  <2>0. ntk = Net(N, p, ints, pos, fanin)
    BY <1>1 DEF ints, pos, fanin
  <2>1. [ntk EXCEPT !.nNodes = N + 1] = Net(N + 1, p, ints, pos, fanin)
    BY <2>0 DEF Net
  <2>2. [Net(N + 1, p, ints, pos, fanin) EXCEPT !.ints = list] = Net(N + 1, p, list, pos, fanin)
    BY DEF Net
  <2>3. [Net(N + 1, p, list, pos, fanin) EXCEPT !.fanin = f] = Net(N + 1, p, list, pos, f)
    BY DEF Net
  <2>4. [ntk EXCEPT !.nNodes = N + 1, !.ints = list, !.fanin = f]
          = [[[ntk EXCEPT !.nNodes = N + 1] EXCEPT !.ints = list] EXCEPT !.fanin = f]
    OBVIOUS
  <2> QED BY <1>4, <2>1, <2>2, <2>3, <2>4 DEF pos
<1>6. N + 1 \in Nat /\ (N + 1) - 1 = N
  BY <1>1
<1>7. t \in Loose(p)
  BY <1>1, <1>2, <1>3, <1>5, <1>6 DEF Loose, Net, F
<1> QED BY <1>7 DEF t

\* The ANDs of an AIG, each with fanins before it.
Earlier(nPis, ands) ==
  \A i \in 1..Len(ands) : \A e \in ToSet(ands[i]) : Node(e) < nPis + i

\* The ANDs are created in order, each with a number above those of its fanins.
LEMMA AndsCreated ==
  ASSUME NEW k \in Nat, NEW ands \in Seq(Seq(Nat \X BOOLEAN)), Earlier(k, ands)
  PROVE  LET t == FoldLeft(CreateNode, WithPis(k), ands)
         IN  t \in Sound(k, 0, k + 1 + Len(ands)) /\ Alive(t) = 0..(k + Len(ands))
<1> DEFINE p == [i \in 1..k |-> i]
           S == Loose(p)
<1> DEFINE seq == ands
           n == Len(seq)
           op(x, i) == CreateNode(x, ands[i])
           Fold(f) == f = [s \in SUBSET (1..n) |-> IF s = {} THEN WithPis(k) ELSE op(f[s \ {Max(s)}], Max(s))]
           iter == CHOOSE f : Fold(f)
<1>1. n \in Nat
  OBVIOUS
<1>2. FoldLeft(CreateNode, WithPis(k), ands) = iter[1..n]
  <2>1. DOMAIN ands = 1..n
    OBVIOUS
  <2> HIDE DEF n
  <2> QED BY <2>1 DEF FoldLeft, MapThenFoldSet
<1>a. \A i \in 1..n : ands[i] \in Seq(Nat \X BOOLEAN)
  OBVIOUS
<1>b. \A i \in 1..n : \A e \in ToSet(ands[i]) : Node(e) < k + i
  BY DEF Earlier
<1> HIDE DEF seq
<1>3. ASSUME NEW x \in S, NEW i \in 1..n PROVE op(x, i) \in S
  <2> HIDE DEF p, n
  <2> QED BY <1>a, LooseNode
<1>c. WithPis(k) \in S
  <2>1. WithPis(k) \in Nets(k, 0, k + 1) /\ k < k + 1 /\ k + 1 \in Nat
    BY WithPisIs DEF Sound, Wired
  <2> QED BY <2>1, SoundIsLoose
<1> HIDE DEF S
<1> HIDE DEF n, op
<1>4. \E f : Fold(f)
  <2> DEFINE g == [z \in S \X (1..n) |-> op(z[1], z[2])]
  <2>1. \A x \in S, i \in 1..n : g[<<x, i>>] = op(x, i) /\ g[<<x, i>>] \in S
    BY <1>3
  <2> HIDE DEF g
  <2>2. WithPis(k) \in S
    BY <1>c
  <2>3. PICK f : /\ f = [s \in SUBSET (1..n) |-> IF s = {} THEN WithPis(k) ELSE g[<<f[s \ {Max(s)}], Max(s)>>]]
                 /\ \A s \in SUBSET (1..n) : s # {} => f[s \ {Max(s)}] \in S /\ Max(s) \in 1..n
    BY <1>1, <2>1, <2>2, FoldExists
  <2>4. \A s \in SUBSET (1..n) : f[s] = IF s = {} THEN WithPis(k) ELSE op(f[s \ {Max(s)}], Max(s))
    BY <2>1, <2>3
  <2>5. Fold(f)
    BY <2>3, <2>4
  <2> HIDE DEF Fold
  <2> QED BY <2>5
<1>5. Fold(iter)
  <2> HIDE DEF Fold
  <2> QED BY <1>4
<1> HIDE DEF iter
<1>6. iter[{}] = WithPis(k) /\ \A m \in 1..n : iter[1..m] = op(iter[1..(m - 1)], m)
  <2>1. iter[{}] = WithPis(k)
    BY <1>5
  <2>2. ASSUME NEW m \in 1..n PROVE iter[1..m] = op(iter[1..(m - 1)], m)
    <3>1. /\ 1..m \in SUBSET (1..n) /\ 1..m # {} /\ Max(1..m) = m
          /\ (1..m) \ {m} = 1..(m - 1)
      BY <1>1, PrefixIs
    <3> QED BY <1>5, <3>1
  <2> QED BY <2>1, <2>2
<1> HIDE DEF Fold
<1> DEFINE T == [m \in 0..n |-> {x \in Sound(k, 0, k + 1 + m) : Alive(x) = 0..(k + m)}]
<1>7. \A m \in 0..n : T[m] = {x \in Sound(k, 0, k + 1 + m) : Alive(x) = 0..(k + m)}
  OBVIOUS
<1> HIDE DEF T
<1>8. iter[{}] \in T[0]
  <2>1. 0 \in 0..n /\ k + 1 + 0 = k + 1 /\ k + 0 = k
    BY <1>1
  <2> QED BY <1>6, <1>7, <2>1, WithPisIs
<1>9. ASSUME NEW m \in 1..n, iter[1..(m - 1)] \in T[m - 1] PROVE iter[1..m] \in T[m]
  <2> DEFINE x == iter[1..(m - 1)]
             N == k + m
             es == ands[m]
  <2>0. m \in Nat /\ m > 0 /\ m \in 0..n /\ m - 1 \in 0..n
    BY <1>1
  <2>1. /\ m \in 0..n /\ m - 1 \in 0..n /\ N \in Nat /\ k < N
        /\ k + 1 + (m - 1) = N /\ k + (m - 1) = N - 1 /\ k + 1 + m = N + 1 /\ 0..(k + m) = (0..(N - 1)) \cup {N}
    <3>1. N \in Nat /\ k < N /\ k + 1 + (m - 1) = N /\ k + (m - 1) = N - 1 /\ k + 1 + m = N + 1
      BY <2>0
    <3>2. \A j \in Nat : 0..j = (0..(j - 1)) \cup {j}
      OBVIOUS
    <3> QED BY <2>0, <3>1, <3>2
  <2>2. x \in Sound(k, 0, N) /\ Alive(x) = 0..(N - 1)
    BY <1>7, <1>9, <2>1
  <2>3. iter[1..m] = CreateNode(x, es)
    BY <1>6 DEF op
  <2> HIDE DEF x
  <2>4. es \in Seq(Nat \X BOOLEAN) /\ \A e \in ToSet(es) : Node(e) < N
    BY <1>a, <1>b
  <2>b. N \in Nat
    BY <2>1
  <2> HIDE DEF N, es
  <2>5. es \in Seq(Edges(N)) /\ Targets(es) \subseteq 0..(N - 1)
    <3>1. ASSUME NEW e \in Nat \X BOOLEAN, Node(e) < N PROVE e \in Edges(N) /\ Node(e) \in 0..(N - 1)
      <4>1. e = <<e[1], e[2]>> /\ e[1] \in Nat /\ e[2] \in BOOLEAN
        OBVIOUS
      <4>2. e[1] \in 0..(N - 1)
        BY <2>b, <3>1, <4>1 DEF Node
      <4> QED BY <4>1, <4>2 DEF Edges, Node
    <3>2. /\ Len(es) \in Nat /\ DOMAIN es = 1..Len(es) /\ ToSet(es) = {es[i] : i \in 1..Len(es)}
          /\ \A i \in 1..Len(es) : es[i] \in Nat \X BOOLEAN
      BY <2>4 DEF ToSet
    <3>3. \A i \in 1..Len(es) : es[i] \in Edges(N) /\ Node(es[i]) \in 0..(N - 1)
      BY <2>4, <3>1, <3>2
    <3>4. es = [i \in 1..Len(es) |-> es[i]]
      BY <2>4, <3>2
    <3>5. es \in [1..Len(es) -> Edges(N)]
      BY <3>3, <3>4
    <3>6. es \in Seq(Edges(N))
      <4>1. Len(es) \in Nat
        BY <3>2
      <4> DEFINE len == Len(es)
      <4> HIDE DEF len
      <4>2. es \in [1..len -> Edges(N)] /\ len \in Nat
        BY <3>5, <4>1 DEF len
      <4> QED BY <4>2, SeqDef
    <3> QED BY <3>2, <3>3, <3>6 DEF Targets
  <2> DEFINE t == CreateNode(x, es)
  <2>6. x \in Wired(k, 0, N) /\ Ordered(x) /\ 0 \in Nat
    BY <2>2 DEF Sound
  <2>a. k < N
    BY <2>1
  <2>7. t \in Wired(k, 0, N + 1) /\ Alive(t) = Alive(x) \cup {N} /\ Ordered(t)
    BY <2>b, <2>2, <2>5, <2>6, <2>a, NodeCreated
  <2> HIDE DEF t
  <2>8. t \in Sound(k, 0, N + 1) /\ Alive(t) = (0..(N - 1)) \cup {N}
    BY <2>2, <2>7 DEF Sound
  <2>9. t \in T[m]
    BY <1>7, <2>1, <2>8
  <2> QED BY <2>3, <2>9 DEF t
<1>10. iter[1..n] \in T[n]
  BY <1>1, <1>8, <1>9, FoldStays
<1>11. n \in 0..n
  BY <1>1
<1>12. iter[1..n] \in Sound(k, 0, k + 1 + n) /\ Alive(iter[1..n]) = 0..(k + n)
  BY <1>7, <1>10, <1>11
<1> QED BY <1>2, <1>12 DEF n, seq

\* An output is added to a network.
LEMMA EdgeAdded ==
  ASSUME NEW k \in Nat, NEW q \in Nat, NEW ntk \in Networks(k, q), NEW A, A \subseteq Alive(ntk),
         NEW edge \in A \X BOOLEAN
  PROVE  AddPo(ntk, edge) \in Networks(k, q + 1) /\ A \subseteq Alive(AddPo(ntk, edge))
<1> DEFINE t == AddPo(ntk, edge)
<1>1. PICK N \in Nat : k < N /\ ntk \in Sound(k, q, N)
  BY InNetworks
<1>2. ntk \in Wired(k, q, N) /\ Ordered(ntk)
  BY <1>1 DEF Sound
<1>3. Alive(ntk) \subseteq 0..(N - 1)
  BY <1>1, <1>2, ZeroAlive
<1>4. edge \in Edges(N) /\ Node(edge) \in Alive(ntk)
  BY <1>3 DEF Edges, Node
<1>5. t \in Wired(k, q + 1, N + 1) /\ Alive(ntk) \subseteq Alive(t) /\ Ordered(t)
  BY <1>1, <1>2, <1>4, OutputAdded
<1> HIDE DEF t
<1>6. t \in Sound(k, q + 1, N + 1) /\ N + 1 \in Nat /\ k < N + 1 /\ q + 1 \in Nat
  BY <1>1, <1>5 DEF Sound
<1>7. t \in Networks(k, q + 1)
  BY <1>6, NetworksHave
<1> QED BY <1>5, <1>7 DEF t

\* All outputs of an AIG are.
LEMMA OutputsRead ==
  ASSUME NEW k \in Nat, NEW A, NEW base \in Networks(k, 0), A \subseteq Alive(base),
         NEW outs \in Seq(A \X BOOLEAN)
  PROVE  FoldLeft(AddPo, base, outs) \in Networks(k, Len(outs))
<1> DEFINE S == {x \in UNION {Networks(k, q) : q \in Nat} : A \subseteq Alive(x)}
<1> DEFINE seq == outs
           n == Len(seq)
           op(x, i) == AddPo(x, outs[i])
           Fold(f) == f = [s \in SUBSET (1..n) |-> IF s = {} THEN base ELSE op(f[s \ {Max(s)}], Max(s))]
           iter == CHOOSE f : Fold(f)
<1>1. n \in Nat
  OBVIOUS
<1>2. FoldLeft(AddPo, base, outs) = iter[1..n]
  <2>1. DOMAIN outs = 1..n
    OBVIOUS
  <2> HIDE DEF n
  <2> QED BY <2>1 DEF FoldLeft, MapThenFoldSet
<1>a. \A i \in 1..n : outs[i] \in A \X BOOLEAN
  OBVIOUS
<1> HIDE DEF seq
<1>b. ASSUME NEW q \in Nat, NEW x \in Networks(k, q), A \subseteq Alive(x), NEW i \in 1..n
      PROVE  op(x, i) \in Networks(k, q + 1) /\ A \subseteq Alive(op(x, i))
  <2> HIDE DEF n
  <2> QED BY <1>a, <1>b, EdgeAdded
<1> HIDE DEF op
<1>3. ASSUME NEW x \in S, NEW i \in 1..n PROVE op(x, i) \in S
  <2>1. PICK q \in Nat : x \in Networks(k, q)
    OBVIOUS
  <2>2. q + 1 \in Nat
    OBVIOUS
  <2> HIDE DEF n
  <2>3. op(x, i) \in Networks(k, q + 1) /\ A \subseteq Alive(op(x, i))
    BY <1>b, <2>1
  <2> QED BY <2>2, <2>3
<1>c. base \in S
  OBVIOUS
<1> HIDE DEF S
<1> HIDE DEF n, op
<1>4. \E f : Fold(f)
  <2> DEFINE g == [p \in S \X (1..n) |-> op(p[1], p[2])]
  <2>1. \A x \in S, i \in 1..n : g[<<x, i>>] = op(x, i) /\ g[<<x, i>>] \in S
    BY <1>3
  <2> HIDE DEF g
  <2>2. base \in S
    BY <1>c
  <2>3. PICK f : /\ f = [s \in SUBSET (1..n) |-> IF s = {} THEN base ELSE g[<<f[s \ {Max(s)}], Max(s)>>]]
                 /\ \A s \in SUBSET (1..n) : s # {} => f[s \ {Max(s)}] \in S /\ Max(s) \in 1..n
    BY <1>1, <2>1, <2>2, FoldExists
  <2>4. \A s \in SUBSET (1..n) : f[s] = IF s = {} THEN base ELSE op(f[s \ {Max(s)}], Max(s))
    BY <2>1, <2>3
  <2>5. Fold(f)
    BY <2>3, <2>4
  <2> HIDE DEF Fold
  <2> QED BY <2>5
<1>5. Fold(iter)
  <2> HIDE DEF Fold
  <2> QED BY <1>4
<1> HIDE DEF iter
<1>6. iter[{}] = base /\ \A m \in 1..n : iter[1..m] = op(iter[1..(m - 1)], m)
  <2>1. iter[{}] = base
    BY <1>5
  <2>2. ASSUME NEW m \in 1..n PROVE iter[1..m] = op(iter[1..(m - 1)], m)
    <3>1. /\ 1..m \in SUBSET (1..n) /\ 1..m # {} /\ Max(1..m) = m
          /\ (1..m) \ {m} = 1..(m - 1)
      BY <1>1, PrefixIs
    <3> QED BY <1>5, <3>1
  <2> QED BY <2>1, <2>2
<1> HIDE DEF Fold
<1> DEFINE T == [m \in 0..n |-> {x \in Networks(k, m) : A \subseteq Alive(x)}]
<1>7. \A m \in 0..n : T[m] = {x \in Networks(k, m) : A \subseteq Alive(x)}
  OBVIOUS
<1> HIDE DEF T
<1>8. iter[{}] \in T[0]
  <2>1. 0 \in 0..n
    BY <1>1
  <2> QED BY <1>6, <1>7, <2>1
<1>9. ASSUME NEW m \in 1..n, iter[1..(m - 1)] \in T[m - 1] PROVE iter[1..m] \in T[m]
  <2>1. m \in 0..n /\ m - 1 \in 0..n /\ m - 1 \in Nat /\ (m - 1) + 1 = m
    BY <1>1
  <2> DEFINE x == iter[1..(m - 1)]
             q == m - 1
  <2>2. x \in Networks(k, q) /\ A \subseteq Alive(x) /\ q \in Nat /\ q + 1 = m
    BY <1>7, <1>9, <2>1
  <2>3. iter[1..m] = op(x, m)
    BY <1>6
  <2> HIDE DEF x, q
  <2>4. op(x, m) \in Networks(k, q + 1) /\ A \subseteq Alive(op(x, m))
    BY <1>b, <2>2
  <2>5. iter[1..m] \in Networks(k, m) /\ A \subseteq Alive(iter[1..m])
    BY <2>2, <2>3, <2>4
  <2> QED BY <1>7, <2>1, <2>5
<1>10. iter[1..n] \in T[n]
  BY <1>1, <1>8, <1>9, FoldStays
<1>11. n \in 0..n
  BY <1>1
<1>12. iter[1..n] \in Networks(k, n)
  BY <1>7, <1>10, <1>11
<1> QED BY <1>2, <1>12 DEF n, seq

\* The network read is in order.
LEMMA NetworkRead ==
  ASSUME NEW g, IsAig(g)
  PROVE  GiaReader(g) \in Networks(g.nPis, Len(g.outs))
<1> DEFINE k == g.nPis
           ands == g.ands
           A == 0..(k + Len(ands))
           outs == g.outs
           base == FoldLeft(CreateNode, WithPis(k), ands)
<1>1. k \in Nat /\ ands \in Seq(Seq(Nat \X BOOLEAN)) /\ Earlier(k, ands) /\ outs \in Seq(A \X BOOLEAN)
  BY DEF IsAig, Earlier
<1>2. GiaReader(g) = FoldLeft(AddPo, base, outs)
  BY DEF GiaReader
<1>3. Len(ands) \in Nat
  BY <1>1
<1> HIDE DEF k, ands, outs
<1>4. base \in Sound(k, 0, k + 1 + Len(ands)) /\ Alive(base) = A
  BY <1>1, AndsCreated
<1> HIDE DEF base, A
<1>5. base \in Networks(k, 0) /\ A \subseteq Alive(base)
  <2> DEFINE N == k + 1 + Len(ands)
  <2>1. N \in Nat /\ k < N /\ 0 \in Nat
    BY <1>1, <1>3
  <2> HIDE DEF N
  <2>2. base \in Sound(k, 0, N)
    BY <1>4 DEF N
  <2> QED BY <1>1, <1>4, <2>1, <2>2, NetworksHave
<1>6. FoldLeft(AddPo, base, outs) \in Networks(k, Len(outs))
  BY <1>1, <1>5, OutputsRead
<1> QED BY <1>2, <1>6 DEF k, outs

-----------------------------------------------------------------------------
(* Extract.                                                                *)

\* The outputs of a window.
OutputsOf(base, m, vOutputs) == FoldLeft(LAMBDA sub, id : AddPo(sub, <<LookUp(m, id), FALSE>>), base, vOutputs)

\* All outputs of a window are.
LEMMA OutputsExtracted ==
  ASSUME NEW k \in Nat, NEW A, NEW base \in Networks(k, 0), A \subseteq Alive(base),
         0 \in A, NEW m, \A x \in DOMAIN m : m[x] \in A, NEW X, NEW vOutputs \in Seq(X)
  PROVE  OutputsOf(base, m, vOutputs) \in Networks(k, Len(vOutputs))
<1> DEFINE S == {x \in UNION {Networks(k, q) : q \in Nat} : A \subseteq Alive(x)}
<1> DEFINE seq == vOutputs
           n == Len(seq)
           op(x, i) == AddPo(x, <<LookUp(m, vOutputs[i]), FALSE>>)
           Fold(f) == f = [s \in SUBSET (1..n) |-> IF s = {} THEN base ELSE op(f[s \ {Max(s)}], Max(s))]
           iter == CHOOSE f : Fold(f)
<1>1. n \in Nat
  OBVIOUS
<1>2. OutputsOf(base, m, vOutputs) = iter[1..n]
  <2>1. DOMAIN vOutputs = 1..n
    OBVIOUS
  <2> HIDE DEF n
  <2> QED BY <2>1 DEF FoldLeft, MapThenFoldSet, OutputsOf
<1>a. \A i \in 1..n : <<LookUp(m, vOutputs[i]), FALSE>> \in A \X BOOLEAN
  BY DEF LookUp, Const0
<1> HIDE DEF seq
<1>b. ASSUME NEW q \in Nat, NEW x \in Networks(k, q), A \subseteq Alive(x), NEW i \in 1..n
      PROVE  op(x, i) \in Networks(k, q + 1) /\ A \subseteq Alive(op(x, i))
  <2> HIDE DEF n
  <2> QED BY <1>a, <1>b, EdgeAdded
<1> HIDE DEF op
<1>3. ASSUME NEW x \in S, NEW i \in 1..n PROVE op(x, i) \in S
  <2>1. PICK q \in Nat : x \in Networks(k, q)
    OBVIOUS
  <2>2. q + 1 \in Nat
    OBVIOUS
  <2> HIDE DEF n
  <2>3. op(x, i) \in Networks(k, q + 1) /\ A \subseteq Alive(op(x, i))
    BY <1>b, <2>1
  <2> QED BY <2>2, <2>3
<1>c. base \in S
  OBVIOUS
<1> HIDE DEF S
<1> HIDE DEF n, op
<1>4. \E f : Fold(f)
  <2> DEFINE g == [p \in S \X (1..n) |-> op(p[1], p[2])]
  <2>1. \A x \in S, i \in 1..n : g[<<x, i>>] = op(x, i) /\ g[<<x, i>>] \in S
    BY <1>3
  <2> HIDE DEF g
  <2>2. base \in S
    BY <1>c
  <2>3. PICK f : /\ f = [s \in SUBSET (1..n) |-> IF s = {} THEN base ELSE g[<<f[s \ {Max(s)}], Max(s)>>]]
                 /\ \A s \in SUBSET (1..n) : s # {} => f[s \ {Max(s)}] \in S /\ Max(s) \in 1..n
    BY <1>1, <2>1, <2>2, FoldExists
  <2>4. \A s \in SUBSET (1..n) : f[s] = IF s = {} THEN base ELSE op(f[s \ {Max(s)}], Max(s))
    BY <2>1, <2>3
  <2>5. Fold(f)
    BY <2>3, <2>4
  <2> HIDE DEF Fold
  <2> QED BY <2>5
<1>5. Fold(iter)
  <2> HIDE DEF Fold
  <2> QED BY <1>4
<1> HIDE DEF iter
<1>6. iter[{}] = base /\ \A j \in 1..n : iter[1..j] = op(iter[1..(j - 1)], j)
  <2>1. iter[{}] = base
    BY <1>5
  <2>2. ASSUME NEW j \in 1..n PROVE iter[1..j] = op(iter[1..(j - 1)], j)
    <3>1. /\ 1..j \in SUBSET (1..n) /\ 1..j # {} /\ Max(1..j) = j
          /\ (1..j) \ {j} = 1..(j - 1)
      BY <1>1, PrefixIs
    <3> QED BY <1>5, <3>1
  <2> QED BY <2>1, <2>2
<1> HIDE DEF Fold
<1> DEFINE T == [i \in 0..n |-> {x \in Networks(k, i) : A \subseteq Alive(x)}]
<1>7. \A i \in 0..n : T[i] = {x \in Networks(k, i) : A \subseteq Alive(x)}
  OBVIOUS
<1> HIDE DEF T
<1>8. iter[{}] \in T[0]
  <2>1. 0 \in 0..n
    BY <1>1
  <2> QED BY <1>6, <1>7, <2>1
<1>9. ASSUME NEW j \in 1..n, iter[1..(j - 1)] \in T[j - 1] PROVE iter[1..j] \in T[j]
  <2>1. j \in 0..n /\ j - 1 \in 0..n /\ j - 1 \in Nat /\ (j - 1) + 1 = j
    BY <1>1
  <2> DEFINE x == iter[1..(j - 1)]
             q == j - 1
  <2>2. x \in Networks(k, q) /\ A \subseteq Alive(x) /\ q \in Nat /\ q + 1 = j
    BY <1>7, <1>9, <2>1
  <2>3. iter[1..j] = op(x, j)
    BY <1>6
  <2> HIDE DEF x, q
  <2>4. op(x, j) \in Networks(k, q + 1) /\ A \subseteq Alive(op(x, j))
    BY <1>b, <2>2
  <2>5. iter[1..j] \in Networks(k, j) /\ A \subseteq Alive(iter[1..j])
    BY <2>2, <2>3, <2>4
  <2> QED BY <1>7, <2>1, <2>5
<1>10. iter[1..n] \in T[n]
  BY <1>1, <1>8, <1>9, FoldStays
<1>11. n \in 0..n
  BY <1>1
<1>12. iter[1..n] \in Networks(k, n)
  BY <1>7, <1>10, <1>11
<1> QED BY <1>2, <1>12 DEF n, seq

\* Functions from numbers to numbers.
NatMaps == UNION {[D -> Nat] : D \in SUBSET Nat}

\* A map from the nodes of the network to those of a window.
NodesInto(m, A) == m \in NatMaps /\ \A x \in DOMAIN m : m[x] \in A

\* The states of Extract.
Extracting(k) == {acc \in [sub : Networks(k, 0), m : NatMaps] : NodesInto(acc.m, Alive(acc.sub))}

\* The edges of a copy.
EdgesFor(m, es) == [i \in DOMAIN es |-> <<LookUp(m, Node(es[i])), IsCompl(es[i])>>]

\* What Extract makes of a node of the list.
WindowCopy(ntk, ids, acc, id) ==
  IF id \notin ids THEN acc
  ELSE [sub |-> CreateNode(acc.sub, [k \in DOMAIN ntk.fanin[id] |->
                  <<LookUp(acc.m, Node(ntk.fanin[id][k])), IsCompl(ntk.fanin[id][k])>>]),
        m |-> [n \in DOMAIN acc.m \cup {id} |-> IF n = id THEN acc.sub.nNodes ELSE acc.m[n]]]

\* The edges of a node of a window, in its copy.
LEMMA EdgesForIn ==
  ASSUME NEW N \in Nat, NEW A, A \subseteq 0..(N - 1), 0 \in A, NEW m, NodesInto(m, A),
         NEW M \in Nat, NEW es \in Seq(Edges(M))
  PROVE  EdgesFor(m, es) \in Seq(Edges(N)) /\ Targets(EdgesFor(m, es)) \subseteq A
<1> DEFINE t == EdgesFor(m, es)
           len == Len(es)
<1>1. DOMAIN es = 1..len /\ len \in Nat
  OBVIOUS
<1>2. \A i \in 1..len : IsCompl(es[i]) \in BOOLEAN
  BY EdgesTo
<1>3. \A e : LookUp(m, e) \in A
  BY DEF LookUp, Const0, NodesInto
<1>4. \A i \in 1..len : <<LookUp(m, Node(es[i])), IsCompl(es[i])>> \in A \X BOOLEAN
  BY <1>2, <1>3
<1> HIDE DEF len
<1>5. t \in [1..len -> A \X BOOLEAN]
  BY <1>1, <1>4 DEF EdgesFor
<1> HIDE DEF t
<1>6. t \in Seq(A \X BOOLEAN)
  BY <1>1, <1>5, SeqDef
<1>7. A \X BOOLEAN \subseteq Edges(N)
  BY DEF Edges
<1>8. t \in Seq(Edges(N))
  BY <1>6, <1>7
<1>9. ToSet(t) \subseteq A \X BOOLEAN
  BY <1>6, SeqIn
<1> QED BY <1>8, <1>9 DEF Targets, Node, t

\* A node of the list is copied if it is in the window.
LEMMA WindowCopied ==
  ASSUME NEW k \in Nat, NEW acc \in Extracting(k), NEW ntk, NEW ids, NEW id \in Nat,
         NEW M \in Nat, ntk.fanin[id] \in Seq(Edges(M))
  PROVE  WindowCopy(ntk, ids, acc, id) \in Extracting(k)
<1> DEFINE sub == acc.sub
           m == acc.m
           es == EdgesFor(m, ntk.fanin[id])
           t == CreateNode(sub, es)
           m2 == [n \in DOMAIN m \cup {id} |-> IF n = id THEN sub.nNodes ELSE m[n]]
<1>1. sub \in Networks(k, 0) /\ NodesInto(m, Alive(sub)) /\ 0 \in Nat
  BY DEF Extracting
<1>2. WindowCopy(ntk, ids, acc, id) = acc \/ WindowCopy(ntk, ids, acc, id) = [sub |-> t, m |-> m2]
  BY DEF WindowCopy, EdgesFor
<1> HIDE DEF sub, m
<1>3. PICK N \in Nat : k < N /\ sub \in Sound(k, 0, N)
  BY <1>1, InNetworks
<1>4. sub \in Wired(k, 0, N) /\ Ordered(sub) /\ sub.nNodes = N
  BY <1>3 DEF Sound, Wired, Nets
<1>5. 0 \in Alive(sub) /\ Alive(sub) \subseteq 0..(N - 1)
  BY <1>1, <1>3, <1>4, ZeroAlive
<1>6. es \in Seq(Edges(N)) /\ Targets(es) \subseteq Alive(sub)
  BY <1>1, <1>5, EdgesForIn
<1> HIDE DEF es
<1>7. t \in Wired(k, 0, N + 1) /\ Alive(t) = Alive(sub) \cup {N} /\ Ordered(t)
  BY <1>1, <1>3, <1>4, <1>6, NodeCreated
<1> HIDE DEF t
<1>8. t \in Networks(k, 0)
  <2>1. t \in Sound(k, 0, N + 1) /\ N + 1 \in Nat /\ k < N + 1
    BY <1>3, <1>7 DEF Sound
  <2> QED BY <1>1, <2>1, NetworksHave
<1>9. NodesInto(m2, Alive(t)) /\ m2 \in NatMaps
  <2>1. \A x \in DOMAIN m2 : m2[x] \in Alive(t)
    BY <1>1, <1>4, <1>7 DEF NodesInto
  <2>2. DOMAIN m2 \in SUBSET Nat /\ m2 = [x \in DOMAIN m2 |-> m2[x]]
    BY <1>1 DEF NodesInto, NatMaps
  <2>3. Alive(t) \subseteq Nat
    BY <1>5, <1>7
  <2> HIDE DEF m2
  <2>4. m2 \in [DOMAIN m2 -> Nat]
    BY <2>1, <2>2, <2>3
  <2> QED BY <2>1, <2>2, <2>4 DEF NodesInto, NatMaps
<1> HIDE DEF m2
<1>10. [sub |-> t, m |-> m2] \in Extracting(k)
  BY <1>8, <1>9 DEF Extracting
<1> QED BY <1>2, <1>10

\* And of all of them.
AllWindow(ntk, ids, start) == FoldLeft(LAMBDA acc, id : WindowCopy(ntk, ids, acc, id), start, ntk.ints)

\* All nodes of the list are looked at.
LEMMA AllWindowIn ==
  ASSUME NEW k \in Nat, NEW start \in Extracting(k), NEW ids,
         NEW k2 \in Nat, NEW q2 \in Nat, NEW N2 \in Nat, k2 < N2, NEW ntk \in Nets(k2, q2, N2)
  PROVE  AllWindow(ntk, ids, start) \in Extracting(k)
<1> DEFINE S == Extracting(k)
<1> DEFINE seq == ntk.ints
           n == Len(seq)
           op(x, i) == WindowCopy(ntk, ids, x, seq[i])
           Fold(f) == f = [s \in SUBSET (1..n) |-> IF s = {} THEN start ELSE op(f[s \ {Max(s)}], Max(s))]
           iter == CHOOSE f : Fold(f)
<1>a. seq \in Seq((k2 + 1)..(N2 - 1))
  BY NetFields
<1>1. n \in Nat
  BY <1>a
<1>b. DOMAIN seq = 1..n /\ \A i \in 1..n : seq[i] \in 0..(N2 - 1)
  <2> HIDE DEF S, op, Fold, iter
  <2>1. seq \in [1..n -> (k2 + 1)..(N2 - 1)]
    BY <1>a
  <2> HIDE DEF seq, n
  <2>2. (k2 + 1)..(N2 - 1) \subseteq 0..(N2 - 1)
    OBVIOUS
  <2> QED BY <2>1, <2>2
<1>2. AllWindow(ntk, ids, start) = iter[1..n]
  <2> HIDE DEF seq
  <2> QED BY <1>b DEF AllWindow, FoldLeft, MapThenFoldSet, seq
<1> HIDE DEF seq, n
<1>3. ASSUME NEW x \in S, NEW i \in 1..n PROVE op(x, i) \in S
  <2>1. seq[i] \in 0..(N2 - 1) /\ seq[i] \in Nat
    BY <1>b
  <2>2. ntk.fanin[seq[i]] \in Seq(Edges(N2))
    BY <2>1 DEF Nets
  <2> QED BY <2>1, <2>2, WindowCopied
<1> HIDE DEF S
<1> HIDE DEF n, op
<1>4. \E f : Fold(f)
  <2> DEFINE g == [p \in S \X (1..n) |-> op(p[1], p[2])]
  <2>1. \A x \in S, i \in 1..n : g[<<x, i>>] = op(x, i) /\ g[<<x, i>>] \in S
    BY <1>3
  <2> HIDE DEF g
  <2>2. start \in S
    BY DEF S
  <2>3. PICK f : /\ f = [s \in SUBSET (1..n) |-> IF s = {} THEN start ELSE g[<<f[s \ {Max(s)}], Max(s)>>]]
                 /\ \A s \in SUBSET (1..n) : s # {} => f[s \ {Max(s)}] \in S /\ Max(s) \in 1..n
    BY <1>1, <2>1, <2>2, FoldExists
  <2>4. \A s \in SUBSET (1..n) : f[s] = IF s = {} THEN start ELSE op(f[s \ {Max(s)}], Max(s))
    BY <2>1, <2>3
  <2>5. Fold(f)
    BY <2>3, <2>4
  <2> HIDE DEF Fold
  <2> QED BY <2>5
<1>5. Fold(iter)
  <2> HIDE DEF Fold
  <2> QED BY <1>4
<1> HIDE DEF iter
<1>6. iter[{}] = start /\ \A m \in 1..n : iter[1..m] = op(iter[1..(m - 1)], m)
  <2>1. iter[{}] = start
    BY <1>5
  <2>2. ASSUME NEW m \in 1..n PROVE iter[1..m] = op(iter[1..(m - 1)], m)
    <3>1. /\ 1..m \in SUBSET (1..n) /\ 1..m # {} /\ Max(1..m) = m
          /\ (1..m) \ {m} = 1..(m - 1)
      BY <1>1, PrefixIs
    <3> QED BY <1>5, <3>1
  <2> QED BY <2>1, <2>2
<1> HIDE DEF Fold
<1>7. iter[1..n] \in S
  <2>1. iter[{}] \in S /\ \A m \in 1..n : iter[1..(m - 1)] \in S => iter[1..m] \in S
    BY <1>3, <1>6 DEF S
  <2> QED BY <1>1, <2>1, FoldIn
<1> QED BY <1>2, <1>7 DEF S

\* A window is a network of its own.
LEMMA Extracted ==
  ASSUME NEW k2 \in Nat, NEW q2 \in Nat, NEW ntk \in Networks(k2, q2), NEW ids,
         NEW vInputs \in Seq(Nat), NEW X, NEW vOutputs \in Seq(X)
  PROVE  Extract(ntk, ids, vInputs, vOutputs) \in Networks(Len(vInputs), Len(vOutputs))
<1> DEFINE k == Len(vInputs)
           m == [n \in {Const0} \cup ToSet(vInputs) |-> IndexOf(vInputs, n)]
           start == [sub |-> WithPis(k), m |-> m]
           copied == AllWindow(ntk, ids, start)
<1>1. k \in Nat
  OBVIOUS
<1>2. Extract(ntk, ids, vInputs, vOutputs) = OutputsOf(copied.sub, copied.m, vOutputs)
  BY DEF Extract, OutputsOf, AllWindow, WindowCopy
<1>3. NodesInto(m, 0..k) /\ m \in NatMaps
  <2>1. \A n : IndexOf(vInputs, n) \in 0..k
    BY IndexIs
  <2>2. ToSet(vInputs) \subseteq Nat
    BY SeqIn
  <2>3. {Const0} \cup ToSet(vInputs) \in SUBSET Nat
    BY <2>2 DEF Const0
  <2>4. 0..k \subseteq Nat
    OBVIOUS
  <2> HIDE DEF k
  <2>5. m \in [{Const0} \cup ToSet(vInputs) -> Nat]
    BY <2>1, <2>4
  <2>6. DOMAIN m \in SUBSET Nat /\ m \in [DOMAIN m -> Nat]
    BY <2>3, <2>5
  <2>7. \A n \in DOMAIN m : m[n] \in 0..k
    BY <2>1
  <2> HIDE DEF m
  <2> QED BY <2>6, <2>7 DEF NodesInto, NatMaps
<1> HIDE DEF k, m
<1>4. start \in Extracting(k)
  <2>1. WithPis(k) \in Sound(k, 0, k + 1) /\ Alive(WithPis(k)) = 0..k
    BY <1>1, WithPisIs
  <2>2. k + 1 \in Nat /\ k < k + 1 /\ 0 \in Nat
    BY <1>1
  <2>3. WithPis(k) \in Networks(k, 0)
    BY <1>1, <2>1, <2>2, NetworksHave
  <2> QED BY <1>3, <2>1, <2>3 DEF Extracting
<1> HIDE DEF start
<1>5. copied \in Extracting(k)
  <2>1. PICK N2 \in Nat : k2 < N2 /\ ntk \in Sound(k2, q2, N2)
    BY InNetworks
  <2>2. ntk \in Nets(k2, q2, N2)
    BY <2>1 DEF Sound, Wired
  <2> QED BY <1>1, <1>4, <2>1, <2>2, AllWindowIn
<1> HIDE DEF copied
<1> DEFINE A == Alive(copied.sub)
           base == copied.sub
<1>6. base \in Networks(k, 0) /\ \A x \in DOMAIN copied.m : copied.m[x] \in A
  BY <1>5 DEF Extracting, NodesInto
<1>7. 0 \in A
  <2>1. PICK N \in Nat : k < N /\ base \in Sound(k, 0, N)
    BY <1>1, <1>6, InNetworks
  <2> QED BY <1>1, <2>1, ZeroAlive DEF Sound
<1>8. A \subseteq Alive(base)
  OBVIOUS
<1> HIDE DEF A, base
<1>9. OutputsOf(base, copied.m, vOutputs) \in Networks(k, Len(vOutputs))
  BY <1>1, <1>6, <1>7, <1>8, OutputsExtracted
<1> QED BY <1>2, <1>9 DEF base, k

-----------------------------------------------------------------------------
(* The optimizer.                                                          *)

\* The networks in order that have the list of ntk.
SameList(k, q, N, ntk) == {t \in Sound(k, q, N) : t.ints = ntk.ints}

\* A node of the list and its edges.
LEMMA NodeHas ==
  ASSUME NEW k \in Nat, NEW q \in Nat, NEW N \in Nat, k < N, NEW ntk \in Sound(k, q, N),
         NEW id \in ToSet(ntk.ints)
  PROVE  /\ id \in (k + 1)..(N - 1) /\ id \in 0..(N - 1)
         /\ ntk.fanin[id] \in Seq(Edges(N)) /\ Len(ntk.fanin[id]) \in Nat
         /\ Targets(ntk.fanin[id]) = Fanins(ntk, id) /\ Fanins(ntk, id) \subseteq Alive(ntk)
<1>1. ntk \in Wired(k, q, N) /\ ntk \in Nets(k, q, N)
  BY DEF Sound, Wired
<1>2. id \in (k + 1)..(N - 1)
  BY <1>1, NetIds
<1>3. id \in 0..(N - 1)
  BY <1>2
<1>4. ntk.fanin[id] \in Seq(Edges(N))
  BY <1>1, <1>3 DEF Nets
<1>5. Len(ntk.fanin[id]) \in Nat
  BY <1>4
<1>6. Targets(ntk.fanin[id]) = Fanins(ntk, id)
  BY DEF Targets, Fanins
<1>7. Fanins(ntk, id) \subseteq Alive(ntk)
  BY <1>1, <1>3 DEF Wired
<1> QED BY <1>2, <1>3, <1>4, <1>5, <1>6, <1>7

\* A node that gets no other fanins than it has leaves the network in order.
LEMMA FewerFanins ==
  ASSUME NEW k \in Nat, NEW q \in Nat, NEW N \in Nat, k < N, NEW ntk \in Sound(k, q, N),
         NEW id \in ToSet(ntk.ints), NEW es \in Seq(Edges(N)), Targets(es) \subseteq Fanins(ntk, id)
  PROVE  Rewire(ntk, id, es) \in SameList(k, q, N, ntk)
<1> DEFINE t == Rewire(ntk, id, es)
<1>1. ntk \in Wired(k, q, N) /\ Ordered(ntk)
  BY DEF Sound
<1>2. id \in (k + 1)..(N - 1) /\ Targets(es) \subseteq Alive(ntk)
  BY NodeHas
<1>3. /\ t \in Wired(k, q, N) /\ t.ints = ntk.ints
      /\ \A n : n # id => Fanins(t, n) = Fanins(ntk, n)
      /\ Fanins(t, id) = Targets(es)
  BY <1>1, <1>2, Rewired
<1> HIDE DEF t
<1>4. \A n : Fanins(t, n) \subseteq Fanins(ntk, n)
  BY <1>3
<1>5. Ordered(t)
  BY <1>1, <1>3, <1>4 DEF Ordered
<1> QED BY <1>3, <1>5 DEF SameList, Sound, t

\* A fanin is taken away, or nothing if there is none at idx.
LEMMA FaninTaken ==
  ASSUME NEW k \in Nat, NEW q \in Nat, NEW N \in Nat, k < N, NEW ntk \in Sound(k, q, N),
         NEW id \in (k + 1)..(N - 1), NEW idx \in 0..Len(ntk.fanin[id])
  PROVE  RemoveFanin(ntk, id, idx) \in SameList(k, q, N, ntk)
<1> DEFINE none == [n \in 0..(N - 1) |-> {}]
           t == RemoveFanin(ntk, id, idx)
<1>1. ntk \in Wired(k, q, N) /\ ntk \in Nets(k, q, N)
  BY DEF Sound, Wired
<1>2. \A n \in ToSet(ntk.ints) : none[n] = {}
  <2>1. ASSUME NEW n \in ToSet(ntk.ints) PROVE n \in 0..(N - 1)
    BY NodeHas
  <2> QED BY <2>1
<1> HIDE DEF none
<1>3. ntk \in Variants(k, q, N, ntk, none)
  BY <1>1, VariantOfItself
<1>4. t \in Variants(k, q, N, ntk, none)
  BY <1>3, FaninRemoved
<1> HIDE DEF t
<1>5. \A n, m \in ToSet(ntk.ints) : m \in none[n] => IndexOf(ntk.ints, m) < IndexOf(ntk.ints, n)
  BY <1>2
<1>6. t \in Sound(k, q, N)
  BY <1>4, <1>5, VariantOrdered
<1> QED BY <1>4, <1>6 DEF SameList, Variants, t

\* The fanins of a node are put in another order.
LEMMA FaninsSorted ==
  ASSUME NEW k \in Nat, NEW q \in Nat, NEW N \in Nat, k < N, NEW ntk \in Sound(k, q, N),
         NEW id \in ToSet(ntk.ints), NEW par
  PROVE  SortFanins(par, ntk, id) \subseteq SameList(k, q, N, ntk)
<1> DEFINE s == ntk.fanin[id]
           n == Len(s)
           X == Edges(N)
<1>1. s \in Seq(X) /\ n \in Nat /\ DOMAIN s = 1..n /\ Targets(s) = Fanins(ntk, id)
  BY NodeHas
<1>2. ntk \in SameList(k, q, N, ntk)
  BY DEF SameList
<1>3. ASSUME NEW p \in SetToSeqs(1..n)
      PROVE  Rewire(ntk, id, [i \in 1..n |-> s[p[i]]]) \in SameList(k, q, N, ntk)
  <2> DEFINE es == [i \in 1..n |-> s[p[i]]]
  <2> HIDE DEF s, n, X
  <2>1. Cardinality(1..n) = n
    BY <1>1, FS_Interval
  <2>2. p \in [1..n -> 1..n]
    BY <2>1 DEF SetToSeqs
  <2>3. \A i \in 1..n : es[i] \in ToSet(s) /\ es[i] \in X
    BY <1>1, <2>2 DEF ToSet
  <2>4. es \in [1..n -> X]
    BY <2>3
  <2> HIDE DEF es
  <2>5. es \in Seq(X)
    BY <1>1, <2>4, SeqDef
  <2>6. ToSet(es) \subseteq ToSet(s)
    BY <2>3, <2>4 DEF ToSet
  <2>7. Targets(es) \subseteq Fanins(ntk, id)
    BY <1>1, <2>6 DEF Targets
  <2>8. es \in Seq(Edges(N))
    BY <2>5 DEF X
  <2>9. Rewire(ntk, id, es) \in SameList(k, q, N, ntk)
    BY <2>7, <2>8, FewerFanins
  <2> QED BY <2>9 DEF es
<1>4. SortFanins(par, ntk, id) \subseteq
        {ntk} \cup {Rewire(ntk, id, [i \in 1..n |-> s[p[i]]]) : p \in SetToSeqs(1..n)}
  <2>1. CASE ~par.fSort
    BY <2>1 DEF SortFanins
  <2>2. CASE par.fSort
    <3>1. ASSUME NEW t \in SortFanins(par, ntk, id)
          PROVE  \E p \in SetToSeqs(1..n) : t = Rewire(ntk, id, [i \in 1..n |-> s[p[i]]])
      <4>1. PICK p \in SetToSeqs(DOMAIN s) : t = [ntk EXCEPT !.fanin[id] = [i \in DOMAIN @ |-> @[p[i]]]]
        BY <2>2 DEF SortFanins
      <4>2. t = Rewire(ntk, id, [i \in DOMAIN s |-> s[p[i]]])
        BY <4>1 DEF Rewire
      <4> HIDE DEF s, n
      <4> QED BY <1>1, <4>1, <4>2
    <3> HIDE DEF s, n
    <3> QED BY <3>1
  <2> QED BY <2>1, <2>2
<1> QED BY <1>2, <1>3, <1>4

\* The fanins of all nodes are.
LEMMA AllFaninsSorted ==
  ASSUME NEW k \in Nat, NEW q \in Nat, NEW N \in Nat, k < N, NEW ntk \in Sound(k, q, N), NEW par
  PROVE  SortAllFanins(par, ntk) \subseteq SameList(k, q, N, ntk)
<1> DEFINE A == SameList(k, q, N, ntk)
           S == SUBSET A
           start == {ntk}
<1> DEFINE seq == ntk.ints
           n == Len(seq)
           op(x, i) == UNION {SortFanins(par, t, seq[i]) : t \in x}
           Fold(f) == f = [s \in SUBSET (1..n) |-> IF s = {} THEN start ELSE op(f[s \ {Max(s)}], Max(s))]
           iter == CHOOSE f : Fold(f)
<1>1. n \in Nat /\ DOMAIN seq = 1..n /\ \A i \in 1..n : seq[i] \in ToSet(ntk.ints)
  <2>1. seq \in Seq((k + 1)..(N - 1))
    BY DEF Sound, Wired, Nets
  <2> QED BY <2>1, SeqIn
<1>2. SortAllFanins(par, ntk) = iter[1..n]
  <2> HIDE DEF seq, start
  <2> QED BY <1>1 DEF SortAllFanins, FoldLeft, MapThenFoldSet, seq, start
<1>b. ASSUME NEW t \in A, NEW i \in 1..n PROVE SortFanins(par, t, seq[i]) \subseteq A
  <2> HIDE DEF seq, n
  <2>1. t \in Sound(k, q, N) /\ t.ints = ntk.ints
    BY DEF SameList
  <2>2. seq[i] \in ToSet(t.ints)
    BY <1>1, <2>1
  <2>3. SortFanins(par, t, seq[i]) \subseteq SameList(k, q, N, t)
    BY <2>1, <2>2, FaninsSorted
  <2> QED BY <2>1, <2>3 DEF SameList
<1>a. start \in S
  BY DEF SameList
<1> HIDE DEF A, start
<1>3. ASSUME NEW x \in S, NEW i \in 1..n PROVE op(x, i) \in S
  <2> HIDE DEF seq, n
  <2>1. \A t \in x : SortFanins(par, t, seq[i]) \subseteq A
    BY <1>b
  <2> QED BY <2>1
<1> HIDE DEF S, seq
<1> HIDE DEF n, op
<1>4. \E f : Fold(f)
  <2> DEFINE g == [p \in S \X (1..n) |-> op(p[1], p[2])]
  <2>1. \A x \in S, i \in 1..n : g[<<x, i>>] = op(x, i) /\ g[<<x, i>>] \in S
    BY <1>3
  <2> HIDE DEF g
  <2>2. start \in S
    BY <1>a
  <2>3. PICK f : /\ f = [s \in SUBSET (1..n) |-> IF s = {} THEN start ELSE g[<<f[s \ {Max(s)}], Max(s)>>]]
                 /\ \A s \in SUBSET (1..n) : s # {} => f[s \ {Max(s)}] \in S /\ Max(s) \in 1..n
    BY <1>1, <2>1, <2>2, FoldExists
  <2>4. \A s \in SUBSET (1..n) : f[s] = IF s = {} THEN start ELSE op(f[s \ {Max(s)}], Max(s))
    BY <2>1, <2>3
  <2>5. Fold(f)
    BY <2>3, <2>4
  <2> HIDE DEF Fold
  <2> QED BY <2>5
<1>5. Fold(iter)
  <2> HIDE DEF Fold
  <2> QED BY <1>4
<1> HIDE DEF iter
<1>6. iter[{}] = start /\ \A m \in 1..n : iter[1..m] = op(iter[1..(m - 1)], m)
  <2>1. iter[{}] = start
    BY <1>5
  <2>2. ASSUME NEW m \in 1..n PROVE iter[1..m] = op(iter[1..(m - 1)], m)
    <3>1. /\ 1..m \in SUBSET (1..n) /\ 1..m # {} /\ Max(1..m) = m
          /\ (1..m) \ {m} = 1..(m - 1)
      BY <1>1, PrefixIs
    <3> QED BY <1>5, <3>1
  <2> QED BY <2>1, <2>2
<1> HIDE DEF Fold
<1>7. iter[1..n] \in S
  <2>1. iter[{}] \in S /\ \A m \in 1..n : iter[1..(m - 1)] \in S => iter[1..m] \in S
    BY <1>3, <1>6, <1>a
  <2> QED BY <1>1, <2>1, FoldIn
<1> QED BY <1>2, <1>7 DEF S, A

\* Redundant fanins of a node are taken away.
LEMMA FaninsReduced ==
  ASSUME NEW k \in Nat, NEW q \in Nat, NEW N \in Nat, k < N, NEW ntk \in Sound(k, q, N),
         NEW id \in ToSet(ntk.ints), NEW new
  PROVE  ReduceFanins(ntk, id, new) \in SameList(k, q, N, ntk)
<1> DEFINE A == SameList(k, q, N, ntk)
           S == [ntk : A, idx : Nat]
           x0 == [ntk |-> ntk, idx |-> 1]
<1> DEFINE n == Len(ntk.fanin[id])
           op(r) == LET edges == r.ntk.fanin[id]
                    IN  IF r.idx > Len(edges) THEN r
                        ELSE IF <<id, Node(edges[r.idx])>> \notin new /\ CheckRedundancy(r.ntk, id, r.idx)
                        THEN [r EXCEPT !.ntk = RemoveFanin(r.ntk, id, r.idx)]
                        ELSE [r EXCEPT !.idx = @ + 1]
           Loop(f) == f = [i \in 0..n |-> IF i = 0 THEN x0 ELSE op(f[i - 1])]
           after == CHOOSE f : Loop(f)
<1>1. n \in Nat
  BY NodeHas
<1>2. ReduceFanins(ntk, id, new) = after[n].ntk
  BY DEF ReduceFanins, Repeat
<1>3. ASSUME NEW r \in S PROVE op(r) \in S
  <2> DEFINE t == r.ntk
             idx == r.idx
             len == Len(t.fanin[id])
             u == RemoveFanin(t, id, idx)
  <2>1. t \in Sound(k, q, N) /\ t.ints = ntk.ints /\ idx \in Nat /\ r = [ntk |-> t, idx |-> idx]
    BY DEF SameList
  <2> HIDE DEF t, idx
  <2>2. id \in (k + 1)..(N - 1) /\ len \in Nat
    BY <2>1, NodeHas
  <2>3. ASSUME ~(idx > len) PROVE u \in A
    <3>1. idx \in 0..len
      BY <2>1, <2>2, <2>3
    <3>2. u \in SameList(k, q, N, t)
      BY <2>1, <2>2, <3>1, FaninTaken
    <3> QED BY <2>1, <3>2 DEF SameList
  <2>4. idx + 1 \in Nat /\ t \in A
    BY <2>1 DEF SameList
  <2>5. \/ op(r) = r
        \/ ~(idx > len) /\ op(r) = [ntk |-> u, idx |-> idx]
        \/ op(r) = [ntk |-> t, idx |-> idx + 1]
    BY <2>1 DEF t, idx
  <2> HIDE DEF op, A, u, len
  <2> QED BY <2>1, <2>3, <2>4, <2>5
<1>c. x0 \in S
  BY DEF SameList
<1>b. \A r \in S : r.ntk \in A
  OBVIOUS
<1> HIDE DEF S, x0, A
<1> HIDE DEF n, op
<1>4. x0 \in S
  BY <1>c
<1>5. \E f : Loop(f)
  <2> DEFINE g == [p \in S \X (1..n) |-> op(p[1])]
  <2>1. \A x \in S, i \in 1..n : g[<<x, i>>] = op(x) /\ g[<<x, i>>] \in S
    BY <1>3
  <2> HIDE DEF g
  <2>2. StaysIn(S, n, g)
    BY <2>1 DEF StaysIn
  <2>3. PICK f : IsLoop(f, S, n, x0, g)
    BY <1>1, <1>4, <2>2, RoundsExist
  <2>4. \A i \in 0..n : i # 0 => i \in 1..n /\ i - 1 \in 0..n
    BY <1>1
  <2>5. f = [i \in 0..n |-> f[i]] /\ \A i \in 0..n : f[i] = IF i = 0 THEN x0 ELSE op(f[i - 1])
    BY <2>1, <2>3, <2>4 DEF IsLoop
  <2>6. Loop(f)
    BY <2>5
  <2> HIDE DEF Loop
  <2> QED BY <2>6
<1>6. Loop(after)
  <2> HIDE DEF Loop
  <2> QED BY <1>5
<1> HIDE DEF after
<1>7. after[0] \in S /\ \A i \in 1..n : after[i - 1] \in S => after[i] \in S
  <2>1. 0 \in 0..n /\ \A i \in 1..n : i \in 0..n /\ i # 0
    BY <1>1
  <2>2. after[0] = x0 /\ \A i \in 1..n : after[i] = op(after[i - 1])
    BY <1>6, <2>1
  <2> QED BY <1>3, <1>4, <2>2
<1> HIDE DEF Loop
<1>8. after[n] \in S
  BY <1>1, <1>7, RoundsStay
<1> QED BY <1>2, <1>8, <1>b DEF A

\* The states of RemoveRedundancy.
Reducing(k, q, N) == [ntk : Sound(k, q, N), it : Nat, fReduced : BOOLEAN]

\* One node in it.
LEMMA NodeReduced ==
  ASSUME NEW k \in Nat, NEW q \in Nat, NEW N \in Nat, k < N, NEW r \in Reducing(k, q, N),
         NEW id \in Nat, NEW sorted, NEW reduced \in Sound(k, q, N)
  PROVE  ReduceNode(r, id, sorted, reduced) \in Reducing(k, q, N)
<1> DEFINE ntk == IF Len(reduced.fanin[id]) <= 1 THEN Propagate(reduced, {id}) ELSE reduced
           it == IF reduced # sorted THEN 1 ELSE r.it + 1
           fReduced == r.fReduced \/ reduced # sorted
<1>1. {id} \in SUBSET Nat
  OBVIOUS
<1>2. Propagate(reduced, {id}) \in Sound(k, q, N)
  BY <1>1, AllPropagatedSound
<1>3. ntk \in Sound(k, q, N)
  BY <1>2
<1>4. r.it \in Nat
  BY DEF Reducing
<1>5. it \in Nat
  BY <1>4
<1>6. fReduced \in BOOLEAN
  OBVIOUS
<1>7. ReduceNode(r, id, sorted, reduced) = [ntk |-> ntk, it |-> it, fReduced |-> fReduced]
  BY DEF ReduceNode
<1> HIDE DEF ntk, it, fReduced
<1> QED BY <1>3, <1>5, <1>6, <1>7 DEF Reducing

\* Redundant fanins, and nodes without fanouts, are removed.
LEMMA RedundancyRemoved ==
  ASSUME NEW k \in Nat, NEW q \in Nat, NEW N \in Nat, k < N, NEW ntk \in Sound(k, q, N),
         NEW par, NEW new
  PROVE  RemoveRedundancy(par, ntk, new) \subseteq Reducing(k, q, N)
<1> DEFINE A == Reducing(k, q, N)
           S == SUBSET A
           x0 == {[ntk |-> ntk, it |-> 1, fReduced |-> FALSE]}
           vInts == Reverse(ntk.ints)
           Visit(r) ==
             LET id == vInts[r.it]
             IN  IF r.it > Len(vInts) THEN {r}
                 ELSE IF ~IsInt(r.ntk, id) THEN {[r EXCEPT !.it = @ + 1]}
                 ELSE IF Refs(r.ntk, id) = 0 THEN {[r EXCEPT !.ntk = RemoveNode(r.ntk, id), !.it = @ + 1]}
                 ELSE {ReduceNode(r, id, t, ReduceFanins(t, id, new)) : t \in SortFanins(par, r.ntk, id)}
<1> DEFINE n == (EdgeCount(ntk) + 1) * Len(vInts)
           op(x) == UNION {Visit(r) : r \in x}
           Loop(f) == f = [i \in 0..n |-> IF i = 0 THEN x0 ELSE op(f[i - 1])]
           after == CHOOSE f : Loop(f)
<1>1. n \in Nat
  <2>1. ntk \in Nets(k, q, N)
    BY DEF Sound, Wired
  <2>2. EdgeCount(ntk) \in Nat
    BY <2>1, EdgeCountIs
  <2>3. Len(vInts) \in Nat
    <3>1. ntk.ints \in Seq((k + 1)..(N - 1))
      BY <2>1, NetFields
    <3> QED BY <3>1 DEF Reverse
  <2> HIDE DEF vInts
  <2> QED BY <2>2, <2>3
<1>2. RemoveRedundancy(par, ntk, new) = after[n]
  BY DEF RemoveRedundancy, Repeat
<1>b. ASSUME NEW r \in A PROVE Visit(r) \subseteq A
  <2> DEFINE t == r.ntk
             it == r.it
             id == vInts[it]
  <2>1. t \in Sound(k, q, N) /\ it \in Nat /\ r = [ntk |-> t, it |-> it, fReduced |-> r.fReduced] /\ r.fReduced \in BOOLEAN
    BY DEF Reducing
  <2>2. it + 1 \in Nat
    BY <2>1
  <2>3. [r EXCEPT !.it = @ + 1] \in A
    <3>1. [r EXCEPT !.it = @ + 1] = [ntk |-> t, it |-> it + 1, fReduced |-> r.fReduced]
      BY <2>1
    <3> HIDE DEF t, it
    <3> QED BY <2>1, <2>2, <3>1 DEF Reducing
  <2>4. [r EXCEPT !.ntk = RemoveNode(r.ntk, id), !.it = @ + 1] \in A
    <3> DEFINE u == RemoveNode(t, id)
    <3>2. u \in Sound(k, q, N)
      BY <2>1, RemovedSound
    <3> HIDE DEF u, t, id, Visit, op, n, S, x0
    <3> DEFINE more == it + 1
               z == r.fReduced
    <3> HIDE DEF more, z, it
    <3>a. r = [ntk |-> t, it |-> it, fReduced |-> z]
      BY <2>1 DEF z
    <3>b. [r EXCEPT !.ntk = u] = [ntk |-> u, it |-> it, fReduced |-> z]
      BY <3>a
    <3>c. [r EXCEPT !.ntk = u, !.it = more] = [[r EXCEPT !.ntk = u] EXCEPT !.it = more]
      OBVIOUS
    <3>d. [[ntk |-> u, it |-> it, fReduced |-> z] EXCEPT !.it = more] = [ntk |-> u, it |-> more, fReduced |-> z]
      OBVIOUS
    <3>1. [r EXCEPT !.ntk = u, !.it = @ + 1] = [ntk |-> u, it |-> it + 1, fReduced |-> r.fReduced]
      BY <3>b, <3>c, <3>d DEF more, it, z
    <3>3. [r EXCEPT !.ntk = u, !.it = @ + 1] \in A
      BY <2>1, <2>2, <3>1, <3>2 DEF Reducing
    <3> QED BY <3>3 DEF u, it, t
  <2>5. ASSUME IsInt(t, id), NEW p \in SortFanins(par, t, id)
        PROVE  ReduceNode(r, id, p, ReduceFanins(p, id, new)) \in A
    <3> HIDE DEF t, id
    <3>1. t \in Nets(k, q, N)
      BY <2>1 DEF Sound, Wired
    <3>2. id \in ToSet(t.ints)
      BY <2>5, <3>1, NetKinds
    <3>3. p \in Sound(k, q, N) /\ p.ints = t.ints
      BY <2>1, <2>5, <3>2, FaninsSorted DEF SameList
    <3>4. id \in ToSet(p.ints)
      BY <3>2, <3>3
    <3>5. id \in (k + 1)..(N - 1)
      BY <3>3, <3>4, NodeHas
    <3>6. id \in Nat
      BY <3>5
    <3>7. ReduceFanins(p, id, new) \in Sound(k, q, N)
      BY <3>3, <3>4, FaninsReduced DEF SameList
    <3> QED BY <3>6, <3>7, NodeReduced
  <2>6. \/ Visit(r) = {r}
        \/ Visit(r) = {[r EXCEPT !.it = @ + 1]}
        \/ Visit(r) = {[r EXCEPT !.ntk = RemoveNode(r.ntk, id), !.it = @ + 1]}
        \/ /\ IsInt(t, id)
           /\ Visit(r) = {ReduceNode(r, id, p, ReduceFanins(p, id, new)) : p \in SortFanins(par, t, id)}
    BY Zenon
  <2> HIDE DEF A, Visit, id, t
  <2> QED BY <2>3, <2>4, <2>5, <2>6
<1>c. x0 \in S
  BY DEF Reducing
<1> HIDE DEF A, Visit
<1>3. ASSUME NEW x \in S PROVE op(x) \in S
  <2>1. \A r \in x : Visit(r) \subseteq A
    BY <1>b
  <2> QED BY <2>1
<1> HIDE DEF S, x0
<1> HIDE DEF n, op
<1>4. x0 \in S
  BY <1>c
<1>5. \E f : Loop(f)
  <2> DEFINE g == [p \in S \X (1..n) |-> op(p[1])]
  <2>1. \A x \in S, i \in 1..n : g[<<x, i>>] = op(x) /\ g[<<x, i>>] \in S
    BY <1>3
  <2> HIDE DEF g
  <2>2. StaysIn(S, n, g)
    BY <2>1 DEF StaysIn
  <2>3. PICK f : IsLoop(f, S, n, x0, g)
    BY <1>1, <1>4, <2>2, RoundsExist
  <2>4. \A i \in 0..n : i # 0 => i \in 1..n /\ i - 1 \in 0..n
    BY <1>1
  <2>5. f = [i \in 0..n |-> f[i]] /\ \A i \in 0..n : f[i] = IF i = 0 THEN x0 ELSE op(f[i - 1])
    BY <2>1, <2>3, <2>4 DEF IsLoop
  <2>6. Loop(f)
    BY <2>5
  <2> HIDE DEF Loop
  <2> QED BY <2>6
<1>6. Loop(after)
  <2> HIDE DEF Loop
  <2> QED BY <1>5
<1> HIDE DEF after
<1>7. after[0] \in S /\ \A i \in 1..n : after[i - 1] \in S => after[i] \in S
  <2>1. 0 \in 0..n /\ \A i \in 1..n : i \in 0..n /\ i # 0
    BY <1>1
  <2>2. after[0] = x0 /\ \A i \in 1..n : after[i] = op(after[i - 1])
    BY <1>6, <2>1
  <2> QED BY <1>3, <1>4, <2>2
<1> HIDE DEF Loop
<1>8. after[n] \in S
  BY <1>1, <1>7, RoundsStay
<1> QED BY <1>2, <1>8 DEF S, A

\* A fanin is added: the list is put in order again.
LEMMA FaninAdded ==
  ASSUME NEW k \in Nat, NEW q \in Nat, NEW N \in Nat, k < N, NEW ntk \in Sound(k, q, N),
         NEW id \in ToSet(ntk.ints), NEW fi \in Alive(ntk), fi # id, NEW c \in BOOLEAN
  PROVE  AddFanin(ntk, id, fi, c) \subseteq Sound(k, q, N)
<1> DEFINE es == Append(ntk.fanin[id], <<fi, c>>)
           t == Rewire(ntk, id, es)
<1>1. ntk \in Wired(k, q, N) /\ ntk \in Nets(k, q, N) /\ Ordered(ntk)
  BY DEF Sound, Wired
<1>2. id \in (k + 1)..(N - 1)
  BY <1>1, NetIds
<1>3. id \in 0..(N - 1)
  BY <1>2
<1>4. fi \in 0..(N - 1)
  BY <1>1, AliveIs
<1>5. es \in Seq(Edges(N)) /\ Targets(es) = Fanins(ntk, id) \cup {fi}
  <2>1. ntk.fanin[id] \in Seq(Edges(N))
    BY <1>1, <1>3 DEF Nets
  <2>2. <<fi, c>> \in Edges(N) /\ Node(<<fi, c>>) = fi
    BY <1>4 DEF Edges, Node
  <2> DEFINE s == ntk.fanin[id]
             e == <<fi, c>>
  <2>3. Fanins(ntk, id) = Targets(s)
    BY DEF Fanins, Targets
  <2> HIDE DEF s, e
  <2>4. Append(s, e) \in Seq(Edges(N))
    BY <2>1, <2>2 DEF s, e
  <2>5. ToSet(Append(s, e)) = ToSet(s) \cup {e}
    BY <2>1, <2>2, IndexAppend DEF s, e
  <2>6. Targets(Append(s, e)) = Targets(s) \cup {fi}
    BY <2>2, <2>5 DEF Targets, e
  <2> QED BY <2>3, <2>4, <2>6 DEF s, e
<1>6. AddFanin(ntk, id, fi, c) = MoveBefore(t, id, fi)
  BY DEF AddFanin, Rewire
<1> HIDE DEF es
<1>7. Targets(es) \subseteq Alive(ntk)
  BY <1>1, <1>3, <1>5 DEF Wired
<1>8. /\ t \in Wired(k, q, N) /\ t.ints = ntk.ints
      /\ \A n : n # id => Fanins(t, n) = Fanins(ntk, n)
      /\ Fanins(t, id) = Targets(es)
  BY <1>1, <1>2, <1>5, <1>7, Rewired
<1> HIDE DEF t
<1>9. NearlyOrdered(t, id, fi)
  <2> SUFFICES ASSUME NEW n \in ToSet(ntk.ints), NEW m \in ToSet(ntk.ints), m \in Fanins(t, n)
               PROVE  \/ IndexOf(ntk.ints, m) < IndexOf(ntk.ints, n)
                      \/ m = fi /\ IndexOf(ntk.ints, id) <= IndexOf(ntk.ints, n)
    BY <1>8 DEF NearlyOrdered
  <2>1. CASE m \in Fanins(ntk, n)
    BY <1>1, <2>1 DEF Ordered
  <2>2. CASE m = fi /\ n = id
    <3>1. IndexOf(ntk.ints, id) \in 0..Len(ntk.ints)
      <4>1. ntk.ints \in Seq((k + 1)..(N - 1))
        BY <1>1, NetFields
      <4> QED BY <4>1, IndexIs
    <3>2. IndexOf(ntk.ints, id) <= IndexOf(ntk.ints, id)
      BY <3>1
    <3> QED BY <2>2, <3>2
  <2> QED BY <1>5, <1>8, <2>1, <2>2
<1>10. ASSUME NEW u \in MoveBefore(t, id, fi) PROVE u \in Sound(k, q, N)
  <2> DEFINE ord == TRUE
  <2>1. ord => NearlyOrdered(t, id, fi)
    BY <1>9
  <2>a. ord
    OBVIOUS
  <2> HIDE DEF ord
  <2>2. u \in Wired(k, q, N) /\ (ord => Ordered(u))
    BY <1>4, <1>8, <2>1, MovedIn
  <2> QED BY <2>2, <2>a DEF Sound
<1> QED BY <1>6, <1>10

\* The cost of a network is a number.
LEMMA CostIs ==
  ASSUME NEW k \in Nat, NEW q \in Nat, NEW N \in Nat, k < N, NEW ntk \in Nets(k, q, N)
  PROVE  CostFunction(ntk) \in Int
<1> DEFINE seq == ntk.ints
           n == Len(seq)
           op(x, i) == x + Len(ntk.fanin[seq[i]]) - 1
           Fold(f) == f = [s \in SUBSET (1..n) |-> IF s = {} THEN 0 ELSE op(f[s \ {Max(s)}], Max(s))]
           iter == CHOOSE f : Fold(f)
<1>a. seq \in Seq((k + 1)..(N - 1))
  BY NetFields
<1>1. n \in Nat
  BY <1>a
<1>b. DOMAIN seq = 1..n /\ \A i \in 1..n : seq[i] \in 0..(N - 1)
  BY <1>a
<1>2. CostFunction(ntk) = iter[1..n]
  <2> HIDE DEF seq
  <2> QED BY <1>b DEF CostFunction, FoldLeft, MapThenFoldSet, seq
<1> HIDE DEF seq, n
<1>3. ASSUME NEW x \in Int, NEW i \in 1..n PROVE op(x, i) \in Int
  <2>1. ntk.fanin[seq[i]] \in Seq(Edges(N))
    BY <1>b DEF Nets
  <2>2. Len(ntk.fanin[seq[i]]) \in Nat
    BY <2>1
  <2> QED BY <2>2
<1> HIDE DEF n, op
<1>4. \E f : Fold(f)
  <2> DEFINE g == [p \in Int \X (1..n) |-> op(p[1], p[2])]
  <2>1. \A x \in Int, i \in 1..n : g[<<x, i>>] = op(x, i) /\ g[<<x, i>>] \in Int
    BY <1>3
  <2> HIDE DEF g
  <2>2. 0 \in Int
    OBVIOUS
  <2>3. PICK f : /\ f = [s \in SUBSET (1..n) |-> IF s = {} THEN 0 ELSE g[<<f[s \ {Max(s)}], Max(s)>>]]
                 /\ \A s \in SUBSET (1..n) : s # {} => f[s \ {Max(s)}] \in Int /\ Max(s) \in 1..n
    BY <1>1, <2>1, <2>2, FoldExists
  <2>4. \A s \in SUBSET (1..n) : f[s] = IF s = {} THEN 0 ELSE op(f[s \ {Max(s)}], Max(s))
    BY <2>1, <2>3
  <2>5. Fold(f)
    BY <2>3, <2>4
  <2> HIDE DEF Fold
  <2> QED BY <2>5
<1>5. Fold(iter)
  <2> HIDE DEF Fold
  <2> QED BY <1>4
<1> HIDE DEF iter
<1>6. iter[{}] = 0 /\ \A m \in 1..n : iter[1..m] = op(iter[1..(m - 1)], m)
  <2>1. iter[{}] = 0
    BY <1>5
  <2>2. ASSUME NEW m \in 1..n PROVE iter[1..m] = op(iter[1..(m - 1)], m)
    <3>1. /\ 1..m \in SUBSET (1..n) /\ 1..m # {} /\ Max(1..m) = m
          /\ (1..m) \ {m} = 1..(m - 1)
      BY <1>1, PrefixIs
    <3> QED BY <1>5, <3>1
  <2> QED BY <2>1, <2>2
<1> HIDE DEF Fold
<1>c. 0 \in Int
  OBVIOUS
<1>7. iter[1..n] \in Int
  <2>0. iter[{}] \in Int
    BY <1>6, <1>c
  <2>1. \A m \in 1..n : iter[1..(m - 1)] \in Int => iter[1..m] \in Int
    BY <1>3, <1>6
  <2> QED BY <1>1, <2>0, <2>1, FoldIn
<1> QED BY <1>2, <1>7

-----------------------------------------------------------------------------
(* Nodes are collapsed, and split again.                                   *)

\* Two sequences one after the other.
LEMMA JoinedIn ==
  ASSUME NEW X, NEW u \in Seq(X), NEW v \in Seq(X)
  PROVE  u \o v \in Seq(X) /\ ToSet(u \o v) \subseteq ToSet(u) \cup ToSet(v)
<1>1. /\ u \o v \in Seq(X) /\ Len(u \o v) = Len(u) + Len(v)
      /\ \A i \in 1..(Len(u) + Len(v)) : (u \o v)[i] = IF i <= Len(u) THEN u[i] ELSE v[i - Len(u)]
  OBVIOUS
<1>2. Len(u) \in Nat /\ Len(v) \in Nat
  OBVIOUS
<1>3. \A i \in 1..(Len(u) + Len(v)) : i \in 1..Len(u) \/ (i > Len(u) /\ i - Len(u) \in 1..Len(v))
  BY <1>2
<1>4. \A i \in 1..Len(u) : i <= Len(u)
  BY <1>2
<1>5. ToSet(u) = {u[i] : i \in 1..Len(u)} /\ ToSet(v) = {v[i] : i \in 1..Len(v)} /\ ToSet(u \o v) = {(u \o v)[i] : i \in 1..Len(u \o v)}
  BY <1>1, SeqIn
<1>6. ASSUME NEW i \in 1..(Len(u) + Len(v)) PROVE (u \o v)[i] \in ToSet(u) \cup ToSet(v)
  <2>1. CASE i \in 1..Len(u)
    BY <1>1, <1>4, <1>5, <2>1
  <2>2. CASE i > Len(u) /\ i - Len(u) \in 1..Len(v)
    <3>1. ~(i <= Len(u))
      BY <1>2, <2>2
    <3>2. (u \o v)[i] = v[i - Len(u)]
      BY <1>1, <3>1
    <3> QED BY <1>5, <2>2, <3>2
  <2> QED BY <1>3, <2>1, <2>2
<1> QED BY <1>1, <1>5, <1>6

\* A piece of a sequence.
LEMMA PieceIn ==
  ASSUME NEW X, NEW s \in Seq(X), NEW a \in 1..(Len(s) + 1), NEW b \in 0..Len(s)
  PROVE  SubSeq(s, a, b) \in Seq(X) /\ ToSet(SubSeq(s, a, b)) \subseteq ToSet(s)
<1> DEFINE p == SubSeq(s, a, b)
<1>1. Len(s) \in Nat
  OBVIOUS
<1>2. /\ p \in Seq(X) /\ Len(p) = IF a <= b THEN b - a + 1 ELSE 0
      /\ \A i \in 1..(b - a + 1) : p[i] = s[a + i - 1]
  BY <1>1
<1> HIDE DEF p
<1>3. \A i \in 1..Len(p) : i \in 1..(b - a + 1) /\ a + i - 1 \in 1..Len(s)
  BY <1>1, <1>2
<1>4. \A z \in Seq(X) : ToSet(z) = {z[i] : i \in 1..Len(z)}
  BY SeqIn
<1>5. ToSet(p) \subseteq ToSet(s)
  <2>1. ASSUME NEW i \in 1..Len(p) PROVE p[i] \in ToSet(s)
    BY <1>2, <1>3, <1>4
  <2>2. ToSet(p) = {p[i] : i \in 1..Len(p)}
    BY <1>2, <1>4
  <2> QED BY <2>1, <2>2
<1> QED BY <1>2, <1>5 DEF p

\* A piece of a sequence, put in the place of one element.
Spliced(s, idx, es) == SubSeq(s, 1, idx - 1) \o es \o SubSeq(s, idx + 1, Len(s))

\* The edges are those of both.
LEMMA SplicedIn ==
  ASSUME NEW N \in Nat, NEW s \in Seq(Edges(N)), NEW es \in Seq(Edges(N)), NEW idx \in 1..Len(s)
  PROVE  /\ Spliced(s, idx, es) \in Seq(Edges(N))
         /\ Targets(Spliced(s, idx, es)) \subseteq Targets(s) \cup Targets(es)
<1> DEFINE X == Edges(N)
           a == SubSeq(s, 1, idx - 1)
           b == SubSeq(s, idx + 1, Len(s))
<1>0. s \in Seq(X) /\ es \in Seq(X) /\ Len(s) \in Nat /\ Len(es) \in Nat
  OBVIOUS
<1> HIDE DEF X
<1>1. a \in Seq(X) /\ Len(a) = idx - 1 /\ \A i \in 1..(idx - 1) : a[i] = s[i]
  BY <1>0
<1>2. b \in Seq(X) /\ Len(b) = Len(s) - idx /\ \A i \in 1..(Len(s) - idx) : b[i] = s[idx + i]
  BY <1>0
<1>3. ToSet(a) \subseteq ToSet(s) /\ ToSet(b) \subseteq ToSet(s)
  <2>1. \A i \in 1..(idx - 1) : i \in 1..Len(s)
    BY <1>0
  <2>2. \A i \in 1..(Len(s) - idx) : idx + i \in 1..Len(s)
    BY <1>0
  <2>3. ToSet(s) = {s[i] : i \in 1..Len(s)} /\ ToSet(a) = {a[i] : i \in 1..Len(a)} /\ ToSet(b) = {b[i] : i \in 1..Len(b)}
    <3>1. \A z \in Seq(X) : ToSet(z) = {z[i] : i \in 1..Len(z)}
      BY SeqIn
    <3> HIDE DEF a, b
    <3> QED BY <1>0, <1>1, <1>2, <3>1
  <2> QED BY <1>1, <1>2, <2>1, <2>2, <2>3
<1> HIDE DEF a, b
<1>4. \A u, v \in Seq(X) : u \o v \in Seq(X) /\ ToSet(u \o v) \subseteq ToSet(u) \cup ToSet(v)
  BY JoinedIn
<1>5. a \o es \in Seq(X) /\ ToSet(a \o es) \subseteq ToSet(a) \cup ToSet(es)
  BY <1>0, <1>1, <1>4
<1>6. (a \o es) \o b \in Seq(X) /\ ToSet((a \o es) \o b) \subseteq ToSet(a \o es) \cup ToSet(b)
  BY <1>2, <1>4, <1>5
<1>7. Spliced(s, idx, es) = (a \o es) \o b
  BY DEF Spliced, a, b
<1>8. ToSet(Spliced(s, idx, es)) \subseteq ToSet(s) \cup ToSet(es)
  BY <1>3, <1>5, <1>6, <1>7
<1> QED BY <1>6, <1>7, <1>8 DEF Targets, X

\* A node takes over the fanins of one of its fanins.
LEMMA OneCollapsed ==
  ASSUME NEW k \in Nat, NEW q \in Nat, NEW N \in Nat, k < N, NEW ntk \in Sound(k, q, N),
         NEW id \in ToSet(ntk.ints)
  PROVE  CollapseOne(ntk, id) \in Sound(k, q, N) /\ id \in ToSet(CollapseOne(ntk, id).ints)
<1> DEFINE s == ntk.fanin[id]
           I == {i \in 1..Len(s) : ~IsPi(ntk, Node(s[i])) /\ ~IsCompl(s[i]) /\ Refs(ntk, Node(s[i])) = 1}
           idx == IF I # {} THEN Min(I) ELSE 0
           fi == Node(s[idx])
           t == RemoveNode(ntk, fi)
           es == Spliced(s, idx, ntk.fanin[fi])
<1>1. ntk \in Wired(k, q, N) /\ ntk \in Nets(k, q, N) /\ ntk.nNodes = N /\ Ordered(ntk)
  BY DEF Sound, Wired, Nets
<1>2. id \in (k + 1)..(N - 1)
  BY <1>1, NetIds
<1>3. id \in 0..(N - 1)
  BY <1>2
<1>4. s \in Seq(Edges(N)) /\ Len(s) \in Nat
  <2>1. s \in Seq(Edges(N))
    BY <1>1, <1>3 DEF Nets
  <2> QED BY <2>1
<1>5. CollapseOne(ntk, id) = IF idx = 0 THEN ntk ELSE Rewire(t, id, es)
  BY DEF CollapseOne, SelectInSeq, Rewire, Spliced
<1>6. idx # 0 => idx \in 1..Len(s)
  <2>1. I \in SUBSET Nat
    BY <1>4
  <2>2. I \subseteq 1..Len(s)
    OBVIOUS
  <2> HIDE DEF I
  <2>3. I # {} => Min(I) \in I
    BY <2>1, MinIs
  <2> QED BY <2>2, <2>3
<1> HIDE DEF I, idx
<1>7. CASE idx # 0
  <2>0. idx \in 1..Len(s)
    BY <1>6, <1>7
  <2>1. fi \in Fanins(ntk, id) /\ fi \in 0..(N - 1)
    <3>1. Targets(s) = {Node(s[i]) : i \in 1..Len(s)} /\ \A i \in 1..Len(s) : Node(s[i]) \in 0..(N - 1)
      BY <1>4, EdgesTo
    <3>2. Fanins(ntk, id) = Targets(s)
      BY DEF Fanins, Targets
    <3> HIDE DEF s
    <3> QED BY <2>0, <3>1, <3>2
  <2>2. fi \in Alive(ntk)
    BY <1>1, <1>3, <2>1 DEF Wired
  <2>3. ntk.ints \in Seq((k + 1)..(N - 1))
    BY <1>1, NetFields
  <2> HIDE DEF s, fi
  <2>4. fi # id
    <3>1. ASSUME fi = id PROVE FALSE
      <4>1. IndexOf(ntk.ints, id) < IndexOf(ntk.ints, id)
        BY <1>1, <2>1, <3>1 DEF Ordered
      <4>2. IndexOf(ntk.ints, id) \in 0..Len(ntk.ints)
        BY <2>3, IndexIs
      <4>3. IndexOf(ntk.ints, id) \in Int
        BY <2>3, <4>2
      <4> QED BY <4>1, <4>3
    <3> QED BY <3>1
  <2>5. /\ t \in Wired(k, q, N) /\ Alive(ntk) \subseteq Alive(t)
        /\ ToSet(t.ints) = ToSet(ntk.ints) \ {fi}
        /\ \A n : n # fi => t.fanin[n] = ntk.fanin[n]
        /\ Ordered(t)
    BY <1>1, NodeRemoved
  <2>6. t.ints = Only(ntk.ints, ToSet(ntk.ints) \ {fi})
    <3>1. /\ ntk = [nNodes |-> ntk.nNodes, pis |-> ntk.pis, ints |-> ntk.ints, pos |-> ntk.pos, fanin |-> ntk.fanin]
      BY <1>1 DEF Nets
    <3> QED BY <3>1 DEF RemoveNode
  <2>7. \A x, y \in ToSet(t.ints) : IndexOf(ntk.ints, x) < IndexOf(ntk.ints, y) => IndexOf(t.ints, x) < IndexOf(t.ints, y)
    BY <2>3, <2>6, OnlyKeeps
  <2> HIDE DEF t
  <2>8. ntk.fanin[fi] \in Seq(Edges(N)) /\ Fanins(ntk, fi) = Targets(ntk.fanin[fi]) /\ Fanins(ntk, id) = Targets(s)
    BY <1>1, <2>1 DEF Nets, Fanins, Targets, s
  <2>9. es \in Seq(Edges(N)) /\ Targets(es) \subseteq Fanins(ntk, id) \cup Fanins(ntk, fi)
    BY <1>4, <2>0, <2>8, SplicedIn
  <2>10. Targets(es) \subseteq Alive(t)
    BY <1>1, <1>3, <2>1, <2>5, <2>9 DEF Wired
  <2> HIDE DEF es
  <2>11. id \in ToSet(t.ints)
    BY <2>4, <2>5
  <2> DEFINE u == Rewire(t, id, es)
  <2>12. /\ u \in Wired(k, q, N) /\ u.ints = t.ints
         /\ \A n : n # id => Fanins(u, n) = Fanins(t, n)
         /\ Fanins(u, id) = Targets(es)
    BY <1>2, <2>5, <2>9, <2>10, <2>11, Rewired
  <2> HIDE DEF u
  <2>13. \A n : n # fi => Fanins(t, n) = Fanins(ntk, n)
    BY <2>5 DEF Fanins
  <2>14. Ordered(u)
    <3> SUFFICES ASSUME NEW n \in ToSet(t.ints), NEW m \in ToSet(t.ints), m \in Fanins(u, n)
                 PROVE  IndexOf(t.ints, m) < IndexOf(t.ints, n)
      BY <2>12 DEF Ordered
    <3>1. CASE m \in Fanins(t, n)
      BY <2>5, <3>1 DEF Ordered
    <3>2. CASE n = id /\ m \in Fanins(ntk, fi)
      <4>1. fi \in ToSet(ntk.ints)
        <5>1. CASE ntk.fanin[fi] = <<>>
          <6>1. Fanins(ntk, fi) = {}
            BY <5>1 DEF Fanins, ToSet
          <6> QED BY <3>2, <6>1
        <5>2. ntk.fanin[fi] = <<>> \/ fi \in ToSet(ntk.ints)
          BY <1>1, <2>2, AliveIs
        <5> QED BY <5>1, <5>2
      <4>2. m \in ToSet(ntk.ints)
        BY <2>5
      <4>3. IndexOf(ntk.ints, m) < IndexOf(ntk.ints, fi) /\ IndexOf(ntk.ints, fi) < IndexOf(ntk.ints, id)
        BY <1>1, <2>1, <3>2, <4>1, <4>2 DEF Ordered
      <4>4. /\ IndexOf(ntk.ints, m) \in 0..Len(ntk.ints) /\ IndexOf(ntk.ints, fi) \in 0..Len(ntk.ints)
            /\ IndexOf(ntk.ints, id) \in 0..Len(ntk.ints)
        BY <2>3, IndexIs
      <4>5. IndexOf(ntk.ints, m) < IndexOf(ntk.ints, id)
        BY <4>3, <4>4
      <4> QED BY <2>7, <3>2, <4>5
    <3> QED BY <2>4, <2>9, <2>12, <2>13, <3>1, <3>2
  <2>15. CollapseOne(ntk, id) = u
    BY <1>5, <1>7 DEF u
  <2> QED BY <2>11, <2>12, <2>14, <2>15 DEF Sound
<1> QED BY <1>5, <1>7

\* Fanins are taken over for as long as there is one to take over.
LEMMA AllCollapsed ==
  ASSUME NEW k \in Nat, NEW q \in Nat, NEW N \in Nat, k < N, NEW ntk \in Sound(k, q, N),
         NEW id \in ToSet(ntk.ints)
  PROVE  TrivialCollapse(ntk, id) \in Sound(k, q, N) /\ id \in ToSet(TrivialCollapse(ntk, id).ints)
<1> DEFINE S == {x \in Sound(k, q, N) : id \in ToSet(x.ints)}
<1> DEFINE n == EdgeCount(ntk)
           op(x) == CollapseOne(x, id)
           Loop(f) == f = [i \in 0..n |-> IF i = 0 THEN ntk ELSE op(f[i - 1])]
           after == CHOOSE f : Loop(f)
<1>1. n \in Nat
  <2>1. ntk \in Nets(k, q, N)
    BY DEF Sound, Wired
  <2> QED BY <2>1, EdgeCountIs
<1>2. TrivialCollapse(ntk, id) = after[n]
  BY DEF TrivialCollapse, Repeat
<1>3. ASSUME NEW x \in S PROVE op(x) \in S
  BY OneCollapsed
<1>c. ntk \in S
  OBVIOUS
<1> HIDE DEF S
<1> HIDE DEF n, op
<1>4. ntk \in S
  BY <1>c
<1>5. \E f : Loop(f)
  <2> DEFINE g == [p \in S \X (1..n) |-> op(p[1])]
  <2>1. \A x \in S, i \in 1..n : g[<<x, i>>] = op(x) /\ g[<<x, i>>] \in S
    BY <1>3
  <2> HIDE DEF g
  <2>2. StaysIn(S, n, g)
    BY <2>1 DEF StaysIn
  <2>3. PICK f : IsLoop(f, S, n, ntk, g)
    BY <1>1, <1>4, <2>2, RoundsExist
  <2>4. \A i \in 0..n : i # 0 => i \in 1..n /\ i - 1 \in 0..n
    BY <1>1
  <2>5. f = [i \in 0..n |-> f[i]] /\ \A i \in 0..n : f[i] = IF i = 0 THEN ntk ELSE op(f[i - 1])
    BY <2>1, <2>3, <2>4 DEF IsLoop
  <2>6. Loop(f)
    BY <2>5
  <2> HIDE DEF Loop
  <2> QED BY <2>6
<1>6. Loop(after)
  <2> HIDE DEF Loop
  <2> QED BY <1>5
<1> HIDE DEF after
<1>7. after[0] \in S /\ \A i \in 1..n : after[i - 1] \in S => after[i] \in S
  <2>1. 0 \in 0..n /\ \A i \in 1..n : i \in 0..n /\ i # 0
    BY <1>1
  <2>2. after[0] = ntk /\ \A i \in 1..n : after[i] = op(after[i - 1])
    BY <1>6, <2>1
  <2> QED BY <1>3, <1>4, <2>2
<1> HIDE DEF Loop
<1>8. after[n] \in S
  BY <1>1, <1>7, RoundsStay
<1> QED BY <1>2, <1>8 DEF S

\* A node gives its last two fanins to a new node.
LEMMA OneSplit ==
  ASSUME NEW k \in Nat, NEW q \in Nat, NEW N \in Nat, k < N, NEW ntk \in Sound(k, q, N),
         NEW id \in ToSet(ntk.ints), Len(ntk.fanin[id]) > 2
  PROVE  SplitOne(ntk, id) \in Sound(k, q, N + 1)
<1> DEFINE s == ntk.fanin[id]
           len == Len(s)
           es == SubSeq(s, len - 1, len)
           split == CreateNode(ntk, es)
           list == InFront(split.ints, id, N)
           t == [split EXCEPT !.ints = list]
           es2 == SubSeq(s, 1, len - 2) \o <<<<N, FALSE>>>>
           u == Rewire(t, id, es2)
<1>1. ntk \in Wired(k, q, N) /\ ntk \in Nets(k, q, N) /\ ntk.nNodes = N /\ Ordered(ntk)
  BY DEF Sound, Wired, Nets
<1> DEFINE M == N + 1
<1>b. M \in Nat /\ k < M
  OBVIOUS
<1>2. id \in (k + 1)..(N - 1) /\ id \in (k + 1)..(M - 1) /\ id \in 0..(N - 1) /\ id # N
  <2>1. id \in (k + 1)..(N - 1)
    BY <1>1, NetIds
  <2> QED BY <2>1
<1>3. s \in Seq(Edges(N)) /\ len \in Nat
  <2>1. s \in Seq(Edges(N))
    BY <1>1, <1>2 DEF Nets
  <2> QED BY <2>1
<1>4. SplitOne(ntk, id) = [split EXCEPT !.ints = list, !.fanin[id] = es2]
  <2>1. IsInt(ntk, id)
    BY <1>1, NetKinds
  <2>2. ~(len <= 2)
    BY <1>3
  <2> DEFINE cut == Rewire(ntk, id, es2)
             p == ntk.pis
             l == Append(ntk.ints, N)
             o == ntk.pos
             f == ntk.fanin
  <2>3. SplitOne(ntk, id) = [CreateNode(cut, es) EXCEPT !.ints = InFront(@, id, N)]
    BY <1>1, <2>1, <2>2 DEF SplitOne, Rewire
  <2> HIDE DEF es, es2, s, len
  <2>a. ntk = Net(N, p, ntk.ints, o, f) /\ f \in [0..(N - 1) -> Seq(Edges(N))]
    BY <1>1 DEF Nets, Net
  <2> DEFINE ints == ntk.ints
             g == [f EXCEPT ![id] = es2]
  <2> HIDE DEF p, ints, o, f
  <2>b. ntk = Net(N, p, ints, o, f)
    BY <2>a DEF ints
  <2> HIDE DEF g
  <2>c. [Net(N, p, ints, o, f) EXCEPT !.fanin[id] = es2] = Net(N, p, ints, o, [f EXCEPT ![id] = es2])
    BY DEF Net
  <2>4. cut = Net(N, p, ints, o, g)
    BY <2>b, <2>c DEF Rewire, g
  <2> HIDE DEF cut
  <2>d. cut.nNodes = N /\ cut.ints = ints /\ cut.fanin = g
    BY <2>4 DEF Net
  <2>5. CreateNode(cut, es) = Net(N + 1, p, l, o, WithNode(cut, N, es))
    <3>1. CreateNode(cut, es) = WithInts(cut, N + 1, l, WithNode(cut, N, es))
      BY <2>d DEF CreateNode, WithNode, WithInts, ints
    <3> DEFINE w == WithNode(cut, N, es)
    <3> HIDE DEF w, l
    <3>2. WithInts(cut, N + 1, l, w) = Net(N + 1, p, l, o, w)
      BY <2>4, NetChanged
    <3> QED BY <3>1, <3>2 DEF w
  <2>6. split = Net(N + 1, p, l, o, WithNode(ntk, N, es))
    <3>1. split = WithInts(ntk, N + 1, l, WithNode(ntk, N, es))
      BY <1>1 DEF CreateNode, WithNode, WithInts
    <3> DEFINE w == WithNode(ntk, N, es)
    <3> HIDE DEF w, l, split
    <3>2. WithInts(ntk, N + 1, l, w) = Net(N + 1, p, l, o, w)
      BY <2>b, NetChanged
    <3> QED BY <3>1, <3>2 DEF w
  <2>7. WithNode(cut, N, es) = [WithNode(ntk, N, es) EXCEPT ![id] = es2]
    <3>0. \A n \in 0..N : n = N \/ n \in 0..(N - 1)
      OBVIOUS
    <3>a. \A n \in 0..(N - 1) : g[n] = IF n = id THEN es2 ELSE f[n]
      BY <1>2, <2>a DEF g
    <3>1. \A n \in 0..N : WithNode(cut, N, es)[n] = IF n = N THEN es ELSE IF n = id THEN es2 ELSE f[n]
      BY <2>d, <3>0, <3>a DEF WithNode
    <3>2. \A n \in 0..N : WithNode(ntk, N, es)[n] = IF n = N THEN es ELSE f[n]
      BY DEF WithNode, f
    <3>3. /\ WithNode(ntk, N, es) = [n \in 0..N |-> WithNode(ntk, N, es)[n]]
          /\ WithNode(cut, N, es) = [n \in 0..N |-> WithNode(cut, N, es)[n]]
      BY DEF WithNode
    <3> QED BY <1>2, <3>1, <3>2, <3>3
  <2> DEFINE w == WithNode(ntk, N, es)
             v == WithNode(cut, N, es)
  <2> HIDE DEF w, v, l, split
  <2>8. SplitOne(ntk, id) = Net(N + 1, p, InFront(l, id, N), o, v)
    BY <2>3, <2>5 DEF Net, v
  <2>9. list = InFront(l, id, N)
    BY <2>6 DEF Net
  <2> HIDE DEF list
  <2>10. [split EXCEPT !.ints = list, !.fanin[id] = es2] = Net(N + 1, p, list, o, [w EXCEPT ![id] = es2])
    <3>1. [split EXCEPT !.ints = list, !.fanin[id] = es2]
            = [[split EXCEPT !.ints = list] EXCEPT !.fanin[id] = es2]
      OBVIOUS
    <3>2. [Net(N + 1, p, l, o, w) EXCEPT !.ints = list] = Net(N + 1, p, list, o, w)
      BY DEF Net
    <3>3. [Net(N + 1, p, list, o, w) EXCEPT !.fanin[id] = es2] = Net(N + 1, p, list, o, [w EXCEPT ![id] = es2])
      BY DEF Net
    <3> QED BY <2>6, <3>1, <3>2, <3>3 DEF w
  <2> QED BY <2>7, <2>8, <2>9, <2>10 DEF v, w
<1>5. /\ len - 1 \in 1..(len + 1) /\ len \in 0..len
      /\ 1 \in 1..(len + 1) /\ len - 2 \in 0..len
  BY <1>3
<1>6. s \in Seq(Edges(N)) => es \in Seq(Edges(N)) /\ ToSet(es) \subseteq ToSet(s)
  BY <1>5, PieceIn
<1>7. Fanins(ntk, id) = Targets(s)
  BY DEF Fanins, Targets
<1>8. es \in Seq(Edges(N)) /\ Targets(es) \subseteq Fanins(ntk, id)
  BY <1>3, <1>6, <1>7 DEF Targets
<1>9. Edges(N) \subseteq Edges(M) /\ <<N, FALSE>> \in Edges(M) /\ Node(<<N, FALSE>>) = N
  <2>1. 0..(N - 1) \subseteq 0..(M - 1) /\ N \in 0..(M - 1)
    OBVIOUS
  <2> QED BY <2>1 DEF Edges, Node
<1>10. es2 \in Seq(Edges(M)) /\ Targets(es2) \subseteq Fanins(ntk, id) \cup {N}
  <2> DEFINE p == SubSeq(s, 1, len - 2)
             e == <<N, FALSE>>
             last == <<e>>
  <2>1. s \in Seq(Edges(N)) => p \in Seq(Edges(N)) /\ ToSet(p) \subseteq ToSet(s)
    BY <1>5, PieceIn
  <2> HIDE DEF p, e, s, len
  <2>2. \A z \in Seq(Edges(N)) : z \in Seq(Edges(M))
    BY <1>9
  <2>3. p \in Seq(Edges(M))
    BY <1>3, <2>1, <2>2
  <2>4. last \in Seq(Edges(M)) /\ ToSet(last) = {e}
    <3>0. e \in Edges(M)
      BY <1>9 DEF e
    <3>1. last \in Seq(Edges(M)) /\ Len(last) = 1 /\ last[1] = e
      BY <3>0
    <3> HIDE DEF last
    <3>2. ToSet(last) = {last[i] : i \in 1..Len(last)}
      BY <3>1, SeqIn
    <3>3. \A i \in 1..1 : i = 1
      OBVIOUS
    <3>4. 1 \in 1..1
      OBVIOUS
    <3> QED BY <3>1, <3>2, <3>3, <3>4
  <2> HIDE DEF last
  <2>5. p \o last \in Seq(Edges(M)) /\ ToSet(p \o last) \subseteq ToSet(p) \cup ToSet(last)
    BY <2>3, <2>4, JoinedIn
  <2>6. es2 = p \o last
    BY DEF p, e, last
  <2> HIDE DEF es2
  <2>7. Node(e) = N
    BY <1>9 DEF e
  <2>8. ToSet(es2) \subseteq ToSet(s) \cup {e}
    BY <1>3, <2>1, <2>4, <2>5, <2>6
  <2>9. Targets(es2) \subseteq Targets(s) \cup {N}
    BY <2>7, <2>8 DEF Targets
  <2> QED BY <1>7, <2>5, <2>6, <2>9
<1> HIDE DEF es, es2, s, len
<1>11. Fanins(ntk, id) \subseteq Alive(ntk)
  BY <1>1, <1>2 DEF Wired
<1>a. Targets(es) \subseteq Alive(ntk)
  BY <1>8, <1>11
<1>12. /\ split \in Wired(k, q, M) /\ split.ints = Append(ntk.ints, N)
       /\ ToSet(split.ints) = ToSet(ntk.ints) \cup {N}
       /\ Alive(split) = Alive(ntk) \cup {N}
       /\ Ordered(split)
       /\ WithFanins(ntk, N, es, split)
  <2>1. CreatedAs(k, q, N, ntk, es, split)
    BY <1>1, <1>8, <1>a, CreatedNode
  <2> HIDE DEF split
  <2> QED BY <1>1, <2>1 DEF CreatedAs, M
<1> HIDE DEF split, M
<1>13. split \in Nets(k, q, M) /\ split.ints \in Seq((k + 1)..(M - 1))
  <2>1. split \in Nets(k, q, M)
    BY <1>12 DEF Wired
  <2> QED BY <2>1 DEF Nets
<1> DEFINE X == (k + 1)..(M - 1)
           ints == split.ints
<1>14. ints \in Seq(X) /\ N \in X /\ N \notin ToSet(ntk.ints)
  <2>1. ToSet(ntk.ints) \subseteq (k + 1)..(N - 1)
    BY <1>1, NetIds
  <2>2. N \notin (k + 1)..(N - 1) /\ N \in X
    BY DEF M
  <2> QED BY <1>13, <2>1, <2>2
<1>15. /\ \A x \in ToSet(ntk.ints) : IndexOf(ints, x) = IndexOf(ntk.ints, x)
       /\ IndexOf(ints, N) = Len(ntk.ints) + 1
  <2>1. ntk.ints \in Seq(X)
    <3>1. ntk.ints \in Seq((k + 1)..(N - 1))
      BY <1>1 DEF Nets
    <3>2. (k + 1)..(N - 1) \subseteq X
      BY DEF M
    <3> HIDE DEF X
    <3> QED BY <3>1, <3>2
  <2> HIDE DEF X
  <2> QED BY <1>12, <1>14, <2>1, IndexAppend
<1> HIDE DEF X
<1>16. \A x \in ToSet(ntk.ints) : IndexOf(ntk.ints, x) \in 1..Len(ntk.ints)
  <2>1. ntk.ints \in Seq((k + 1)..(N - 1))
    BY <1>1 DEF Nets
  <2>2. ASSUME NEW x \in ToSet(ntk.ints) PROVE IndexOf(ntk.ints, x) \in 1..Len(ntk.ints)
    <3>1. IndexOf(ntk.ints, x) \in 0..Len(ntk.ints) /\ IndexOf(ntk.ints, x) > 0
      BY <2>1, IndexIs
    <3> QED BY <2>1, <3>1
  <2> QED BY <2>2
<1>17. Len(ntk.ints) \in Nat
  <2>1. ntk.ints \in Seq((k + 1)..(N - 1))
    BY <1>1 DEF Nets
  <2> QED BY <2>1
<1>18. Behind(ints, id, N)
  <2>1. IndexOf(ints, id) \in 1..Len(ntk.ints) /\ IndexOf(ints, N) = Len(ntk.ints) + 1
    BY <1>15, <1>16
  <2> QED BY <1>17, <2>1 DEF Behind
<1>19. /\ list \in Seq(X) /\ ToSet(list) = ToSet(ints)
       /\ IndexOf(list, N) = IndexOf(ints, id)
       /\ \A x \in ToSet(ints) : x # N =>
            IndexOf(list, x) =
              IF IndexOf(ints, id) <= IndexOf(ints, x) /\ IndexOf(ints, x) < IndexOf(ints, N)
              THEN IndexOf(ints, x) + 1 ELSE IndexOf(ints, x)
  BY <1>14, <1>18, InFrontIs
<1>20. /\ \A a, b \in ToSet(ints) :
            a # N /\ IndexOf(ints, b) < IndexOf(ints, a) => IndexOf(list, b) < IndexOf(list, a)
       /\ \A a \in ToSet(ints) : a # N /\ IndexOf(ints, id) <= IndexOf(ints, a)
            => IndexOf(list, N) < IndexOf(list, a)
  BY <1>14, <1>18, InFrontOrder
<1> HIDE DEF list, ints
<1>21. /\ t \in Wired(k, q, M) /\ t.fanin = split.fanin /\ t.ints = list
       /\ Alive(t) = Alive(split)
  <2>1. list \in Seq((k + 1)..(M - 1)) /\ ToSet(list) = ToSet(split.ints)
    BY <1>19 DEF X, ints
  <2> QED
    <3>1. t \in Wired(k, q, M)
      BY <1>b, <1>12, <2>1, Relisted
    <3>2. t.fanin = split.fanin /\ t.ints = list
      BY <1>b, <1>12, <2>1, Relisted
    <3>4. t.nNodes = split.nNodes
      BY <3>1, <1>12 DEF Wired, Nets
    <3>3. Alive(t) = Alive(split)
      BY <1>19, <3>2, <3>4 DEF Alive, ints
    <3> QED BY <3>1, <3>2, <3>3
<1>22. [split EXCEPT !.ints = list, !.fanin[id] = es2] = u
  <2>1. split = [nNodes |-> split.nNodes, pis |-> split.pis, ints |-> split.ints, pos |-> split.pos, fanin |-> split.fanin]
    BY <1>13 DEF Nets
  <2> QED BY <2>1 DEF Rewire
<1> HIDE DEF t
<1>23. /\ u \in Wired(k, q, M) /\ u.ints = list
       /\ \A n : n # id => Fanins(u, n) = Fanins(t, n)
       /\ Fanins(u, id) = Targets(es2)
  <2>2. id \in ToSet(t.ints)
    BY <1>12, <1>19, <1>21 DEF ints
  <2>3. Targets(es2) \subseteq Alive(t)
    BY <1>10, <1>11, <1>12, <1>21
  <2>4. /\ t \in Wired(k, q, M) /\ t.ints = list
        /\ M \in Nat /\ k < M /\ id \in (k + 1)..(M - 1) /\ es2 \in Seq(Edges(M))
    BY <1>b, <1>2, <1>10, <1>21
  <2>5. u = Rewire(t, id, es2)
    OBVIOUS
  <2> HIDE DEF u
  <2> QED BY <2>2, <2>3, <2>4, <2>5, RewiredTo
<1> HIDE DEF u
<1>24. \A n : Fanins(t, n) = Fanins(split, n)
  BY <1>21 DEF Fanins
<1>25. ToSet(list) = ToSet(ntk.ints) \cup {N} /\ ToSet(ints) = ToSet(ntk.ints) \cup {N}
  BY <1>12, <1>19 DEF ints
<1>26. N \notin Fanins(ntk, id)
  <2>1. N \notin 0..(N - 1)
    OBVIOUS
  <2> QED BY <1>1, <1>11, <2>1, AliveIs
<1>27. \A m \in ToSet(ntk.ints) : m \in Fanins(ntk, id) => IndexOf(ints, m) < IndexOf(ints, id)
  BY <1>1, <1>15 DEF Ordered
<1>28. \A x \in ToSet(ntk.ints) : IndexOf(ints, x) \in 1..Len(ntk.ints)
  BY <1>15, <1>16
<1>29. Ordered(u)
  <2> SUFFICES ASSUME NEW n \in ToSet(list), NEW m \in ToSet(list), m \in Fanins(u, n)
               PROVE  IndexOf(list, m) < IndexOf(list, n)
    BY <1>23 DEF Ordered
  <2>1. CASE n # N /\ m \in Fanins(split, n)
    <3>1. IndexOf(ints, m) < IndexOf(ints, n)
      BY <1>12, <1>25, <2>1 DEF Ordered, ints
    <3> QED BY <1>20, <1>25, <2>1, <3>1
  <2>2. CASE n = N
    <3>1. m \in Fanins(ntk, id)
      <4>1. Fanins(split, N) = Targets(es)
        BY <1>12 DEF WithFanins
      <4> QED BY <1>2, <1>8, <1>23, <1>24, <2>2, <4>1
    <3>2. m \in ToSet(ntk.ints) /\ m # N
      BY <1>25, <1>26, <3>1
    <3>3. IndexOf(ints, m) < IndexOf(ints, id)
      BY <1>27, <3>1, <3>2
    <3>4. IndexOf(ints, m) \in 1..Len(ntk.ints) /\ IndexOf(ints, id) \in 1..Len(ntk.ints)
      BY <1>28, <3>2
    <3>5. ~(IndexOf(ints, id) <= IndexOf(ints, m))
      BY <1>17, <3>3, <3>4
    <3>6. IndexOf(list, m) = IndexOf(ints, m)
      BY <1>19, <1>25, <3>2, <3>5
    <3> QED BY <1>19, <2>2, <3>3, <3>6
  <2>3. CASE n = id /\ m = N
    <3>1. IndexOf(ints, id) <= IndexOf(ints, id)
      BY <1>17, <1>28
    <3> QED BY <1>2, <1>20, <1>25, <2>3, <3>1
  <2>4. CASE n = id /\ m \in Fanins(ntk, id)
    <3>1. Fanins(split, id) = Fanins(ntk, id)
      BY <1>2, <1>12 DEF WithFanins
    <3> QED BY <1>2, <2>1, <2>4, <3>1
  <2> QED BY <1>10, <1>23, <1>24, <2>1, <2>2, <2>3, <2>4
<1> QED BY <1>4, <1>22, <1>23, <1>29 DEF Sound, M

\* A node is split until it has two fanins.
LEMMA AllSplit ==
  ASSUME NEW k \in Nat, NEW q \in Nat, NEW N \in Nat, k < N, NEW ntk \in Sound(k, q, N),
         NEW id \in 0..(N - 1)
  PROVE  TrivialDecompose(ntk, id) \in Networks(k, q)
<1> DEFINE S == Networks(k, q)
<1> DEFINE n == Len(ntk.fanin[id])
           op(x) == SplitOne(x, id)
           Loop(f) == f = [i \in 0..n |-> IF i = 0 THEN ntk ELSE op(f[i - 1])]
           after == CHOOSE f : Loop(f)
<1>1. n \in Nat
  <2>1. ntk \in Nets(k, q, N)
    BY DEF Sound, Wired
  <2>3. ntk.fanin[id] \in Seq(Edges(N))
    BY <2>1 DEF Nets
  <2> QED BY <2>3
<1>2. TrivialDecompose(ntk, id) = after[n]
  BY DEF TrivialDecompose, Repeat
<1>3. ASSUME NEW x \in S PROVE op(x) \in S
  <2>1. PICK M \in Nat : k < M /\ x \in Sound(k, q, M)
    BY InNetworks
  <2>2. CASE ~IsInt(x, id) \/ Len(x.fanin[id]) <= 2
    <3>1. SplitOne(x, id) = x
      BY <2>2 DEF SplitOne
    <3> QED BY <3>1
  <2>3. CASE IsInt(x, id) /\ ~(Len(x.fanin[id]) <= 2)
    <3>1. x \in Nets(k, q, M)
      BY <2>1 DEF Sound, Wired
    <3>2. id \in ToSet(x.ints)
      BY <2>1, <2>3, <3>1, NetKinds
    <3>3. id \in 0..(M - 1)
      <4>1. id \in (k + 1)..(M - 1)
        BY <2>1, <3>1, <3>2, NetIds
      <4> QED BY <2>1, <4>1
    <3>4. x.fanin[id] \in Seq(Edges(M))
      BY <3>1, <3>3 DEF Nets
    <3>5. Len(x.fanin[id]) > 2
      BY <2>3, <3>4
    <3>6. SplitOne(x, id) \in Sound(k, q, M + 1)
      BY <2>1, <3>2, <3>5, OneSplit
    <3>7. M + 1 \in Nat /\ k < M + 1
      BY <2>1
    <3> QED BY <3>6, <3>7, NetworksHave
  <2> QED BY <2>2, <2>3
<1>c. ntk \in S
  BY NetworksHave
<1> HIDE DEF S
<1> HIDE DEF n, op
<1>4. ntk \in S
  BY <1>c
<1>5. \E f : Loop(f)
  <2> DEFINE g == [p \in S \X (1..n) |-> op(p[1])]
  <2>1. \A x \in S, i \in 1..n : g[<<x, i>>] = op(x) /\ g[<<x, i>>] \in S
    BY <1>3
  <2> HIDE DEF g
  <2>2. StaysIn(S, n, g)
    BY <2>1 DEF StaysIn
  <2>3. PICK f : IsLoop(f, S, n, ntk, g)
    BY <1>1, <1>4, <2>2, RoundsExist
  <2>4. \A i \in 0..n : i # 0 => i \in 1..n /\ i - 1 \in 0..n
    BY <1>1
  <2>5. f = [i \in 0..n |-> f[i]] /\ \A i \in 0..n : f[i] = IF i = 0 THEN ntk ELSE op(f[i - 1])
    BY <2>1, <2>3, <2>4 DEF IsLoop
  <2>6. Loop(f)
    BY <2>5
  <2> HIDE DEF Loop
  <2> QED BY <2>6
<1>6. Loop(after)
  <2> HIDE DEF Loop
  <2> QED BY <1>5
<1> HIDE DEF after
<1>7. after[0] \in S /\ \A i \in 1..n : after[i - 1] \in S => after[i] \in S
  <2>1. 0 \in 0..n /\ \A i \in 1..n : i \in 0..n /\ i # 0
    BY <1>1
  <2>2. after[0] = ntk /\ \A i \in 1..n : after[i] = op(after[i - 1])
    BY <1>6, <2>1
  <2> QED BY <1>3, <1>4, <2>2
<1> HIDE DEF Loop
<1>8. after[n] \in S
  BY <1>1, <1>7, RoundsStay
<1> QED BY <1>2, <1>8 DEF S

\* A fanin that changes no output is added.
LEMMA FaninTried ==
  ASSUME NEW k \in Nat, NEW q \in Nat, NEW N \in Nat, k < N, NEW ntk \in Sound(k, q, N),
         NEW id \in ToSet(ntk.ints), NEW fi
  PROVE  SingleAdd(ntk, id, fi) \subseteq Sound(k, q, N)
<1>1. ntk \in Wired(k, q, N) /\ ntk \in Nets(k, q, N)
  BY DEF Sound, Wired
<1>2. CASE ~IsCandidate(ntk, id, fi)
  BY <1>2 DEF SingleAdd
<1>3. CASE IsCandidate(ntk, id, fi)
  <2>1. fi # id /\ (IsInt(ntk, fi) \/ IsPi(ntk, fi))
    BY <1>3 DEF IsCandidate
  <2>2. fi \in ToSet(ntk.ints) \/ fi \in 1..k
    BY <1>1, <2>1, NetKinds
  <2>3. fi \in Alive(ntk)
    BY <1>1, <2>2, ZeroAlive
  <2>4. ASSUME NEW c \in BOOLEAN PROVE Feasible(ntk, id, fi, c) \subseteq Sound(k, q, N)
    <3>1. AddFanin(ntk, id, fi, c) \subseteq Sound(k, q, N)
      BY <2>1, <2>3, FaninAdded
    <3> QED BY <3>1 DEF Feasible
  <2>5. /\ Feasible(ntk, id, fi, FALSE) \subseteq Sound(k, q, N)
        /\ Feasible(ntk, id, fi, TRUE) \subseteq Sound(k, q, N)
    BY <2>4
  <2>6. SingleAdd(ntk, id, fi) \in {Feasible(ntk, id, fi, FALSE), Feasible(ntk, id, fi, TRUE), {}}
    BY DEF SingleAdd, OrElse
  <2> QED BY <2>5, <2>6
<1> QED BY <1>2, <1>3

\* The states of SingleResub.
Resubbing(k, q, N) == [ntk : Sound(k, q, N), saved : Sound(k, q, N), late : BOOLEAN]

\* The fanin added is judged.
LEMMA Judged ==
  ASSUME NEW k \in Nat, NEW q \in Nat, NEW N \in Nat, k < N, NEW r \in Resubbing(k, q, N), NEW par,
         NEW id \in (k + 1)..(N - 1), NEW fi, NEW reduced \in Reducing(k, q, N)
  PROVE  Judge(par, r, id, fi, reduced) \in Resubbing(k, q, N)
<1> DEFINE t == reduced.ntk
           u == Undo(t, id, fi)
           A == Sound(k, q, N)
           T == Resubbing(k, q, N)
<1>1. t \in Sound(k, q, N) /\ r.saved \in Sound(k, q, N) /\ r.late \in BOOLEAN
  BY DEF Reducing, Resubbing
<1>2. u \in Sound(k, q, N)
  <2>1. id \in 0..(N - 1)
    OBVIOUS
  <2> HIDE DEF t
  <2>2. t.fanin[id] \in Seq(Edges(N))
    BY <1>1, <2>1 DEF Sound, Wired, Nets
  <2>3. FindFanin(t, id, fi) \in 0..Len(t.fanin[id])
    BY <2>2, FaninFound
  <2>4. RemoveFanin(t, id, FindFanin(t, id, fi)) \in SameList(k, q, N, t)
    BY <1>1, <2>3, FaninTaken
  <2> QED BY <2>4 DEF SameList, Undo
<1> HIDE DEF A, t, u
<1>r. r = [ntk |-> r.ntk, saved |-> r.saved, late |-> r.late]
  BY DEF Resubbing
<1>3. ASSUME NEW a \in A, NEW b \in A
      PROVE  [r EXCEPT !.ntk = a] \in T /\ [r EXCEPT !.ntk = a, !.saved = b] \in T
  <2> DEFINE x == r.ntk
             y == r.saved
             z == r.late
  <2> HIDE DEF x, y, z
  <2>0. r = [ntk |-> x, saved |-> y, late |-> z]
    BY <1>r DEF x, y, z
  <2>a. [r EXCEPT !.ntk = a] = [ntk |-> a, saved |-> y, late |-> z]
    BY <2>0
  <2>b. [r EXCEPT !.ntk = a, !.saved = b] = [[r EXCEPT !.ntk = a] EXCEPT !.saved = b]
    OBVIOUS
  <2>c. [[ntk |-> a, saved |-> y, late |-> z] EXCEPT !.saved = b] = [ntk |-> a, saved |-> b, late |-> z]
    OBVIOUS
  <2>1. /\ [r EXCEPT !.ntk = a] = [ntk |-> a, saved |-> r.saved, late |-> r.late]
        /\ [r EXCEPT !.ntk = a, !.saved = b] = [ntk |-> a, saved |-> b, late |-> r.late]
    BY <2>a, <2>b, <2>c DEF y, z
  <2> QED BY <1>1, <2>1 DEF Resubbing, A
<1>4. t \in A /\ u \in A /\ r.saved \in A
  BY <1>1, <1>2 DEF A, t
<1>5. Judge(par, r, id, fi, reduced) \in
        {[r EXCEPT !.ntk = u], [r EXCEPT !.ntk = t], [r EXCEPT !.ntk = t, !.saved = t], [r EXCEPT !.ntk = r.saved]}
  BY DEF Judge, t, u
<1> HIDE DEF T
<1> QED BY <1>3, <1>4, <1>5 DEF T

\* One candidate is tried.
LEMMA Tried ==
  ASSUME NEW k \in Nat, NEW q \in Nat, NEW N \in Nat, k < N, NEW r \in Resubbing(k, q, N), NEW par,
         NEW id \in ToSet(r.ntk.ints), NEW fi
  PROVE  Try(par, r, id, fi) \subseteq Resubbing(k, q, N)
<1> DEFINE new == {<<id, fi>>}
           all == UNION {RemoveRedundancy(par, n, new) : n \in SingleAdd(r.ntk, id, fi)}
           judged == {Judge(par, r, id, fi, reduced) : reduced \in all}
<1>1. r.ntk \in Sound(k, q, N)
  BY DEF Resubbing
<1>2. id \in (k + 1)..(N - 1) /\ SingleAdd(r.ntk, id, fi) \subseteq Sound(k, q, N)
  BY <1>1, NodeHas, FaninTried
<1>3. ASSUME NEW n \in SingleAdd(r.ntk, id, fi) PROVE RemoveRedundancy(par, n, new) \subseteq Reducing(k, q, N)
  <2> HIDE DEF new
  <2>1. n \in Sound(k, q, N)
    BY <1>2
  <2> QED BY <2>1, RedundancyRemoved
<1>4. all \subseteq Reducing(k, q, N)
  BY <1>3
<1> HIDE DEF all
<1>5. judged \subseteq Resubbing(k, q, N)
  BY <1>2, <1>4, Judged
<1>6. Try(par, r, id, fi) \in {judged, {r}}
  BY DEF Try, OrElse, all
<1> QED BY <1>5, <1>6

\* All candidates are tried at a node.
LEMMA AllTried ==
  ASSUME NEW k \in Nat, NEW q \in Nat, NEW N \in Nat, k < N, NEW ntk \in Sound(k, q, N),
         NEW par, NEW id, NEW X, NEW vCands \in Seq(X)
  PROVE  TryAll(par, id, ntk, vCands) \subseteq Resubbing(k, q, N)
<1> DEFINE A == Resubbing(k, q, N)
           S == SUBSET A
           start == {[ntk |-> ntk, saved |-> ntk, late |-> FALSE]}
           Visit(r, fi) == IF r.late \/ ~IsInt(r.ntk, id) THEN {r} ELSE Try(par, r, id, fi)
<1> DEFINE seq == vCands
           n == Len(seq)
           op(x, i) == UNION {Timeout(par, r) \cup Visit(r, vCands[i]) : r \in x}
           Fold(f) == f = [s \in SUBSET (1..n) |-> IF s = {} THEN start ELSE op(f[s \ {Max(s)}], Max(s))]
           iter == CHOOSE f : Fold(f)
<1>1. n \in Nat /\ DOMAIN seq = 1..n
  OBVIOUS
<1>2. TryAll(par, id, ntk, vCands) = iter[1..n]
  <2> HIDE DEF start
  <2> QED BY <1>1 DEF TryAll, FoldLeft, MapThenFoldSet, start
<1>b. ASSUME NEW r \in A, NEW fi PROVE Timeout(par, r) \subseteq A /\ Visit(r, fi) \subseteq A
  <2>1. [r EXCEPT !.late = TRUE] \in A
    BY DEF Resubbing
  <2>2. Timeout(par, r) \subseteq A
    BY <2>1 DEF Timeout
  <2>3. CASE r.late \/ ~IsInt(r.ntk, id)
    BY <2>2, <2>3
  <2>4. CASE ~(r.late \/ ~IsInt(r.ntk, id))
    <3>1. r.ntk \in Nets(k, q, N)
      BY DEF Resubbing, Sound, Wired
    <3>2. id \in ToSet(r.ntk.ints)
      BY <2>4, <3>1, NetKinds
    <3>3. Try(par, r, id, fi) \subseteq A
      BY <3>2, Tried
    <3> QED BY <2>2, <2>4, <3>3
  <2> QED BY <2>3, <2>4
<1>a. start \in S
  BY DEF Resubbing
<1> HIDE DEF A, start, Visit
<1>3. ASSUME NEW x \in S, NEW i \in 1..n PROVE op(x, i) \in S
  <2> HIDE DEF seq, n
  <2>1. \A r \in x : Timeout(par, r) \cup Visit(r, vCands[i]) \subseteq A
    BY <1>b
  <2> QED BY <2>1
<1> HIDE DEF S, seq
<1> HIDE DEF n, op
<1>4. \E f : Fold(f)
  <2> DEFINE g == [p \in S \X (1..n) |-> op(p[1], p[2])]
  <2>1. \A x \in S, i \in 1..n : g[<<x, i>>] = op(x, i) /\ g[<<x, i>>] \in S
    BY <1>3
  <2> HIDE DEF g
  <2>2. start \in S
    BY <1>a
  <2>3. PICK f : /\ f = [s \in SUBSET (1..n) |-> IF s = {} THEN start ELSE g[<<f[s \ {Max(s)}], Max(s)>>]]
                 /\ \A s \in SUBSET (1..n) : s # {} => f[s \ {Max(s)}] \in S /\ Max(s) \in 1..n
    BY <1>1, <2>1, <2>2, FoldExists
  <2>4. \A s \in SUBSET (1..n) : f[s] = IF s = {} THEN start ELSE op(f[s \ {Max(s)}], Max(s))
    BY <2>1, <2>3
  <2>5. Fold(f)
    BY <2>3, <2>4
  <2> HIDE DEF Fold
  <2> QED BY <2>5
<1>5. Fold(iter)
  <2> HIDE DEF Fold
  <2> QED BY <1>4
<1> HIDE DEF iter
<1>6. iter[{}] = start /\ \A m \in 1..n : iter[1..m] = op(iter[1..(m - 1)], m)
  <2>1. iter[{}] = start
    BY <1>5
  <2>2. ASSUME NEW m \in 1..n PROVE iter[1..m] = op(iter[1..(m - 1)], m)
    <3>1. /\ 1..m \in SUBSET (1..n) /\ 1..m # {} /\ Max(1..m) = m
          /\ (1..m) \ {m} = 1..(m - 1)
      BY <1>1, PrefixIs
    <3> QED BY <1>5, <3>1
  <2> QED BY <2>1, <2>2
<1> HIDE DEF Fold
<1>7. iter[1..n] \in S
  <2>1. iter[{}] \in S /\ \A m \in 1..n : iter[1..(m - 1)] \in S => iter[1..m] \in S
    BY <1>3, <1>6, <1>a
  <2> QED BY <1>1, <2>1, FoldIn
<1> QED BY <1>2, <1>7 DEF S, A

\* The networks a node, or all of them, may leave; the time may be up.
Leaving(k, q) == [ntk : Networks(k, q), late : BOOLEAN]

\* One node is resubstituted.
LEMMA NodeResubbed ==
  ASSUME NEW k \in Nat, NEW q \in Nat, NEW N \in Nat, k < N, NEW ntk \in Sound(k, q, N),
         NEW par, NEW id \in ToSet(ntk.ints)
  PROVE  SingleResub(par, ntk, id) \subseteq Leaving(k, q)
<1> DEFINE flat == TrivialCollapse(ntk, id)
           vCands == ntk.pis \o ntk.ints
           Final(r) == IF IsInt(r.ntk, id) THEN SortAllFanins(par, TrivialDecompose(r.ntk, id)) ELSE {r.ntk}
           tried == TryAll(par, id, flat, vCands)
<1>1. flat \in Sound(k, q, N)
  BY AllCollapsed
<1>2. vCands \in Seq(Nat)
  <2>1. ntk \in Nets(k, q, N)
    BY DEF Sound, Wired
  <2>2. ntk.pis \in Seq(Nat)
    <3>1. ntk.pis = [i \in 1..k |-> i]
      BY <2>1, NetFields
    <3>2. [i \in 1..k |-> i] \in [1..k -> Nat]
      OBVIOUS
    <3> QED BY <3>1, <3>2, SeqDef
  <2>3. ntk.ints \in Seq(Nat)
    <3>1. ntk.ints \in Seq((k + 1)..(N - 1))
      BY <2>1, NetFields
    <3>2. (k + 1)..(N - 1) \subseteq Nat
      OBVIOUS
    <3> QED BY <3>1, <3>2
  <2> QED BY <2>2, <2>3
<1>3. id \in 0..(N - 1)
  BY NodeHas
<1> HIDE DEF flat, vCands
<1>4. tried \subseteq Resubbing(k, q, N)
  BY <1>1, <1>2, AllTried
<1>5. ASSUME NEW r \in tried, NEW n \in Final(r) PROVE [ntk |-> n, late |-> r.late] \in Leaving(k, q)
  <2>1. r.ntk \in Sound(k, q, N) /\ r.late \in BOOLEAN
    BY <1>4 DEF Resubbing
  <2>2. CASE IsInt(r.ntk, id)
    <3>1. TrivialDecompose(r.ntk, id) \in Networks(k, q)
      BY <1>3, <2>1, AllSplit
    <3>2. PICK M \in Nat : k < M /\ TrivialDecompose(r.ntk, id) \in Sound(k, q, M)
      BY <3>1, InNetworks
    <3>3. n \in SortAllFanins(par, TrivialDecompose(r.ntk, id))
      BY <2>2
    <3>4. n \in Sound(k, q, M)
      BY <3>2, <3>3, AllFaninsSorted DEF SameList
    <3>5. n \in Networks(k, q)
      BY <3>2, <3>4, NetworksHave
    <3> QED BY <2>1, <3>5 DEF Leaving
  <2>3. CASE ~IsInt(r.ntk, id)
    <3>1. n \in Networks(k, q)
      BY <2>1, <2>3, NetworksHave
    <3> QED BY <2>1, <3>1 DEF Leaving
  <2> QED BY <2>2, <2>3
<1>6. SingleResub(par, ntk, id) = UNION {{[ntk |-> n, late |-> r.late] : n \in Final(r)} : r \in tried}
  BY DEF SingleResub, flat, vCands
<1> HIDE DEF tried, Final
<1> QED BY <1>5, <1>6

\* One node after another is resubstituted.
LEMMA AllResubbed ==
  ASSUME NEW k \in Nat, NEW q \in Nat, NEW N \in Nat, k < N, NEW ntk \in Sound(k, q, N), NEW par
  PROVE  ResubAll(par, ntk) \subseteq Leaving(k, q)
<1> DEFINE A == Leaving(k, q)
           S == SUBSET A
           start == {[ntk |-> ntk, late |-> FALSE]}
           Visit(r, id) == IF r.late \/ ~IsInt(r.ntk, id) THEN {r} ELSE SingleResub(par, r.ntk, id)
<1> DEFINE seq == Reverse(ntk.ints)
           n == Len(seq)
           op(x, i) == UNION {Timeout(par, r) \cup Visit(r, seq[i]) : r \in x}
           Fold(f) == f = [s \in SUBSET (1..n) |-> IF s = {} THEN start ELSE op(f[s \ {Max(s)}], Max(s))]
           iter == CHOOSE f : Fold(f)
<1>1. n \in Nat /\ DOMAIN seq = 1..n
  <2>1. ntk.ints \in Seq((k + 1)..(N - 1))
    BY DEF Sound, Wired, Nets
  <2> QED BY <2>1 DEF Reverse
<1>2. ResubAll(par, ntk) = iter[1..n]
  <2> HIDE DEF seq, start
  <2> QED BY <1>1 DEF ResubAll, FoldLeft, MapThenFoldSet, seq, start
<1>b. ASSUME NEW r \in A, NEW id PROVE Timeout(par, r) \subseteq A /\ Visit(r, id) \subseteq A
  <2>1. [r EXCEPT !.late = TRUE] \in A
    BY DEF Leaving
  <2>2. Timeout(par, r) \subseteq A
    BY <2>1 DEF Timeout
  <2>3. CASE r.late \/ ~IsInt(r.ntk, id)
    BY <2>2, <2>3
  <2>4. CASE ~(r.late \/ ~IsInt(r.ntk, id))
    <3>1. r.ntk \in Networks(k, q)
      BY DEF Leaving
    <3>2. PICK M \in Nat : k < M /\ r.ntk \in Sound(k, q, M)
      BY <3>1, InNetworks
    <3>3. r.ntk \in Nets(k, q, M)
      BY <3>2 DEF Sound, Wired
    <3>4. id \in ToSet(r.ntk.ints)
      BY <2>4, <3>2, <3>3, NetKinds
    <3>5. SingleResub(par, r.ntk, id) \subseteq A
      BY <3>2, <3>4, NodeResubbed
    <3> QED BY <2>2, <2>4, <3>5
  <2> QED BY <2>3, <2>4
<1>a. start \in S
  <2>1. ntk \in Networks(k, q)
    BY NetworksHave
  <2> QED BY <2>1 DEF Leaving
<1> HIDE DEF A, start, Visit
<1>3. ASSUME NEW x \in S, NEW i \in 1..n PROVE op(x, i) \in S
  <2> HIDE DEF seq, n
  <2>1. \A r \in x : Timeout(par, r) \cup Visit(r, seq[i]) \subseteq A
    BY <1>b
  <2> QED BY <2>1
<1> HIDE DEF S, seq
<1> HIDE DEF n, op
<1>4. \E f : Fold(f)
  <2> DEFINE g == [p \in S \X (1..n) |-> op(p[1], p[2])]
  <2>1. \A x \in S, i \in 1..n : g[<<x, i>>] = op(x, i) /\ g[<<x, i>>] \in S
    BY <1>3
  <2> HIDE DEF g
  <2>2. start \in S
    BY <1>a
  <2>3. PICK f : /\ f = [s \in SUBSET (1..n) |-> IF s = {} THEN start ELSE g[<<f[s \ {Max(s)}], Max(s)>>]]
                 /\ \A s \in SUBSET (1..n) : s # {} => f[s \ {Max(s)}] \in S /\ Max(s) \in 1..n
    BY <1>1, <2>1, <2>2, FoldExists
  <2>4. \A s \in SUBSET (1..n) : f[s] = IF s = {} THEN start ELSE op(f[s \ {Max(s)}], Max(s))
    BY <2>1, <2>3
  <2>5. Fold(f)
    BY <2>3, <2>4
  <2> HIDE DEF Fold
  <2> QED BY <2>5
<1>5. Fold(iter)
  <2> HIDE DEF Fold
  <2> QED BY <1>4
<1> HIDE DEF iter
<1>6. iter[{}] = start /\ \A m \in 1..n : iter[1..m] = op(iter[1..(m - 1)], m)
  <2>1. iter[{}] = start
    BY <1>5
  <2>2. ASSUME NEW m \in 1..n PROVE iter[1..m] = op(iter[1..(m - 1)], m)
    <3>1. /\ 1..m \in SUBSET (1..n) /\ 1..m # {} /\ Max(1..m) = m
          /\ (1..m) \ {m} = 1..(m - 1)
      BY <1>1, PrefixIs
    <3> QED BY <1>5, <3>1
  <2> QED BY <2>1, <2>2
<1> HIDE DEF Fold
<1>7. iter[1..n] \in S
  <2>1. iter[{}] \in S /\ \A m \in 1..n : iter[1..(m - 1)] \in S => iter[1..m] \in S
    BY <1>3, <1>6, <1>a
  <2> QED BY <1>1, <2>1, FoldIn
<1> QED BY <1>2, <1>7 DEF S, A

\* What the optimizer leaves is in order.
LEMMA OptimizedIn ==
  ASSUME NEW k \in Nat, NEW q \in Nat, NEW ntk \in Networks(k, q), NEW par
  PROVE  Optimized(par, ntk) \subseteq Networks(k, q)
<1>1. PICK N \in Nat : k < N /\ ntk \in Sound(k, q, N)
  BY InNetworks
<1> DEFINE all == RemoveRedundancy(par, ntk, {})
<1>2. all \subseteq Reducing(k, q, N)
  BY <1>1, RedundancyRemoved
<1>3. Optimized(par, ntk) = {r.ntk : r \in UNION {ResubAll(par, reduced.ntk) : reduced \in all}}
  BY DEF Optimized
<1> HIDE DEF all
<1>4. ASSUME NEW reduced \in all PROVE ResubAll(par, reduced.ntk) \subseteq Leaving(k, q)
  <2>1. reduced.ntk \in Sound(k, q, N)
    BY <1>2 DEF Reducing
  <2> QED BY <1>1, <2>1, AllResubbed
<1>5. UNION {ResubAll(par, reduced.ntk) : reduced \in all} \subseteq Leaving(k, q)
  BY <1>4
<1>6. \A r \in Leaving(k, q) : r.ntk \in Networks(k, q)
  BY DEF Leaving
<1> QED BY <1>3, <1>5, <1>6

\* The cost of a network is a number.
LEMMA CostsAre ==
  ASSUME NEW k \in Nat, NEW q \in Nat, NEW ntk \in Networks(k, q)
  PROVE  CostFunction(ntk) \in Int
<1>1. PICK N \in Nat : k < N /\ ntk \in Sound(k, q, N)
  BY InNetworks
<1>2. ntk \in Nets(k, q, N)
  BY <1>1 DEF Sound, Wired
<1> QED BY <1>1, <1>2, CostIs

\* The list of a network is in topological order.
LEMMA NetworkOrdered ==
  ASSUME NEW k \in Nat, NEW q \in Nat, NEW ntk \in Networks(k, q), NEW i \in DOMAIN ntk.ints,
         NEW e \in ToSet(ntk.fanin[ntk.ints[i]]), IsInt(ntk, Node(e))
  PROVE  IndexOf(ntk.ints, Node(e)) < i
<1>1. PICK N \in Nat : k < N /\ ntk \in Sound(k, q, N)
  BY InNetworks
<1>2. ntk \in Nets(k, q, N) /\ Ordered(ntk) /\ ntk.ints \in Seq((k + 1)..(N - 1))
  BY <1>1 DEF Sound, Wired, Nets
<1> DEFINE n == ntk.ints[i]
           m == Node(e)
<1>3. i \in 1..Len(ntk.ints) /\ n \in ToSet(ntk.ints)
  BY <1>2 DEF ToSet
<1>4. m \in ToSet(ntk.ints) /\ m \in Fanins(ntk, n)
  BY <1>2, NetKinds DEF Fanins
<1> HIDE DEF m
<1>5. IndexOf(ntk.ints, n) \in 1..i
  BY <1>2, <1>3, IndexIs
<1>6. IndexOf(ntk.ints, m) < IndexOf(ntk.ints, n)
  BY <1>2, <1>3, <1>4 DEF Ordered
<1>7. IndexOf(ntk.ints, m) \in 0..Len(ntk.ints) /\ Len(ntk.ints) \in Nat
  BY <1>2, IndexIs
<1> HIDE DEF n
<1> QED BY <1>3, <1>5, <1>6, <1>7 DEF m
=============================================================================
