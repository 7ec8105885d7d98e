---------------------------- MODULE CecSplitProofs ----------------------------
(***************************************************************************)
(* The verdict of the parallel case-splitting is right, no assignment is    *)
(* lost and no cofactor is freed in use, for every problem, every number of *)
(* threads and every choice of splitting variables (module CecSplit).       *)
(***************************************************************************)
EXTENDS CecSplit, FiniteSetTheorems, SequenceTheorems, TLAPS

Shape ==
  /\ sat \subseteq Assignments
  /\ vStack \in Seq(Cofactors)
  /\ p \in [Threads -> Slots] /\ Result \in [Threads -> Status]
  /\ fWorking \in [Threads -> BOOLEAN]
  /\ fWorkToDo \in BOOLEAN /\ RetValue \in Status
  /\ mpc \in {"check", "loop", "scan", "wait", "stop", "return"}
  /\ i \in Nat
  /\ mpc \in {"wait", "stop"} => i \in Threads
  /\ wpc \in [Threads -> {"none", "spin", "solve", "clear", "exit"}]

(* While the search is on, a raised flag hands the slot with its cofactor to *)
(* the thread, and the answer in a slot whose flag is down is about the      *)
(* cofactor that is there.                                                   *)
SlotInSearch(t) ==
  /\ wpc[t] \in {"spin", "solve", "clear"}
  /\ fWorking[t] => p[t] # NULL
  /\ ~fWorking[t] => wpc[t] = "spin"
  /\ wpc[t] = "clear" \/ (~fWorking[t] /\ p[t] # NULL) => Result[t] \in Answers(p[t])

(* The wait for all threads ends with all flags down; then the slots are     *)
(* cleared one after another.                                                *)
SlotPhases ==
  /\ mpc = "check" => \A t \in Threads : wpc[t] = "none" /\ ~fWorking[t] /\ p[t] = NULL
  /\ mpc \in {"loop", "scan", "wait"} => \A t \in Threads : SlotInSearch(t)
  /\ mpc = "wait" => \A t \in Threads : t < i => ~fWorking[t]
  /\ mpc \in {"stop", "return"} => \A t \in Threads : /\ wpc[t] \notin {"solve", "clear"}
                                                      /\ fWorking[t] => p[t] = NULL

(* A round in which no work was met so far has passed empty slots only.      *)
RoundQuiet ==
  mpc = "scan" /\ ~fWorkToDo => vStack = <<>> /\ \A t \in Threads : t < i => p[t] = NULL

Verdict == /\ RetValue = 1 => sat = {}
           /\ RetValue = 0 => sat # {}
           /\ RetValue = -1 => nIterMax # 0 /\ nIter >= nIterMax

VerdictKnown ==
  /\ mpc \in {"loop", "scan"} => RetValue = -1
  /\ mpc \in {"wait", "stop", "return"} => Verdict

IInv == Shape /\ SlotPhases /\ RoundQuiet /\ VerdictKnown /\ NothingLost

-----------------------------------------------------------------------------
(* Cofactors. *)

(* Fixing one more input of a cofactor gives a cofactor.                     *)
LEMMA CofactorType ==
  ASSUME NEW c \in Cofactors, NEW v \in Vars, NEW b \in BOOLEAN
  PROVE  Cofactor(c, v, b) \in Cofactors
<1>1. ASSUME NEW f \in Valuations, NEW d \in BOOLEAN
      PROVE  With(f, v, d) \in Valuations /\ DOMAIN With(f, v, d) = DOMAIN f \cup {v}
  <2>1. PICK V \in SUBSET Vars : f \in [V -> BOOLEAN]
    BY DEF Valuations
  <2>2. With(f, v, d) \in [V \cup {v} -> BOOLEAN] /\ DOMAIN f = V
    BY <2>1 DEF With
  <2>3. V \cup {v} \in SUBSET Vars
    BY <2>1
  <2> QED BY <2>1, <2>2, <2>3 DEF Valuations
<1>2. c.fixed \in Valuations /\ c.vCofVars \in Valuations /\ DOMAIN c.fixed = DOMAIN c.vCofVars
  BY DEF Cofactors
<1> DEFINE fixed    == With(c.fixed, v, b)
           literals == With(c.vCofVars, v, FALSE)
<1>3. fixed \in Valuations /\ literals \in Valuations /\ DOMAIN fixed = DOMAIN literals
  BY <1>1, <1>2
<1>4. Cofactor(c, v, b) = [fixed |-> fixed, vCofVars |-> literals]
  BY DEF Cofactor
<1> HIDE DEF fixed, literals
<1> QED BY <1>3, <1>4 DEF Cofactors

(* The two halves of a cofactor cover it.                                    *)
LEMMA HalvesCover ==
  ASSUME NEW c \in Cofactors, NEW v \in SplitVars(c), NEW a \in In(c)
  PROVE  \E b \in BOOLEAN : a \in In(Cofactor(c, v, b))
<1>1. v \in Vars /\ a \in Assignments /\ a[v] \in BOOLEAN
  BY DEF SplitVars, In, Assignments
<1>2. \A w \in DOMAIN c.fixed \cup {v} : a[w] = With(c.fixed, v, a[v])[w]
  BY DEF With, In
<1>3. Cofactor(c, v, a[v]).fixed = With(c.fixed, v, a[v])
  BY DEF Cofactor
<1>4. DOMAIN With(c.fixed, v, a[v]) = DOMAIN c.fixed \cup {v}
  BY DEF With
<1>5. a \in In(Cofactor(c, v, a[v]))
  BY <1>1, <1>2, <1>3, <1>4 DEF In
<1> QED BY <1>1, <1>5

LEMMA WholeFacts == Whole \in Cofactors /\ In(Whole) = Assignments
<1>1. <<>> \in [{} -> BOOLEAN] /\ {} \in SUBSET Vars /\ DOMAIN <<>> = {}
  OBVIOUS
<1>2. <<>> \in Valuations
  BY <1>1 DEF Valuations
<1>3. Whole \in Cofactors
  BY <1>2 DEF Whole, Cofactors
<1>4. In(Whole) = Assignments
  BY <1>1 DEF Whole, In
<1> QED BY <1>3, <1>4

(* The answers of the solver.                                                *)
LEMMA AnswersRight ==
  ASSUME NEW c
  PROVE  /\ Answers(c) \subseteq Status
         /\ 1 \in Answers(c) => In(c) \cap sat = {}
         /\ 0 \in Answers(c) => In(c) \cap sat # {}
  BY DEF Answers, Status

(* The top of a sequence and what lies under it.                             *)
LEMMA TopFacts ==
  ASSUME NEW S, NEW seq \in Seq(S), seq # <<>>
  PROVE  LET rest == SubSeq(seq, 1, Len(seq) - 1)
         IN  /\ Len(seq) \in Nat \ {0} /\ seq[Len(seq)] \in S
             /\ rest \in Seq(S) /\ Len(rest) = Len(seq) - 1
             /\ \A k \in 1 .. Len(rest) : rest[k] = seq[k]
<1>1. Len(seq) \in Nat \ {0} /\ DOMAIN seq = 1 .. Len(seq)
  BY EmptySeq, LenProperties
<1>2. seq[Len(seq)] \in S
  BY <1>1, ElementOfSeq
<1>3. SubSeq(seq, 1, Len(seq) - 1) = [k \in 1 .. Len(seq) - 1 |-> seq[k]]
  BY <1>1
<1>4. SubSeq(seq, 1, Len(seq) - 1) \in Seq(S)
  BY <1>1, SubSeqProperties
<1> QED BY <1>1, <1>2, <1>3, <1>4

LEMMA ThreadsFacts ==
  /\ Threads \subseteq Nat /\ 0 \in Threads /\ nProcs \in Nat
  /\ \A j \in Nat : j \in Threads => \A t \in Nat : t <= j => t \in Threads
  /\ \A j \in Threads : j + 1 \notin Threads => \A t \in Threads : t <= j
  /\ NULL \notin Cofactors
  BY CecSplitAssumption DEF Threads

-----------------------------------------------------------------------------
(* The steps of the manager. *)

Lies(stack, a) == \E k \in 1 .. Len(stack) : a \in In(stack[k])
Held(a) == \/ Lies(vStack, a)
           \/ \E t \in Threads : p[t] # NULL /\ a \in In(p[t])

(* What a slot that is not busy takes from the stack is in the slot, and     *)
(* what it does not take stays on the stack.                                 *)
LEMMA HandOver ==
  ASSUME IInv, Scanning, ~fWorking[i], NEW stack \in Seq(Cofactors), StartThread(stack)
  PROVE  /\ vStack' \in Seq(Cofactors) /\ p' \in [Threads -> Slots]
         /\ fWorking' \in [Threads -> BOOLEAN]
         /\ \A t \in Threads : SlotInSearch(t)'
         /\ \A a : \/ Lies(stack, a)
                   \/ \E t \in Threads \ {i} : p[t] # NULL /\ a \in In(p[t])
                   => Held(a)'
         /\ stack = <<>> => vStack' = <<>> /\ p' = [p EXCEPT ![i] = NULL]
<1> DEFINE top  == stack[Len(stack)]
           rest == SubSeq(stack, 1, Len(stack) - 1)
<1>1. /\ i \in Threads /\ UNCHANGED <<Result, wpc, sat>>
      /\ p \in [Threads -> Slots] /\ fWorking \in [Threads -> BOOLEAN]
      /\ \A t \in Threads : SlotInSearch(t)
  BY DEF Scanning, StartThread, problem, IInv, Shape, SlotPhases
<1>2. wpc[i] = "spin"
  BY <1>1 DEF SlotInSearch
<1>3. \A t \in Threads \ {i} : p'[t] = p[t] /\ fWorking'[t] = fWorking[t]
  BY <1>1 DEF StartThread
<1>4. \A t \in Threads \ {i} : SlotInSearch(t)'
  BY <1>1, <1>3 DEF SlotInSearch, Answers
<1>5. CASE stack = <<>>
  <2>1. p' = [p EXCEPT ![i] = NULL] /\ vStack' = stack /\ fWorking' = fWorking
    BY <1>5 DEF StartThread
  <2>2. p' \in [Threads -> Slots] /\ p'[i] = NULL
    BY <1>1, <2>1 DEF Slots
  <2>3. \A t \in Threads : t = i => SlotInSearch(t)'
    BY <1>1, <1>2, <2>1, <2>2 DEF SlotInSearch
  <2>4. \A a : ~Lies(stack, a)
    BY <1>5 DEF Lies
  <2>5. \A a : (\E t \in Threads \ {i} : p[t] # NULL /\ a \in In(p[t])) => Held(a)'
    BY <1>3 DEF Held, In
  <2>6. \A t \in Threads : SlotInSearch(t)'
    BY <1>4, <2>3
  <2> QED BY <1>1, <1>5, <2>1, <2>2, <2>4, <2>5, <2>6
<1>6. CASE stack # <<>>
  <2>1. /\ p' = [p EXCEPT ![i] = top] /\ vStack' = rest
        /\ fWorking' = [fWorking EXCEPT ![i] = TRUE]
    BY <1>6 DEF StartThread
  <2>2. /\ Len(stack) \in Nat \ {0} /\ top \in Cofactors
        /\ rest \in Seq(Cofactors) /\ Len(rest) = Len(stack) - 1
        /\ \A k \in 1 .. Len(rest) : rest[k] = stack[k]
    BY <1>6, TopFacts
  <2>3. top # NULL
    BY <2>2, ThreadsFacts
  <2>4. p' \in [Threads -> Slots] /\ p'[i] = top /\ fWorking' \in [Threads -> BOOLEAN] /\ fWorking'[i] = TRUE
    BY <1>1, <2>1, <2>2 DEF Slots
  <2>5. \A t \in Threads : t = i => SlotInSearch(t)'
    BY <1>1, <1>2, <2>3, <2>4 DEF SlotInSearch
  <2>6. ASSUME NEW a, Lies(stack, a)
        PROVE  Held(a)'
    <3>1. PICK k \in 1 .. Len(stack) : a \in In(stack[k])
      BY <2>6 DEF Lies
    <3>2. CASE k = Len(stack)
      BY <1>1, <2>3, <2>4, <3>1, <3>2 DEF Held, In
    <3>3. CASE k # Len(stack)
      <4>1. k \in 1 .. Len(rest) /\ a \in In(rest[k])
        BY <2>2, <3>1, <3>3
      <4>2. Lies(rest, a)
        BY <4>1 DEF Lies
      <4> HIDE DEF rest
      <4> QED BY <2>1, <4>2 DEF Held, Lies, In
    <3> QED BY <3>2, <3>3
  <2>7. \A a : (\E t \in Threads \ {i} : p[t] # NULL /\ a \in In(p[t])) => Held(a)'
    BY <1>3 DEF Held, In
  <2>8. \A t \in Threads : SlotInSearch(t)'
    BY <1>4, <2>5
  <2> QED BY <1>6, <2>1, <2>2, <2>4, <2>6, <2>7, <2>8
<1> QED BY <1>5, <1>6

(* A visit to a slot that may take another cofactor: stack is the stack      *)
(* after a split.  What the slot held is on it, or is not satisfiable.       *)
LEMMA VisitKeeps ==
  ASSUME IInv, Scanning, ~fWorking[i], NEW stack \in Seq(Cofactors), StartThread(stack),
         p[i] # NULL => \A a \in In(p[i]) \cap sat : Lies(stack, a),
         \A a : Lies(vStack, a) => Lies(stack, a),
         fWorkToDo' \in BOOLEAN,
         ~fWorkToDo' => ~fWorkToDo /\ stack = vStack
  PROVE  IInv'
<1>1. /\ UNCHANGED <<sat, nIterMax, Result, RetValue, mpc, wpc>> /\ i' = i + 1
      /\ mpc = "scan" /\ i \in Threads /\ i \in Nat
  BY DEF StartThread, problem, Scanning, IInv, Shape
<1>2. Shape'
  BY <1>1, HandOver DEF IInv, Shape
<1>3. SlotPhases'
  BY <1>1, HandOver DEF SlotPhases
<1>4. RoundQuiet'
  <2>1. SUFFICES ASSUME ~fWorkToDo'
                 PROVE  vStack' = <<>> /\ \A t \in Threads : t < i + 1 => p'[t] = NULL
    BY <1>1 DEF RoundQuiet
  <2>2. stack = <<>> /\ \A t \in Threads : t < i => p[t] = NULL
    BY <1>1, <2>1 DEF IInv, RoundQuiet
  <2>3. vStack' = <<>> /\ p' = [p EXCEPT ![i] = NULL]
    BY <2>2, HandOver
  <2>4. \A t \in Threads : t < i + 1 => t < i \/ t = i
    BY <1>1, ThreadsFacts
  <2> QED BY <1>1, <2>2, <2>3, <2>4 DEF IInv, Shape
<1>5. VerdictKnown'
  BY <1>1 DEF IInv, VerdictKnown
<1>6. \A a \in sat : Held(a)'
  <2>1. TAKE a \in sat
  <2>2. Held(a)
    BY <1>1 DEF IInv, NothingLost, Held, Lies
  <2>3. \/ Lies(stack, a)
        \/ \E t \in Threads \ {i} : p[t] # NULL /\ a \in In(p[t])
    BY <2>1, <2>2 DEF Held
  <2> QED BY <2>3, HandOver
<1>7. NothingLost'
  BY <1>1, <1>6 DEF NothingLost, Held, Lies
<1> QED BY <1>2, <1>3, <1>4, <1>5, <1>7 DEF IInv

LEMMA CheckKeeps == ASSUME IInv, Check PROVE IInv'
<1>1. /\ mpc = "check" /\ UNCHANGED <<sat, nIterMax, p, Result, fWorking, nIter, fWorkToDo, i>>
      /\ \A t \in Threads : wpc[t] = "none" /\ ~fWorking[t] /\ p[t] = NULL
  BY DEF Check, problem, slots, IInv, SlotPhases
<1>2. PICK status \in Answers(Whole) :
         /\ RetValue' = status
         /\ IF status = -1
            THEN /\ vStack' = <<Whole>>
                 /\ wpc' = [t \in Threads |-> "spin"]
                 /\ mpc' = "loop"
            ELSE mpc' = "return" /\ UNCHANGED <<vStack, wpc>>
  BY DEF Check
<1>3. /\ status \in Status
      /\ status = 1 => sat = {}
      /\ status = 0 => sat # {}
  BY AnswersRight, WholeFacts DEF IInv, Shape
<1>4. CASE status = -1
  <2>1. /\ vStack' = <<Whole>> /\ mpc' = "loop" /\ RetValue' = -1
        /\ wpc' = [t \in Threads |-> "spin"]
    BY <1>2, <1>4
  <2>2. vStack' \in Seq(Cofactors) /\ Len(vStack') = 1 /\ vStack'[1] = Whole
    BY <2>1, WholeFacts
  <2>3. Shape'
    BY <1>1, <2>1, <2>2 DEF IInv, Shape, Status
  <2>4. SlotPhases'
    BY <1>1, <2>1 DEF SlotPhases, SlotInSearch
  <2>5. NothingLost'
    <3>1. \A a \in sat : a \in In(vStack'[1])
      BY <2>2, WholeFacts DEF IInv, Shape
    <3> QED BY <1>1, <2>2, <3>1 DEF NothingLost, In
  <2> QED BY <2>1, <2>3, <2>4, <2>5 DEF IInv, RoundQuiet, VerdictKnown
<1>5. CASE status # -1
  <2>1. mpc' = "return" /\ UNCHANGED <<vStack, wpc>> /\ RetValue' = status
    BY <1>2, <1>5
  <2>2. Shape'
    BY <1>1, <1>3, <2>1 DEF IInv, Shape
  <2>3. SlotPhases'
    BY <1>1, <2>1 DEF SlotPhases
  <2>4. VerdictKnown'
    BY <1>1, <1>3, <1>5, <2>1 DEF VerdictKnown, Verdict
  <2> QED BY <2>1, <2>2, <2>3, <2>4 DEF IInv, RoundQuiet, NothingLost
<1> QED BY <1>4, <1>5

LEMMA RoundKeeps == ASSUME IInv, Round PROVE IInv'
<1>1. /\ mpc = "loop" /\ mpc' = "scan" /\ i' = 0 /\ fWorkToDo' = (vStack # <<>>)
      /\ UNCHANGED <<sat, nIterMax, p, Result, fWorking, vStack, nIter, RetValue, wpc>>
  BY DEF Round, problem, slots
<1>2. Shape'
  BY <1>1 DEF IInv, Shape
<1>3. SlotPhases'
  BY <1>1 DEF IInv, SlotPhases, SlotInSearch, Answers
<1>4. RoundQuiet'
  <2>1. \A t \in Threads : ~(t < 0)
    BY ThreadsFacts
  <2>2. fWorkToDo' \/ vStack' = <<>>
    BY <1>1
  <2> QED BY <1>1, <2>1, <2>2 DEF RoundQuiet
<1>5. VerdictKnown' /\ NothingLost'
  BY <1>1 DEF IInv, VerdictKnown, NothingLost, In
<1> QED BY <1>2, <1>3, <1>4, <1>5 DEF IInv

LEMMA ScanBusyKeeps == ASSUME IInv, ScanBusy PROVE IInv'
<1>1. /\ mpc = "scan" /\ mpc' = "scan" /\ i' = i + 1 /\ fWorkToDo' = TRUE
      /\ UNCHANGED <<sat, nIterMax, p, Result, fWorking, vStack, nIter, RetValue, wpc>>
  BY DEF ScanBusy, Scanning, problem, slots
<1>2. Shape'
  BY <1>1 DEF IInv, Shape
<1>3. SlotPhases'
  BY <1>1 DEF IInv, SlotPhases, SlotInSearch, Answers
<1>4. RoundQuiet' /\ VerdictKnown' /\ NothingLost'
  BY <1>1 DEF IInv, RoundQuiet, VerdictKnown, NothingLost, In
<1> QED BY <1>2, <1>3, <1>4 DEF IInv

(* The answer in a slot that is not busy is about the cofactor in it.        *)
LEMMA FinishedFacts ==
  ASSUME IInv, NEW status, Finished(status)
  PROVE  /\ Scanning /\ ~fWorking[i] /\ p[i] # NULL /\ p[i] \in Cofactors
         /\ status \in Answers(p[i])
<1>1. i \in Threads /\ mpc = "scan" /\ Scanning /\ ~fWorking[i] /\ p[i] # NULL /\ Result[i] = status
  BY DEF Finished, Scanning
<1>2. \A t \in Threads : SlotInSearch(t)
  BY <1>1 DEF IInv, SlotPhases
<1>3. Result[i] \in Answers(p[i])
  BY <1>1, <1>2 DEF SlotInSearch
<1> QED BY <1>1, <1>3 DEF IInv, Shape, Slots

LEMMA ScanSatKeeps == ASSUME IInv, ScanSat PROVE IInv'
<1>1. /\ mpc = "scan" /\ mpc' = "wait" /\ i' = 0 /\ RetValue' = 0
      /\ UNCHANGED <<sat, nIterMax, p, Result, fWorking, vStack, nIter, fWorkToDo, wpc>>
  BY DEF ScanSat, Finished, Scanning, problem, slots
<1>2. sat # {}
  BY FinishedFacts, AnswersRight DEF ScanSat
<1>3. Shape'
  BY <1>1, ThreadsFacts DEF IInv, Shape, Status
<1>4. SlotPhases'
  BY <1>1, ThreadsFacts DEF IInv, SlotPhases, SlotInSearch, Answers
<1>5. VerdictKnown'
  BY <1>1, <1>2 DEF VerdictKnown, Verdict
<1> QED BY <1>1, <1>3, <1>4, <1>5 DEF IInv, RoundQuiet, NothingLost

LEMMA ScanUnsatKeeps == ASSUME IInv, ScanUnsat PROVE IInv'
<1>1. /\ Scanning /\ ~fWorking[i] /\ 1 \in Answers(p[i])
      /\ StartThread(vStack) /\ UNCHANGED fWorkToDo
  BY FinishedFacts DEF ScanUnsat
<1>2. In(p[i]) \cap sat = {}
  BY <1>1, AnswersRight
<1>3. vStack \in Seq(Cofactors) /\ fWorkToDo \in BOOLEAN
  BY DEF IInv, Shape
<1> QED BY <1>1, <1>2, <1>3, VisitKeeps

LEMMA ScanIdleKeeps == ASSUME IInv, ScanIdle PROVE IInv'
<1>1. /\ Scanning /\ ~fWorking[i] /\ p[i] = NULL
      /\ StartThread(vStack) /\ UNCHANGED fWorkToDo
  BY DEF ScanIdle
<1>2. vStack \in Seq(Cofactors) /\ fWorkToDo \in BOOLEAN
  BY DEF IInv, Shape
<1> QED BY <1>1, <1>2, VisitKeeps

LEMMA ConcatTwo ==
  ASSUME NEW S, NEW s1 \in Seq(S), NEW s2 \in Seq(S), Len(s2) = 2
  PROVE  /\ s1 \o s2 \in Seq(S) /\ Len(s1 \o s2) = Len(s1) + 2 /\ Len(s1) \in Nat
         /\ \A k \in 1 .. Len(s1 \o s2) :
              (s1 \o s2)[k] = IF k <= Len(s1) THEN s1[k] ELSE s2[k - Len(s1)]
<1>1. Len(s1) \in Nat
  BY LenProperties
<1>2. /\ s1 \o s2 \in Seq(S)
      /\ Len(s1 \o s2) = Len(s1) + Len(s2)
      /\ \A k \in 1 .. Len(s1) + Len(s2) :
           (s1 \o s2)[k] = IF k <= Len(s1) THEN s1[k] ELSE s2[k - Len(s1)]
  BY ConcatProperties, Zenon
<1>3. Len(s1 \o s2) = Len(s1) + 2
  BY <1>2
<1> QED BY <1>1, <1>2, <1>3, Zenon

(* A stack on which the two halves of a cofactor are put.                    *)
LEMMA SplitStack ==
  ASSUME NEW stack \in Seq(Cofactors), NEW c \in Cofactors, NEW v \in SplitVars(c)
  PROVE  /\ stack \o Split(c, v) \in Seq(Cofactors)
         /\ \A a : Lies(stack, a) => Lies(stack \o Split(c, v), a)
         /\ \A a \in In(c) : Lies(stack \o Split(c, v), a)
<1> DEFINE halves == Split(c, v)
           both   == stack \o halves
<1>1. /\ halves \in Seq(Cofactors) /\ Len(halves) = 2
      /\ halves[1] = Cofactor(c, v, FALSE) /\ halves[2] = Cofactor(c, v, TRUE)
  <2>1. Cofactor(c, v, FALSE) \in Cofactors /\ Cofactor(c, v, TRUE) \in Cofactors
    BY CofactorType DEF SplitVars
  <2> DEFINE l == Cofactor(c, v, FALSE)
             r == Cofactor(c, v, TRUE)
  <2>2. halves = <<l, r>>
    BY DEF Split
  <2> HIDE DEF l, r, halves
  <2>3. l \in Cofactors /\ r \in Cofactors
    BY <2>1 DEF l, r
  <2>4. halves \in Seq(Cofactors) /\ Len(halves) = 2 /\ halves[1] = l /\ halves[2] = r
    BY <2>2, <2>3
  <2> QED BY <2>4 DEF l, r
<1> HIDE DEF halves
<1>2. /\ both \in Seq(Cofactors) /\ Len(both) = Len(stack) + 2 /\ Len(stack) \in Nat
      /\ \A k \in 1 .. Len(both) : both[k] = IF k <= Len(stack) THEN stack[k]
                                             ELSE halves[k - Len(stack)]
  BY <1>1, ConcatTwo
<1> HIDE DEF both
<1>3. \A a : Lies(stack, a) => Lies(both, a)
  BY <1>2 DEF Lies
<1>4. ASSUME NEW a \in In(c)
      PROVE  Lies(both, a)
  <2>1. PICK b \in BOOLEAN : a \in In(Cofactor(c, v, b))
    BY HalvesCover
  <2>2. both[Len(stack) + 1] = halves[1] /\ both[Len(stack) + 2] = halves[2]
    BY <1>2
  <2>3. Len(stack) + 1 \in 1 .. Len(both) /\ Len(stack) + 2 \in 1 .. Len(both)
    BY <1>2
  <2>4. CASE b = FALSE
    <3>1. a \in In(both[Len(stack) + 1])
      BY <1>1, <2>1, <2>2, <2>4
    <3> QED BY <2>3, <3>1 DEF Lies
  <2>5. CASE b = TRUE
    <3>1. a \in In(both[Len(stack) + 2])
      BY <1>1, <2>1, <2>2, <2>5
    <3> QED BY <2>3, <3>1 DEF Lies
  <2> QED BY <2>1, <2>4, <2>5
<1> QED BY <1>2, <1>3, <1>4 DEF both, halves

LEMMA ScanUndecidedKeeps == ASSUME IInv, ScanUndecided PROVE IInv'
<1>1. /\ Scanning /\ ~fWorking[i] /\ p[i] \in Cofactors /\ fWorkToDo' = TRUE
  BY FinishedFacts DEF ScanUndecided
<1>2. PICK v \in SplitVars(p[i]) : StartThread(vStack \o Split(p[i], v))
  BY DEF ScanUndecided
<1> DEFINE stack == vStack \o Split(p[i], v)
<1>3. vStack \in Seq(Cofactors)
  BY DEF IInv, Shape
<1>4. /\ stack \in Seq(Cofactors)
      /\ \A a : Lies(vStack, a) => Lies(stack, a)
      /\ \A a \in In(p[i]) : Lies(stack, a)
  BY <1>1, <1>3, SplitStack
<1>5. StartThread(stack)
  BY <1>2
<1> HIDE DEF stack
<1> QED BY <1>1, <1>4, <1>5, VisitKeeps

(* A round that met no work has seen the whole search done.                  *)
LEMMA RoundOverKeeps == ASSUME IInv, RoundOver PROVE IInv'
<1>1. /\ mpc = "scan" /\ i \notin Threads /\ i \in Nat
      /\ UNCHANGED <<sat, nIterMax, p, Result, fWorking, vStack, nIter, fWorkToDo, wpc>>
      /\ RetValue = -1 /\ fWorkToDo \in BOOLEAN
      /\ \A t \in Threads : SlotInSearch(t)
  BY DEF RoundOver, problem, slots, IInv, Shape, VerdictKnown, SlotPhases
<1>2. (\A t \in Threads : SlotInSearch(t))'
  BY <1>1 DEF SlotInSearch, Answers
<1>3. CASE (nIterMax # 0 /\ nIter >= nIterMax) \/ ~fWorkToDo
  <2>1. mpc' = "wait" /\ i' = 0 /\ RetValue' = (IF fWorkToDo THEN RetValue ELSE 1)
    BY <1>3 DEF RoundOver
  <2>2. ~fWorkToDo => sat = {}
    <3>1. SUFFICES ASSUME ~fWorkToDo PROVE sat = {}
      OBVIOUS
    <3>2. \A t \in Threads : t < i
      BY <1>1, ThreadsFacts DEF Threads
    <3>3. vStack = <<>> /\ \A t \in Threads : p[t] = NULL
      BY <1>1, <3>1, <3>2 DEF IInv, RoundQuiet
    <3>4. ~\E k \in 1 .. Len(vStack) : TRUE
      BY <3>3
    <3> QED BY <1>1, <3>3, <3>4 DEF IInv, NothingLost
  <2>3. Verdict'
    BY <1>1, <1>3, <2>1, <2>2 DEF Verdict
  <2>4. Shape'
    BY <1>1, <2>1, ThreadsFacts DEF IInv, Shape, Status
  <2>5. SlotPhases'
    BY <1>2, <2>1, ThreadsFacts DEF SlotPhases
  <2> QED BY <2>1, <2>3, <2>4, <2>5 DEF IInv, RoundQuiet, VerdictKnown, NothingLost
<1>4. CASE ~((nIterMax # 0 /\ nIter >= nIterMax) \/ ~fWorkToDo)
  <2>1. mpc' = "loop" /\ UNCHANGED <<i, RetValue>>
    BY <1>4 DEF RoundOver
  <2>2. Shape'
    BY <1>1, <2>1 DEF IInv, Shape
  <2>3. SlotPhases'
    BY <1>2, <2>1 DEF SlotPhases
  <2>4. VerdictKnown' /\ NothingLost'
    BY <1>1, <2>1 DEF IInv, VerdictKnown, NothingLost, In
  <2> QED BY <2>1, <2>2, <2>3, <2>4 DEF IInv, RoundQuiet
<1> QED BY <1>3, <1>4

LEMMA WaitKeeps == ASSUME IInv, Wait PROVE IInv'
<1>1. /\ mpc = "wait" /\ i \in Threads /\ Verdict
      /\ UNCHANGED <<sat, nIterMax, p, Result, fWorking, vStack, nIter, fWorkToDo, RetValue, wpc>>
      /\ \A t \in Threads : SlotInSearch(t)
      /\ \A t \in Threads : t < i => ~fWorking[t]
  BY DEF Wait, problem, slots, IInv, Shape, VerdictKnown, SlotPhases
<1>2. (\A t \in Threads : SlotInSearch(t))'
  BY <1>1 DEF SlotInSearch, Answers
<1>3. CASE fWorking[i]
  <2>1. i' = 0 /\ mpc' = "wait"
    BY <1>1, <1>3 DEF Wait
  <2> QED BY <1>1, <1>2, <2>1, ThreadsFacts
          DEF IInv, Shape, SlotPhases, RoundQuiet, VerdictKnown, Verdict, NothingLost
<1>4. CASE ~fWorking[i] /\ i + 1 \in Threads
  <2>1. i' = i + 1 /\ mpc' = "wait"
    BY <1>4 DEF Wait, NextSlot
  <2>2. \A t \in Threads : t < i + 1 => t < i \/ t = i
    BY <1>1, ThreadsFacts
  <2>3. SlotPhases'
    BY <1>1, <1>2, <1>4, <2>1, <2>2 DEF SlotPhases
  <2> QED BY <1>1, <1>4, <2>1, <2>3, ThreadsFacts
          DEF IInv, Shape, RoundQuiet, VerdictKnown, Verdict, NothingLost
<1>5. CASE ~fWorking[i] /\ i + 1 \notin Threads
  <2>1. i' = 0 /\ mpc' = "stop"
    BY <1>5 DEF Wait, NextSlot
  <2>2. \A t \in Threads : t < i \/ t = i
    BY <1>1, <1>5, ThreadsFacts DEF Threads
  <2>3. \A t \in Threads : ~fWorking[t] /\ wpc[t] = "spin"
    BY <1>1, <1>5, <2>2 DEF SlotInSearch
  <2>4. SlotPhases'
    BY <1>1, <2>1, <2>3 DEF SlotPhases
  <2> QED BY <1>1, <2>1, <2>4, ThreadsFacts
          DEF IInv, Shape, RoundQuiet, VerdictKnown, Verdict, NothingLost
<1> QED BY <1>3, <1>4, <1>5

LEMMA StopKeeps == ASSUME IInv, Stop PROVE IInv'
<1>1. /\ mpc = "stop" /\ i \in Threads /\ i \in Nat /\ Verdict
      /\ UNCHANGED <<sat, nIterMax, Result, nIter, fWorkToDo, RetValue, wpc>>
      /\ p' = [p EXCEPT ![i] = NULL]
      /\ fWorking' = (IF p[i] = NULL THEN fWorking ELSE [fWorking EXCEPT ![i] = TRUE])
      /\ vStack' = (IF mpc' = "return" THEN <<>> ELSE vStack)
      /\ p \in [Threads -> Slots] /\ fWorking \in [Threads -> BOOLEAN]
      /\ vStack \in Seq(Cofactors)
  BY DEF Stop, problem, IInv, Shape, VerdictKnown
<1>2. mpc' \in {"stop", "return"} /\ i' \in Nat /\ (mpc' = "stop" => i' \in Threads)
  BY <1>1, ThreadsFacts DEF Stop, NextSlot
<1>3. p' \in [Threads -> Slots] /\ fWorking' \in [Threads -> BOOLEAN] /\ vStack' \in Seq(Cofactors)
  BY <1>1 DEF Slots
<1>4. Shape'
  BY <1>1, <1>2, <1>3 DEF IInv, Shape
<1>5. \A t \in Threads : /\ wpc'[t] \notin {"solve", "clear"}
                         /\ fWorking'[t] => p'[t] = NULL
  BY <1>1 DEF IInv, SlotPhases
<1>6. SlotPhases'
  BY <1>2, <1>5 DEF SlotPhases
<1>7. VerdictKnown'
  BY <1>1, <1>2 DEF VerdictKnown, Verdict
<1> QED BY <1>2, <1>4, <1>6, <1>7 DEF IInv, RoundQuiet, NothingLost

-----------------------------------------------------------------------------
(* The steps of a thread. *)

(* A step of a thread moves its program counter and nothing of the manager's.*)
LEMMA ThreadKeeps ==
  ASSUME IInv, NEW t \in Threads,
         UNCHANGED <<sat, nIterMax, vStack, p, nIter, fWorkToDo, RetValue, mpc, i>>,
         wpc' \in [Threads -> {"none", "spin", "solve", "clear", "exit"}],
         Result' \in [Threads -> Status], fWorking' \in [Threads -> BOOLEAN],
         SlotPhases'
  PROVE  IInv'
<1>1. Shape'
  BY DEF IInv, Shape
<1>2. RoundQuiet' /\ VerdictKnown' /\ NothingLost'
  BY DEF IInv, RoundQuiet, VerdictKnown, Verdict, NothingLost, In
<1> QED BY <1>1, <1>2 DEF IInv

LEMMA WakeKeeps == ASSUME IInv, NEW t \in Threads, Wake(t) PROVE IInv'
<1>1. /\ wpc[t] = "spin" /\ fWorking[t]
      /\ wpc' = [wpc EXCEPT ![t] = IF p[t] = NULL THEN "exit" ELSE "solve"]
      /\ UNCHANGED <<sat, nIterMax, vStack, p, Result, fWorking, nIter, fWorkToDo, RetValue, mpc, i>>
  BY DEF Wake, problem, slots
<1>2. /\ wpc \in [Threads -> {"none", "spin", "solve", "clear", "exit"}]
      /\ Result \in [Threads -> Status] /\ fWorking \in [Threads -> BOOLEAN]
  BY DEF IInv, Shape
<1>3. mpc # "check"
  BY <1>1 DEF IInv, SlotPhases
<1>4. CASE mpc \in {"loop", "scan", "wait"}
  <2>1. (\A u \in Threads : SlotInSearch(u))'
    BY <1>1, <1>2, <1>4 DEF IInv, SlotPhases, SlotInSearch, Answers
  <2>2. SlotPhases'
    BY <1>1, <1>4, <2>1 DEF IInv, SlotPhases
  <2> QED BY <1>1, <1>2, <2>2, ThreadKeeps
<1>5. CASE mpc \in {"stop", "return"}
  <2>1. SlotPhases'
    BY <1>1, <1>2, <1>5 DEF IInv, SlotPhases
  <2> QED BY <1>1, <1>2, <2>1, ThreadKeeps
<1> QED BY <1>3, <1>4, <1>5 DEF IInv, Shape

(* A thread at work means that the search is on and its flag is up.          *)
LEMMA AtWork ==
  ASSUME IInv, NEW t \in Threads, wpc[t] \in {"solve", "clear"}
  PROVE  /\ mpc \in {"loop", "scan", "wait"}
         /\ fWorking[t] /\ p[t] # NULL
<1>1. mpc \in {"loop", "scan", "wait"}
  BY DEF IInv, Shape, SlotPhases
<1> QED BY <1>1 DEF IInv, SlotPhases, SlotInSearch

LEMMA SolveKeeps == ASSUME IInv, NEW t \in Threads, Solve(t) PROVE IInv'
<1>1. /\ wpc[t] = "solve" /\ wpc' = [wpc EXCEPT ![t] = "clear"]
      /\ UNCHANGED <<sat, nIterMax, vStack, p, fWorking, nIter, fWorkToDo, RetValue, mpc, i>>
  BY DEF Solve, problem
<1>2. PICK status \in Answers(p[t]) : Result' = [Result EXCEPT ![t] = status]
  BY DEF Solve
<1>3. /\ wpc \in [Threads -> {"none", "spin", "solve", "clear", "exit"}]
      /\ Result \in [Threads -> Status] /\ fWorking \in [Threads -> BOOLEAN]
      /\ status \in Status
  BY AnswersRight DEF IInv, Shape
<1>4. mpc \in {"loop", "scan", "wait"} /\ fWorking[t] /\ p[t] # NULL
  BY <1>1, AtWork
<1>5. \A u \in Threads : SlotInSearch(u)
  BY <1>4 DEF IInv, SlotPhases
<1>6. \A u \in Threads : u # t => SlotInSearch(u)'
  BY <1>1, <1>2, <1>3, <1>5 DEF SlotInSearch, Answers
<1>7. SlotInSearch(t)'
  BY <1>1, <1>2, <1>3, <1>4 DEF SlotInSearch, Answers
<1>8. SlotPhases'
  BY <1>1, <1>4, <1>6, <1>7 DEF IInv, SlotPhases
<1> QED BY <1>1, <1>2, <1>3, <1>8, ThreadKeeps

LEMMA ClearKeeps == ASSUME IInv, NEW t \in Threads, Clear(t) PROVE IInv'
<1>1. /\ wpc[t] = "clear" /\ wpc' = [wpc EXCEPT ![t] = "spin"]
      /\ fWorking' = [fWorking EXCEPT ![t] = FALSE]
      /\ UNCHANGED <<sat, nIterMax, vStack, p, Result, nIter, fWorkToDo, RetValue, mpc, i>>
  BY DEF Clear, problem
<1>2. /\ wpc \in [Threads -> {"none", "spin", "solve", "clear", "exit"}]
      /\ Result \in [Threads -> Status] /\ fWorking \in [Threads -> BOOLEAN]
  BY DEF IInv, Shape
<1>3. mpc \in {"loop", "scan", "wait"}
  BY <1>1, AtWork
<1>4. \A u \in Threads : SlotInSearch(u)
  BY <1>3 DEF IInv, SlotPhases
<1>5. \A u \in Threads : u # t => SlotInSearch(u)'
  BY <1>1, <1>2, <1>4 DEF SlotInSearch, Answers
<1>6. SlotInSearch(t)'
  BY <1>1, <1>2, <1>4 DEF SlotInSearch, Answers
<1>7. \A u \in Threads : u < i => ~fWorking'[u] \/ fWorking[u]
  BY <1>1, <1>2
<1>8. SlotPhases'
  BY <1>1, <1>2, <1>3, <1>5, <1>6 DEF IInv, SlotPhases
<1> QED BY <1>1, <1>2, <1>8, ThreadKeeps

-----------------------------------------------------------------------------
(* The theorems. *)

LEMMA InitKeeps == Init => IInv
<1> SUFFICES ASSUME Init PROVE IInv
  OBVIOUS
<1>1. <<>> \in Seq(Cofactors) /\ NULL \in Slots
  BY DEF Slots
<1>2. Shape
  BY <1>1 DEF Init, Shape, Status
<1> QED BY <1>2 DEF IInv, Init, SlotPhases, RoundQuiet, VerdictKnown, NothingLost

LEMMA NextKeeps == IInv /\ [Next]_vars => IInv'
<1> SUFFICES ASSUME IInv, [Next]_vars PROVE IInv'
  OBVIOUS
<1>1. CASE Manager
  BY <1>1, CheckKeeps, RoundKeeps, ScanBusyKeeps, ScanSatKeeps, ScanUnsatKeeps,
     ScanUndecidedKeeps, ScanIdleKeeps, RoundOverKeeps, WaitKeeps, StopKeeps DEF Manager
<1>2. ASSUME NEW t \in Threads, WorkerThread(t) PROVE IInv'
  BY <1>2, WakeKeeps, SolveKeeps, ClearKeeps DEF WorkerThread
<1>3. CASE UNCHANGED vars
  BY <1>3 DEF vars, IInv, Shape, SlotPhases, SlotInSearch, Answers, RoundQuiet, VerdictKnown,
              Verdict, NothingLost, In
<1> QED BY <1>1, <1>2, <1>3 DEF Next

(* Slots, round and verdict agree at every step of every run.                *)
THEOREM Invariant == Spec => []IInv
<1> QED BY InitKeeps, NextKeeps, PTL DEF Spec

(* When Cec_GiaSplitTestInt returns, its verdict is right, and it is left    *)
(* open only at the limit on iterations.                                     *)
THEOREM VerdictIsRight == Spec => []VerdictRight
<1>1. IInv => VerdictRight
  BY DEF IInv, Shape, Status, VerdictKnown, Verdict, VerdictRight
<1> QED BY <1>1, Invariant, PTL

(* Splitting a cofactor, freeing it and handing it over lose no satisfying   *)
(* assignment.                                                               *)
THEOREM NoneLost == Spec => []NothingLost
<1>1. IInv => NothingLost
  BY DEF IInv
<1> QED BY <1>1, Invariant, PTL

(* A cofactor is not freed while a thread works on it, also when the search  *)
(* is cut short by a satisfiable cofactor or by the limit on iterations.     *)
THEOREM NoneFreedInUse == Spec => []NotFreedInUse
<1>1. IInv => NotFreedInUse
  BY AtWork DEF NotFreedInUse
<1> QED BY <1>1, Invariant, PTL

-----------------------------------------------------------------------------
(* The number of splits.  The cofactors waiting or in a slot lie apart, and *)
(* there is a set with one assignment more than there have been splits that *)
(* has exactly one assignment in each of them: a split adds one, which the  *)
(* other half had none of.                                                  *)

One(S, M) == \E a \in S : S \cap M = {a}

Apart(S, q) ==
  /\ \A j, k \in 1 .. Len(S) : j # k => In(S[j]) \cap In(S[k]) = {}
  /\ \A k \in 1 .. Len(S), t \in Threads : q[t] # NULL => In(S[k]) \cap In(q[t]) = {}
  /\ \A t, u \in Threads : t # u /\ q[t] # NULL /\ q[u] # NULL => In(q[t]) \cap In(q[u]) = {}

Marks(M, S, q) ==
  /\ \A k \in 1 .. Len(S) : One(In(S[k]), M)
  /\ \A t \in Threads : q[t] # NULL => One(In(q[t]), M)

Marked(S, q, n) == \E M \in SUBSET Assignments : Cardinality(M) = n + 1 /\ Marks(M, S, q)

Emptied(q) == [q EXCEPT ![i] = NULL]

(* There are as many assignments as sets of inputs.                          *)
LEMMA AssignmentsCounted ==
  IsFiniteSet(Assignments) /\ Cardinality(Assignments) = 2 ^ Cardinality(Vars)
<1>1. IsFiniteSet(SUBSET Vars) /\ Cardinality(SUBSET Vars) = 2 ^ Cardinality(Vars)
  BY FS_SUBSET, CecSplitAssumption
<1> DEFINE g == [V \in SUBSET Vars |-> [v \in Vars |-> v \in V]]
<1>2. g \in [SUBSET Vars -> Assignments]
  BY DEF Assignments
<1>3. \A V, W \in SUBSET Vars : g[V] = g[W] => V = W
  <2> SUFFICES ASSUME NEW V \in SUBSET Vars, NEW W \in SUBSET Vars, g[V] = g[W] PROVE V = W
    OBVIOUS
  <2>1. \A v \in Vars : g[V][v] = (v \in V) /\ g[W][v] = (v \in W)
    OBVIOUS
  <2> QED BY <2>1
<1>4. \A a \in Assignments : \E V \in SUBSET Vars : g[V] = a
  <2> SUFFICES ASSUME NEW a \in Assignments PROVE \E V \in SUBSET Vars : g[V] = a
    OBVIOUS
  <2> DEFINE V == {v \in Vars : a[v]}
  <2>1. a \in [Vars -> BOOLEAN]
    BY DEF Assignments
  <2>2. \A v \in Vars : (v \in V) = a[v]
    BY <2>1
  <2>3. g[V] = [v \in Vars |-> v \in V]
    OBVIOUS
  <2> HIDE DEF V, g
  <2>4. [v \in Vars |-> v \in V] = [v \in Vars |-> a[v]]
    BY <2>2
  <2>5. V \in SUBSET Vars
    BY DEF V
  <2> QED BY <2>1, <2>3, <2>4, <2>5
<1> HIDE DEF g
<1>5. g \in Bijection(SUBSET Vars, Assignments)
  BY <1>2, <1>3, <1>4 DEF Bijection, Injection, Surjection, IsInjective
<1>6. ExistsBijection(SUBSET Vars, Assignments)
  BY <1>5 DEF ExistsBijection
<1> QED BY <1>1, <1>6, FS_Bijection

(* The halves of a cofactor lie in it, and apart from each other.            *)
LEMMA Halves ==
  ASSUME NEW c \in Cofactors, NEW v \in SplitVars(c), NEW b \in BOOLEAN
  PROVE  /\ In(Cofactor(c, v, b)) = {a \in In(c) : a[v] = b}
         /\ \A a \in In(c) : [a EXCEPT ![v] = b] \in In(c) /\ [a EXCEPT ![v] = b][v] = b
<1>1. v \in Vars /\ v \notin DOMAIN c.fixed
  BY DEF SplitVars
<1> DEFINE f == With(c.fixed, v, b)
<1>2. /\ DOMAIN f = DOMAIN c.fixed \cup {v} /\ f[v] = b
      /\ \A w \in DOMAIN c.fixed : f[w] = c.fixed[w]
  BY <1>1 DEF With
<1>3. Cofactor(c, v, b).fixed = f
  BY DEF Cofactor
<1> HIDE DEF f
<1>4. In(Cofactor(c, v, b)) = {a \in In(c) : a[v] = b}
  BY <1>2, <1>3 DEF In
<1>5. ASSUME NEW a \in In(c)
      PROVE  [a EXCEPT ![v] = b] \in In(c) /\ [a EXCEPT ![v] = b][v] = b
  <2>1. a \in [Vars -> BOOLEAN] /\ \A w \in DOMAIN c.fixed : a[w] = c.fixed[w]
    BY DEF In, Assignments
  <2> DEFINE d == [a EXCEPT ![v] = b]
  <2>2. /\ d \in [Vars -> BOOLEAN] /\ d[v] = b
        /\ \A w \in Vars : w # v => d[w] = a[w]
    BY <1>1, <2>1
  <2>3. DOMAIN c.fixed \subseteq Vars
    BY DEF Cofactors, Valuations
  <2> HIDE DEF d
  <2>4. \A w \in DOMAIN c.fixed : d[w] = c.fixed[w]
    BY <1>1, <2>1, <2>2, <2>3
  <2>5. d \in In(c) /\ d[v] = b
    BY <2>2, <2>4 DEF In, Assignments
  <2> QED BY <2>5 DEF d
<1> QED BY <1>4, <1>5

(* Emptying a slot disturbs nothing.                                         *)
LEMMA EmptyKeeps ==
  ASSUME NEW S, NEW q \in [Threads -> Slots], NEW n, i \in Threads,
         Apart(S, q), Marked(S, q, n)
  PROVE  Apart(S, Emptied(q)) /\ Marked(S, Emptied(q), n)
<1> DEFINE r == Emptied(q)
<1>1. \A t \in Threads : r[t] = IF t = i THEN NULL ELSE q[t]
  BY DEF Emptied
<1> HIDE DEF r
<1>2. Apart(S, r)
  BY <1>1 DEF Apart
<1>3. \A M : Marks(M, S, q) => Marks(M, S, r)
  BY <1>1 DEF Marks
<1> QED BY <1>2, <1>3 DEF Marked, r

(* The top of the stack moves to an empty slot.                              *)
LEMMA TakeKeeps ==
  ASSUME NEW S \in Seq(Cofactors), S # <<>>, NEW q \in [Threads -> Slots], NEW n,
         i \in Threads, q[i] = NULL, Apart(S, q), Marked(S, q, n)
  PROVE  LET rest == SubSeq(S, 1, Len(S) - 1)
             r    == [q EXCEPT ![i] = S[Len(S)]]
         IN  Apart(rest, r) /\ Marked(rest, r, n)
<1> DEFINE rest == SubSeq(S, 1, Len(S) - 1)
           r    == [q EXCEPT ![i] = S[Len(S)]]
           L    == Len(S)
<1>1. L \in Nat \ {0} /\ Len(rest) = L - 1 /\ \A k \in 1 .. (L - 1) : rest[k] = S[k]
  BY TopFacts
<1>2. \A t \in Threads : r[t] = IF t = i THEN S[L] ELSE q[t]
  OBVIOUS
<1> HIDE DEF rest, r, L
<1>3. L \in 1 .. L /\ \A k \in 1 .. (L - 1) : k \in 1 .. L /\ k # L
  BY <1>1
<1>4. 1 .. Len(rest) = 1 .. (L - 1)
  BY <1>1
<1>5. Apart(rest, r)
  <2>1. \A j, k \in 1 .. (L - 1) : j # k => In(rest[j]) \cap In(rest[k]) = {}
    BY <1>1, <1>3 DEF Apart, L
  <2>2. ASSUME NEW k \in 1 .. (L - 1), NEW t \in Threads, r[t] # NULL
        PROVE  In(rest[k]) \cap In(r[t]) = {}
    BY <1>1, <1>2, <1>3, <2>2 DEF Apart, L
  <2>3. ASSUME NEW t \in Threads, NEW u \in Threads, t # u, r[t] # NULL, r[u] # NULL
        PROVE  In(r[t]) \cap In(r[u]) = {}
    BY <1>2, <1>3, <2>3 DEF Apart, L
  <2> QED BY <1>4, <2>1, <2>2, <2>3 DEF Apart
<1>6. ASSUME NEW M, Marks(M, S, q) PROVE Marks(M, rest, r)
  <2>1. \A k \in 1 .. (L - 1) : One(In(rest[k]), M)
    BY <1>1, <1>3, <1>6 DEF Marks, L
  <2>2. \A t \in Threads : r[t] # NULL => One(In(r[t]), M)
    BY <1>2, <1>3, <1>6 DEF Marks, L
  <2> QED BY <1>4, <2>1, <2>2 DEF Marks
<1> QED BY <1>5, <1>6 DEF Marked, rest, r

(* What a stack holds after a split.                                         *)
LEMMA SplitShape ==
  ASSUME NEW S \in Seq(Cofactors), NEW c \in Cofactors, NEW v \in SplitVars(c)
  PROVE  LET T == S \o Split(c, v)
         IN  /\ Len(S) \in Nat /\ Len(T) = Len(S) + 2
             /\ \A k \in 1 .. Len(S) : T[k] = S[k]
             /\ T[Len(S) + 1] = Cofactor(c, v, FALSE)
             /\ T[Len(S) + 2] = Cofactor(c, v, TRUE)
<1> DEFINE l == Cofactor(c, v, FALSE)
           r == Cofactor(c, v, TRUE)
           halves == <<l, r>>
           T == S \o halves
<1>1. l \in Cofactors /\ r \in Cofactors
  BY CofactorType DEF SplitVars
<1>2. Split(c, v) = halves
  BY DEF Split
<1> HIDE DEF l, r
<1>3. halves \in Seq(Cofactors) /\ Len(halves) = 2 /\ halves[1] = l /\ halves[2] = r
  BY <1>1
<1> HIDE DEF halves
<1>4. /\ Len(T) = Len(S) + 2 /\ Len(S) \in Nat
      /\ \A k \in 1 .. Len(T) : T[k] = IF k <= Len(S) THEN S[k] ELSE halves[k - Len(S)]
  BY <1>3, ConcatTwo
<1> HIDE DEF T
<1>5. \A k \in 1 .. Len(S) : T[k] = S[k]
  BY <1>4
<1>6. T[Len(S) + 1] = halves[1] /\ T[Len(S) + 2] = halves[2]
  BY <1>4
<1> QED BY <1>2, <1>3, <1>4, <1>5, <1>6 DEF T, l, r

(* A split: the half without a mark is given one of its own.                 *)
LEMMA SplitKeeps ==
  ASSUME NEW S \in Seq(Cofactors), NEW q \in [Threads -> Slots], NEW n \in Nat, i \in Threads,
         NEW c \in Cofactors, q[i] = c, NEW v \in SplitVars(c), Apart(S, q), Marked(S, q, n)
  PROVE  Apart(S \o Split(c, v), Emptied(q)) /\ Marked(S \o Split(c, v), Emptied(q), n + 1)
<1> DEFINE T == S \o Split(c, v)
           r == Emptied(q)
           L == Len(S)
           H(b) == In(Cofactor(c, v, b))
<1>1. /\ L \in Nat /\ Len(T) = L + 2 /\ \A k \in 1 .. L : T[k] = S[k]
      /\ In(T[L + 1]) = H(FALSE) /\ In(T[L + 2]) = H(TRUE)
  BY SplitShape
<1>2. \A t \in Threads : r[t] = IF t = i THEN NULL ELSE q[t]
  BY DEF Emptied
<1>3. \A b \in BOOLEAN : H(b) = {a \in In(c) : a[v] = b}
  BY Halves
<1>4. c # NULL
  BY ThreadsFacts
<1>5. /\ \A k \in 1 .. L : In(S[k]) \cap In(c) = {}
      /\ \A t \in Threads : r[t] # NULL => In(r[t]) \cap In(c) = {} /\ r[t] = q[t] /\ t # i
  BY <1>2, <1>4 DEF Apart
<1> HIDE DEF T, r, H
<1>6. \A k \in 1 .. Len(T) : \/ k \in 1 .. L /\ T[k] = S[k] /\ In(T[k]) \cap In(c) = {}
                             \/ k = L + 1 /\ In(T[k]) = H(FALSE)
                             \/ k = L + 2 /\ In(T[k]) = H(TRUE)
  <2> HIDE DEF L
  <2>1. \A k \in 1 .. (L + 2) : k \in 1 .. L \/ k = L + 1 \/ k = L + 2
    BY <1>1
  <2> QED BY <1>1, <1>5, <2>1 DEF L
<1>7. H(FALSE) \cap H(TRUE) = {} /\ H(FALSE) \subseteq In(c) /\ H(TRUE) \subseteq In(c)
  BY <1>3
<1>8. Apart(T, r)
  <2>1. ASSUME NEW j \in 1 .. Len(T), NEW k \in 1 .. Len(T), j # k
        PROVE  In(T[j]) \cap In(T[k]) = {}
    <3>1. CASE j \in 1 .. L /\ k \in 1 .. L
      BY <1>1, <2>1, <3>1 DEF Apart
    <3>2. CASE ~(j \in 1 .. L /\ k \in 1 .. L)
      BY <1>6, <1>7, <2>1, <3>2
    <3> QED BY <3>1, <3>2
  <2>2. ASSUME NEW k \in 1 .. Len(T), NEW t \in Threads, r[t] # NULL
        PROVE  In(T[k]) \cap In(r[t]) = {}
    <3>1. CASE k \in 1 .. L
      BY <1>1, <1>5, <2>2, <3>1 DEF Apart
    <3>2. CASE k \notin 1 .. L
      <4>1. In(T[k]) \subseteq In(c)
        BY <1>6, <1>7, <3>2
      <4>2. In(r[t]) \cap In(c) = {}
        BY <1>5, <2>2
      <4> QED BY <4>1, <4>2
    <3> QED BY <3>1, <3>2
  <2>3. ASSUME NEW t \in Threads, NEW u \in Threads, t # u, r[t] # NULL, r[u] # NULL
        PROVE  In(r[t]) \cap In(r[u]) = {}
    BY <1>5, <2>3 DEF Apart
  <2> QED BY <2>1, <2>2, <2>3 DEF Apart
<1>9. Marked(T, r, n + 1)
  <2>1. PICK M \in SUBSET Assignments : Cardinality(M) = n + 1 /\ Marks(M, S, q)
    BY DEF Marked
  <2>2. PICK a \in In(c) : In(c) \cap M = {a}
    BY <1>4, <2>1 DEF Marks, One
  <2> DEFINE b == ~a[v]
             d == [a EXCEPT ![v] = b]
             N == M \cup {d}
  <2>3. a[v] \in BOOLEAN /\ b \in BOOLEAN
    BY DEF In, Assignments, SplitVars
  <2> HIDE DEF b
  <2>4. d \in In(c) /\ d[v] = b
    BY <2>3, Halves
  <2> HIDE DEF d
  <2>5. d # a /\ d \notin M /\ d \in Assignments
    <3>1. a[v] # b
      BY <2>3 DEF b
    <3> QED BY <2>2, <2>4, <3>1 DEF In
  <2>6. Cardinality(N) = (n + 1) + 1 /\ N \in SUBSET Assignments
    <3>1. IsFiniteSet(M)
      BY AssignmentsCounted, FS_Subset
    <3> QED BY <2>1, <2>5, <3>1, FS_AddElement
  <2>7. ASSUME NEW E, E \cap In(c) = {}, One(E, M) PROVE One(E, N)
    BY <2>4, <2>7 DEF One
  <2>8. /\ In(c) \cap N = {a, d} /\ a \in In(c) /\ a[v] # d[v]
        /\ \A e \in {a, d} : H(e[v]) = {x \in In(c) : x[v] = e[v]}
    <3>1. a[v] # d[v] /\ d[v] \in BOOLEAN
      BY <2>3, <2>4 DEF b
    <3>2. \A e \in {a, d} : H(e[v]) = {x \in In(c) : x[v] = e[v]}
      BY <1>3, <2>3, <3>1
    <3> QED BY <2>2, <2>4, <3>1, <3>2
  <2> HIDE DEF N
  <2>9. /\ H(a[v]) \cap N = {a} /\ a \in H(a[v])
        /\ H(b) \cap N = {d} /\ d \in H(b)
    <3>1. H(a[v]) \cap N = {a} /\ a \in H(a[v])
      BY <2>8
    <3>2. H(d[v]) \cap N = {d} /\ d \in H(d[v])
      BY <2>4, <2>8
    <3> QED BY <2>4, <3>1, <3>2
  <2>10. One(H(FALSE), N) /\ One(H(TRUE), N)
    <3>1. One(H(a[v]), N)
      BY <2>9 DEF One
    <3>2. One(H(b), N)
      BY <2>9 DEF One
    <3>3. CASE a[v] = TRUE
      BY <3>1, <3>2, <3>3 DEF b
    <3>4. CASE a[v] = FALSE
      BY <3>1, <3>2, <3>4 DEF b
    <3> QED BY <2>3, <3>3, <3>4
  <2>11. ASSUME NEW k \in 1 .. Len(T) PROVE One(In(T[k]), N)
    <3>1. CASE k \in 1 .. L
      BY <1>1, <1>5, <2>1, <2>7, <3>1 DEF Marks
    <3>2. CASE k \notin 1 .. L
      BY <1>6, <2>10, <3>2
    <3> QED BY <3>1, <3>2
  <2>12. ASSUME NEW t \in Threads, r[t] # NULL PROVE One(In(r[t]), N)
    BY <1>5, <2>1, <2>7, <2>12 DEF Marks
  <2> QED BY <2>6, <2>11, <2>12 DEF Marked, Marks
<1> QED BY <1>8, <1>9 DEF T, r

(* What counts the splits, and the types Shape leaves open.                  *)
Count ==
  /\ nIterMax \in IterMaxes /\ i \in 0 .. (nProcs - 1)
  /\ pCexComb \in Assignments \cup {NULL}
  /\ nIter \in 0 .. (Cardinality(Assignments) - 1)
  /\ mpc = "check" => nIter = 0
  /\ mpc \in {"loop", "scan"} => Apart(vStack, p) /\ Marked(vStack, p, nIter)

LEMMA ModelsType ==
  ASSUME NEW c \in Cofactors
  PROVE  Models(c) \subseteq Assignments
<1> SUFFICES ASSUME NEW a \in In(c) PROVE Model(c, a) \in Assignments
  BY DEF Models
<1>1. a \in [Vars -> BOOLEAN]
  BY DEF In, Assignments
<1>2. \A v \in DOMAIN c.vCofVars : c.vCofVars[v] \in BOOLEAN
  BY DEF Cofactors, Valuations
<1> QED BY <1>1, <1>2 DEF Model, Assignments

(* A marked set is a set of assignments, so there have not been more splits. *)
LEMMA MarkedBound ==
  ASSUME NEW S, NEW q, NEW n \in Nat, Marked(S, q, n)
  PROVE  n \in 0 .. (Cardinality(Assignments) - 1)
<1>1. PICK M \in SUBSET Assignments : Cardinality(M) = n + 1
  BY DEF Marked
<1>2. Cardinality(M) <= Cardinality(Assignments) /\ Cardinality(Assignments) \in Nat
  BY AssignmentsCounted, FS_Subset, FS_CardinalityType
<1> QED BY <1>1, <1>2

(* The slot that is visited takes from the stack.                            *)
LEMMA HandOverCounts ==
  ASSUME p \in [Threads -> Slots], i \in Threads, NEW S \in Seq(Cofactors), NEW n,
         Apart(S, Emptied(p)), Marked(S, Emptied(p), n), StartThread(S)
  PROVE  Apart(vStack', p') /\ Marked(vStack', p', n)
<1> DEFINE r == Emptied(p)
<1>1. CASE S = <<>>
  <2>1. vStack' = S /\ p' = r
    BY <1>1 DEF StartThread, Emptied
  <2> QED BY <2>1
<1>2. CASE S # <<>>
  <2>1. vStack' = SubSeq(S, 1, Len(S) - 1) /\ p' = [p EXCEPT ![i] = S[Len(S)]]
    BY <1>2 DEF StartThread
  <2>2. [p EXCEPT ![i] = S[Len(S)]] = [r EXCEPT ![i] = S[Len(S)]]
    BY DEF Emptied
  <2>3. r \in [Threads -> Slots] /\ r[i] = NULL
    BY DEF Emptied, Slots
  <2> HIDE DEF r
  <2>4. Apart(S, r) /\ Marked(S, r, n)
    BY DEF r
  <2>5. /\ Apart(SubSeq(S, 1, Len(S) - 1), [r EXCEPT ![i] = S[Len(S)]])
        /\ Marked(SubSeq(S, 1, Len(S) - 1), [r EXCEPT ![i] = S[Len(S)]], n)
    BY <1>2, <2>3, <2>4, TakeKeeps
  <2> QED BY <2>1, <2>2, <2>5
<1> QED BY <1>1, <1>2

LEMMA CountInit == Init => Count
<1> SUFFICES ASSUME Init PROVE Count
  OBVIOUS
<1>1. Cardinality(Assignments) \in Nat \ {0}
  <2>1. [v \in Vars |-> TRUE] \in Assignments
    BY DEF Assignments
  <2> QED BY <2>1, AssignmentsCounted, FS_EmptySet, FS_CardinalityType
<1>2. 0 \in 0 .. (nProcs - 1)
  BY CecSplitAssumption
<1> QED BY <1>1, <1>2 DEF Init, Count

(* The first split is of the problem as a whole.                             *)
LEMMA CheckCounts == ASSUME IInv, Count, Check PROVE Count'
<1>1. /\ mpc = "check" /\ UNCHANGED <<nIterMax, p, nIter, i>> /\ nIter = 0
      /\ \A t \in Threads : p[t] = NULL
  BY DEF Check, problem, slots, IInv, SlotPhases, Count
<1>2. pCexComb' \in Assignments \cup {NULL}
  BY ModelsType, WholeFacts DEF Check, Count
<1>3. mpc' = "return" \/ (mpc' = "loop" /\ vStack' = <<Whole>>)
  BY DEF Check
<1>4. ASSUME vStack' = <<Whole>> PROVE Apart(vStack', p') /\ Marked(vStack', p', nIter')
  <2>1. Len(vStack') = 1 /\ vStack'[1] = Whole /\ 1 .. 1 = {1}
    BY <1>4
  <2>2. Apart(vStack', p')
    BY <1>1, <2>1 DEF Apart
  <2> DEFINE a == [v \in Vars |-> TRUE]
             M == {a}
  <2>3. a \in Assignments
    BY DEF Assignments
  <2> HIDE DEF a
  <2>4. M \in SUBSET Assignments /\ Cardinality(M) = 0 + 1
    <3>1. Cardinality({a}) = 1
      BY FS_Singleton, Zenon
    <3> QED BY <2>3, <3>1
  <2>5. One(In(Whole), M)
    BY <2>3, WholeFacts DEF One
  <2>6. Marks(M, vStack', p')
    BY <1>1, <2>1, <2>5 DEF Marks
  <2> HIDE DEF M
  <2> QED BY <1>1, <2>2, <2>4, <2>6 DEF Marked
<1> QED BY <1>1, <1>2, <1>3, <1>4 DEF Count

(* A visit to a slot that takes another cofactor.                            *)
LEMMA VisitCounts ==
  ASSUME Count, IInv, Scanning, NEW S \in Seq(Cofactors), NEW n \in Nat,
         Apart(S, Emptied(p)), Marked(S, Emptied(p), n), StartThread(S), nIter' = n
  PROVE  Count'
<1>1. /\ UNCHANGED <<nIterMax, mpc, pCexComb>> /\ i' = i + 1 /\ mpc = "scan" /\ i \in Threads
      /\ p \in [Threads -> Slots]
  BY DEF StartThread, problem, Scanning, IInv, Shape
<1>2. Apart(vStack', p') /\ Marked(vStack', p', nIter')
  BY <1>1, HandOverCounts
<1>3. nIter' \in 0 .. (Cardinality(Assignments) - 1)
  BY <1>2, MarkedBound
<1>4. i' \in 0 .. (nProcs - 1)
  BY <1>1, CecSplitAssumption DEF Threads
<1> QED BY <1>1, <1>2, <1>3, <1>4 DEF Count

LEMMA ScanCounts == ASSUME IInv, Count, ScanUnsat \/ ScanIdle \/ ScanUndecided PROVE Count'
<1>1. /\ Scanning /\ mpc = "scan" /\ i \in Threads /\ p \in [Threads -> Slots]
      /\ vStack \in Seq(Cofactors) /\ nIter \in Nat
  <2>1. Scanning
    BY DEF ScanUnsat, ScanIdle, ScanUndecided, Finished
  <2>2. nIter \in Nat
    BY DEF Count
  <2> QED BY <2>1, <2>2 DEF Scanning, IInv, Shape
<1>2. Apart(vStack, p) /\ Marked(vStack, p, nIter)
  BY <1>1 DEF Count
<1>3. CASE ScanUnsat \/ ScanIdle
  <2>1. StartThread(vStack) /\ nIter' = nIter
    BY <1>3 DEF ScanUnsat, ScanIdle
  <2>2. Apart(vStack, Emptied(p)) /\ Marked(vStack, Emptied(p), nIter)
    BY <1>1, <1>2, EmptyKeeps
  <2> QED BY <1>1, <2>1, <2>2, VisitCounts
<1>4. CASE ScanUndecided
  <2>1. p[i] \in Cofactors /\ nIter' = nIter + 1
    BY <1>4, FinishedFacts DEF ScanUndecided
  <2>2. PICK v \in SplitVars(p[i]) : StartThread(vStack \o Split(p[i], v))
    BY <1>4 DEF ScanUndecided
  <2> DEFINE S == vStack \o Split(p[i], v)
  <2>3. S \in Seq(Cofactors)
    BY <1>1, <2>1, SplitStack
  <2>4. Apart(S, Emptied(p)) /\ Marked(S, Emptied(p), nIter + 1)
    BY <1>1, <1>2, <2>1, SplitKeeps
  <2>5. StartThread(S)
    BY <2>2
  <2> HIDE DEF S
  <2> QED BY <1>1, <2>1, <2>3, <2>4, <2>5, VisitCounts
<1> QED BY <1>3, <1>4

LEMMA CountNext == IInv /\ Count /\ [Next]_vars => Count'
<1> SUFFICES ASSUME IInv, Count, [Next]_vars PROVE Count'
  OBVIOUS
<1>1. /\ nProcs \in Nat /\ 0 \in 0 .. (nProcs - 1)
      /\ \A t \in Threads : t \in 0 .. (nProcs - 1) /\ t + 1 \in 0 .. (nProcs - 1)
  BY CecSplitAssumption DEF Threads
<1>2. CASE Round \/ ScanBusy
  <2>1. /\ UNCHANGED <<nIterMax, p, vStack, nIter, pCexComb>> /\ mpc \in {"loop", "scan"}
        /\ mpc' = "scan" /\ i' \in 0 .. (nProcs - 1)
    BY <1>1, <1>2 DEF Round, ScanBusy, Scanning, problem, slots
  <2> QED BY <2>1 DEF Count
<1>3. CASE ScanSat
  <2>1. /\ UNCHANGED <<nIterMax, nIter>> /\ i' = 0 /\ mpc' = "wait" /\ pCexComb' \in Models(p[i])
    BY <1>3 DEF ScanSat, problem
  <2>2. p[i] \in Cofactors
    BY <1>3, FinishedFacts DEF ScanSat
  <2> QED BY <1>1, <2>1, <2>2, ModelsType DEF Count
<1>4. CASE RoundOver \/ Wait \/ Stop
  <2>1. /\ UNCHANGED <<nIterMax, nIter, pCexComb>>
    BY <1>4 DEF RoundOver, Wait, Stop, problem
  <2>2. i' \in 0 .. (nProcs - 1)
    BY <1>1, <1>4 DEF Count, RoundOver, Wait, Stop, NextSlot
  <2>3. mpc' \in {"wait", "stop", "return"} \/ (mpc = "scan" /\ mpc' = "loop" /\ UNCHANGED <<vStack, p>>)
    BY <1>4 DEF RoundOver, Wait, Stop, NextSlot, slots
  <2> QED BY <2>1, <2>2, <2>3 DEF Count
<1>5. ASSUME NEW t \in Threads, WorkerThread(t) PROVE Count'
  BY <1>5 DEF WorkerThread, Wake, Solve, Clear, problem, slots, Count
<1>6. CASE UNCHANGED vars
  BY <1>6 DEF vars, Count
<1> QED BY <1>2, <1>3, <1>4, <1>5, <1>6, CheckCounts, ScanCounts DEF Next, Manager

(* Types hold, and an output over n inputs is split 2^n - 1 times at most:   *)
(* no input is cofactored twice on a path, and no two cofactors overlap.     *)
THEOREM TypeCorrect == Spec => []TypeOK
<1>1. Spec => []Count
  <2>1. Init => Count
    BY CountInit
  <2>2. IInv /\ Count /\ [Next]_vars => Count'
    BY CountNext
  <2> QED BY <2>1, <2>2, Invariant, PTL DEF Spec
<1>2. IInv /\ Count => TypeOK
  <2> DEFINE B == 2 ^ Cardinality(Vars)
  <2>1. Cardinality(Assignments) = B
    BY AssignmentsCounted
  <2> HIDE DEF B
  <2>2. ASSUME IInv, Count PROVE nIter \in 0 .. (B - 1)
    BY <2>1, <2>2 DEF Count
  <2>3. ASSUME IInv, Count PROVE TypeOK
    BY <2>2, <2>3 DEF IInv, Shape, Count, TypeOK, B
  <2> QED BY <2>3
<1> QED BY <1>1, <1>2, Invariant, PTL
=============================================================================
