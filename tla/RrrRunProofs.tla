---------------------------- MODULE RrrRunProofs ----------------------------
(***************************************************************************)
(* A call of "&rrr" uses its queues as RrrQueue says, whatever networks,   *)
(* windows and optimized forms there are: RrrRun implements RrrQueue, and  *)
(* so no job of a call is lost or run twice.  Windows stay apart, all      *)
(* networks of a call stay in order, and the best copy is kept.            *)
(***************************************************************************)
EXTENDS RrrRun, RrrNetworkProofs, TLAPS

\* The theorems about the queues, for the queues of a call.
QueueProofs == INSTANCE RrrQueueProofs WITH
  par <- [fMultiThreading |-> mode.fMultiThreading, fDeterministic |-> fDeterministic],
  phase <- IF main \in Ways \cup {"created"} THEN "create" ELSE main

\* Where the main thread is: without partitions there is one round, in which
\* nothing is taken back before all jobs are created.
Places ==
  /\ mode \in ModeType
  /\ main \in Ways \cup {"created", "drain", "destroy", "join", "done", "stopped"}
  /\ main \in {"copies", "single"} => nFinishedJobs = 0
  /\ main = "stopped" => end # "ok"

IInv == Places /\ QueueProofs!IInv /\ QueueProofs!NoThreads

USE JobsAssumption

-----------------------------------------------------------------------------
(* The operations on the queues are those of RrrQueue.                     *)

\* An operation of RrrScheduler is the one of the same name in RrrQueue.
LEMMA SameOperations ==
  /\ CreateJob => Queue!CreateJob
  /\ \A d : WaitForJob(d) => Queue!WaitForJob(d)
  /\ \A d : TakeBack(d) => Queue!TakeBack(d)
  /\ RunHere => Queue!RunHere
  /\ Terminate => Queue!Terminate
  /\ SpuriousWakeup => Queue!SpuriousWakeup
  /\ \A t : /\ WaitForPending(t) => Queue!WaitForPending(t)
            /\ Leave(t) => Queue!Leave(t)
            /\ TakeJob(t) => Queue!TakeJob(t)
            /\ FinishJob(t) => Queue!FinishJob(t)
<1>1. CreateJob => Queue!CreateJob
  BY DEF CreateJob, NotifyOneWorker, Queue!CreateJob, Queue!NotifyOneWorker
<1>2. \A d : WaitForJob(d) => Queue!WaitForJob(d)
  BY DEF WaitForJob, JobReady, Top, Queue!WaitForJob, Queue!JobReady, Queue!Top
<1>3. \A d : TakeBack(d) => Queue!TakeBack(d)
  BY DEF TakeBack, JobReady, Top, Queue!TakeBack, Queue!JobReady, Queue!Top
<1>4. RunHere => Queue!RunHere
  BY DEF RunHere, Queue!RunHere
<1>5. Terminate => Queue!Terminate
  BY DEF Terminate, Queue!Terminate
<1>6. SpuriousWakeup => Queue!SpuriousWakeup
  BY DEF SpuriousWakeup, Queue!SpuriousWakeup
<1>7. \A t : /\ WaitForPending(t) => Queue!WaitForPending(t)
             /\ Leave(t) => Queue!Leave(t)
             /\ TakeJob(t) => Queue!TakeJob(t)
             /\ FinishJob(t) => Queue!FinishJob(t)
  BY DEF WaitForPending, Leave, TakeJob, FinishJob,
         Queue!WaitForPending, Queue!Leave, Queue!TakeJob, Queue!FinishJob
<1> QED BY <1>1, <1>2, <1>3, <1>4, <1>5, <1>6, <1>7

-----------------------------------------------------------------------------
(* What the variables of RrrQueue stand for.                               *)

par == [fMultiThreading |-> mode.fMultiThreading, fDeterministic |-> fDeterministic]
phase == IF main \in Ways \cup {"created"} THEN "create" ELSE main

\* The settings do not change in a call.
LEMMA SamePar == ASSUME mode' = mode PROVE par' = par
BY DEF par, fDeterministic

\* A call starts with empty queues.
LEMMA InitImplements == Init => Queue!Init /\ Places
<1> SUFFICES ASSUME Init PROVE Queue!Init /\ Places
  OBVIOUS
<1>1. mode \in ModeType /\ main = mode.way
  BY CallsAssumption DEF Init
<1>2. /\ mode.fMultiThreading \in BOOLEAN /\ mode.fDeterministic \in BOOLEAN
      /\ mode.way \in Ways
  BY <1>1 DEF ModeType
<1>3. par \in [fMultiThreading : BOOLEAN, fDeterministic : BOOLEAN]
  BY <1>2 DEF par, fDeterministic
<1>4. QueueInit(mode.fMultiThreading)
  BY DEF Init
<1>5. Queue!QueueInit(par.fMultiThreading)
  BY <1>4 DEF QueueInit, Queue!QueueInit, par
<1>6. Queue!Init
  BY <1>1, <1>2, <1>3, <1>5 DEF Queue!Init, par
<1>7. nFinishedJobs = 0
  BY <1>4 DEF QueueInit
<1> QED BY <1>1, <1>2, <1>6, <1>7 DEF Places, Ways

-----------------------------------------------------------------------------
(* Steps of the main thread.                                               *)

\* What is known of the two counts.
LEMMA CountsFacts ==
  ASSUME IInv
  PROVE  /\ nCreatedJobs \in Nat /\ nFinishedJobs \in Nat /\ nJobs \in Nat \ {0}
         /\ main = "drain" => nFinishedJobs < nCreatedJobs
<1>1. nCreatedJobs \in 0..nJobs /\ nFinishedJobs \in 0..nJobs
  BY DEF IInv, QueueProofs!IInv, QueueProofs!QueueTypeOK
<1>2. main = "drain" => nFinishedJobs < nCreatedJobs
  BY DEF IInv, QueueProofs!IInv, QueueProofs!Rounds, Ways
<1> QED BY <1>1, <1>2

\* Jobs are created, as many as there may be.
LEMMA CreateImplements ==
  ASSUME IInv, CreateWindowJob \/ CreateCopyJob
  PROVE  Queue!Create /\ Places'
<1>1. /\ CreateJob /\ mode' = mode /\ end' = end /\ nCreatedJobs < nJobs
      /\ main \in Ways /\ main' \in Ways \cup {"created"} /\ nFinishedJobs' = nFinishedJobs
      /\ main' \in {"copies", "single"} => main' = main
  <2>1. CASE CreateWindowJob
    BY <2>1 DEF CreateWindowJob, RoundOpen, CreateJob, Ways
  <2>2. CASE CreateCopyJob
    BY <2>2, CountsFacts DEF CreateCopyJob, runVars, CreateJob, Ways
  <2> QED BY <2>1, <2>2
<1>2. phase = "create" /\ phase' = "create" /\ par' = par
  BY <1>1, SamePar DEF phase
<1>3. Queue!CreateJob
  BY <1>1, SameOperations
<1>4. Queue!Create
  BY <1>1, <1>2, <1>3 DEF Queue!Create, phase, par
<1>5. Places'
  BY <1>1 DEF IInv, Places, Ways
<1> QED BY <1>4, <1>5

\* The round is closed, or the program stops while windows are cut.
LEMMA CloseImplements ==
  ASSUME IInv, CloseRound \/ AllCopiesCreated \/ PrintRace \/ AbortExtract
  PROVE  (Queue!CloseRound \/ Queue!Stop) /\ Places'
<1>1. /\ UNCHANGED queueVars /\ mode' = mode /\ main \in Ways \cup {"created"}
      /\ \/ main' = "stopped" /\ end' # "ok"
         \/ main' = IF nCreatedJobs = nFinishedJobs THEN "destroy" ELSE "drain"
  <2>1. CASE CloseRound
    BY <2>1 DEF CloseRound, Ways
  <2>2. CASE AllCopiesCreated
    <3>1. nFinishedJobs = 0 /\ nCreatedJobs # 0
      BY <2>2, CountsFacts DEF AllCopiesCreated, IInv, Places
    <3> QED BY <2>2, <3>1 DEF AllCopiesCreated, Ways
  <2>3. CASE PrintRace \/ AbortExtract
    BY <2>3 DEF PrintRace, AbortExtract, Ways
  <2> QED BY <2>1, <2>2, <2>3
<1>2. phase = "create" /\ phase' = main' /\ par' = par
  BY <1>1, SamePar DEF phase, Ways
<1>3. UNCHANGED Queue!queueVars
  BY <1>1 DEF queueVars, Queue!queueVars
<1>4. Queue!CloseRound \/ Queue!Stop
  BY <1>1, <1>2, <1>3 DEF Queue!CloseRound, Queue!Stop, phase, par
<1>5. Places'
  BY <1>1 DEF IInv, Places, Ways
<1> QED BY <1>4, <1>5

\* A job was taken back and its network is used.
LEMMA UseGoesOn ==
  ASSUME IInv, main = "drain", NEW j, NEW ntk, Use(j, ntk), nFinishedJobs' = nFinishedJobs + 1,
         UNCHANGED nCreatedJobs
  PROVE  /\ mode' = mode /\ Places'
         /\ phase' \in IF nFinishedJobs' < nCreatedJobs THEN {"drain", "stopped"}
                       ELSE {"create", "destroy", "stopped"}
<1>1. /\ mode' = mode /\ main' \in {"stopped", "drain", "partitions", "destroy"}
      /\ main' = "stopped" => end' # "ok"
      /\ main' = "drain" => nFinishedJobs' < nCreatedJobs
      /\ main' \in {"partitions", "destroy"} => ~(nFinishedJobs' < nCreatedJobs)
  <2>1. CASE mode.way = "partitions"
    BY <2>1 DEF Use, PutBack
  <2>2. CASE mode.way # "partitions"
    <3>1. nFinishedJobs' = nCreatedJobs \/ nFinishedJobs' < nCreatedJobs
      BY CountsFacts
    <3>2. nFinishedJobs' = nCreatedJobs => ~(nFinishedJobs' < nCreatedJobs)
      BY CountsFacts
    <3>3. /\ mode' = mode /\ end' = end
          /\ main' = IF nFinishedJobs' = nCreatedJobs THEN "destroy" ELSE "drain"
      BY <2>2 DEF Use, KeepBest
    <3> QED BY <3>1, <3>2, <3>3
  <2> QED BY <2>1, <2>2
<1>2. phase' = IF main' = "partitions" THEN "create" ELSE main'
  BY <1>1 DEF phase, Ways
<1>3. Places'
  BY <1>1 DEF IInv, Places, Ways
<1> QED BY <1>1, <1>2, <1>3

\* A job that ended is taken back, from a worker or in the main thread.
LEMMA TakeImplements ==
  ASSUME IInv, OnJobEnd \/ OnJobEndHere
  PROVE  Queue!OnJobEnd /\ Places'
<1>1. /\ main = "drain"
      /\ IF mode.fMultiThreading THEN TakeBack(fDeterministic) ELSE RunHere
      /\ \E j, ntk : Use(j, ntk)
  BY DEF OnJobEnd, OnJobEndHere
<1>2. nFinishedJobs' = nFinishedJobs + 1 /\ UNCHANGED nCreatedJobs
  BY <1>1 DEF TakeBack, RunHere
<1>3. /\ mode' = mode /\ Places'
      /\ phase' \in IF nFinishedJobs' < nCreatedJobs THEN {"drain", "stopped"}
                    ELSE {"create", "destroy", "stopped"}
  BY <1>1, <1>2, UseGoesOn
<1>4. IF mode.fMultiThreading THEN Queue!TakeBack(fDeterministic) ELSE Queue!RunHere
  BY <1>1, SameOperations
<1>5. phase = "drain" /\ par' = par
  BY <1>1, <1>3, SamePar DEF phase, Ways
<1>6. Queue!OnJobEnd
  BY <1>3, <1>4, <1>5 DEF Queue!OnJobEnd, phase, par
<1> QED BY <1>3, <1>6

\* The main thread waits; the destructor ends the workers and joins them.
LEMMA EndImplements ==
  ASSUME IInv, Wait \/ Destroy \/ Join
  PROVE  (Queue!Wait \/ Queue!Destroy \/ Queue!Join) /\ Places'
<1>1. mode' = mode /\ par' = par
  BY SamePar DEF Wait, Destroy, Join, runVars
<1>2. CASE Wait
  <2>1. phase = "drain" /\ phase' = phase /\ Queue!WaitForJob(fDeterministic)
    BY <1>2, SameOperations DEF Wait, runVars, phase, Ways
  <2>2. Queue!Wait
    BY <1>1, <1>2, <2>1 DEF Wait, Queue!Wait, phase, par
  <2> QED BY <1>2, <2>2 DEF Wait, WaitForJob, runVars, IInv, Places
<1>3. CASE Destroy
  <2>1. phase = "destroy" /\ phase' = "join" /\ Queue!Terminate
    BY <1>3, SameOperations DEF Destroy, phase, Ways
  <2>2. Queue!Destroy
    BY <1>1, <2>1 DEF Queue!Destroy, phase, par
  <2> QED BY <1>3, <2>2 DEF Destroy, IInv, Places
<1>4. CASE Join
  <2>1. phase = "join" /\ phase' = "done" /\ UNCHANGED Queue!queueVars
    BY <1>4 DEF Join, phase, Ways, queueVars, Queue!queueVars
  <2>2. Queue!Join
    BY <1>1, <1>4, <2>1 DEF Join, Queue!Join, phase, par
  <2> QED BY <1>4, <2>2 DEF Join, IInv, Places
<1> QED BY <1>2, <1>3, <1>4

-----------------------------------------------------------------------------
(* Steps of the workers.                                                   *)

\* A worker waits, takes a job, finishes it or leaves.
LEMMA WorkersImplement ==
  ASSUME IInv, (\E t \in Threads : WorkerStep(t)) \/ Wakeup
  PROVE  ((\E t \in Threads : Queue!WorkerStep(t)) \/ Queue!Wakeup) /\ Places'
<1>1. end = "ok" /\ UNCHANGED runVars /\ nFinishedJobs' = nFinishedJobs
  BY DEF WorkerStep, Wakeup, WaitForPending, Leave, TakeJob, RunJob, FinishJob, SpuriousWakeup
<1>2. phase # "stopped" /\ phase' = phase /\ mode' = mode
  BY <1>1 DEF IInv, Places, phase, runVars
<1>3. par' = par
  BY <1>2, SamePar
<1>4. Places'
  BY <1>1 DEF IInv, Places, runVars
<1>5. CASE Wakeup
  <2>1. Queue!SpuriousWakeup
    BY <1>5, SameOperations DEF Wakeup
  <2>2. Queue!Wakeup
    BY <1>2, <1>3, <2>1 DEF Queue!Wakeup, phase, par
  <2> QED BY <1>4, <2>2
<1>6. ASSUME NEW t \in Threads, WorkerStep(t) PROVE Queue!WorkerStep(t)
  <2>1. Queue!WaitForPending(t) \/ Queue!Leave(t) \/ Queue!TakeJob(t) \/ Queue!FinishJob(t)
    BY <1>6, SameOperations DEF WorkerStep, RunJob
  <2> QED BY <1>2, <1>3, <2>1 DEF Queue!WorkerStep, phase, par
<1> QED BY <1>4, <1>5, <1>6

-----------------------------------------------------------------------------
(* The refinement.                                                         *)

\* Every step of a call is a step of RrrQueue, or changes nothing there.
LEMMA StepImplements ==
  ASSUME IInv, [Next]_vars
  PROVE  [Queue!Next]_Queue!vars /\ Places'
<1>1. CASE CreateWindowJob \/ CreateCopyJob
  BY <1>1, CreateImplements DEF Queue!Next, Queue!MainStep
<1>2. CASE CloseRound \/ AllCopiesCreated \/ PrintRace \/ AbortExtract
  BY <1>2, CloseImplements DEF Queue!Next, Queue!MainStep
<1>3. CASE OnJobEnd \/ OnJobEndHere
  BY <1>3, TakeImplements DEF Queue!Next, Queue!MainStep
<1>4. CASE Wait \/ Destroy \/ Join
  BY <1>4, EndImplements DEF Queue!Next, Queue!MainStep
<1>5. CASE (\E t \in Threads : WorkerStep(t)) \/ Wakeup
  BY <1>5, WorkersImplement DEF Queue!Next
<1>6. CASE PrintCreated \/ UNCHANGED vars
  <2>1. mode' = mode /\ UNCHANGED queueVars /\ phase' = phase /\ end' = end
    BY <1>6 DEF PrintCreated, vars, runVars, phase, Ways
  <2>2. UNCHANGED Queue!vars
    BY <2>1, SamePar DEF queueVars, Queue!vars, Queue!queueVars, phase, par
  <2>3. Places'
    BY <1>6, <2>1 DEF PrintCreated, vars, runVars, queueVars, IInv, Places, Ways
  <2> QED BY <2>2, <2>3
<1> QED BY <1>1, <1>2, <1>3, <1>4, <1>5, <1>6 DEF Next, MainStep

\* The assumptions of RrrQueue.
LEMMA FiniteThreads == QueueProofs!IsFiniteSet(Threads) /\ Threads # {}
BY ThreadsAssumption DEF IsFiniteSet, QueueProofs!IsFiniteSet

\* The invariant of the queues holds in a call.
LEMMA InvInit == Init => IInv
<1>1. Queue!Init => QueueProofs!Init
  BY DEF Queue!Init, QueueProofs!Init, Queue!QueueInit, QueueProofs!QueueInit
<1>2. QueueProofs!Init => QueueProofs!IInv
  BY FiniteThreads, QueueProofs!InitInv
<1>3. Init => QueueProofs!NoThreads
  BY DEF Init, QueueInit, QueueProofs!NoThreads, QueueProofs!Taken, QueueProofs!Running
<1> QED BY <1>1, <1>2, <1>3, InitImplements DEF IInv

\* RrrQueue, and the module of its theorems, have the same steps.
LEMMA SameSteps == [Queue!Next]_Queue!vars => [QueueProofs!Next]_QueueProofs!vars
<1>1. Queue!Create => QueueProofs!Create
  BY DEF Queue!Create, QueueProofs!Create, Queue!CreateJob, QueueProofs!CreateJob,
         Queue!NotifyOneWorker, QueueProofs!NotifyOneWorker
<1>2. Queue!CloseRound \/ Queue!Stop => QueueProofs!CloseRound \/ QueueProofs!Stop
  BY DEF Queue!CloseRound, QueueProofs!CloseRound, Queue!Stop, QueueProofs!Stop,
         Queue!queueVars, QueueProofs!queueVars
<1>3. Queue!Wait => QueueProofs!Wait
  BY DEF Queue!Wait, QueueProofs!Wait, Queue!WaitForJob, QueueProofs!WaitForJob,
         Queue!JobReady, QueueProofs!JobReady, Queue!Top, QueueProofs!Top
<1>4. Queue!OnJobEnd => QueueProofs!OnJobEnd
  BY DEF Queue!OnJobEnd, QueueProofs!OnJobEnd, Queue!TakeBack, QueueProofs!TakeBack,
         Queue!JobReady, QueueProofs!JobReady, Queue!Top, QueueProofs!Top, Queue!RunHere,
         QueueProofs!RunHere
<1>5. Queue!Destroy \/ Queue!Join => QueueProofs!Destroy \/ QueueProofs!Join
  BY DEF Queue!Destroy, QueueProofs!Destroy, Queue!Terminate, QueueProofs!Terminate,
         Queue!Join, QueueProofs!Join, Queue!queueVars, QueueProofs!queueVars
<1>6. \A t : Queue!WorkerStep(t) => QueueProofs!WorkerStep(t)
  BY DEF Queue!WorkerStep, QueueProofs!WorkerStep, Queue!WaitForPending,
         QueueProofs!WaitForPending, Queue!Leave, QueueProofs!Leave, Queue!TakeJob,
         QueueProofs!TakeJob, Queue!FinishJob, QueueProofs!FinishJob
<1>7. Queue!Wakeup => QueueProofs!Wakeup
  BY DEF Queue!Wakeup, QueueProofs!Wakeup, Queue!SpuriousWakeup, QueueProofs!SpuriousWakeup
<1>8. UNCHANGED Queue!vars => UNCHANGED QueueProofs!vars
  BY DEF Queue!vars, QueueProofs!vars, Queue!queueVars, QueueProofs!queueVars
<1> QED BY <1>1, <1>2, <1>3, <1>4, <1>5, <1>6, <1>7, <1>8
       DEF Queue!Next, QueueProofs!Next, Queue!MainStep, QueueProofs!MainStep

\* Every step of a call keeps the invariant.
LEMMA InvNext == IInv /\ [Next]_vars => IInv'
<1> SUFFICES ASSUME IInv, [Next]_vars PROVE IInv'
  OBVIOUS
<1>1. [Queue!Next]_Queue!vars /\ Places'
  BY StepImplements
<1>2. [QueueProofs!Next]_QueueProofs!vars
  BY <1>1, SameSteps
<1>3. QueueProofs!IInv'
  BY <1>2, FiniteThreads, QueueProofs!NextInv DEF IInv
<1>4. QueueProofs!NoThreads'
  BY <1>2, FiniteThreads, QueueProofs!NoThreadsNext DEF IInv
<1> QED BY <1>1, <1>3, <1>4 DEF IInv

\* The inductive invariant of a call: the main thread is where its counts say,
\* and the queues keep the invariant of RrrQueue.
THEOREM Invariant == Spec => []IInv
BY InvInit, InvNext, PTL DEF Spec

\* Scheduler::Run, with partitions, copies or a single job, with and without
\* threads, uses the queues as RrrQueue says.
THEOREM QueueImplemented == Spec => QueueSpec
<1>1. Init => Queue!Init
  BY InitImplements
<1>2. IInv /\ [Next]_vars => [Queue!Next]_Queue!vars
  BY StepImplements
<1> QED BY <1>1, <1>2, Invariant, PTL DEF Spec, QueueSpec, Queue!SafeSpec

\* So what is proved of RrrQueue holds in a call: a job is in one place until it is
\* taken back; none is left when the workers are told to leave, as the
\* assertion of Thread says and more; and a round that is drained has a job to
\* wait for, as the assertion of OnJobEnd says.
THEOREM NoJobLost ==
  Spec => [](/\ QueueProofs!EachJobOnce
             /\ QueueProofs!NothingLeftBehind
             /\ QueueProofs!SomethingToDrain)
<1>1. Queue!Init => QueueProofs!Init
  BY DEF Queue!Init, QueueProofs!Init, Queue!QueueInit, QueueProofs!QueueInit
<1>2. QueueSpec => QueueProofs!SafeSpec
  BY <1>1, SameSteps, PTL DEF QueueSpec, Queue!SafeSpec, QueueProofs!SafeSpec
<1>3. QueueProofs!SafeSpec => []QueueProofs!EachJobOnce
  BY FiniteThreads, QueueProofs!JobsOnce
<1>4. QueueProofs!SafeSpec => []QueueProofs!NothingLeftBehind
  BY FiniteThreads, QueueProofs!NoJobLeft
<1>5. QueueProofs!SafeSpec => []QueueProofs!SomethingToDrain
  BY FiniteThreads, QueueProofs!DrainFindsJob
<1> QED BY <1>2, <1>3, <1>4, <1>5, QueueImplemented, PTL

-----------------------------------------------------------------------------
(* The best copy is kept.                                                  *)

Cost(j) == CostFunction(net[j])
CostStart == CostFunction(GiaReader(gia))
Back == QueueProofs!Back

\* The network kept is the cheapest of those taken back, or the network given
\* if none is cheaper; of several, the first.
BestSoFar ==
  /\ costBest <= CostStart /\ \A j \in Back : costBest <= Cost(j)
  /\ \/ pNtk = GiaReader(gia) /\ costBest = CostStart
     \/ \E j \in Back :
          /\ pNtk = net[j] /\ costBest = Cost(j) /\ costBest < CostStart
          /\ mode.fDeterministic => \A i \in Back : i < j => costBest < Cost(i)

\* All copies are created before the first is taken back; jobs are taken back
\* in the order of their creation if the execution is to be deterministic.
CopiesInv ==
  mode.way = "copies" =>
    /\ main \in {"copies", "drain", "destroy", "join", "done"}
    /\ main # "copies" => nCreatedJobs = nJobs
    /\ DOMAIN net = 0..(nCreatedJobs - 1)
    /\ mode.fDeterministic => Back = 0..(nFinishedJobs - 1)
    /\ BestSoFar

\* A set of numbers bounded from below has a least one.
LEMMA LeastNumber ==
  ASSUME NEW S \in SUBSET Int, S # {}, NEW b \in Int, \A s \in S : b <= s
  PROVE  Min(S) \in S /\ \A s \in S : Min(S) <= s
<1> DEFINE D == {s - b : s \in S}
<1>1. D \in SUBSET Nat /\ D # {}
  <2>1. \A s \in S : s - b \in Nat
    OBVIOUS
  <2>2. PICK s \in S : TRUE
    OBVIOUS
  <2>3. s - b \in D
    OBVIOUS
  <2> QED BY <2>1, <2>3
<1>2. PICK d \in D : \A e \in D : d <= e
  <2> HIDE DEF D
  <2> QED BY <1>1, FiniteThreads, QueueProofs!SmallestJob
<1>3. PICK s \in S : d = s - b
  BY <1>2
<1>4. \A t \in S : s <= t
  BY <1>2, <1>3
<1> QED BY <1>3, <1>4 DEF Min

\* It is the one that is not above any other.
LEMMA LeastIs ==
  ASSUME NEW S \in SUBSET Int, NEW m \in S, \A s \in S : m <= s
  PROVE  Min(S) = m
<1>1. Min(S) \in S /\ \A s \in S : Min(S) <= s
  BY LeastNumber
<1> DEFINE least == Min(S)
<1>2. least \in Int /\ m \in Int /\ least <= m /\ m <= least
  BY <1>1
<1>3. least = m
  <2> HIDE DEF least
  <2> QED BY <1>2
<1> QED BY <1>3

\* The network of a job taken back is compared with the best so far.
LEMMA BestAdds ==
  ASSUME mode.way = "copies", BestSoFar, CostsAreNumbers, Back \subseteq DOMAIN net,
         NEW j \in Int, NEW ntk, KeepBest(ntk), CostFunction(ntk) \in Int,
         Back' = Back \cup {j}, net'[j] = ntk, \A i \in Back : net'[i] = net[i],
         mode.fDeterministic => \A i \in Back : i < j, Back \subseteq Int
  PROVE  BestSoFar'
<1>1. /\ CostStart \in Int /\ costBest \in Int
      /\ \A i \in Back : Cost(i) \in Int /\ Cost(i)' = Cost(i)
  BY DEF CostsAreNumbers, CostStart, Cost, BestSoFar
<1>2. /\ mode' = mode /\ gia' = gia /\ CostStart' = CostStart /\ Cost(j)' = CostFunction(ntk)
  BY DEF KeepBest, CostStart, Cost
<1>3. CASE CostFunction(ntk) < costBest
  <2>1. pNtk' = ntk /\ costBest' = CostFunction(ntk)
    BY <1>3 DEF KeepBest
  <2>2. costBest' < CostStart /\ costBest' = Cost(j)' /\ pNtk' = net'[j]
    BY <1>1, <1>2, <1>3, <2>1 DEF BestSoFar
  <2>3. \A i \in Back : costBest' < Cost(i)'
    BY <1>1, <1>3, <2>1 DEF BestSoFar
  <2>4. \A i \in Back' : costBest' <= Cost(i)'
    BY <1>1, <2>1, <2>2, <2>3
  <2>5. \A i \in Back' : i < j => costBest' < Cost(i)'
    BY <2>3
  <2> QED BY <1>1, <1>2, <2>1, <2>2, <2>4, <2>5 DEF BestSoFar
<1>4. CASE ~(CostFunction(ntk) < costBest)
  <2>1. pNtk' = pNtk /\ costBest' = costBest
    BY <1>4 DEF KeepBest
  <2>2. costBest' <= CostStart' /\ \A i \in Back' : costBest' <= Cost(i)'
    BY <1>1, <1>2, <1>4, <2>1 DEF BestSoFar
  <2>3. ASSUME NEW i \in Back, pNtk = net[i], costBest = Cost(i), costBest < CostStart,
               mode.fDeterministic => \A k \in Back : k < i => costBest < Cost(k)
        PROVE  /\ i \in Back' /\ pNtk' = net'[i] /\ costBest' = Cost(i)' /\ costBest' < CostStart'
               /\ mode'.fDeterministic => \A k \in Back' : k < i => costBest' < Cost(k)'
    <3>1. mode.fDeterministic => ~(j < i)
      <4>1. i \in Int /\ (mode.fDeterministic => i < j)
        BY <2>3
      <4> QED BY <4>1
    <3> QED BY <1>1, <1>2, <2>1, <2>3, <3>1
  <2> QED BY <1>2, <2>1, <2>2, <2>3 DEF BestSoFar
<1> QED BY <1>3, <1>4

\* Steps that take no job back, and change no network of a job taken back.
LEMMA BestStill ==
  ASSUME BestSoFar, Back' = Back, \A i \in Back : net'[i] = net[i],
         UNCHANGED <<mode, gia, pNtk, costBest>>
  PROVE  BestSoFar'
<1>1. CostStart' = CostStart /\ \A i \in Back : Cost(i)' = Cost(i)
  BY DEF CostStart, Cost
<1> QED BY <1>1 DEF BestSoFar

\* The operations on the queues, for the theorems about them.
LEMMA SameForProofs ==
  /\ CreateJob => QueueProofs!CreateJob
  /\ \A d : WaitForJob(d) => QueueProofs!WaitForJob(d)
  /\ \A d : TakeBack(d) => QueueProofs!TakeBack(d)
  /\ RunHere => QueueProofs!RunHere
  /\ Terminate => QueueProofs!Terminate
  /\ SpuriousWakeup => QueueProofs!SpuriousWakeup
  /\ \A t : /\ WaitForPending(t) => QueueProofs!WaitForPending(t)
            /\ Leave(t) => QueueProofs!Leave(t)
            /\ TakeJob(t) => QueueProofs!TakeJob(t)
            /\ FinishJob(t) => QueueProofs!FinishJob(t)
<1>1. CreateJob => QueueProofs!CreateJob
  BY DEF CreateJob, NotifyOneWorker, QueueProofs!CreateJob, QueueProofs!NotifyOneWorker
<1>2. \A d : WaitForJob(d) => QueueProofs!WaitForJob(d)
  BY DEF WaitForJob, JobReady, Top, QueueProofs!WaitForJob, QueueProofs!JobReady, QueueProofs!Top
<1>3. \A d : TakeBack(d) => QueueProofs!TakeBack(d)
  BY DEF TakeBack, JobReady, Top, QueueProofs!TakeBack, QueueProofs!JobReady, QueueProofs!Top
<1>4. RunHere => QueueProofs!RunHere
  BY DEF RunHere, QueueProofs!RunHere
<1>5. Terminate => QueueProofs!Terminate
  BY DEF Terminate, QueueProofs!Terminate
<1>6. SpuriousWakeup => QueueProofs!SpuriousWakeup
  BY DEF SpuriousWakeup, QueueProofs!SpuriousWakeup
<1>7. \A t : /\ WaitForPending(t) => QueueProofs!WaitForPending(t)
             /\ Leave(t) => QueueProofs!Leave(t)
             /\ TakeJob(t) => QueueProofs!TakeJob(t)
             /\ FinishJob(t) => QueueProofs!FinishJob(t)
  BY DEF WaitForPending, Leave, TakeJob, FinishJob, QueueProofs!WaitForPending,
         QueueProofs!Leave, QueueProofs!TakeJob, QueueProofs!FinishJob
<1> QED BY <1>1, <1>2, <1>3, <1>4, <1>5, <1>6, <1>7

\* Steps that take no job back.
LEMMA SameBack ==
  ASSUME IInv,
         \/ CreateJob \/ SpuriousWakeup \/ Terminate \/ (\E d : WaitForJob(d)) \/ UNCHANGED queueVars
         \/ \E t \in Threads : WaitForPending(t) \/ Leave(t) \/ TakeJob(t) \/ FinishJob(t)
  PROVE  Back' = Back
<1>1. QueueProofs!IInv
  BY DEF IInv
<1>2. UNCHANGED queueVars => UNCHANGED QueueProofs!queueVars
  BY DEF queueVars, QueueProofs!queueVars
<1>3. \/ QueueProofs!CreateJob
      \/ \E t \in Threads : \/ QueueProofs!WaitForPending(t) \/ QueueProofs!Leave(t)
                            \/ QueueProofs!TakeJob(t) \/ QueueProofs!FinishJob(t)
      \/ QueueProofs!SpuriousWakeup \/ QueueProofs!Terminate
      \/ (\E d : QueueProofs!WaitForJob(d)) \/ UNCHANGED QueueProofs!queueVars
  BY <1>2, SameForProofs
<1>4. QueueProofs!Back' = QueueProofs!Back
  BY <1>1, <1>3, FiniteThreads, QueueProofs!BackStill
<1> QED BY <1>4 DEF Back

\* The invariant holds at the start.
LEMMA CopiesInit == Init /\ CostsAreNumbers => CopiesInv
<1> SUFFICES ASSUME Init, CostsAreNumbers, mode.way = "copies" PROVE CopiesInv
  BY DEF CopiesInv
<1>1. /\ qPendingJobs = <<>> /\ qFinishedJobs = {} /\ nCreatedJobs = 0 /\ nFinishedJobs = 0
      /\ worker = [t \in Threads |-> IF mode.fMultiThreading THEN "look" ELSE "none"]
      /\ main = "copies" /\ net = <<>> /\ costBest = CostStart /\ pNtk = GiaReader(gia)
  BY DEF Init, QueueInit, CostStart
<1>2. QueueProofs!Running = {} /\ QueueProofs!Taken = {}
  BY <1>1 DEF QueueProofs!Running, QueueProofs!Taken
<1>3. Len(qPendingJobs) = 0 /\ DOMAIN net = {}
  BY <1>1
<1>4. 0..(0 - 1) = {}
  OBVIOUS
<1>5. QueueProofs!Back = {}
  BY <1>1, <1>3, <1>4 DEF QueueProofs!Back, QueueProofs!Untaken
<1>6. Back = {}
  BY <1>5 DEF Back
<1>7. BestSoFar
  BY <1>1, <1>6 DEF BestSoFar, CostsAreNumbers, CostStart
<1>8. DOMAIN net = 0..(nCreatedJobs - 1) /\ Back = 0..(nFinishedJobs - 1)
  BY <1>1, <1>3, <1>4, <1>6
<1> QED BY <1>1, <1>7, <1>8 DEF CopiesInv

\* Every part of the invariant but BestSoFar and the order of the jobs.
LEMMA CopiesShape ==
  ASSUME IInv, CopiesInv, mode.way = "copies", [Next]_vars
  PROVE  /\ mode' = mode /\ gia' = gia
         /\ main' \in {"copies", "drain", "destroy", "join", "done"}
         /\ main' # "copies" => nCreatedJobs' = nJobs
         /\ DOMAIN net' = 0..(nCreatedJobs' - 1)
<1>1. /\ main \in {"copies", "drain", "destroy", "join", "done"}
      /\ main # "copies" => nCreatedJobs = nJobs
      /\ DOMAIN net = 0..(nCreatedJobs - 1)
  BY DEF CopiesInv
<1>2. nCreatedJobs \in Nat
  BY CountsFacts
<1>3. CASE CreateCopyJob
  <2>1. nCreatedJobs' = nCreatedJobs + 1 /\ DOMAIN net' = 0..nCreatedJobs
    BY <1>3 DEF CreateCopyJob, CreateJob, GiveNetwork
  <2> QED BY <1>1, <1>2, <1>3, <2>1 DEF CreateCopyJob, runVars
<1>4. CASE AllCopiesCreated \/ Wait \/ Destroy \/ Join \/ Wakeup \/ UNCHANGED vars
  <2>1. /\ mode' = mode /\ gia' = gia /\ net' = net /\ nCreatedJobs' = nCreatedJobs
        /\ main' \in {"copies", "drain", "destroy", "join", "done"}
        /\ main' # "copies" => nCreatedJobs = nJobs
    BY <1>1, <1>4 DEF AllCopiesCreated, Wait, WaitForJob, Destroy, Terminate, Join, Wakeup,
       SpuriousWakeup, vars, queueVars, runVars
  <2> QED BY <1>1, <2>1
<1>5. CASE OnJobEnd \/ OnJobEndHere
  <2>1. /\ mode' = mode /\ gia' = gia /\ DOMAIN net' = DOMAIN net /\ nCreatedJobs' = nCreatedJobs
        /\ main' \in {"drain", "destroy"} /\ main = "drain"
    BY <1>5 DEF OnJobEnd, OnJobEndHere, TakeBack, RunHere, Use, KeepBest
  <2> QED BY <1>1, <2>1
<1>6. ASSUME NEW t \in Threads, WorkerStep(t)
      PROVE  /\ UNCHANGED <<mode, gia, main, nCreatedJobs>> /\ DOMAIN net' = DOMAIN net
  BY <1>6 DEF WorkerStep, RunJob, WaitForPending, Leave, TakeJob, FinishJob, runVars
<1>7. ~(CreateWindowJob \/ PrintCreated \/ PrintRace \/ CloseRound \/ AbortExtract)
  BY <1>1 DEF CreateWindowJob, PrintCreated, PrintRace, CloseRound, AbortExtract
<1> QED BY <1>1, <1>3, <1>4, <1>5, <1>6, <1>7 DEF Next, MainStep

\* A job is taken back, from a worker or in the main thread.
LEMMA CopiesTake ==
  ASSUME IInv, CopiesInv, mode.way = "copies", CostsAreNumbers, CostsAreNumbers',
         OnJobEnd \/ OnJobEndHere, DOMAIN net' = 0..(nCreatedJobs' - 1)
  PROVE  BestSoFar' /\ (mode.fDeterministic => Back' = 0..(nFinishedJobs' - 1))
<1>1. /\ QueueProofs!IInv /\ BestSoFar /\ DOMAIN net = 0..(nCreatedJobs - 1)
      /\ mode.fDeterministic => Back = 0..(nFinishedJobs - 1)
      /\ QueueProofs!NoThreads
  BY DEF IInv, CopiesInv
<1>2. Back \subseteq 0..(nCreatedJobs - 1)
  BY <1>1, FiniteThreads, QueueProofs!BackApart DEF Back
<1>3. Back \subseteq DOMAIN net /\ Back \subseteq Int
  BY <1>1, <1>2
<1>4. \A j \in DOMAIN net' : CostFunction(net'[j]) \in Int
  BY DEF CostsAreNumbers
<1>5. nFinishedJobs \in Nat /\ nFinishedJobs' = nFinishedJobs + 1 /\ nCreatedJobs' = nCreatedJobs
  BY CountsFacts DEF OnJobEnd, OnJobEndHere, TakeBack, RunHere
<1>6. CASE OnJobEnd
  <2>1. TakeBack(fDeterministic) /\ KeepBest(net[Top]) /\ net' = net
    BY <1>6 DEF OnJobEnd, Use
  <2>2. QueueProofs!TakeBack(fDeterministic) /\ QueueProofs!Top = Top
    BY <2>1, SameForProofs DEF Top, QueueProofs!Top
  <2>3. /\ Back' = Back \cup {Top} /\ Top \in (0..(nCreatedJobs - 1)) \ Back
        /\ fDeterministic => Top = nFinishedJobs
    BY <1>1, <2>2, FiniteThreads, QueueProofs!BackAdds DEF Back
  <2>4. mode.fDeterministic => Top = nFinishedJobs /\ \A i \in Back : i < Top
    BY <1>1, <1>5, <2>3 DEF fDeterministic
  <2>5. Top \in DOMAIN net'
    BY <1>5, <2>3
  <2>6. BestSoFar'
    <3> DEFINE ntk == net[Top]
    <3> DEFINE j == Top
    <3>1. CostFunction(ntk) \in Int /\ KeepBest(ntk) /\ net'[j] = ntk
      BY <1>4, <2>1, <2>5
    <3>2. j \in Int /\ Back' = Back \cup {j} /\ (mode.fDeterministic => \A i \in Back : i < j)
      BY <2>3, <2>4
    <3>3. \A i \in Back : net'[i] = net[i]
      BY <2>1
    <3> HIDE DEF ntk, j
    <3> QED BY <1>1, <1>3, <3>1, <3>2, <3>3, BestAdds
  <2>7. mode.fDeterministic => Back' = 0..(nFinishedJobs' - 1)
    BY <1>1, <1>5, <2>3, <2>4
  <2> QED BY <2>6, <2>7
<1>7. CASE OnJobEndHere
  <2>1. RunHere /\ ~mode.fMultiThreading
    BY <1>7 DEF OnJobEndHere
  <2>2. /\ Back = 0..(nFinishedJobs - 1) /\ Back' = Back \cup {nFinishedJobs}
        /\ Head(qPendingJobs) = nFinishedJobs
    <3>1. QueueProofs!RunHere
      BY <2>1, SameForProofs
    <3> QED BY <1>1, <2>1, <3>1, FiniteThreads, QueueProofs!BackRunsHere DEF Back
  <2>3. PICK ntk : net' = [net EXCEPT ![nFinishedJobs] = ntk] /\ KeepBest(ntk)
    BY <1>7, <2>2 DEF OnJobEndHere, Use
  <2>4. nFinishedJobs \in DOMAIN net
    <3>1. nFinishedJobs < nCreatedJobs /\ nCreatedJobs \in Nat
      BY <1>7, CountsFacts DEF OnJobEndHere
    <3> QED BY <1>1, <1>5, <3>1
  <2>5. /\ net'[nFinishedJobs] = ntk /\ CostFunction(ntk) \in Int
        /\ \A i \in Back : net'[i] = net[i] /\ i < nFinishedJobs
    BY <1>3, <1>4, <1>5, <2>2, <2>3, <2>4
  <2>6. BestSoFar'
    BY <1>1, <1>3, <1>5, <2>2, <2>3, <2>5, BestAdds
  <2>7. Back' = 0..(nFinishedJobs' - 1)
    BY <1>5, <2>2
  <2> QED BY <2>6, <2>7
<1> QED BY <1>6, <1>7

\* A step that takes no job back.
LEMMA CopiesStill ==
  ASSUME IInv, CopiesInv, mode.way = "copies", [Next]_vars, ~OnJobEnd, ~OnJobEndHere
  PROVE  BestSoFar' /\ (mode.fDeterministic => Back' = 0..(nFinishedJobs' - 1))
<1>1. /\ QueueProofs!IInv /\ BestSoFar /\ DOMAIN net = 0..(nCreatedJobs - 1)
      /\ mode.fDeterministic => Back = 0..(nFinishedJobs - 1)
      /\ main \in {"copies", "drain", "destroy", "join", "done"}
  BY DEF IInv, CopiesInv
<1>2. /\ Back \subseteq 0..(nCreatedJobs - 1)
      /\ \A t \in Threads : worker[t] = "run" => job[t] \notin Back
  BY <1>1, FiniteThreads, QueueProofs!BackApart DEF Back
<1>3. nCreatedJobs \in Nat
  BY CountsFacts
<1>4. CASE CreateCopyJob
  <2>1. CreateJob /\ GiveNetwork(pNtk) /\ UNCHANGED <<mode, gia, pNtk, costBest, nFinishedJobs>>
    BY <1>4 DEF CreateCopyJob, CreateJob, partitionVars, runVars
  <2>2. Back' = Back
    BY <2>1, SameBack
  <2>3. \A i \in Back : net'[i] = net[i]
    BY <1>2, <1>3, <2>1 DEF GiveNetwork
  <2> QED BY <1>1, <2>1, <2>2, <2>3, BestStill
<1>5. CASE AllCopiesCreated \/ Wait \/ Destroy \/ Join \/ Wakeup \/ UNCHANGED vars
  <2>1. UNCHANGED <<mode, gia, pNtk, costBest, net, nFinishedJobs>>
    BY <1>5 DEF AllCopiesCreated, Wait, WaitForJob, Destroy, Terminate, Join, Wakeup,
       SpuriousWakeup, vars, queueVars, runVars, partitionVars
  <2>2. Back' = Back
    BY <1>5, SameBack DEF AllCopiesCreated, Wait, Destroy, Join, Wakeup, vars
  <2> QED BY <1>1, <2>1, <2>2, BestStill
<1>6. ASSUME NEW t \in Threads, WorkerStep(t)
      PROVE  BestSoFar' /\ (mode.fDeterministic => Back' = 0..(nFinishedJobs' - 1))
  <2>1. UNCHANGED <<mode, gia, pNtk, costBest, nFinishedJobs>>
    BY <1>6 DEF WorkerStep, RunJob, WaitForPending, Leave, TakeJob, FinishJob, runVars, partitionVars
  <2>2. Back' = Back
    BY <1>6, SameBack DEF WorkerStep, RunJob
  <2>3. \A i \in Back : net'[i] = net[i]
    <3>1. CASE RunJob(t)
      <4>1. job[t] \notin Back
        BY <1>2, <3>1 DEF RunJob, FinishJob
      <4>2. PICK ntk : net' = [net EXCEPT ![job[t]] = ntk]
        BY <3>1 DEF RunJob
      <4> QED BY <1>1, <1>2, <4>1, <4>2
    <3>2. CASE ~RunJob(t)
      BY <1>6, <3>2 DEF WorkerStep
    <3> QED BY <3>1, <3>2
  <2> QED BY <1>1, <2>1, <2>2, <2>3, BestStill
<1>7. ~(CreateWindowJob \/ PrintCreated \/ PrintRace \/ CloseRound \/ AbortExtract)
  BY <1>1 DEF CreateWindowJob, PrintCreated, PrintRace, CloseRound, AbortExtract
<1> QED BY <1>4, <1>5, <1>6, <1>7 DEF Next, MainStep

\* Every step keeps the invariant.
LEMMA CopiesNext ==
  ASSUME IInv, CopiesInv, CostsAreNumbers, CostsAreNumbers', [Next]_vars
  PROVE  CopiesInv'
<1> SUFFICES ASSUME mode'.way = "copies" PROVE CopiesInv'
  BY DEF CopiesInv
<1>1. mode' = mode
  BY DEF Next, MainStep, CreateWindowJob, PrintCreated, PrintRace, CloseRound, AbortExtract,
         CreateCopyJob, AllCopiesCreated, Wait, OnJobEnd, OnJobEndHere, Use, PutBack, KeepBest,
         Destroy, Join, WorkerStep, Wakeup, runVars, vars
<1>2. /\ main' \in {"copies", "drain", "destroy", "join", "done"}
      /\ main' # "copies" => nCreatedJobs' = nJobs
      /\ DOMAIN net' = 0..(nCreatedJobs' - 1)
  BY <1>1, CopiesShape
<1>3. BestSoFar' /\ (mode.fDeterministic => Back' = 0..(nFinishedJobs' - 1))
  BY <1>1, <1>2, CopiesTake, CopiesStill
<1> QED BY <1>1, <1>2, <1>3 DEF CopiesInv

\* When the copies have been taken back, the best so far is the best.
LEMMA BestIsKept ==
  ASSUME IInv, CopiesInv, CostsAreNumbers
  PROVE  BestCopyKept
<1> SUFFICES ASSUME main \in {"destroy", "join", "done"}, mode.way = "copies" PROVE BestCopyKept
  BY DEF BestCopyKept
<1> DEFINE costs == {CostFunction(net[j]) : j \in DOMAIN net}
           best == {j \in DOMAIN net : CostFunction(net[j]) = Min(costs)}
<1>1. BestSoFar /\ DOMAIN net = 0..(nCreatedJobs - 1) /\ nCreatedJobs = nJobs
  BY DEF CopiesInv
<1>2. nFinishedJobs = nCreatedJobs
  BY DEF IInv, QueueProofs!IInv, QueueProofs!Rounds, Ways
<1>3. Back = DOMAIN net
  BY <1>1, <1>2, FiniteThreads, QueueProofs!BackAll DEF IInv, Back
<1>4. /\ costs \in SUBSET Int /\ costs # {} /\ CostStart \in Int
      /\ \A j \in DOMAIN net : Cost(j) \in costs
  <2>1. 0 \in DOMAIN net
    BY <1>1
  <2> QED BY <2>1 DEF CostsAreNumbers, CostStart, Cost
<1>5. CASE pNtk = GiaReader(gia) /\ costBest = CostStart
  <2>1. \A c \in costs : CostStart <= c
    BY <1>1, <1>3, <1>5 DEF BestSoFar, Cost
  <2>2. Min(costs) \in costs
    <3> HIDE DEF costs
    <3> QED BY <1>4, <2>1, LeastNumber
  <2>3. Min(costs) >= CostFunction(GiaReader(gia))
    <3>1. Min(costs) \in Int /\ CostStart <= Min(costs)
      BY <1>4, <2>1, <2>2
    <3> QED BY <1>4, <3>1 DEF CostStart
  <2> QED BY <1>5, <2>3 DEF BestCopyKept
<1>6. ASSUME NEW j \in Back, pNtk = net[j], costBest = Cost(j), costBest < CostStart,
             mode.fDeterministic => \A i \in Back : i < j => costBest < Cost(i)
      PROVE  BestCopyKept
  <2>1. costBest \in costs /\ \A c \in costs : costBest <= c
    BY <1>1, <1>3, <1>4, <1>6 DEF BestSoFar, Cost
  <2>2. Min(costs) = costBest
    <3> HIDE DEF costs
    <3> QED BY <1>4, <2>1, LeastIs
  <2>3. ~(Min(costs) >= CostFunction(GiaReader(gia)))
    <3>1. costBest \in Int
      BY <1>4, <2>1
    <3> QED BY <1>4, <1>6, <2>2, <3>1 DEF CostStart
  <2>4. j \in best
    BY <1>3, <1>6, <2>2 DEF Cost
  <2>5. mode.fDeterministic => Min(best) = j
    <3> SUFFICES ASSUME mode.fDeterministic PROVE Min(best) = j
      OBVIOUS
    <3>1. best \in SUBSET Int
      BY <1>1
    <3>2. \A i \in best : j <= i
      <4> SUFFICES ASSUME NEW i \in best, ~(j <= i) PROVE FALSE
        OBVIOUS
      <4>1. i \in Back /\ Cost(i) = costBest
        BY <1>3, <2>2 DEF Cost
      <4>2. i < j
        <5>1. i \in Int /\ j \in Int /\ ~(j <= i)
          BY <2>4, <3>1
        <5> HIDE DEF best
        <5> QED BY <5>1
      <4>3. costBest < Cost(i) /\ costBest \in Int
        BY <1>4, <1>6, <2>1, <4>1, <4>2
      <4> QED BY <4>1, <4>3
    <3> HIDE DEF best
    <3> QED BY <2>4, <3>1, <3>2, LeastIs
  <2> QED BY <1>6, <2>3, <2>4, <2>5 DEF BestCopyKept
<1> QED BY <1>1, <1>5, <1>6 DEF BestSoFar

-----------------------------------------------------------------------------
(* Windows that are out have no node in common.                            *)

\* No node of a window belongs to a window that is out.
Unblocked(window) == window.ids \cap sBlocked = {}

\* The windows at two radii that the loop of ExtractDisjoint holds.
BothUnblocked(r) == Unblocked(r.window) /\ Unblocked(r.wider)

\* Every window that is out was cut for a job not taken back.
WindowsInv ==
  /\ WindowsApart /\ \A j \in DOMAIN mSubNtk2Io : "ids" \in DOMAIN mSubNtk2Io[j]
  /\ DOMAIN mSubNtk2Io = IF mode.way = "partitions" THEN (0..(nCreatedJobs - 1)) \ Back ELSE {}
  /\ main \in {"partitions", "created"} => mode.way = "partitions"
  /\ main \in {"copies", "single"} => mode.way # "partitions"

\* The loop that adds the nodes on paths that leave a window and come back
\* adds no blocked node, however often it runs.
LEMMA InnersUnblocked ==
  ASSUME NEW n \in Nat, NEW x, Unblocked(x)
  PROVE  Unblocked(Repeat(WithInner, n, x))
<1> DEFINE Rounds(f, m) == f = [k \in 0..m |-> IF k = 0 THEN x ELSE WithInner(f[k - 1])]
<1>0. \A w : Unblocked(w) => Unblocked(WithInner(w))
  BY DEF Unblocked, WithInner, Window, NoWindow
<1> HIDE DEF Rounds
<1>1. \A m \in Nat : \E f : Rounds(f, m)
  <2> DEFINE none == {m \in Nat : ~ \E f : Rounds(f, m)}
  <2> SUFFICES ASSUME none # {} PROVE FALSE
    OBVIOUS
  <2>1. PICK m \in none : \A k \in none : m <= k
    BY LeastOf
  <2>2. CASE m = 0
    <3>1. Rounds([k \in 0..0 |-> x], 0)
      BY DEF Rounds
    <3> QED BY <2>1, <2>2, <3>1
  <2>3. CASE m # 0
    <3>1. m - 1 \in Nat /\ m - 1 \notin none
      BY <2>1, <2>3
    <3>2. PICK g : Rounds(g, m - 1)
      BY <3>1
    <3> DEFINE f == [k \in 0..m |-> IF k = m THEN WithInner(g[m - 1]) ELSE g[k]]
    <3>3. Rounds(f, m)
      <4>1. \A k \in 0..(m - 1) : g[k] = IF k = 0 THEN x ELSE WithInner(g[k - 1])
        BY <3>2 DEF Rounds
      <4>2. \A k \in 0..m : f[k] = IF k = 0 THEN x ELSE WithInner(f[k - 1])
        BY <2>1, <2>3, <4>1
      <4>3. f = [k \in 0..m |-> f[k]]
        OBVIOUS
      <4> HIDE DEF f
      <4> QED BY <4>2, <4>3 DEF Rounds
    <3> QED BY <2>1, <3>3
  <2> QED BY <2>2, <2>3
<1> DEFINE after == CHOOSE f : Rounds(f, n)
<1>2. Rounds(after, n)
  BY <1>1
<1>3. Repeat(WithInner, n, x) = after[n]
  BY DEF Repeat, Rounds
<1> HIDE DEF after
<1>4. \A k \in 0..n : after[k] = IF k = 0 THEN x ELSE WithInner(after[k - 1])
  BY <1>2 DEF Rounds
<1>5. \A k \in 0..n : Unblocked(after[k])
  <2> DEFINE blocked == {k \in 0..n : ~Unblocked(after[k])}
  <2> SUFFICES ASSUME blocked # {} PROVE FALSE
    OBVIOUS
  <2>1. PICK k \in blocked : \A i \in blocked : k <= i
    <3> blocked \in SUBSET Nat
      OBVIOUS
    <3> QED BY LeastOf
  <2>2. k # 0
    BY <1>4
  <2>3. k - 1 \in 0..n /\ k - 1 \notin blocked
    BY <2>1, <2>2
  <2> QED BY <1>0, <1>4, <2>1, <2>2, <2>3
<1> QED BY <1>3, <1>5

\* So the window at one radius is unblocked.
LEMMA RadiusUnblocked == \A id, r, seen : Unblocked(GetUnblockedNeighborsAndInners(id, r, seen))
<1> SUFFICES ASSUME NEW id, NEW r, NEW seen
             PROVE  Unblocked(GetUnblockedNeighborsAndInners(id, r, seen))
  OBVIOUS
<1> DEFINE ids == (GetNeighbors(pNtk, id, r) \cup {id}) \ sBlocked
           w == Window(ids, seen)
<1>1. Unblocked(w) /\ Unblocked(NoWindow(seen))
  BY DEF Unblocked, Window, NoWindow
<1>2. Unblocked(Repeat(WithInner, nPartitionSize, w))
  <2>1. nPartitionSize \in Nat
    BY SizesAssumption
  <2> HIDE DEF w
  <2> QED BY <1>1, <2>1, InnersUnblocked
<1>3. GetUnblockedNeighborsAndInners(id, r, seen) \in
        {NoWindow(seen), Repeat(WithInner, nPartitionSize, w)}
  BY DEF GetUnblockedNeighborsAndInners
<1> QED BY <1>1, <1>2, <1>3

\* And so is the one found by making the radius larger.
LEMMA WindowUnblocked == ASSUME NEW id PROVE Unblocked(WindowOf(id))
<1> DEFINE n == nPartitionSize
           x == [nRadius |-> 1, window |-> NoWindow({}),
                 wider |-> GetUnblockedNeighborsAndInners(id, 1, {})]
           Rounds(f, m) == f = [k \in 0..m |-> IF k = 0 THEN x ELSE Widen(id, f[k - 1])]
<1>0. BothUnblocked(x) /\ \A r : BothUnblocked(r) => BothUnblocked(Widen(id, r))
  <2>1. BothUnblocked(x)
    BY RadiusUnblocked DEF BothUnblocked, NoWindow, Unblocked
  <2>2. ASSUME NEW r, BothUnblocked(r) PROVE BothUnblocked(Widen(id, r))
    BY <2>2, RadiusUnblocked DEF BothUnblocked, Widen
  <2> QED BY <2>1, <2>2
<1> HIDE DEF Rounds, x
<1>1. \A m \in Nat : \E f : Rounds(f, m)
  <2> DEFINE none == {m \in Nat : ~ \E f : Rounds(f, m)}
  <2> SUFFICES ASSUME none # {} PROVE FALSE
    OBVIOUS
  <2>1. PICK m \in none : \A k \in none : m <= k
    BY LeastOf
  <2>2. CASE m = 0
    <3>1. Rounds([k \in 0..0 |-> x], 0)
      BY DEF Rounds
    <3> QED BY <2>1, <2>2, <3>1
  <2>3. CASE m # 0
    <3>1. m - 1 \in Nat /\ m - 1 \notin none
      BY <2>1, <2>3
    <3>2. PICK g : Rounds(g, m - 1)
      BY <3>1
    <3> DEFINE f == [k \in 0..m |-> IF k = m THEN Widen(id, g[m - 1]) ELSE g[k]]
    <3>3. Rounds(f, m)
      <4>1. \A k \in 0..(m - 1) : g[k] = IF k = 0 THEN x ELSE Widen(id, g[k - 1])
        BY <3>2 DEF Rounds
      <4>2. \A k \in 0..m : f[k] = IF k = 0 THEN x ELSE Widen(id, f[k - 1])
        BY <2>1, <2>3, <4>1
      <4>3. f = [k \in 0..m |-> f[k]]
        OBVIOUS
      <4> HIDE DEF f
      <4> QED BY <4>2, <4>3 DEF Rounds
    <3> QED BY <2>1, <3>3
  <2> QED BY <2>2, <2>3
<1> DEFINE after == CHOOSE f : Rounds(f, n)
<1>2. n \in Nat /\ Rounds(after, n)
  BY <1>1, SizesAssumption
<1>3. WindowOf(id).ids = after[n].window.ids
  BY DEF WindowOf, Repeat, Rounds, x
<1> HIDE DEF after, n
<1>4. \A k \in 0..n : after[k] = IF k = 0 THEN x ELSE Widen(id, after[k - 1])
  BY <1>2 DEF Rounds
<1>5. \A k \in 0..n : BothUnblocked(after[k])
  <2> DEFINE blocked == {k \in 0..n : ~BothUnblocked(after[k])}
  <2> SUFFICES ASSUME blocked # {} PROVE FALSE
    OBVIOUS
  <2>1. PICK k \in blocked : \A i \in blocked : k <= i
    <3> blocked \in SUBSET Nat
      BY <1>2
    <3> QED BY LeastOf
  <2>2. k # 0
    BY <1>0, <1>4
  <2>3. k - 1 \in 0..n /\ k - 1 \notin blocked
    BY <1>2, <2>1, <2>2
  <2> QED BY <1>0, <1>4, <2>1, <2>2, <2>3
<1> QED BY <1>2, <1>3, <1>5 DEF BothUnblocked, Unblocked

\* It holds at the start.
LEMMA WindowsInit == Init => WindowsInv
<1> SUFFICES ASSUME Init PROVE WindowsInv
  OBVIOUS
<1>1. /\ mSubNtk2Io = <<>> /\ sBlocked = {} /\ main = mode.way
      /\ qPendingJobs = <<>> /\ nCreatedJobs = 0
  BY DEF Init, QueueInit
<1>2. DOMAIN mSubNtk2Io = {} /\ 0..(nCreatedJobs - 1) = {}
  BY <1>1
<1>3. WindowsApart
  BY <1>1, <1>2 DEF WindowsApart
<1>4. mode.way \in Ways
  BY InitImplements DEF Places, ModeType
<1> QED BY <1>1, <1>2, <1>3, <1>4 DEF WindowsInv, Ways

\* A window is cut out for a new job.
LEMMA WindowsCut ==
  ASSUME IInv, WindowsInv, CreateWindowJob
  PROVE  WindowsInv'
<1>1. PICK id, tried : ExtractWindow(nCreatedJobs, id, tried)
  BY DEF CreateWindowJob
<1> DEFINE new == WindowOf(id).ids
           j == nCreatedJobs
<1>2. new \cap sBlocked = {}
  BY WindowUnblocked DEF Unblocked
<1>3. /\ mSubNtk2Io' = [k \in DOMAIN mSubNtk2Io \cup {j} |-> IF k = j THEN IoOf(new) ELSE mSubNtk2Io[k]]
      /\ sBlocked' = sBlocked \cup new
  BY <1>1 DEF ExtractWindow
<1>4. IoOf(new).ids = new /\ "ids" \in DOMAIN IoOf(new)
  BY DEF IoOf
<1>5. /\ mode' = mode /\ main' = "created" /\ mode.way = "partitions" /\ nCreatedJobs' = j + 1
      /\ CreateJob
  BY DEF CreateWindowJob, CreateJob, WindowsInv
<1>6. j \in Nat /\ Back' = Back /\ Back \subseteq 0..(j - 1)
  BY <1>5, CountsFacts, SameBack, FiniteThreads, QueueProofs!BackApart DEF IInv, Back
<1>7. DOMAIN mSubNtk2Io = (0..(j - 1)) \ Back
  BY <1>5 DEF WindowsInv
<1>8. /\ DOMAIN mSubNtk2Io' = DOMAIN mSubNtk2Io \cup {j} /\ j \notin DOMAIN mSubNtk2Io
      /\ DOMAIN mSubNtk2Io' = (0..j) \ Back
  BY <1>3, <1>6, <1>7
<1>9. /\ mSubNtk2Io'[j].ids = new
      /\ \A k \in DOMAIN mSubNtk2Io : mSubNtk2Io'[k].ids = mSubNtk2Io[k].ids
      /\ \A k \in DOMAIN mSubNtk2Io' : "ids" \in DOMAIN mSubNtk2Io'[k]
  BY <1>3, <1>4, <1>8 DEF WindowsInv
<1>10. /\ sBlocked = UNION {mSubNtk2Io[k].ids : k \in DOMAIN mSubNtk2Io}
       /\ \A k, l \in DOMAIN mSubNtk2Io : k # l => mSubNtk2Io[k].ids \cap mSubNtk2Io[l].ids = {}
  BY DEF WindowsInv, WindowsApart
<1> HIDE DEF new, j
<1>11. \A k \in DOMAIN mSubNtk2Io : mSubNtk2Io[k].ids \cap new = {}
  BY <1>2, <1>10
<1>12. sBlocked' = UNION {mSubNtk2Io'[k].ids : k \in DOMAIN mSubNtk2Io'}
  <2>1. \A n : n \in sBlocked <=> \E k \in DOMAIN mSubNtk2Io : n \in mSubNtk2Io[k].ids
    BY <1>10
  <2>2. \A n : n \in sBlocked' <=> \E k \in DOMAIN mSubNtk2Io' : n \in mSubNtk2Io'[k].ids
    BY <1>3, <1>8, <1>9, <2>1
  <2> QED BY <2>2
<1>13. WindowsApart'
  BY <1>8, <1>9, <1>10, <1>11, <1>12 DEF WindowsApart
<1>14. DOMAIN mSubNtk2Io' = (0..(nCreatedJobs' - 1)) \ Back'
  BY <1>5, <1>6, <1>8
<1> QED BY <1>5, <1>9, <1>13, <1>14 DEF WindowsInv

\* A window is put back.
LEMMA WindowsInsert ==
  ASSUME WindowsInv, NEW j \in DOMAIN mSubNtk2Io, NEW inserted, InsertWindow(j, inserted)
  PROVE  /\ WindowsApart' /\ \A k \in DOMAIN mSubNtk2Io' : "ids" \in DOMAIN mSubNtk2Io'[k]
         /\ DOMAIN mSubNtk2Io' = DOMAIN mSubNtk2Io \ {j}
<1>1. \A io, vOld, signals : "ids" \in DOMAIN io =>
        /\ Remap(io, vOld, signals).ids = io.ids
        /\ "ids" \in DOMAIN Remap(io, vOld, signals)
  BY DEF Remap
<1>2. PICK vOld, signals :
        mSubNtk2Io' = [k \in DOMAIN mSubNtk2Io \ {j} |-> Remap(mSubNtk2Io[k], vOld, signals)]
  BY DEF InsertWindow
<1>3. sBlocked' = sBlocked \ mSubNtk2Io[j].ids
  BY DEF InsertWindow
<1>4. /\ DOMAIN mSubNtk2Io' = DOMAIN mSubNtk2Io \ {j}
      /\ \A k \in DOMAIN mSubNtk2Io' : /\ mSubNtk2Io'[k].ids = mSubNtk2Io[k].ids
                                       /\ "ids" \in DOMAIN mSubNtk2Io'[k]
  BY <1>1, <1>2 DEF WindowsInv
<1>5. /\ \A n : n \in sBlocked <=> \E k \in DOMAIN mSubNtk2Io : n \in mSubNtk2Io[k].ids
      /\ \A k, l \in DOMAIN mSubNtk2Io : k # l => mSubNtk2Io[k].ids \cap mSubNtk2Io[l].ids = {}
  BY DEF WindowsInv, WindowsApart
<1>6. \A n : n \in sBlocked' <=> \E k \in DOMAIN mSubNtk2Io' : n \in mSubNtk2Io'[k].ids
  BY <1>3, <1>4, <1>5
<1>7. sBlocked' = UNION {mSubNtk2Io'[k].ids : k \in DOMAIN mSubNtk2Io'}
  BY <1>6
<1>8. WindowsApart'
  BY <1>4, <1>5, <1>7 DEF WindowsApart
<1> QED BY <1>4, <1>8

\* The network of a job, or an optimized form of it.
TakenAs(j, ntk) ==
  \/ net' = net /\ ntk = net[j]
  \/ ntk \in Optimized(mode, net[j]) /\ net' = [net EXCEPT ![j] = ntk]

\* Job j is taken back, with the network ntk.
TakenBack(j, ntk) == Use(j, ntk) /\ TakenAs(j, ntk) /\ Back' = Back \cup {j}

\* A job is taken back with its network, which was optimized by a worker or is
\* optimized here.
LEMMA TakenJob ==
  ASSUME IInv, OnJobEnd \/ OnJobEndHere
  PROVE  \E j \in (0..(nCreatedJobs - 1)) \ Back : \E ntk : TakenBack(j, ntk)
<1>1. CASE OnJobEnd
  <2>1. TakeBack(fDeterministic) /\ Use(Top, net[Top]) /\ net' = net
    BY <1>1 DEF OnJobEnd
  <2>2. QueueProofs!TakeBack(fDeterministic) /\ QueueProofs!Top = Top
    BY <2>1, SameForProofs DEF Top, QueueProofs!Top
  <2>3. Back' = Back \cup {Top} /\ Top \in (0..(nCreatedJobs - 1)) \ Back
    BY <2>2, FiniteThreads, QueueProofs!BackAdds DEF IInv, Back
  <2> DEFINE j == Top
             ntk == net[Top]
  <2>4. TakenBack(j, ntk) /\ j \in (0..(nCreatedJobs - 1)) \ Back
    BY <2>1, <2>3 DEF TakenBack, TakenAs
  <2> HIDE DEF j, ntk
  <2> QED BY <2>4
<1>2. CASE OnJobEndHere
  <2> DEFINE j == Head(qPendingJobs)
  <2>1. RunHere /\ ~mode.fMultiThreading
    BY <1>2 DEF OnJobEndHere
  <2>2. QueueProofs!RunHere
    BY <2>1, SameForProofs
  <2>3. /\ Back = 0..(nFinishedJobs - 1) /\ Back' = Back \cup {nFinishedJobs}
        /\ j = nFinishedJobs /\ nFinishedJobs \in Nat
    BY <2>1, <2>2, FiniteThreads, QueueProofs!BackRunsHere DEF IInv, Back
  <2>4. nFinishedJobs < nCreatedJobs /\ nCreatedJobs \in Nat
    BY <1>2, CountsFacts DEF OnJobEndHere
  <2>5. j \in (0..(nCreatedJobs - 1)) \ Back /\ Back' = Back \cup {j}
    BY <2>3, <2>4
  <2>6. PICK ntk \in Optimized(mode, net[j]) : net' = [net EXCEPT ![j] = ntk] /\ Use(j, ntk)
    BY <1>2 DEF OnJobEndHere
  <2>7. TakenBack(j, ntk)
    BY <2>5, <2>6 DEF TakenBack, TakenAs
  <2> HIDE DEF j
  <2> QED BY <2>5, <2>7
<1> QED BY <1>1, <1>2

\* A job is taken back, and its window, if it has one, is put back.
LEMMA WindowsTake ==
  ASSUME IInv, WindowsInv, OnJobEnd \/ OnJobEndHere
  PROVE  WindowsInv'
<1>1. PICK j \in (0..(nCreatedJobs - 1)) \ Back : \E ntk : TakenBack(j, ntk)
  BY TakenJob
<1>2. PICK sub : Use(j, sub) /\ Back' = Back \cup {j}
  BY <1>1 DEF TakenBack
<1>3. main = "drain" /\ nCreatedJobs' = nCreatedJobs
  BY DEF OnJobEnd, OnJobEndHere, TakeBack, RunHere
<1>4. CASE mode.way = "partitions"
  <2>1. PICK inserted : /\ InsertWindow(j, inserted) /\ mode' = mode
                        /\ main' \in {"stopped", "drain", "partitions", "destroy"}
    BY <1>2, <1>4 DEF Use, PutBack
  <2>2. DOMAIN mSubNtk2Io = (0..(nCreatedJobs - 1)) \ Back
    BY <1>4 DEF WindowsInv
  <2>3. /\ WindowsApart' /\ \A k \in DOMAIN mSubNtk2Io' : "ids" \in DOMAIN mSubNtk2Io'[k]
        /\ DOMAIN mSubNtk2Io' = DOMAIN mSubNtk2Io \ {j}
    BY <1>1, <2>1, <2>2, WindowsInsert
  <2>4. DOMAIN mSubNtk2Io' = (0..(nCreatedJobs' - 1)) \ Back'
    BY <1>1, <1>2, <1>3, <2>2, <2>3
  <2> QED BY <1>4, <2>1, <2>3, <2>4 DEF WindowsInv
<1>5. CASE mode.way # "partitions"
  <2>1. /\ UNCHANGED <<mSubNtk2Io, sBlocked, mode>> /\ main' \in {"drain", "destroy"}
    BY <1>2, <1>5 DEF Use, KeepBest
  <2> QED BY <1>5, <2>1 DEF WindowsInv, WindowsApart
<1> QED BY <1>4, <1>5

\* A step that cuts no window and takes no job back.
LEMMA WindowsStill ==
  ASSUME IInv, WindowsInv, [Next]_vars, ~CreateWindowJob, ~OnJobEnd, ~OnJobEndHere
  PROVE  WindowsInv'
<1>1. /\ UNCHANGED <<mSubNtk2Io, sBlocked, mode>>
      /\ main' \in {main, "partitions", "drain", "destroy", "join", "done", "stopped"}
      /\ main' = "partitions" => main \in {"partitions", "created"}
  <2>1. CASE MainStep \/ Wakeup \/ UNCHANGED vars
    BY <2>1 DEF MainStep, PrintCreated, PrintRace, CloseRound, ExtractNothing, AbortExtract,
       CreateCopyJob, AllCopiesCreated, Wait, Destroy, Join, Wakeup, vars, runVars, partitionVars
  <2>2. CASE \E t \in Threads : WorkerStep(t)
    BY <2>2 DEF WorkerStep, runVars, partitionVars
  <2> QED BY <2>1, <2>2 DEF Next
<1>2. WindowsApart' /\ \A k \in DOMAIN mSubNtk2Io' : "ids" \in DOMAIN mSubNtk2Io'[k]
  BY <1>1 DEF WindowsInv, WindowsApart
<1>3. Back' = Back
  <2>1. CASE MainStep \/ Wakeup \/ UNCHANGED vars
    <3>1. CreateJob \/ SpuriousWakeup \/ Terminate \/ (\E d : WaitForJob(d)) \/ UNCHANGED queueVars
      BY <2>1 DEF MainStep, PrintCreated, PrintRace, CloseRound, AbortExtract, CreateCopyJob,
         AllCopiesCreated, Wait, Destroy, Join, Wakeup, vars
    <3> QED BY <3>1, SameBack
  <2>2. CASE \E t \in Threads : WorkerStep(t)
    <3>1. \E t \in Threads : WaitForPending(t) \/ Leave(t) \/ TakeJob(t) \/ FinishJob(t)
      BY <2>2 DEF WorkerStep, RunJob
    <3> QED BY <3>1, SameBack
  <2> QED BY <2>1, <2>2 DEF Next
<1>4. mode.way = "partitions" => nCreatedJobs' = nCreatedJobs
  BY DEF WindowsInv, Next, MainStep, PrintCreated, PrintRace, CloseRound, AbortExtract, CreateCopyJob,
     AllCopiesCreated, Wait, WaitForJob, Destroy, Terminate, Join, Wakeup, SpuriousWakeup, vars,
     queueVars, WorkerStep, RunJob, WaitForPending, Leave, TakeJob, FinishJob
<1>5. DOMAIN mSubNtk2Io' = IF mode'.way = "partitions" THEN (0..(nCreatedJobs' - 1)) \ Back' ELSE {}
  BY <1>1, <1>3, <1>4 DEF WindowsInv
<1>6. /\ main' \in {"partitions", "created"} => mode'.way = "partitions"
      /\ main' \in {"copies", "single"} => mode'.way # "partitions"
  BY <1>1 DEF WindowsInv
<1> QED BY <1>2, <1>5, <1>6 DEF WindowsInv

\* Every step keeps the invariant.
LEMMA WindowsNext == IInv /\ WindowsInv /\ [Next]_vars => WindowsInv'
BY WindowsCut, WindowsTake, WindowsStill

\* Windows optimized at the same time have no node in common, whatever the
\* network and the order in which they are cut and put back; the nodes
\* blocked are theirs, and so none stays blocked when its window is back; and
\* the windows remembered are those of the jobs not taken back.
THEOREM WindowsStayApart ==
  Spec => [](/\ WindowsApart
             /\ mode.way = "partitions" =>
                  DOMAIN mSubNtk2Io = (0..(nCreatedJobs - 1)) \ QueueProofs!Back)
<1>1. WindowsInv => /\ WindowsApart
                    /\ mode.way = "partitions" =>
                         DOMAIN mSubNtk2Io = (0..(nCreatedJobs - 1)) \ QueueProofs!Back
  BY DEF WindowsInv, Back
<1> QED BY <1>1, WindowsInit, WindowsNext, Invariant, PTL DEF Spec

-----------------------------------------------------------------------------
(* The networks of a call stay in order.                                   *)

\* Networks with any number of inputs and outputs.
AnyNetwork == UNION {Networks(k, q) : k, q \in Nat}

\* Networks with the inputs and outputs of the AIG given.
AigNetworks == Networks(gia.nPis, Len(gia.outs))

\* What is remembered of a window that is out fits its network.
IoFits(io, ntk) ==
  /\ io = [ids |-> io.ids, vInputs |-> io.vInputs, vCompls |-> io.vCompls, vOutputs |-> io.vOutputs]
  /\ io.vInputs \in Seq(Nat) /\ io.vOutputs \in Seq(Nat)
  /\ io.vCompls \in [1..Len(io.vInputs) -> BOOLEAN]
  /\ ntk \in Networks(Len(io.vInputs), Len(io.vOutputs))

\* All networks of a call are sound: the one that is optimized, until the
\* program is stopped, and those of the jobs.
NetsInv ==
  /\ <<mode, gia>> \in Calls /\ costBest \in Int
  /\ end \in Ends \cup {"race"} /\ (end # "ok" => main = "stopped")
  /\ DOMAIN net = 0..(nCreatedJobs - 1) /\ \A j \in DOMAIN net : net[j] \in AnyNetwork
  /\ mode.way # "partitions" => \A j \in DOMAIN net : net[j] \in AigNetworks
  /\ end = "ok" => /\ pNtk \in AigNetworks
                   /\ \A j \in DOMAIN mSubNtk2Io : IoFits(mSubNtk2Io[j], net[j])

\* The AIGs given are read as networks, and calls are well formed.
LEMMA CallsHave ==
  ASSUME NEW m, NEW g, <<m, g>> \in Calls
  PROVE  /\ m \in ModeType /\ IsAig(g) /\ g.nPis \in Nat /\ Len(g.outs) \in Nat
         /\ GiaReader(g) \in Networks(g.nPis, Len(g.outs))
         /\ Sweep(GiaReader(g)) \in Networks(g.nPis, Len(g.outs))
<1>1. m \in ModeType /\ IsAig(g)
  BY CallsAssumption
<1>2. g.nPis \in Nat /\ Len(g.outs) \in Nat
  BY <1>1 DEF IsAig
<1>3. GiaReader(g) \in Networks(g.nPis, Len(g.outs))
  BY <1>1, NetworkRead
<1> DEFINE ntk == GiaReader(g)
           k == g.nPis
           q == Len(g.outs)
<1> HIDE DEF ntk, k, q
<1>4. k \in Nat /\ q \in Nat /\ ntk \in Networks(k, q)
  BY <1>2, <1>3 DEF ntk, k, q
<1>5. PICK N \in Nat : k < N /\ ntk \in Sound(k, q, N)
  BY <1>4, InNetworks
<1>6. Sweep(ntk) \in Sound(k, q, N)
  BY <1>4, <1>5, SweptSound
<1>7. Sweep(ntk) \in Networks(k, q)
  BY <1>4, <1>5, <1>6, NetworksHave
<1> QED BY <1>1, <1>2, <1>3, <1>7 DEF ntk, k, q

\* The optimizer leaves a network, and its cost is a number.
LEMMA AnyOptimized ==
  ASSUME NEW ntk \in AnyNetwork
  PROVE  Optimized(mode, ntk) \subseteq AnyNetwork /\ CostFunction(ntk) \in Int
<1>1. PICK k, q \in Nat : ntk \in Networks(k, q)
  BY DEF AnyNetwork
<1>2. Optimized(mode, ntk) \subseteq Networks(k, q) /\ CostFunction(ntk) \in Int
  BY <1>1, OptimizedIn, CostsAre
<1> QED BY <1>2 DEF AnyNetwork

\* And it leaves the inputs and outputs as they are.
LEMMA FitsOptimized ==
  ASSUME NEW io, NEW ntk, IoFits(io, ntk), NEW r \in Optimized(mode, ntk)
  PROVE  IoFits(io, r)
<1> DEFINE k == Len(io.vInputs)
           q == Len(io.vOutputs)
<1>1. k \in Nat /\ q \in Nat /\ ntk \in Networks(k, q)
  BY DEF IoFits
<1>2. r \in Networks(k, q)
  <2> HIDE DEF k, q
  <2> QED BY <1>1, OptimizedIn
<1> QED BY <1>2 DEF IoFits

\* A window just cut out fits.
LEMMA FitsExtracted ==
  ASSUME NEW k \in Nat, NEW q \in Nat, pNtk \in Networks(k, q), NEW ids
  PROVE  IoFits(IoOf(ids), SubNtk(IoOf(ids))) /\ SubNtk(IoOf(ids)) \in AnyNetwork
<1> DEFINE ntk == pNtk
           all == [n \in 1..ntk.nNodes |-> n - 1]
           io == IoOf(ids)
<1>1. \A S : Ascending(pNtk, S) \in Seq(Nat)
  <2>1. PICK N \in Nat : k < N /\ ntk \in Sound(k, q, N)
    BY InNetworks
  <2>2. ntk.nNodes \in Nat
    BY <2>1 DEF Sound, Wired, Nets
  <2>3. all \in Seq(Nat)
    <3>1. all \in [1..ntk.nNodes -> Nat]
      BY <2>2
    <3> QED BY <2>2, <3>1
  <2>4. \A S : Only(all, S) \in Seq(Nat)
    <3> HIDE DEF all
    <3> QED BY <2>3, OnlyKeeps
  <2> QED BY <2>4 DEF Ascending
<1>2. /\ io = [ids |-> io.ids, vInputs |-> io.vInputs, vCompls |-> io.vCompls, vOutputs |-> io.vOutputs]
      /\ io.ids = ids /\ io.vInputs = Ascending(pNtk, Inputs(pNtk, ids))
      /\ io.vCompls = [i \in DOMAIN io.vInputs |-> FALSE]
      /\ io.vOutputs = Ascending(pNtk, Outputs(pNtk, ids))
  BY DEF IoOf
<1> HIDE DEF io
<1>3. io.vInputs \in Seq(Nat) /\ io.vOutputs \in Seq(Nat)
  BY <1>1, <1>2
<1>4. io.vCompls \in [1..Len(io.vInputs) -> BOOLEAN]
  <2>1. DOMAIN io.vInputs = 1..Len(io.vInputs)
    BY <1>3
  <2> QED BY <1>2, <2>1
<1>5. Extract(pNtk, io.ids, io.vInputs, io.vOutputs) \in Networks(Len(io.vInputs), Len(io.vOutputs))
  <2> DEFINE vInputs == io.vInputs
             vOutputs == io.vOutputs
             some == io.ids
  <2>1. vInputs \in Seq(Nat) /\ vOutputs \in Seq(Nat) /\ ntk \in Networks(k, q)
    BY <1>3
  <2> HIDE DEF vInputs, vOutputs, some, ntk
  <2>2. Extract(ntk, some, vInputs, vOutputs) \in Networks(Len(vInputs), Len(vOutputs))
    BY <2>1, Extracted
  <2> QED BY <2>2 DEF vInputs, vOutputs, some, ntk
<1>6. SubNtk(io) \in Networks(Len(io.vInputs), Len(io.vOutputs))
  BY <1>5 DEF SubNtk
<1>7. Len(io.vInputs) \in Nat /\ Len(io.vOutputs) \in Nat
  BY <1>3
<1>8. IoFits(io, SubNtk(io))
  BY <1>2, <1>3, <1>4, <1>6 DEF IoFits
<1>9. SubNtk(io) \in AnyNetwork
  BY <1>6, <1>7 DEF AnyNetwork
<1> QED BY <1>8, <1>9 DEF io

\* The windows that are out still fit when another one is put back.
LEMMA FitsRemapped ==
  ASSUME NEW io, NEW ntk, IoFits(io, ntk), NEW vOld \in Seq(Nat), NEW signals,
         \A i \in 1..Len(vOld) : Node(signals[i]) \in Nat
  PROVE  IoFits(Remap(io, vOld, signals), ntk)
<1> DEFINE n == Len(io.vInputs)
           At(i) == IndexOf(vOld, io.vInputs[i])
           ins == [i \in 1..n |-> IF At(i) = 0 THEN io.vInputs[i] ELSE Node(signals[At(i)])]
           cs == [i \in 1..n |-> IF At(i) = 0 THEN io.vCompls[i]
                                 ELSE Xor(io.vCompls[i], IsCompl(signals[At(i)]))]
<1>1. /\ n \in Nat /\ DOMAIN io.vInputs = 1..n /\ DOMAIN io.vCompls = 1..n
      /\ \A i \in 1..n : io.vInputs[i] \in Nat
      /\ \A i \in 1..n : io.vCompls[i] \in BOOLEAN
  BY DEF IoFits
<1>2. io = [ids |-> io.ids, vInputs |-> io.vInputs, vCompls |-> io.vCompls, vOutputs |-> io.vOutputs]
  BY DEF IoFits
<1>3. Remap(io, vOld, signals) = [ids |-> io.ids, vInputs |-> ins, vCompls |-> cs, vOutputs |-> io.vOutputs]
  <2>1. Remap(io, vOld, signals) =
          [io EXCEPT !.vInputs = [i \in DOMAIN io.vInputs |-> IF At(i) = 0 THEN io.vInputs[i] ELSE Node(signals[At(i)])],
                     !.vCompls = [i \in DOMAIN io.vCompls |-> IF At(i) = 0 THEN io.vCompls[i]
                                 ELSE Xor(io.vCompls[i], IsCompl(signals[At(i)]))]]
    BY DEF Remap
  <2>2. Remap(io, vOld, signals) = [io EXCEPT !.vInputs = ins, !.vCompls = cs]
    <3> HIDE DEF At
    <3> QED BY <1>1, <2>1
  <2> HIDE DEF ins, cs
  <2> QED BY <1>2, <2>2
<1>4. \A i \in 1..n : At(i) \in 0..Len(vOld)
  BY IndexIs
<1>5. \A i \in 1..n : At(i) # 0 => Node(signals[At(i)]) \in Nat
  <2> SUFFICES ASSUME NEW i \in 1..n, At(i) # 0 PROVE Node(signals[At(i)]) \in Nat
    OBVIOUS
  <2>1. At(i) \in 1..Len(vOld)
    <3>1. Len(vOld) \in Nat /\ At(i) \in 0..Len(vOld)
      BY <1>4
    <3> HIDE DEF At
    <3> QED BY <3>1
  <2> HIDE DEF At
  <2> QED BY <2>1
<1>6. ins \in [1..n -> Nat] /\ cs \in [1..n -> BOOLEAN]
  <2>1. \A i \in 1..n : cs[i] \in BOOLEAN
    BY <1>1 DEF Xor
  <2> HIDE DEF At
  <2>2. \A i \in 1..n : ins[i] \in Nat
    BY <1>1, <1>5
  <2> QED BY <2>1, <2>2
<1>7. ins \in Seq(Nat) /\ Len(ins) = n
  <2> HIDE DEF ins, n
  <2> QED BY <1>1, <1>6
<1> HIDE DEF ins, cs
<1>8. ntk \in Networks(n, Len(io.vOutputs)) /\ io.vOutputs \in Seq(Nat)
  BY DEF IoFits
<1> QED BY <1>3, <1>6, <1>7, <1>8 DEF IoFits

\* It holds at the start.
LEMMA NetsInit == Init => NetsInv
<1> SUFFICES ASSUME Init PROVE NetsInv
  OBVIOUS
<1>1. <<mode, gia>> \in Calls
  <2>1. PICK call \in Calls : mode = call[1] /\ gia = call[2]
    BY DEF Init
  <2>2. call = <<call[1], call[2]>>
    BY CallsAssumption
  <2> QED BY <2>1, <2>2
<1>2. /\ gia.nPis \in Nat /\ Len(gia.outs) \in Nat
      /\ GiaReader(gia) \in AigNetworks /\ Start \in AigNetworks
  BY <1>1, CallsHave DEF AigNetworks, Start
<1>3. pNtk \in AigNetworks
  BY <1>2 DEF Init
<1>4. costBest \in Int
  BY <1>2, CostsAre DEF Init, AigNetworks
<1>5. /\ DOMAIN net = {} /\ DOMAIN mSubNtk2Io = {} /\ end = "ok" /\ nCreatedJobs = 0
  BY DEF Init, QueueInit
<1>6. DOMAIN net = 0..(nCreatedJobs - 1)
  BY <1>5
<1> QED BY <1>1, <1>3, <1>4, <1>5, <1>6 DEF NetsInv, Ends

\* What the invariant says while the program goes on.
LEMMA NetsGoOn ==
  ASSUME NetsInv, main # "stopped"
  PROVE  /\ end = "ok" /\ pNtk \in AigNetworks /\ gia.nPis \in Nat /\ Len(gia.outs) \in Nat
         /\ \A j \in DOMAIN mSubNtk2Io : IoFits(mSubNtk2Io[j], net[j])
BY CallsHave DEF NetsInv

\* A window is cut out for a new job.
LEMMA NetsCut == ASSUME IInv, WindowsInv, NetsInv, CreateWindowJob PROVE NetsInv'
<1>1. PICK id, tried : ExtractWindow(nCreatedJobs, id, tried)
  BY DEF CreateWindowJob
<1> DEFINE new == WindowOf(id).ids
           n == nCreatedJobs
           ntk == SubNtk(IoOf(new))
<1>2. /\ main = "partitions" /\ main' = "created" /\ UNCHANGED <<mode, gia, costBest, end, pNtk>>
      /\ n' = n + 1 /\ GiveNetwork(SubNtk(mSubNtk2Io'[nCreatedJobs]))
      /\ mSubNtk2Io' = [k \in DOMAIN mSubNtk2Io \cup {n} |-> IF k = n THEN IoOf(new) ELSE mSubNtk2Io[k]]
  BY <1>1 DEF CreateWindowJob, CreateJob, ExtractWindow
<1>3. /\ mode.way = "partitions"
      /\ DOMAIN mSubNtk2Io \subseteq DOMAIN net
      /\ DOMAIN net = 0..(n - 1) /\ \A j \in DOMAIN net : net[j] \in AnyNetwork
  BY <1>2 DEF NetsInv, WindowsInv
<1>4. n \in Nat
  BY CountsFacts
<1>5. IoFits(IoOf(new), ntk) /\ ntk \in AnyNetwork
  BY <1>2, NetsGoOn, FitsExtracted DEF AigNetworks
<1>6. net' = [j \in 0..n |-> IF j = n THEN ntk ELSE net[j]]
  BY <1>2 DEF GiveNetwork
<1> HIDE DEF ntk, new, n
<1>7. DOMAIN net' = 0..(n' - 1) /\ \A j \in DOMAIN net' : net'[j] \in AnyNetwork
  <2>1. \A j \in 0..n : j # n => j \in 0..(n - 1)
    BY <1>4
  <2>2. 0..(n' - 1) = 0..n
    BY <1>2, <1>4
  <2> QED BY <1>3, <1>5, <1>6, <2>1, <2>2
<1>8. \A j \in DOMAIN mSubNtk2Io' : IoFits(mSubNtk2Io'[j], net'[j])
  <2>1. \A j \in 0..(n - 1) : j # n /\ j \in 0..n
    BY <1>4
  <2>2. \A j \in DOMAIN mSubNtk2Io : net'[j] = net[j] /\ mSubNtk2Io'[j] = mSubNtk2Io[j]
    BY <1>2, <1>3, <1>6, <2>1
  <2>3. net'[n] = ntk /\ mSubNtk2Io'[n] = IoOf(new)
    BY <1>2, <1>4, <1>6
  <2>4. DOMAIN mSubNtk2Io' = DOMAIN mSubNtk2Io \cup {n}
    BY <1>2
  <2>5. \A j \in DOMAIN mSubNtk2Io : IoFits(mSubNtk2Io[j], net[j])
    BY <1>2, NetsGoOn
  <2> QED BY <1>5, <2>2, <2>3, <2>4, <2>5
<1>9. /\ <<mode, gia>>' \in Calls /\ costBest' \in Int /\ end' = "ok"
      /\ pNtk' \in AigNetworks' /\ mode'.way = "partitions"
  BY <1>2, <1>3, NetsGoOn DEF NetsInv, AigNetworks
<1> QED BY <1>7, <1>8, <1>9 DEF NetsInv, Ends, n

\* The networks of the jobs remain sound when one of them is optimized.
LEMMA NetsOptimized ==
  ASSUME NetsInv, NEW j, TakenAs(j, net'[j]), j \in DOMAIN net
  PROVE  /\ DOMAIN net' = DOMAIN net /\ \A i \in DOMAIN net : i # j => net'[i] = net[i]
         /\ \A i \in DOMAIN net : net'[i] \in AnyNetwork
         /\ \A io : IoFits(io, net[j]) => IoFits(io, net'[j])
         /\ mode.way # "partitions" => \A i \in DOMAIN net : net'[i] \in AigNetworks
<1>1. /\ DOMAIN net' = DOMAIN net /\ \A i \in DOMAIN net : i # j => net'[i] = net[i]
      /\ net'[j] = net[j] \/ net'[j] \in Optimized(mode, net[j])
  BY DEF TakenAs
<1>2. \A i \in DOMAIN net : net[i] \in AnyNetwork
  BY DEF NetsInv
<1>3. net'[j] \in AnyNetwork /\ \A io : IoFits(io, net[j]) => IoFits(io, net'[j])
  BY <1>1, <1>2, AnyOptimized, FitsOptimized
<1>4. mode.way # "partitions" => net'[j] \in AigNetworks
  <2> SUFFICES ASSUME mode.way # "partitions" PROVE net'[j] \in AigNetworks
    OBVIOUS
  <2>1. net[j] \in AigNetworks /\ gia.nPis \in Nat /\ Len(gia.outs) \in Nat
    BY CallsHave DEF NetsInv
  <2> DEFINE k == gia.nPis
             q == Len(gia.outs)
             ntk == net[j]
  <2>2. k \in Nat /\ q \in Nat /\ ntk \in Networks(k, q)
    BY <2>1 DEF AigNetworks
  <2>3. Optimized(mode, ntk) \subseteq Networks(k, q)
    <3> HIDE DEF k, q, ntk
    <3> QED BY <2>2, OptimizedIn
  <2> QED BY <1>1, <2>2, <2>3 DEF AigNetworks
<1>5. mode.way # "partitions" => \A i \in DOMAIN net : net[i] \in AigNetworks
  BY DEF NetsInv
<1> QED BY <1>1, <1>2, <1>3, <1>4, <1>5

\* A job is taken back, and the best copy kept or its window put back.
LEMMA NetsTake ==
  ASSUME IInv, WindowsInv, NetsInv, OnJobEnd \/ OnJobEndHere
  PROVE  NetsInv'
<1>1. PICK j \in (0..(nCreatedJobs - 1)) \ Back : \E ntk : TakenBack(j, ntk)
  BY TakenJob
<1>2. PICK ntk : Use(j, ntk) /\ TakenAs(j, ntk)
  BY <1>1 DEF TakenBack
<1>3. main = "drain" /\ nCreatedJobs' = nCreatedJobs
  BY DEF OnJobEnd, OnJobEndHere, TakeBack, RunHere
<1>4. DOMAIN net = 0..(nCreatedJobs - 1) /\ j \in DOMAIN net
  BY <1>1 DEF NetsInv
<1>5. net'[j] = ntk
  BY <1>2, <1>4 DEF TakenAs
<1>6. /\ DOMAIN net' = DOMAIN net /\ \A i \in DOMAIN net : i # j => net'[i] = net[i]
      /\ \A i \in DOMAIN net : net'[i] \in AnyNetwork
      /\ \A io : IoFits(io, net[j]) => IoFits(io, ntk)
      /\ mode.way # "partitions" => \A i \in DOMAIN net : net'[i] \in AigNetworks
  BY <1>2, <1>4, <1>5, NetsOptimized
<1>7. /\ end = "ok" /\ pNtk \in AigNetworks /\ gia.nPis \in Nat /\ Len(gia.outs) \in Nat
      /\ \A i \in DOMAIN mSubNtk2Io : IoFits(mSubNtk2Io[i], net[i])
  BY <1>3, NetsGoOn
<1>8. <<mode, gia>> \in Calls /\ costBest \in Int
  BY DEF NetsInv
<1>9. CASE mode.way # "partitions"
  <2>1. KeepBest(ntk)
    BY <1>2, <1>9 DEF Use
  <2>2. ntk \in AigNetworks /\ CostFunction(ntk) \in Int
    <3>1. ntk \in AigNetworks
      BY <1>4, <1>5, <1>6, <1>9
    <3> QED BY <1>7, <3>1, CostsAre DEF AigNetworks
  <2>3. /\ UNCHANGED <<mSubNtk2Io, mode, gia, end>> /\ pNtk' \in {ntk, pNtk}
        /\ costBest' \in {costBest, CostFunction(ntk)}
    BY <2>1 DEF KeepBest
  <2>4. DOMAIN mSubNtk2Io = {}
    BY <1>9 DEF WindowsInv
  <2> QED BY <1>3, <1>4, <1>6, <1>7, <1>8, <1>9, <2>2, <2>3, <2>4 DEF NetsInv, Ends, AigNetworks
<1>10. CASE mode.way = "partitions"
  <2>1. PutBack(j, ntk)
    BY <1>2, <1>10 DEF Use
  <2> DEFINE r == Inserted(j, ntk)
             io == mSubNtk2Io[j]
  <2>2. j \in DOMAIN mSubNtk2Io /\ DOMAIN mSubNtk2Io \subseteq DOMAIN net
    BY <1>1, <1>4, <1>10 DEF WindowsInv
  <2>3. IoFits(io, ntk)
    BY <1>6, <1>7, <2>2
  <2>4. /\ r.end \in Ends
        /\ r.end = "ok" => /\ r.ntk \in AigNetworks
                           /\ \A i \in 1..Len(io.vOutputs) : Node(r.signals[i]) \in Nat
    <3> DEFINE k == gia.nPis
               q == Len(gia.outs)
               vInputs == io.vInputs
               vCompls == io.vCompls
               vOutputs == io.vOutputs
               k2 == Len(vInputs)
               q2 == Len(vOutputs)
               big == pNtk
    <3>1. /\ k \in Nat /\ q \in Nat /\ big \in Networks(k, q)
          /\ k2 \in Nat /\ q2 \in Nat /\ ntk \in Networks(k2, q2)
          /\ vInputs \in Seq(Nat) /\ vOutputs \in Seq(Nat) /\ vCompls \in [1..k2 -> BOOLEAN]
      BY <1>7, <2>3 DEF IoFits, AigNetworks
    <3> HIDE DEF io
    <3>2. /\ k2 = Len(vInputs) /\ q2 = Len(vOutputs) /\ DOMAIN vInputs = 1..Len(vInputs)
          /\ \A i \in 1..Len(vInputs) : vCompls[i] \in BOOLEAN
      <4>1. k2 = Len(vInputs) /\ q2 = Len(vOutputs)
        OBVIOUS
      <4> HIDE DEF r, k, q, vInputs, vCompls, vOutputs, k2, q2, big
      <4>2. DOMAIN vInputs = 1..Len(vInputs)
        BY <3>1
      <4>3. \A i \in 1..k2 : vCompls[i] \in BOOLEAN
        BY <3>1
      <4> QED BY <4>1, <4>2, <4>3
    <3>3. r = Insert(big, ntk, vInputs, vCompls, vOutputs)
      BY DEF Inserted, io
    <3> HIDE DEF k, q, vInputs, vCompls, vOutputs, k2, q2, big, r
    <3>4. PICK N2 \in Nat : k2 < N2 /\ ntk \in Sound(k2, q2, N2)
      BY <3>1, InNetworks
    <3>5. ntk \in Nets(k2, q2, N2)
      BY <3>4 DEF Sound, Wired
    <3> DEFINE s == Insert(big, ntk, vInputs, vCompls, vOutputs)
    <3>6. /\ s.end \in Ends
          /\ s.end = "ok" => /\ s.ntk \in Networks(k, q)
                             /\ \A i \in 1..q2 : Node(s.signals[i]) \in Nat
      <4>1. Len(vInputs) \in Nat /\ Len(vOutputs) = q2 /\ k2 < N2
        BY <3>1, <3>2, <3>4
      <4> QED BY <3>1, <3>2, <3>5, <4>1, InsertIn
    <3>7. r = s
      BY <3>3
    <3> HIDE DEF s
    <3> QED BY <3>6, <3>7 DEF AigNetworks, k, q, q2, vOutputs
  <2>5. /\ UNCHANGED <<mode, gia, costBest>> /\ end' = r.end /\ pNtk' = r.ntk
        /\ end' # "ok" => main' = "stopped"
        /\ mSubNtk2Io' = [i \in DOMAIN mSubNtk2Io \ {j} |-> Remap(mSubNtk2Io[i], io.vOutputs, r.signals)]
    BY <2>1 DEF PutBack, InsertWindow
  <2>6. io.vOutputs \in Seq(Nat)
    BY <2>3 DEF IoFits
  <2> HIDE DEF r, io
  <2>7. end' = "ok" => /\ pNtk' \in AigNetworks'
                       /\ \A i \in DOMAIN mSubNtk2Io' : IoFits(mSubNtk2Io'[i], net'[i])
    <3> SUFFICES ASSUME end' = "ok"
                 PROVE  /\ pNtk' \in AigNetworks'
                        /\ \A i \in DOMAIN mSubNtk2Io' : IoFits(mSubNtk2Io'[i], net'[i])
      OBVIOUS
    <3>1. pNtk' \in AigNetworks' /\ \A i \in 1..Len(io.vOutputs) : Node(r.signals[i]) \in Nat
      BY <2>4, <2>5 DEF AigNetworks
    <3>2. ASSUME NEW i \in DOMAIN mSubNtk2Io' PROVE IoFits(mSubNtk2Io'[i], net'[i])
      <4> DEFINE w == mSubNtk2Io[i]
                 vOld == io.vOutputs
                 signals == r.signals
      <4>1. i \in DOMAIN mSubNtk2Io /\ i # j /\ mSubNtk2Io'[i] = Remap(w, vOld, signals)
        BY <2>5
      <4>2. net'[i] = net[i] /\ IoFits(w, net[i])
        BY <1>6, <1>7, <2>2, <4>1
      <4>3. vOld \in Seq(Nat) /\ \A l \in 1..Len(vOld) : Node(signals[l]) \in Nat
        BY <2>6, <3>1
      <4> HIDE DEF w, vOld, signals
      <4>4. IoFits(Remap(w, vOld, signals), net[i])
        BY <4>2, <4>3, FitsRemapped
      <4> QED BY <4>1, <4>2, <4>4
    <3> QED BY <3>1, <3>2
  <2> QED BY <1>3, <1>4, <1>6, <1>8, <1>10, <2>4, <2>5, <2>7 DEF NetsInv
<1> QED BY <1>9, <1>10

\* A copy of the network is made for a new job.
LEMMA NetsCopy == ASSUME IInv, WindowsInv, NetsInv, CreateCopyJob PROVE NetsInv'
<1>1. /\ main \in {"copies", "single"} /\ nCreatedJobs' = nCreatedJobs + 1
      /\ GiveNetwork(pNtk) /\ UNCHANGED <<mode, gia, main, costBest, end, pNtk, mSubNtk2Io>>
  BY DEF CreateCopyJob, CreateJob, partitionVars, runVars
<1>2. mode.way # "partitions" /\ DOMAIN mSubNtk2Io = {}
  BY <1>1 DEF WindowsInv
<1>3. nCreatedJobs \in Nat /\ DOMAIN net = 0..(nCreatedJobs - 1)
  BY CountsFacts DEF NetsInv
<1>4. /\ end = "ok" /\ pNtk \in AigNetworks /\ gia.nPis \in Nat /\ Len(gia.outs) \in Nat
      /\ \A j \in DOMAIN net : net[j] \in AigNetworks
  BY <1>1, <1>2, NetsGoOn DEF NetsInv
<1>5. DOMAIN net' = 0..(nCreatedJobs' - 1) /\ \A j \in DOMAIN net' : net'[j] \in AigNetworks
  <2>1. net' = [j \in 0..nCreatedJobs |-> IF j = nCreatedJobs THEN pNtk ELSE net[j]]
    BY <1>1 DEF GiveNetwork
  <2>2. /\ 0..(nCreatedJobs' - 1) = 0..nCreatedJobs
        /\ \A j \in 0..nCreatedJobs : j # nCreatedJobs => j \in 0..(nCreatedJobs - 1)
    BY <1>1, <1>3
  <2> QED BY <1>3, <1>4, <2>1, <2>2
<1>6. AigNetworks \subseteq AnyNetwork
  BY <1>4 DEF AigNetworks, AnyNetwork
<1>7. <<mode, gia>> \in Calls /\ costBest \in Int
  BY DEF NetsInv
<1> QED BY <1>1, <1>2, <1>4, <1>5, <1>6, <1>7 DEF NetsInv, AigNetworks, Ends

\* A worker optimizes the network of its job.
LEMMA NetsWork ==
  ASSUME WindowsInv, NetsInv, NEW t \in Threads, WorkerStep(t), IInv
  PROVE  NetsInv'
<1>1. /\ end = "ok" /\ nCreatedJobs' = nCreatedJobs
      /\ UNCHANGED <<mode, gia, main, costBest, end, pNtk, mSubNtk2Io>>
  BY DEF WorkerStep, WaitForPending, Leave, TakeJob, RunJob, FinishJob, partitionVars, runVars
<1>2. /\ <<mode, gia>> \in Calls /\ costBest \in Int /\ pNtk \in AigNetworks
      /\ DOMAIN net = 0..(nCreatedJobs - 1) /\ DOMAIN mSubNtk2Io \subseteq DOMAIN net
      /\ \A j \in DOMAIN mSubNtk2Io : IoFits(mSubNtk2Io[j], net[j])
  BY <1>1 DEF NetsInv, WindowsInv
<1>3. \/ DOMAIN net' = DOMAIN net /\ \A j \in DOMAIN net : net'[j] = net[j]
      \/ \E j \in DOMAIN net : TakenAs(j, net'[j])
  <2>1. CASE RunJob(t)
    <3>1. PICK ntk \in Optimized(mode, net[job[t]]) : net' = [net EXCEPT ![job[t]] = ntk]
      BY <2>1 DEF RunJob
    <3> DEFINE j == job[t]
    <3>2. CASE j \in DOMAIN net
      <4>1. TakenAs(j, net'[j])
        BY <3>1, <3>2 DEF TakenAs
      <4> HIDE DEF j
      <4> QED BY <3>2, <4>1
    <3>3. CASE j \notin DOMAIN net
      BY <3>1, <3>3
    <3> QED BY <3>2, <3>3
  <2>2. CASE ~RunJob(t)
    BY <2>2 DEF WorkerStep
  <2> QED BY <2>1, <2>2
<1>4. CASE DOMAIN net' = DOMAIN net /\ \A j \in DOMAIN net : net'[j] = net[j]
  <2>1. /\ \A j \in DOMAIN net' : net'[j] \in AnyNetwork
        /\ mode.way # "partitions" => \A j \in DOMAIN net' : net'[j] \in AigNetworks
        /\ \A j \in DOMAIN mSubNtk2Io : IoFits(mSubNtk2Io[j], net'[j])
    BY <1>2, <1>4 DEF NetsInv
  <2> QED BY <1>1, <1>2, <1>4, <2>1 DEF NetsInv, AigNetworks, Ends
<1>5. ASSUME NEW j \in DOMAIN net, TakenAs(j, net'[j]) PROVE NetsInv'
  <2>1. /\ DOMAIN net' = DOMAIN net /\ \A i \in DOMAIN net : i # j => net'[i] = net[i]
        /\ \A i \in DOMAIN net : net'[i] \in AnyNetwork
        /\ \A io : IoFits(io, net[j]) => IoFits(io, net'[j])
        /\ mode.way # "partitions" => \A i \in DOMAIN net : net'[i] \in AigNetworks
    BY <1>5, NetsOptimized
  <2>2. \A i \in DOMAIN mSubNtk2Io : IoFits(mSubNtk2Io[i], net'[i])
    BY <1>2, <2>1
  <2> QED BY <1>1, <1>2, <2>1, <2>2 DEF NetsInv, AigNetworks, Ends
<1> QED BY <1>3, <1>4, <1>5

\* A step of the main thread that changes no network.
LEMMA NetsStill ==
  ASSUME IInv, NetsInv, [Next]_vars, ~CreateWindowJob, ~CreateCopyJob, ~OnJobEnd, ~OnJobEndHere,
         ~ \E t \in Threads : WorkerStep(t)
  PROVE  NetsInv'
<1>1. /\ UNCHANGED <<mode, gia, costBest, net, nCreatedJobs, pNtk, mSubNtk2Io>>
      /\ \/ end' = end /\ main' = main
         \/ main # "stopped" /\ end' = end
         \/ main # "stopped" /\ end' \in {"race", "fanouts"} /\ main' = "stopped"
  BY DEF Next, MainStep, PrintCreated, PrintRace, CloseRound, ExtractNothing, AbortExtract,
     AllCopiesCreated, Wait, WaitForJob, Destroy, Terminate, Join, Wakeup, SpuriousWakeup, vars,
     queueVars, runVars, partitionVars
<1>2. main # "stopped" => end = "ok"
  BY NetsGoOn
<1> QED BY <1>1, <1>2 DEF NetsInv, AigNetworks, Ends

\* Every step keeps the invariant.
LEMMA NetsNext == IInv /\ WindowsInv /\ NetsInv /\ [Next]_vars => NetsInv'
BY NetsCut, NetsCopy, NetsTake, NetsWork, NetsStill

\* Costs are numbers.
LEMMA CostsNumbers == NetsInv => CostsAreNumbers
<1> SUFFICES ASSUME NetsInv PROVE CostsAreNumbers
  OBVIOUS
<1>1. /\ gia.nPis \in Nat /\ Len(gia.outs) \in Nat
      /\ GiaReader(gia) \in Networks(gia.nPis, Len(gia.outs))
  BY CallsHave DEF NetsInv
<1>2. CostFunction(GiaReader(gia)) \in Int
  BY <1>1, CostsAre
<1>3. \A j \in DOMAIN net : CostFunction(net[j]) \in Int
  BY AnyOptimized DEF NetsInv
<1> QED BY <1>2, <1>3 DEF CostsAreNumbers

\* The networks of a call stay sound.
LEMMA InvariantNets == Spec => [](WindowsInv /\ NetsInv)
BY WindowsInit, WindowsNext, NetsInit, NetsNext, Invariant, PTL DEF Spec

\* Every variable has its type: the networks of the jobs are those of the jobs
\* created, their costs are numbers, and windows that are out are apart.
THEOREM TypesCorrect == Spec => []TypeOK
<1>1. IInv /\ WindowsInv /\ NetsInv => TypeOK
  <2> SUFFICES ASSUME IInv, WindowsInv, NetsInv PROVE TypeOK
    OBVIOUS
  <2>1. nCreatedJobs \in 0..nJobs
    BY DEF IInv, QueueProofs!IInv, QueueProofs!QueueTypeOK
  <2>2. DOMAIN mSubNtk2Io \subseteq Jobs
    <3>1. 0..(nCreatedJobs - 1) \subseteq 0..(nJobs - 1)
      BY <2>1, JobsAssumption
    <3> QED BY <3>1 DEF WindowsInv, Jobs
  <2>3. CostsAreNumbers
    BY CostsNumbers
  <2>4. main \in Ways \cup {"created", "drain", "destroy", "join", "done", "stopped"}
    BY DEF IInv, Places
  <2> QED BY <2>2, <2>3, <2>4 DEF TypeOK, NetsInv, WindowsInv, Ends
<1> QED BY <1>1, Invariant, InvariantNets, PTL

\* The list of internal nodes of the network is in topological order, whatever
\* was cut out, optimized and put back in whatever order, for as long as the
\* program is not stopped: Insert, Substitute and SortInts move nodes so that a
\* fanin stands before its fanouts, as the evaluation of the network needs.
THEOREM ListInOrder == Spec => []IntsTopological
<1>1. NetsInv => IntsTopological
  <2> SUFFICES ASSUME NetsInv, end = "ok",
                      NEW i \in DOMAIN pNtk.ints, NEW e \in ToSet(pNtk.fanin[pNtk.ints[i]]),
                      IsInt(pNtk, Node(e))
               PROVE  IndexOf(pNtk.ints, Node(e)) < i
    BY DEF IntsTopological
  <2>1. gia.nPis \in Nat /\ Len(gia.outs) \in Nat /\ pNtk \in Networks(gia.nPis, Len(gia.outs))
    BY CallsHave DEF NetsInv, AigNetworks
  <2> QED BY <2>1, NetworkOrdered
<1> QED BY <1>1, InvariantNets, PTL

\* When a call has optimized copies, the network kept is the cheapest copy,
\* and of several the one created first if the execution is to be
\* deterministic; the network given is kept if no copy is cheaper.
THEOREM BestKept == Spec => []BestCopyKept
<1>1. Init /\ CostsAreNumbers => CopiesInv
  BY CopiesInit
<1>2. IInv /\ CopiesInv /\ CostsAreNumbers /\ CostsAreNumbers' /\ [Next]_vars => CopiesInv'
  BY CopiesNext
<1>3. IInv /\ CopiesInv /\ CostsAreNumbers => BestCopyKept
  BY BestIsKept
<1> QED BY <1>1, <1>2, <1>3, CostsNumbers, Invariant, InvariantNets, PTL DEF Spec
=============================================================================
