--------------------------- MODULE RrrQueueProofs ---------------------------
(***************************************************************************)
(* The queues of the rrr scheduler lose no job and run none twice, for     *)
(* every number of threads and of jobs, and however the threads are        *)
(* scheduled and woken.                                                    *)
(***************************************************************************)
EXTENDS RrrQueue, FiniteSetTheorems, WellFoundedInduction, TLAPS

\* Jobs 0..(Untaken - 1) have left the pending queue, which holds the others
\* in the order of their creation.
Untaken == nCreatedJobs - Len(qPendingJobs)

Consecutive ==
  /\ Untaken \in Nat
  /\ \A i \in 1..Len(qPendingJobs) : qPendingJobs[i] = Untaken + i - 1

\* A job taken is finished, or with one worker.
OneHolder ==
  /\ qFinishedJobs \cap Running = {}
  /\ \A t, u \in Threads : worker[t] = "run" /\ worker[u] = "run" /\ job[t] = job[u] => t = u

\* Jobs taken and not yet deleted are known by their number alone.
TakenCounted ==
  /\ Taken \subseteq 0..(Untaken - 1)
  /\ Cardinality(Taken) + nFinishedJobs = Untaken

\* A round is drained as long as a job of it is not deleted; the run ends
\* when all are.
Rounds ==
  /\ phase = "drain" => nFinishedJobs < nCreatedJobs
  /\ phase \in {"destroy", "join", "done"} => nFinishedJobs = nCreatedJobs
  /\ fTerminate => phase \in {"join", "done"}

IInv == QueueTypeOK /\ Consecutive /\ OneHolder /\ TakenCounted /\ Rounds

USE JobsAssumption, ThreadsAssumption DEF Jobs

-----------------------------------------------------------------------------
(* The sets of jobs.                                                       *)

\* A worker that runs holds a job.
LEMMA RunningMember == \A x : x \in Running <=> \E t \in Threads : worker[t] = "run" /\ job[t] = x
BY DEF Running

\* The same after a step.
LEMMA RunningMemberNext == \A x : x \in Running' <=> \E t \in Threads : worker'[t] = "run" /\ job'[t] = x
BY DEF Running

\* Jobs taken are finitely many.
LEMMA TakenFinite == ASSUME IInv PROVE IsFiniteSet(Taken) /\ Cardinality(Taken) \in Nat
<1>1. IsFiniteSet(0..(Untaken - 1))
  BY FS_Interval DEF IInv, Consecutive
<1>2. IsFiniteSet(Taken)
  BY <1>1, FS_Subset DEF IInv, TakenCounted
<1> QED BY <1>2, FS_CardinalityType

\* A set of jobs has a smallest one.
LEMMA SmallestJob ==
  ASSUME NEW S \in SUBSET Nat, S # {}
  PROVE  \E j \in S : \A k \in S : j <= k
<1>1. PICK x \in S : \A y \in S : ~ (<<y, x>> \in OpToRel(<, Nat))
  BY NatLessThanWellFounded, WFMin
<1>2. \A y \in S : ~ (y < x)
  BY <1>1 DEF OpToRel
<1> QED BY <1>2

\* Jobs taken are jobs.
LEMMA TakenAreJobs == ASSUME IInv PROVE Taken \subseteq Jobs
<1>1. nCreatedJobs \in 0..nJobs /\ Len(qPendingJobs) \in Nat
  BY DEF IInv, QueueTypeOK
<1>2. Untaken \in Nat /\ Untaken <= nJobs
  BY <1>1 DEF IInv, Consecutive, Untaken
<1>3. Taken \subseteq 0..(Untaken - 1)
  BY DEF IInv, TakenCounted
<1> QED BY <1>2, <1>3

\* Where no worker takes up or gives back a job, the jobs running are the same.
LEMMA SameRunning ==
  ASSUME IInv, UNCHANGED job,
         \A t \in Threads : worker'[t] = "run" <=> worker[t] = "run"
  PROVE  Running' = Running
<1>1. \A x : x \in Running' <=> x \in Running
  BY RunningMember, RunningMemberNext
<1> QED BY <1>1

-----------------------------------------------------------------------------
(* Each way in which the queues change keeps the invariant.                *)

Held == Consecutive /\ OneHolder /\ TakenCounted

\* Steps that move no job.
LEMMA HeldStill ==
  ASSUME IInv, UNCHANGED <<qPendingJobs, qFinishedJobs, nCreatedJobs, nFinishedJobs, job>>,
         \A t \in Threads : worker'[t] = "run" <=> worker[t] = "run"
  PROVE  Held'
<1>1. Running' = Running
  BY SameRunning
<1>2. Taken' = Taken
  BY <1>1 DEF Taken
<1> QED BY <1>1, <1>2 DEF IInv, Held, Consecutive, Untaken, OneHolder, TakenCounted

\* A job is created.
LEMMA HeldCreate ==
  ASSUME IInv, CreateJob, nCreatedJobs < nJobs
  PROVE  Held' /\ qPendingJobs' \in Seq(Jobs)
               /\ worker' \in [Threads -> {"none", "look", "wait", "run", "left"}]
<1>1. /\ worker' \in [Threads -> {"none", "look", "wait", "run", "left"}]
      /\ \A t \in Threads : worker'[t] = "run" <=> worker[t] = "run"
  BY DEF CreateJob, NotifyOneWorker, IInv, QueueTypeOK
<1>2. Running' = Running
  BY <1>1, SameRunning DEF CreateJob
<1>3. Taken' = Taken
  BY <1>2 DEF Taken, CreateJob
<1>4. /\ qPendingJobs' \in Seq(Jobs)
      /\ Len(qPendingJobs') = Len(qPendingJobs) + 1
      /\ \A i \in 1..Len(qPendingJobs) : qPendingJobs'[i] = qPendingJobs[i]
      /\ qPendingJobs'[Len(qPendingJobs) + 1] = nCreatedJobs
      /\ Len(qPendingJobs) \in Nat
  BY DEF CreateJob, IInv, QueueTypeOK
<1>5. Untaken' = Untaken
  BY <1>4 DEF Untaken, CreateJob, IInv, QueueTypeOK
<1>6. Consecutive'
  <2>1. Untaken \in Nat /\ Untaken + Len(qPendingJobs) = nCreatedJobs
    BY <1>4 DEF IInv, Consecutive, Untaken, QueueTypeOK
  <2>2. \A i \in 1..Len(qPendingJobs) : qPendingJobs[i] = Untaken + i - 1
    BY DEF IInv, Consecutive
  <2>3. ASSUME NEW i \in 1..Len(qPendingJobs')
        PROVE  qPendingJobs'[i] = Untaken + i - 1
    <3>1. CASE i = Len(qPendingJobs) + 1
      BY <1>4, <2>1, <3>1
    <3>2. CASE i \in 1..Len(qPendingJobs)
      BY <1>4, <2>2, <3>2
    <3> QED BY <1>4, <3>1, <3>2
  <2> QED BY <1>5, <2>1, <2>3 DEF Consecutive
<1>7. OneHolder' /\ TakenCounted'
  BY <1>1, <1>2, <1>3, <1>5 DEF OneHolder, TakenCounted, IInv, CreateJob
<1> QED BY <1>1, <1>4, <1>6, <1>7 DEF Held

\* The first pending job leaves the queue.
LEMMA HeadLeaves ==
  ASSUME IInv, qPendingJobs # <<>>, qPendingJobs' = Tail(qPendingJobs), UNCHANGED nCreatedJobs
  PROVE  /\ Head(qPendingJobs) = Untaken /\ Untaken \in Jobs
         /\ Untaken' = Untaken + 1
         /\ Consecutive' /\ qPendingJobs' \in Seq(Jobs)
<1>1. /\ Len(qPendingJobs) \in Nat \ {0}
      /\ Head(qPendingJobs) = qPendingJobs[1]
      /\ qPendingJobs' \in Seq(Jobs)
      /\ Len(qPendingJobs') = Len(qPendingJobs) - 1
      /\ \A i \in 1..Len(qPendingJobs') : qPendingJobs'[i] = qPendingJobs[i + 1]
  BY DEF IInv, QueueTypeOK
<1>2. Head(qPendingJobs) = Untaken /\ Untaken \in Jobs
  BY <1>1 DEF IInv, Consecutive, Untaken, QueueTypeOK
<1>3. Untaken' = Untaken + 1
  BY <1>1 DEF Untaken, IInv, QueueTypeOK
<1>4. Consecutive'
  BY <1>1, <1>3 DEF IInv, Consecutive, Untaken, QueueTypeOK
<1> QED BY <1>1, <1>2, <1>3, <1>4

\* A worker takes it.
LEMMA HeldTake ==
  ASSUME IInv, NEW t \in Threads, TakeJob(t)
  PROVE  Held' /\ qPendingJobs' \in Seq(Jobs)
<1>1. /\ Head(qPendingJobs) = Untaken /\ Untaken \in Jobs /\ Untaken' = Untaken + 1
      /\ Consecutive' /\ qPendingJobs' \in Seq(Jobs)
  BY HeadLeaves DEF TakeJob
<1>2. /\ worker[t] = "look" /\ worker'[t] = "run" /\ job'[t] = Untaken
      /\ \A u \in Threads \ {t} : worker'[u] = worker[u] /\ job'[u] = job[u]
      /\ UNCHANGED <<qFinishedJobs, nFinishedJobs>>
  BY <1>1 DEF TakeJob, IInv, QueueTypeOK
<1>3. Running' = Running \cup {Untaken}
  <2>1. \A x : x \in Running' <=> x \in Running \/ x = Untaken
    BY <1>2, RunningMember, RunningMemberNext
  <2> QED BY <2>1
<1>4. Taken' = Taken \cup {Untaken} /\ Untaken \notin Taken
  BY <1>1, <1>2, <1>3 DEF Taken, IInv, TakenCounted
<1>5. OneHolder'
  <2>1. qFinishedJobs' \cap Running' = {}
    BY <1>2, <1>3, <1>4 DEF IInv, OneHolder, Taken
  <2>2. \A u \in Threads \ {t} : worker[u] = "run" => job[u] # Untaken
    BY <1>4, RunningMember DEF Taken
  <2> QED BY <1>2, <2>1, <2>2 DEF IInv, OneHolder
<1>6. Cardinality(Taken') = Cardinality(Taken) + 1
  BY <1>4, TakenFinite, FS_AddElement
<1>7. TakenCounted'
  <2>1. Untaken \in Nat /\ nFinishedJobs \in Nat
    BY DEF IInv, Consecutive, QueueTypeOK
  <2>2. Taken' \subseteq 0..(Untaken' - 1)
    BY <1>1, <1>4, <2>1 DEF IInv, TakenCounted
  <2>3. Cardinality(Taken') + nFinishedJobs' = Untaken'
    <3>1. Cardinality(Taken) \in Nat /\ Cardinality(Taken) + nFinishedJobs = Untaken
      BY TakenFinite DEF IInv, TakenCounted
    <3> QED BY <1>1, <1>2, <1>6, <2>1, <3>1
  <2> QED BY <2>2, <2>3 DEF TakenCounted
<1> QED BY <1>1, <1>5, <1>7 DEF Held

\* A worker puts its job in the other queue.
LEMMA HeldFinish ==
  ASSUME IInv, NEW t \in Threads, FinishJob(t)
  PROVE  Held' /\ qFinishedJobs' \in SUBSET Jobs
<1>1. /\ worker[t] = "run" /\ worker'[t] = "look" /\ job'[t] = NoJob
      /\ \A u \in Threads \ {t} : worker'[u] = worker[u] /\ job'[u] = job[u]
      /\ qFinishedJobs' = qFinishedJobs \cup {job[t]}
      /\ UNCHANGED <<qPendingJobs, nCreatedJobs, nFinishedJobs>>
  BY DEF FinishJob, IInv, QueueTypeOK
<1>2. job[t] \in Running /\ job[t] \in Taken
  BY <1>1, RunningMember DEF Taken
<1>3. Running' = Running \ {job[t]}
  <2>1. \A x : x \in Running' <=> x \in Running /\ x # job[t]
    BY <1>1, RunningMember, RunningMemberNext DEF IInv, OneHolder
  <2> QED BY <2>1
<1>4. Taken' = Taken
  BY <1>1, <1>2, <1>3 DEF Taken
<1>5. Untaken' = Untaken /\ Consecutive'
  BY <1>1 DEF Untaken, Consecutive, IInv
<1>6. OneHolder'
  BY <1>1, <1>3 DEF OneHolder, IInv
<1>7. TakenCounted'
  BY <1>1, <1>4, <1>5 DEF TakenCounted, IInv
<1>8. job[t] \in Jobs
  BY <1>2, TakenAreJobs
<1> QED BY <1>1, <1>5, <1>6, <1>7, <1>8 DEF Held, IInv, QueueTypeOK

\* The main thread takes back the first of the finished jobs.
LEMMA HeldTakeBack ==
  ASSUME IInv, NEW fDeterministic, TakeBack(fDeterministic)
  PROVE  Held' /\ qFinishedJobs' \in SUBSET Jobs /\ nFinishedJobs < nCreatedJobs
<1>1. Top \in qFinishedJobs
  <2>1. qFinishedJobs \in SUBSET Jobs /\ qFinishedJobs # {}
    BY DEF TakeBack, JobReady, IInv, QueueTypeOK
  <2>2. \E j \in qFinishedJobs : \A k \in qFinishedJobs : j <= k
    BY <2>1, SmallestJob
  <2> QED BY <2>2 DEF Top
<1>2. /\ qFinishedJobs' = qFinishedJobs \ {Top} /\ nFinishedJobs' = nFinishedJobs + 1
      /\ UNCHANGED <<qPendingJobs, nCreatedJobs, worker, job>>
  BY DEF TakeBack
<1>3. Running' = Running
  BY <1>2, SameRunning
<1>4. Taken' = Taken \ {Top} /\ Top \in Taken
  BY <1>1, <1>2, <1>3 DEF Taken, IInv, OneHolder
<1>5. Cardinality(Taken') = Cardinality(Taken) - 1 /\ Cardinality(Taken) \in Nat
  BY <1>4, TakenFinite, FS_RemoveElement
<1>6. Untaken' = Untaken /\ Consecutive'
  BY <1>2 DEF Untaken, Consecutive, IInv
<1>7. OneHolder'
  BY <1>2, <1>3 DEF OneHolder, IInv
<1>8. TakenCounted'
  BY <1>2, <1>4, <1>5, <1>6 DEF TakenCounted, IInv, QueueTypeOK
<1>9. nFinishedJobs < nCreatedJobs
  <2>1. Cardinality(Taken) # 0
    BY <1>4, TakenFinite, FS_EmptySet
  <2> QED BY <2>1, <1>5 DEF IInv, TakenCounted, Untaken, QueueTypeOK
<1> QED BY <1>2, <1>6, <1>7, <1>8, <1>9 DEF Held, IInv, QueueTypeOK

\* Without threads the first pending job is run and deleted.
LEMMA HeldRunHere ==
  ASSUME IInv, RunHere
  PROVE  Held' /\ qPendingJobs' \in Seq(Jobs) /\ nFinishedJobs < nCreatedJobs
<1>1. /\ Untaken' = Untaken + 1 /\ Untaken \in Jobs
      /\ Consecutive' /\ qPendingJobs' \in Seq(Jobs)
  BY HeadLeaves DEF RunHere
<1>2. Running' = Running
  BY SameRunning DEF RunHere
<1>3. Taken' = Taken
  BY <1>2 DEF Taken, RunHere
<1>4. OneHolder'
  BY <1>2 DEF RunHere, OneHolder, IInv
<1>5. TakenCounted'
  <2>1. /\ Cardinality(Taken) \in Nat /\ Cardinality(Taken) + nFinishedJobs = Untaken
        /\ Taken \subseteq 0..(Untaken - 1) /\ Untaken \in Nat /\ nFinishedJobs \in Nat
    BY <1>1, TakenFinite DEF TakenCounted, IInv, QueueTypeOK
  <2>2. nFinishedJobs' = nFinishedJobs + 1
    BY DEF RunHere
  <2>3. Taken' \subseteq 0..(Untaken' - 1)
    BY <1>1, <1>3, <2>1
  <2>4. Cardinality(Taken') + nFinishedJobs' = Untaken'
    BY <1>1, <1>3, <2>1, <2>2
  <2> QED BY <2>3, <2>4 DEF TakenCounted
<1>6. nFinishedJobs < nCreatedJobs
  <2>1. Len(qPendingJobs) \in Nat /\ Len(qPendingJobs) # 0
    BY DEF RunHere, IInv, QueueTypeOK
  <2> QED BY <2>1, TakenFinite DEF IInv, TakenCounted, Untaken, QueueTypeOK
<1> QED BY <1>1, <1>4, <1>5, <1>6 DEF Held

-----------------------------------------------------------------------------
(* The invariant.                                                          *)

\* It holds at the start.
LEMMA InitInv == Init => IInv
<1> SUFFICES ASSUME Init PROVE IInv
  OBVIOUS
<1> USE DEF Init, QueueInit
<1>0. <<>> \in Seq(Jobs) /\ Len(<<>>) = 0
  OBVIOUS
<1>1. QueueTypeOK
  <2>1. worker \in [Threads -> {"none", "look", "wait", "run", "left"}]
    OBVIOUS
  <2>2. 0 \in 0..nJobs
    OBVIOUS
  <2> QED BY <1>0, <2>1, <2>2 DEF QueueTypeOK
<1>2. Untaken = 0 /\ Consecutive
  <2>1. Len(qPendingJobs) = 0
    BY <1>0
  <2>2. Untaken = 0
    <3>1. nCreatedJobs = 0
      OBVIOUS
    <3>2. nCreatedJobs - Len(qPendingJobs) = 0 - 0
      BY <2>1, <3>1, Zenon
    <3>3. 0 - 0 = 0
      OBVIOUS
    <3> QED BY <3>2, <3>3, Zenon DEF Untaken
  <2> QED BY <2>1, <2>2 DEF Consecutive
<1>3. Running = {} /\ OneHolder
  BY DEF Running, OneHolder
<1>4. Taken = {}
  BY <1>3 DEF Taken
<1>5. TakenCounted
  BY <1>2, <1>4, FS_EmptySet DEF TakenCounted
<1>6. Rounds
  BY DEF Rounds
<1> QED BY <1>1, <1>2, <1>3, <1>5, <1>6 DEF IInv

\* A step of the main thread keeps it.
LEMMA MainInv == ASSUME IInv, MainStep PROVE IInv'
<1>1. CASE Create
  <2>1. Held' /\ qPendingJobs' \in Seq(Jobs) /\ worker' \in [Threads -> {"none", "look", "wait", "run", "left"}]
    BY <1>1, HeldCreate DEF Create
  <2>2. QueueTypeOK' /\ Rounds'
    BY <1>1, <2>1 DEF Create, CreateJob, IInv, QueueTypeOK, Rounds
  <2> QED BY <2>1, <2>2 DEF Held, IInv
<1>2. CASE CloseRound \/ Wait \/ Join \/ Stop
  <2>1. Held'
    BY <1>2, HeldStill DEF CloseRound, Wait, WaitForJob, Join, Stop, queueVars
  <2>2. QueueTypeOK'
    BY <1>2 DEF CloseRound, Wait, WaitForJob, Join, Stop, queueVars, IInv, QueueTypeOK
  <2>3. nFinishedJobs <= nCreatedJobs
    BY TakenFinite DEF IInv, TakenCounted, Untaken, QueueTypeOK
  <2>4. Rounds'
    BY <1>2, <2>3 DEF CloseRound, Wait, WaitForJob, Join, Stop, queueVars, IInv, QueueTypeOK, Rounds
  <2> QED BY <2>1, <2>2, <2>4 DEF Held, IInv
<1>3. CASE Destroy
  <2>1. Held'
    BY <1>3, HeldStill DEF Destroy, Terminate, IInv, QueueTypeOK
  <2>2. QueueTypeOK' /\ Rounds'
    BY <1>3 DEF Destroy, Terminate, IInv, QueueTypeOK, Rounds
  <2> QED BY <2>1, <2>2 DEF Held, IInv
<1>4. CASE OnJobEnd
  <2>1. /\ Held' /\ nFinishedJobs < nCreatedJobs
        /\ qPendingJobs' \in Seq(Jobs) /\ qFinishedJobs' \in SUBSET Jobs
    <3>1. CASE par.fMultiThreading
      BY <1>4, <3>1, HeldTakeBack DEF OnJobEnd, TakeBack, IInv, QueueTypeOK
    <3>2. CASE ~par.fMultiThreading
      BY <1>4, <3>2, HeldRunHere DEF OnJobEnd, RunHere, IInv, QueueTypeOK
    <3> QED BY <3>1, <3>2
  <2>2. /\ nFinishedJobs' = nFinishedJobs + 1
        /\ UNCHANGED <<nCreatedJobs, fTerminate, worker, job, mainWaits, par>>
    BY <1>4 DEF OnJobEnd, TakeBack, RunHere
  <2>3. /\ phase = "drain"
        /\ phase' \in {"drain", "stopped", "create", "destroy"}
        /\ phase' = "drain" => nFinishedJobs' < nCreatedJobs
        /\ phase' = "destroy" => ~(nFinishedJobs' < nCreatedJobs)
    BY <1>4 DEF OnJobEnd
  <2>4. nFinishedJobs \in Nat /\ nCreatedJobs \in 0..nJobs
    BY DEF IInv, QueueTypeOK
  <2>5. QueueTypeOK'
    BY <2>1, <2>2, <2>3, <2>4 DEF IInv, QueueTypeOK
  <2>6. Rounds'
    BY <2>1, <2>2, <2>3, <2>4 DEF IInv, Rounds
  <2> QED BY <2>1, <2>5, <2>6 DEF Held, IInv
<1> QED BY <1>1, <1>2, <1>3, <1>4 DEF MainStep

\* A step of a worker keeps it.
LEMMA WorkerInv == ASSUME IInv, NEW t \in Threads, WorkerStep(t) PROVE IInv'
<1>1. Held' /\ qPendingJobs' \in Seq(Jobs) /\ qFinishedJobs' \in SUBSET Jobs
  <2>1. CASE WaitForPending(t) \/ Leave(t)
    BY <2>1, HeldStill DEF WaitForPending, Leave, IInv, QueueTypeOK
  <2>2. CASE TakeJob(t)
    BY <2>2, HeldTake DEF TakeJob, IInv, QueueTypeOK
  <2>3. CASE FinishJob(t)
    BY <2>3, HeldFinish DEF FinishJob, IInv, QueueTypeOK
  <2> QED BY <2>1, <2>2, <2>3 DEF WorkerStep
<1>2. UNCHANGED <<nCreatedJobs, nFinishedJobs, fTerminate, par, phase>>
  BY DEF WorkerStep, WaitForPending, Leave, TakeJob, FinishJob
<1>3. worker' \in [Threads -> {"none", "look", "wait", "run", "left"}] /\ mainWaits' \in BOOLEAN
  BY DEF WorkerStep, WaitForPending, Leave, TakeJob, FinishJob, IInv, QueueTypeOK
<1>4. job' \in [Threads -> Jobs \cup {NoJob}]
  <2>1. CASE TakeJob(t)
    <3>1. Head(qPendingJobs) \in Jobs
      BY <2>1, HeadLeaves DEF TakeJob
    <3> QED BY <2>1, <3>1 DEF TakeJob, IInv, QueueTypeOK
  <2>2. CASE ~TakeJob(t)
    BY <2>2 DEF WorkerStep, WaitForPending, Leave, FinishJob, IInv, QueueTypeOK
  <2> QED BY <2>1, <2>2
<1>5. QueueTypeOK'
  BY <1>1, <1>2, <1>3, <1>4 DEF IInv, QueueTypeOK
<1>6. Rounds'
  BY <1>2 DEF IInv, Rounds
<1> QED BY <1>1, <1>5, <1>6 DEF Held, IInv

\* A wakeup without a notification keeps it.
LEMMA WakeupInv == ASSUME IInv, Wakeup PROVE IInv'
<1>1. /\ UNCHANGED <<qPendingJobs, qFinishedJobs, nCreatedJobs, nFinishedJobs, fTerminate, job, par, phase>>
      /\ worker' \in [Threads -> {"none", "look", "wait", "run", "left"}] /\ mainWaits' \in BOOLEAN
      /\ \A t \in Threads : worker'[t] = "run" <=> worker[t] = "run"
  BY DEF Wakeup, SpuriousWakeup, IInv, QueueTypeOK
<1>2. Held'
  BY <1>1, HeldStill
<1>3. QueueTypeOK' /\ Rounds'
  BY <1>1 DEF IInv, QueueTypeOK, Rounds
<1> QED BY <1>2, <1>3 DEF Held, IInv

\* Every step keeps it.
LEMMA NextInv == IInv /\ [Next]_vars => IInv'
<1> SUFFICES ASSUME IInv, [Next]_vars PROVE IInv'
  OBVIOUS
<1>1. CASE UNCHANGED vars
  <2>1. Held'
    BY <1>1, HeldStill DEF vars, queueVars
  <2>2. QueueTypeOK' /\ Rounds'
    BY <1>1 DEF vars, queueVars, IInv, QueueTypeOK, Rounds
  <2> QED BY <2>1, <2>2 DEF Held, IInv
<1> QED BY <1>1, MainInv, WorkerInv, WakeupInv DEF Next

\* The inductive invariant holds throughout.
THEOREM InvHolds == SafeSpec => []IInv
BY InitInv, NextInv, PTL DEF SafeSpec

-----------------------------------------------------------------------------
(* What follows from it.                                                   *)

\* The types of the queues: no job number beyond nJobs is ever in a queue or
\* with a worker, and the counters of Run stay in range.
THEOREM QueueTypes == SafeSpec => []QueueTypeOK
<1>1. IInv => QueueTypeOK
  BY DEF IInv
<1> QED BY <1>1, InvHolds, PTL

\* A job is in one of the two queues, with one worker, or deleted, and it is
\* in one of these places only.
LEMMA InvJobs == IInv => EachJobOnce
<1> SUFFICES ASSUME IInv PROVE EachJobOnce
  OBVIOUS
<1>1. /\ Len(qPendingJobs) \in Nat /\ DOMAIN qPendingJobs = 1..Len(qPendingJobs)
      /\ nCreatedJobs \in Nat /\ nFinishedJobs \in Nat /\ Untaken \in Nat
      /\ Untaken + Len(qPendingJobs) = nCreatedJobs
  BY DEF IInv, QueueTypeOK, Consecutive, Untaken
<1>2. Pending = Untaken..(nCreatedJobs - 1)
  <2>1. ASSUME NEW j \in Pending PROVE j \in Untaken..(nCreatedJobs - 1)
    BY <1>1 DEF Pending, IInv, Consecutive
  <2>2. ASSUME NEW j \in Untaken..(nCreatedJobs - 1) PROVE j \in Pending
    <3>1. j - Untaken + 1 \in 1..Len(qPendingJobs)
      BY <1>1
    <3>2. qPendingJobs[j - Untaken + 1] = j
      BY <1>1, <3>1 DEF IInv, Consecutive
    <3> QED BY <1>1, <3>1, <3>2 DEF Pending
  <2> QED BY <2>1, <2>2
<1>3. Len(qPendingJobs) = Cardinality(Pending)
  <2>1. Cardinality(Pending) = IF Untaken > nCreatedJobs - 1 THEN 0 ELSE (nCreatedJobs - 1) - Untaken + 1
    <3>1. Untaken \in Int /\ nCreatedJobs - 1 \in Int
      BY <1>1
    <3> QED BY <1>2, <3>1, FS_Interval
  <2> QED BY <1>1, <2>1
<1>4. Pending \cap Taken = {}
  BY <1>1, <1>2 DEF IInv, TakenCounted
<1>5. Cardinality(Taken) + Len(qPendingJobs) + nFinishedJobs = nCreatedJobs
  BY <1>1, TakenFinite DEF IInv, TakenCounted
<1> QED BY <1>3, <1>4, <1>5 DEF EachJobOnce, IInv, OneHolder

\* The same as a theorem of the specification.
THEOREM JobsOnce == SafeSpec => []EachJobOnce
BY InvHolds, InvJobs, PTL

\* When the workers are told to leave no job is pending, running or finished
\* and not taken back.
THEOREM NoJobLeft == SafeSpec => []NothingLeftBehind
<1>1. IInv => NothingLeftBehind
  <2> SUFFICES ASSUME IInv, fTerminate PROVE Pending \cup Taken = {}
    BY DEF NothingLeftBehind
  <2>1. nFinishedJobs = nCreatedJobs
    BY DEF IInv, Rounds
  <2>2. Cardinality(Taken) = 0 /\ Len(qPendingJobs) = 0
    <3>1. Len(qPendingJobs) \in Nat /\ nCreatedJobs \in Nat
      BY DEF IInv, QueueTypeOK
    <3> QED BY <2>1, <3>1, TakenFinite, InvJobs DEF EachJobOnce
  <2>3. Taken = {}
    BY <2>2, TakenFinite, FS_EmptySet
  <2>4. Pending = {}
    BY <2>2 DEF Pending, IInv, QueueTypeOK
  <2> QED BY <2>3, <2>4
<1> QED BY <1>1, InvHolds, PTL

\* "assert(!qPendingJobs.empty())": a thread that drains the round by itself
\* finds a job; and with threads the main thread never waits for nothing.
SomethingToDrain == phase = "drain" => Pending \cup Taken # {}
THEOREM DrainFindsJob == SafeSpec => []SomethingToDrain
<1>1. IInv => SomethingToDrain
  <2> SUFFICES ASSUME IInv, phase = "drain", Pending = {}, Taken = {} PROVE FALSE
    BY DEF SomethingToDrain
  <2>1. Cardinality(Taken) = 0 /\ Cardinality(Pending) = 0
    BY FS_EmptySet
  <2>2. nFinishedJobs < nCreatedJobs /\ nFinishedJobs \in Nat /\ nCreatedJobs \in Nat
    BY DEF IInv, Rounds, QueueTypeOK
  <2> QED BY <2>1, <2>2, InvJobs DEF EachJobOnce
<1> QED BY <1>1, InvHolds, PTL

-----------------------------------------------------------------------------
(* The jobs taken back, for the theorems of RrrRun about their networks.   *)

Back == (0..(Untaken - 1)) \ Taken

\* Without threads no job is with a worker or finished and not taken back.
NoThreads == ~par.fMultiThreading => Taken = {} /\ \A t \in Threads : worker[t] = "none"

\* Steps that take no job back.
LEMMA BackStill ==
  ASSUME IInv,
         \/ CreateJob
         \/ \E t \in Threads : WaitForPending(t) \/ Leave(t) \/ TakeJob(t) \/ FinishJob(t)
         \/ SpuriousWakeup \/ Terminate \/ (\E d : WaitForJob(d)) \/ UNCHANGED queueVars
  PROVE  Back' = Back
<1>1. CASE \/ CreateJob \/ SpuriousWakeup \/ Terminate
           \/ (\E d : WaitForJob(d)) \/ UNCHANGED queueVars
           \/ \E t \in Threads : WaitForPending(t) \/ Leave(t)
  <2>1. UNCHANGED <<job, qFinishedJobs>> /\ \A t \in Threads : worker'[t] = "run" <=> worker[t] = "run"
    BY <1>1 DEF CreateJob, NotifyOneWorker, SpuriousWakeup, Terminate, WaitForJob, queueVars,
                WaitForPending, Leave, IInv, QueueTypeOK
  <2>2. Taken' = Taken
    BY <2>1, SameRunning DEF Taken
  <2>3. Untaken' = Untaken
    <3>1. CASE CreateJob
      BY <3>1 DEF CreateJob, Untaken, IInv, QueueTypeOK
    <3>2. CASE ~CreateJob
      BY <1>1, <3>2 DEF Untaken, SpuriousWakeup, Terminate, WaitForJob, queueVars, WaitForPending, Leave
    <3> QED BY <3>1, <3>2
  <2> QED BY <2>2, <2>3 DEF Back
<1>2. ASSUME NEW t \in Threads, TakeJob(t) PROVE Back' = Back
  <2>1. Untaken' = Untaken + 1 /\ Untaken \in Nat /\ Untaken \notin Taken /\ Head(qPendingJobs) = Untaken
    BY <1>2, HeadLeaves DEF TakeJob, IInv, Consecutive, TakenCounted
  <2>2. /\ worker[t] = "look" /\ worker'[t] = "run" /\ job'[t] = Untaken
        /\ \A u \in Threads \ {t} : worker'[u] = worker[u] /\ job'[u] = job[u]
        /\ UNCHANGED qFinishedJobs
    BY <1>2, <2>1 DEF TakeJob, IInv, QueueTypeOK
  <2>3. \A x : x \in Running' <=> x \in Running \/ x = Untaken
    BY <2>2, RunningMember, RunningMemberNext
  <2>4. Taken' = Taken \cup {Untaken}
    BY <2>2, <2>3 DEF Taken
  <2> QED BY <2>1, <2>4 DEF Back
<1>3. ASSUME NEW t \in Threads, FinishJob(t) PROVE Back' = Back
  <2>1. /\ worker[t] = "run" /\ worker'[t] = "look"
        /\ \A u \in Threads \ {t} : worker'[u] = worker[u] /\ job'[u] = job[u]
        /\ qFinishedJobs' = qFinishedJobs \cup {job[t]} /\ UNCHANGED <<qPendingJobs, nCreatedJobs>>
    BY <1>3 DEF FinishJob, IInv, QueueTypeOK
  <2>2. \A x : x \in Running' <=> x \in Running /\ x # job[t]
    BY <2>1, RunningMember, RunningMemberNext DEF IInv, OneHolder
  <2>3. Taken' = Taken
    BY <2>1, <2>2, RunningMember DEF Taken
  <2> QED BY <2>1, <2>3 DEF Back, Untaken
<1> QED BY <1>1, <1>2, <1>3

\* The job that is taken back from a worker was not taken back before.
LEMMA BackAdds ==
  ASSUME IInv, NEW d, TakeBack(d)
  PROVE  /\ Back' = Back \cup {Top} /\ Top \in (0..(nCreatedJobs - 1)) \ Back
         /\ d => Top = nFinishedJobs
<1>1. Top \in qFinishedJobs
  <2>1. qFinishedJobs \in SUBSET Nat /\ qFinishedJobs # {}
    BY DEF TakeBack, JobReady, IInv, QueueTypeOK
  <2> QED BY <2>1, SmallestJob DEF Top
<1>2. Running' = Running
  BY SameRunning DEF TakeBack
<1>3. Taken' = Taken \ {Top} /\ Top \in Taken
  BY <1>1, <1>2 DEF Taken, TakeBack, IInv, OneHolder
<1>4. Untaken' = Untaken
  BY DEF TakeBack, Untaken
<1>5. Top \in 0..(Untaken - 1) /\ Untaken \in Nat /\ Untaken <= nCreatedJobs
  <2>1. Len(qPendingJobs) \in Nat /\ nCreatedJobs \in Nat
    BY DEF IInv, QueueTypeOK
  <2> QED BY <1>3, <2>1 DEF IInv, TakenCounted, Consecutive, Untaken
<1>6. d => Top = nFinishedJobs
  BY DEF TakeBack, JobReady
<1>7. Top \in 0..(nCreatedJobs - 1) /\ nCreatedJobs \in Nat
  BY <1>5 DEF IInv, QueueTypeOK
<1> QED BY <1>3, <1>4, <1>5, <1>6, <1>7 DEF Back

\* Nor was the job that is run without threads, where jobs are run in the
\* order in which they were created.
LEMMA BackRunsHere ==
  ASSUME IInv, NoThreads, ~par.fMultiThreading, RunHere
  PROVE  /\ Back = 0..(nFinishedJobs - 1)
         /\ Back' = Back \cup {nFinishedJobs} /\ nFinishedJobs \in Nat
         /\ Head(qPendingJobs) = nFinishedJobs
<1>1. Head(qPendingJobs) = Untaken /\ Untaken' = Untaken + 1 /\ Untaken \in Nat
  BY HeadLeaves DEF RunHere
<1>2. Taken = {} /\ Taken' = {}
  BY SameRunning DEF RunHere, NoThreads, Taken
<1>3. Untaken = nFinishedJobs
  <2>1. Cardinality(Taken) = 0
    BY <1>2, FS_EmptySet
  <2> QED BY <2>1 DEF IInv, TakenCounted, QueueTypeOK
<1>4. Back = 0..(Untaken - 1) /\ Back' = 0..Untaken
  BY <1>1, <1>2 DEF Back
<1>5. 0..Untaken = (0..(Untaken - 1)) \cup {Untaken}
  BY <1>1
<1> QED BY <1>1, <1>3, <1>4, <1>5

\* A job with a worker, or about to be run, is not one taken back.
LEMMA BackApart ==
  ASSUME IInv
  PROVE  /\ \A t \in Threads : worker[t] = "run" => job[t] \notin Back
         /\ Back \subseteq 0..(nCreatedJobs - 1)
<1>1. \A t \in Threads : worker[t] = "run" => job[t] \notin Back
  BY RunningMember DEF Back, Taken
<1>2. Len(qPendingJobs) \in Nat /\ nCreatedJobs \in Nat
  BY DEF IInv, QueueTypeOK
<1>3. Untaken \in Nat /\ Untaken <= nCreatedJobs
  BY <1>2 DEF IInv, Consecutive, Untaken
<1>4. Back \subseteq 0..(Untaken - 1)
  BY DEF Back
<1> QED BY <1>1, <1>2, <1>3, <1>4

\* At the end all are.
LEMMA BackAll ==
  ASSUME IInv, nFinishedJobs = nCreatedJobs
  PROVE  Back = 0..(nCreatedJobs - 1)
<1>1. Cardinality(Taken) = 0 /\ Len(qPendingJobs) = 0
  <2>1. Len(qPendingJobs) \in Nat /\ nCreatedJobs \in Nat
    BY DEF IInv, QueueTypeOK
  <2> QED BY <2>1, TakenFinite, InvJobs DEF EachJobOnce
<1>2. Taken = {}
  BY <1>1, TakenFinite, FS_EmptySet
<1> QED BY <1>1, <1>2 DEF Back, Untaken, IInv, QueueTypeOK

\* No thread ever appears.
LEMMA NoThreadsNext ==
  ASSUME IInv, NoThreads, [Next]_vars
  PROVE  NoThreads'
<1> SUFFICES ASSUME ~par'.fMultiThreading PROVE Taken' = {} /\ \A t \in Threads : worker'[t] = "none"
  BY DEF NoThreads
<1>1. par' = par
  BY DEF Next, MainStep, Create, CloseRound, Wait, OnJobEnd, Destroy, Join, Stop, WorkerStep,
         Wakeup, vars
<1>2. Taken = {} /\ \A t \in Threads : worker[t] = "none"
  BY <1>1 DEF NoThreads
<1>3. /\ UNCHANGED <<job, qFinishedJobs>>
      /\ \A t \in Threads : worker'[t] = "none"
  <2>1. CASE MainStep
    <3>1. CASE OnJobEnd
      BY <1>1, <1>2, <3>1 DEF OnJobEnd, RunHere, TakeBack, JobReady, Taken
    <3>2. CASE ~OnJobEnd
      BY <1>2, <2>1, <3>2 DEF MainStep, Create, CreateJob, NotifyOneWorker, CloseRound, queueVars,
         Wait, WaitForJob, Destroy, Terminate, Join, Stop
    <3> QED BY <3>1, <3>2
  <2>2. CASE ~MainStep
    BY <1>2, <2>2 DEF Next, WorkerStep, WaitForPending, Leave, TakeJob, FinishJob,
       Wakeup, SpuriousWakeup, vars, queueVars
  <2> QED BY <2>1, <2>2
<1>4. Running' = Running
  BY <1>2, <1>3, SameRunning
<1> QED BY <1>2, <1>3, <1>4 DEF Taken
=============================================================================
