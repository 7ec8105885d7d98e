---------------------------- MODULE RrrScheduler ----------------------------
(***************************************************************************)
(* The job queues of the rrr scheduler (src/src/opt/rrr/rrrScheduler.h):   *)
(* the main thread creates jobs, worker threads take them from a queue,    *)
(* run them and put them in a second queue, from which the main thread     *)
(* takes them back.  Each queue has a mutex and a condition variable.      *)
(*                                                                         *)
(* A mutex is held only around the straight-line code of one action, so    *)
(* the critical sections are the actions.  A thread that waits on a        *)
(* condition variable is notified, or wakes up for no reason, and looks    *)
(* at its queue again.                                                     *)
(*                                                                         *)
(*   qPendingJobs    queue of the jobs not taken yet                       *)
(*   qFinishedJobs   jobs run and not taken back (the smallest comes first)*)
(*   nCreatedJobs    jobs created; a job's id is its place in that order   *)
(*   nFinishedJobs   jobs taken back and deleted                           *)
(*   fTerminate      the destructor tells the workers to leave             *)
(*   worker          where each worker is in Thread                        *)
(*   job             the job a worker has                                  *)
(*   mainWaits       the main thread waits on condFinishedJobs             *)
(*                                                                         *)
(* This module has the operations; RrrQueue calls them with everything     *)
(* about the networks left out, RrrRun as Run does.                        *)
(***************************************************************************)
EXTENDS Integers, Sequences, FiniteSets

CONSTANTS Threads, nJobs, NoJob

ASSUME ThreadsAssumption == IsFiniteSet(Threads) /\ Threads # {}
ASSUME JobsAssumption == nJobs \in Nat \ {0} /\ NoJob \notin 0..(nJobs - 1)

VARIABLES qPendingJobs, qFinishedJobs, nCreatedJobs, nFinishedJobs,
          fTerminate, worker, job, mainWaits

queueVars == <<qPendingJobs, qFinishedJobs, nCreatedJobs, nFinishedJobs,
               fTerminate, worker, job, mainWaits>>

Jobs == 0..(nJobs - 1)

QueueInit(fMultiThreading) ==
  /\ qPendingJobs = <<>> /\ qFinishedJobs = {}
  /\ nCreatedJobs = 0 /\ nFinishedJobs = 0
  /\ fTerminate = FALSE
  /\ worker = [t \in Threads |-> IF fMultiThreading THEN "look" ELSE "none"]
  /\ job = [t \in Threads |-> NoJob]
  /\ mainWaits = FALSE

-----------------------------------------------------------------------------
(* The main thread.                                                        *)

\* notify_one wakes one of the waiting workers, if there is any.
NotifyOneWorker ==
  IF \E t \in Threads : worker[t] = "wait"
  THEN \E t \in Threads : worker[t] = "wait" /\ worker' = [worker EXCEPT ![t] = "look"]
  ELSE UNCHANGED worker

CreateJob ==
  /\ qPendingJobs' = Append(qPendingJobs, nCreatedJobs)
  /\ nCreatedJobs' = nCreatedJobs + 1
  /\ NotifyOneWorker
  /\ UNCHANGED <<qFinishedJobs, nFinishedJobs, fTerminate, job, mainWaits>>

Top == CHOOSE j \in qFinishedJobs : \A k \in qFinishedJobs : j <= k

JobReady(fDeterministic) == qFinishedJobs # {} /\ (fDeterministic => Top = nFinishedJobs)

WaitForJob(fDeterministic) ==
  /\ ~mainWaits
  /\ ~JobReady(fDeterministic)
  /\ mainWaits' = TRUE
  /\ UNCHANGED <<qPendingJobs, qFinishedJobs, nCreatedJobs, nFinishedJobs, fTerminate, worker, job>>

\* OnJobEnd with threads: the first finished job is taken back.
TakeBack(fDeterministic) ==
  /\ ~mainWaits
  /\ JobReady(fDeterministic)
  /\ qFinishedJobs' = qFinishedJobs \ {Top}
  /\ nFinishedJobs' = nFinishedJobs + 1
  /\ UNCHANGED <<qPendingJobs, nCreatedJobs, fTerminate, worker, job, mainWaits>>

\* OnJobEnd without threads: the first pending job is run here.
RunHere ==
  /\ qPendingJobs # <<>>
  /\ qPendingJobs' = Tail(qPendingJobs)
  /\ nFinishedJobs' = nFinishedJobs + 1
  /\ UNCHANGED <<qFinishedJobs, nCreatedJobs, fTerminate, worker, job, mainWaits>>

\* Mutant of Terminate: notify_one for notify_all.
TerminateOne ==
  /\ fTerminate' = TRUE
  /\ NotifyOneWorker
  /\ UNCHANGED <<qPendingJobs, qFinishedJobs, nCreatedJobs, nFinishedJobs, job, mainWaits>>

\* The destructor, up to the joins.
Terminate ==
  /\ fTerminate' = TRUE
  /\ worker' = [t \in Threads |-> IF worker[t] = "wait" THEN "look" ELSE worker[t]]
  /\ UNCHANGED <<qPendingJobs, qFinishedJobs, nCreatedJobs, nFinishedJobs, job, mainWaits>>

-----------------------------------------------------------------------------
(* A worker.                                                               *)

WaitForPending(t) ==
  /\ worker[t] = "look" /\ ~fTerminate /\ qPendingJobs = <<>>
  /\ worker' = [worker EXCEPT ![t] = "wait"]
  /\ UNCHANGED <<qPendingJobs, qFinishedJobs, nCreatedJobs, nFinishedJobs, fTerminate, job, mainWaits>>

Leave(t) ==
  /\ worker[t] = "look" /\ fTerminate
  /\ worker' = [worker EXCEPT ![t] = "left"]
  /\ UNCHANGED <<qPendingJobs, qFinishedJobs, nCreatedJobs, nFinishedJobs, fTerminate, job, mainWaits>>

\* Mutant of TakeJob: the job is left in the queue.
PeekJob(t) ==
  /\ worker[t] = "look" /\ ~fTerminate /\ qPendingJobs # <<>>
  /\ job' = [job EXCEPT ![t] = Head(qPendingJobs)]
  /\ worker' = [worker EXCEPT ![t] = "run"]
  /\ UNCHANGED <<qPendingJobs, qFinishedJobs, nCreatedJobs, nFinishedJobs, fTerminate, mainWaits>>

TakeJob(t) ==
  /\ worker[t] = "look" /\ ~fTerminate /\ qPendingJobs # <<>>
  /\ job' = [job EXCEPT ![t] = Head(qPendingJobs)]
  /\ qPendingJobs' = Tail(qPendingJobs)
  /\ worker' = [worker EXCEPT ![t] = "run"]
  /\ UNCHANGED <<qFinishedJobs, nCreatedJobs, nFinishedJobs, fTerminate, mainWaits>>

\* RunJob is done.
FinishJob(t) ==
  /\ worker[t] = "run"
  /\ qFinishedJobs' = qFinishedJobs \cup {job[t]}
  /\ mainWaits' = FALSE
  /\ job' = [job EXCEPT ![t] = NoJob]
  /\ worker' = [worker EXCEPT ![t] = "look"]
  /\ UNCHANGED <<qPendingJobs, nCreatedJobs, nFinishedJobs, fTerminate>>

SpuriousWakeup ==
  \/ /\ \E t \in Threads : worker[t] = "wait" /\ worker' = [worker EXCEPT ![t] = "look"]
     /\ UNCHANGED <<qPendingJobs, qFinishedJobs, nCreatedJobs, nFinishedJobs, fTerminate, job, mainWaits>>
  \/ /\ mainWaits /\ mainWaits' = FALSE
     /\ UNCHANGED <<qPendingJobs, qFinishedJobs, nCreatedJobs, nFinishedJobs, fTerminate, worker, job>>
=============================================================================
