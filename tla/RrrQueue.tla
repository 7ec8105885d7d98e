------------------------------ MODULE RrrQueue ------------------------------
(***************************************************************************)
(* What Scheduler::Run and the destructor do with the queues, whatever the *)
(* jobs are: jobs are created in rounds, a round is drained before the     *)
(* next one begins, and the workers are told to leave after the last.      *)
(* RrrRun implements this specification.                                   *)
(***************************************************************************)
EXTENDS RrrScheduler

VARIABLES par,     \* [fMultiThreading, fDeterministic], as Run uses them
          phase    \* where the main thread is

vars == <<queueVars, par, phase>>

Init ==
  /\ par \in [fMultiThreading : BOOLEAN, fDeterministic : BOOLEAN]
  /\ QueueInit(par.fMultiThreading)
  /\ phase = "create"

\* Mutant of Create: off by one.
CreateOneMore ==
  /\ phase = "create" /\ nCreatedJobs <= nJobs
  /\ CreateJob
  /\ UNCHANGED <<par, phase>>

Create ==
  /\ phase = "create" /\ nCreatedJobs < nJobs
  /\ CreateJob
  /\ UNCHANGED <<par, phase>>

CloseRound ==
  /\ phase = "create"
  /\ phase' = IF nCreatedJobs = nFinishedJobs THEN "destroy" ELSE "drain"
  /\ UNCHANGED <<queueVars, par>>

Wait ==
  /\ phase = "drain" /\ par.fMultiThreading
  /\ WaitForJob(par.fDeterministic)
  /\ UNCHANGED <<par, phase>>

\* Mutant of OnJobEnd: the run ends without draining the round.
OnLastJobEnd ==
  /\ phase = "drain"
  /\ IF par.fMultiThreading THEN TakeBack(par.fDeterministic) ELSE RunHere
  /\ phase' \in IF nCreatedJobs = nJobs THEN {"destroy"} ELSE {"create", "drain"}
  /\ UNCHANGED par

OnJobEnd ==
  /\ phase = "drain"
  /\ IF par.fMultiThreading THEN TakeBack(par.fDeterministic) ELSE RunHere
  /\ phase' \in IF nFinishedJobs' < nCreatedJobs THEN {"drain", "stopped"}
                ELSE {"create", "destroy", "stopped"}
  /\ UNCHANGED par

Destroy ==
  /\ phase = "destroy" /\ phase' = "join"
  /\ Terminate
  /\ UNCHANGED par

Join ==
  /\ phase = "join" /\ \A t \in Threads : worker[t] \in {"left", "none"}
  /\ phase' = "done"
  /\ UNCHANGED <<queueVars, par>>

\* An assertion may stop the program while windows are cut.
Stop ==
  /\ phase = "create" /\ phase' = "stopped"
  /\ UNCHANGED <<queueVars, par>>

MainStep == Create \/ CloseRound \/ Wait \/ OnJobEnd \/ Destroy \/ Join \/ Stop

WorkerStep(t) ==
  /\ phase # "stopped"
  /\ WaitForPending(t) \/ Leave(t) \/ TakeJob(t) \/ FinishJob(t)
  /\ UNCHANGED <<par, phase>>

Wakeup == phase # "stopped" /\ SpuriousWakeup /\ UNCHANGED <<par, phase>>

Next == MainStep \/ (\E t \in Threads : WorkerStep(t)) \/ Wakeup

SafeSpec == Init /\ [][Next]_vars

\* The operating system runs every thread that can go on.
Spec == SafeSpec /\ WF_vars(MainStep) /\ \A t \in Threads : WF_vars(WorkerStep(t))

-----------------------------------------------------------------------------
(* Properties.                                                             *)

\* Types of the variables.
QueueTypeOK ==
  /\ par \in [fMultiThreading : BOOLEAN, fDeterministic : BOOLEAN]
  /\ phase \in {"create", "drain", "destroy", "join", "done", "stopped"}
  /\ qPendingJobs \in Seq(Jobs) /\ qFinishedJobs \in SUBSET Jobs
  /\ nCreatedJobs \in 0..nJobs /\ nFinishedJobs \in 0..nJobs
  /\ fTerminate \in BOOLEAN /\ mainWaits \in BOOLEAN
  /\ worker \in [Threads -> {"none", "look", "wait", "run", "left"}]
  /\ job \in [Threads -> Jobs \cup {NoJob}]

Running == {job[t] : t \in {u \in Threads : worker[u] = "run"}}
Pending == {qPendingJobs[i] : i \in DOMAIN qPendingJobs}
Taken == qFinishedJobs \cup Running

\* A job is in one place: in one of the two queues or with one worker; and
\* those that are in none are the ones that were taken back.
EachJobOnce ==
  /\ Len(qPendingJobs) = Cardinality(Pending)
  /\ Pending \cap Taken = {} /\ qFinishedJobs \cap Running = {}
  /\ \A t, u \in Threads : worker[t] = "run" /\ worker[u] = "run" /\ job[t] = job[u] => t = u
  /\ Cardinality(Taken) + Len(qPendingJobs) + nFinishedJobs = nCreatedJobs

\* "assert(qPendingJobs.empty())" of a worker told to leave, and more: no
\* worker has a job and none is forgotten in the other queue.
NothingLeftBehind == fTerminate => Pending \cup Taken = {}

\* Run returns and its workers are joined, unless the program is stopped.
RunReturns == <>(phase \in {"done", "stopped"})
=============================================================================
