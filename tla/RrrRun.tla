------------------------------- MODULE RrrRun -------------------------------
(***************************************************************************)
(* A call of "&rrr" (Scheduler::Run, src/src/opt/rrr/rrrScheduler.h): the  *)
(* scheduler composed with the partitioner and the optimizer.              *)
(*                                                                         *)
(* Run works in one of three ways.  With partitions, windows of the        *)
(* network are optimized in rounds of at most nParallelPartitions and put  *)
(* back as they finish.  Without partitions, either nJobs copies of the    *)
(* network are optimized with different seeds and the best is kept, or     *)
(* the network itself is optimized by one job.                             *)
(***************************************************************************)
EXTENDS RrrScheduler, RrrPartitioner, RrrOptimizer

CONSTANTS Calls,                \* calls of the command: pairs <<mode, gia>>
          nParallelPartitions

Ways == {"partitions", "copies", "single"}

ModeType == [way : Ways, fMultiThreading : BOOLEAN, fDeterministic : BOOLEAN,
             fSort : BOOLEAN, fGreedy : BOOLEAN, fTimeout : BOOLEAN]

ASSUME CallsAssumption == /\ \A call \in Calls : call \in ModeType \X {call[2]} /\ IsAig(call[2])
                          /\ nParallelPartitions \in Nat \ {0}

VARIABLES net,       \* the network of each job (pJob->pNtk)
          mode,      \* the parameters of the call
          gia,       \* the AIG given to the command
          main,      \* where the main thread is in Run and in the destructor
          costBest,  \* cost of the best network so far
          end        \* "ok", or how the program was stopped

runVars == <<mode, gia, main, costBest, end>>
vars == <<queueVars, partitionVars, net, runVars>>

Start == Sweep(GiaReader(gia))

Init ==
  /\ \E call \in Calls : mode = call[1] /\ gia = call[2]
  /\ QueueInit(mode.fMultiThreading)
  /\ pNtk = IF mode.way = "partitions" THEN Start ELSE GiaReader(gia)
  /\ mSubNtk2Io = <<>> /\ sBlocked = {} /\ vFailed = {}
  /\ net = <<>>
  /\ main = mode.way
  /\ costBest = CostFunction(GiaReader(gia))
  /\ end = "ok"

\* With partitions the order in which jobs end is not looked at.
fDeterministic == mode.fDeterministic /\ mode.way # "partitions"

-----------------------------------------------------------------------------
(* With partitions.  The round goes on while there is room for a window    *)
(* and one is found; then all jobs of the round are awaited.               *)

\* The job just created works on ntk.
GiveNetwork(ntk) == net' = [j \in 0..nCreatedJobs |-> IF j = nCreatedJobs THEN ntk ELSE net[j]]

RoundOpen == nCreatedJobs < nJobs /\ nCreatedJobs < nFinishedJobs + nParallelPartitions

CreateWindowJob ==
  /\ main = "partitions" /\ RoundOpen
  /\ \E id \in Centres : \E tried \in SUBSET Centres :
       /\ ExtractWindow(nCreatedJobs, id, tried)
       /\ GiveNetwork(SubNtk(mSubNtk2Io'[nCreatedJobs]))
  /\ CreateJob
  /\ main' = "created"
  /\ UNCHANGED <<mode, gia, costBest, end>>

\* The arguments of the Print that follows are evaluated whatever the
\* verbosity: they walk through the network of the job just created.
Racing == \E t \in Threads : worker[t] = "run" /\ job[t] = nCreatedJobs - 1

PrintCreated ==
  /\ main = "created"
  /\ main' = "partitions"
  /\ UNCHANGED <<queueVars, partitionVars, net, mode, gia, costBest, end>>

\* A worker that changes the lists of that network at the same time is a
\* data race: the main thread may follow an element that was freed.
PrintRace ==
  /\ main = "created" /\ Racing
  /\ main' = "stopped" /\ end' = "race"
  /\ UNCHANGED <<queueVars, partitionVars, net, mode, gia, costBest>>

CloseRound ==
  /\ main = "partitions"
  /\ \/ ~RoundOpen /\ UNCHANGED partitionVars
     \/ RoundOpen /\ ExtractNothing
  /\ main' = IF nCreatedJobs = nFinishedJobs THEN "destroy" ELSE "drain"
  /\ UNCHANGED <<queueVars, net, mode, gia, costBest, end>>

AbortExtract ==
  /\ main = "partitions" /\ RoundOpen /\ ExtractAborts
  /\ main' = "stopped" /\ end' = "fanouts"
  /\ UNCHANGED <<queueVars, partitionVars, net, mode, gia, costBest>>

\* Mutant of PutBack: the run is over as soon as no more jobs are to be created.
PutBackLast(j, sub) ==
  \E inserted \in {Inserted(j, sub)} :
    /\ InsertWindow(j, inserted)
    /\ end' = inserted.end
    /\ main' = IF end' # "ok" THEN "stopped" ELSE IF nCreatedJobs = nJobs THEN "destroy"
               ELSE IF nFinishedJobs' < nCreatedJobs THEN "drain" ELSE "partitions"
    /\ UNCHANGED <<mode, gia, costBest>>

\* The window of a finished job is put back.
PutBack(j, sub) ==
  \E inserted \in {Inserted(j, sub)} :
    /\ InsertWindow(j, inserted)
    /\ end' = inserted.end
    /\ main' = IF end' # "ok" THEN "stopped"
               ELSE IF nFinishedJobs' < nCreatedJobs THEN "drain"
               ELSE IF nCreatedJobs < nJobs THEN "partitions" ELSE "destroy"
    /\ UNCHANGED <<mode, gia, costBest>>

-----------------------------------------------------------------------------
(* Without partitions.                                                     *)

CreateCopyJob ==
  /\ \/ main = "copies" /\ nCreatedJobs < nJobs
     \/ main = "single" /\ nCreatedJobs = 0
  /\ CreateJob /\ GiveNetwork(pNtk)
  /\ UNCHANGED <<partitionVars, runVars>>

AllCopiesCreated ==
  /\ \/ main = "copies" /\ nCreatedJobs = nJobs
     \/ main = "single" /\ nCreatedJobs = 1
  /\ main' = "drain"
  /\ UNCHANGED <<queueVars, partitionVars, net, mode, gia, costBest, end>>

\* Mutant of KeepBest: a copy of equal cost replaces the one kept.
KeepLast(ntk) ==
  LET better == mode.way = "copies" /\ CostFunction(ntk) <= costBest
  IN  /\ pNtk' = IF better \/ mode.way = "single" THEN ntk ELSE pNtk
      /\ costBest' = IF better THEN CostFunction(ntk) ELSE costBest
      /\ main' = IF nFinishedJobs' = nCreatedJobs THEN "destroy" ELSE "drain"
      /\ UNCHANGED <<mSubNtk2Io, sBlocked, vFailed, mode, gia, end>>

\* The best copy is kept; the single job worked on the network itself.
KeepBest(ntk) ==
  LET better == mode.way = "copies" /\ CostFunction(ntk) < costBest
  IN  /\ pNtk' = IF better \/ mode.way = "single" THEN ntk ELSE pNtk
      /\ costBest' = IF better THEN CostFunction(ntk) ELSE costBest
      /\ main' = IF nFinishedJobs' = nCreatedJobs THEN "destroy" ELSE "drain"
      /\ UNCHANGED <<mSubNtk2Io, sBlocked, vFailed, mode, gia, end>>

-----------------------------------------------------------------------------
(* The end of a job, and of the run.                                       *)

Use(j, ntk) == IF mode.way = "partitions" THEN PutBack(j, ntk) ELSE KeepBest(ntk)

Wait ==
  /\ main = "drain" /\ mode.fMultiThreading
  /\ WaitForJob(fDeterministic)
  /\ UNCHANGED <<partitionVars, net, runVars>>

OnJobEnd ==
  /\ main = "drain" /\ mode.fMultiThreading
  /\ TakeBack(fDeterministic)
  /\ Use(Top, net[Top])
  /\ UNCHANGED net

OnJobEndHere ==
  /\ main = "drain" /\ ~mode.fMultiThreading
  /\ RunHere
  /\ \E ntk \in Optimized(mode, net[Head(qPendingJobs)]) :
       /\ net' = [net EXCEPT ![Head(qPendingJobs)] = ntk]
       /\ Use(Head(qPendingJobs), ntk)

Destroy ==
  /\ main = "destroy" /\ main' = "join"
  /\ Terminate
  /\ UNCHANGED <<partitionVars, net, mode, gia, costBest, end>>

Join ==
  /\ main = "join" /\ \A t \in Threads : worker[t] \in {"left", "none"}
  /\ main' = "done"
  /\ UNCHANGED <<queueVars, partitionVars, net, mode, gia, costBest, end>>

RunJob(t) ==
  /\ FinishJob(t)
  /\ \E ntk \in Optimized(mode, net[job[t]]) : net' = [net EXCEPT ![job[t]] = ntk]

WorkerStep(t) ==
  /\ end = "ok"
  /\ \/ (WaitForPending(t) \/ Leave(t) \/ TakeJob(t)) /\ UNCHANGED net
     \/ RunJob(t)
  /\ UNCHANGED <<partitionVars, runVars>>

Wakeup == end = "ok" /\ SpuriousWakeup /\ UNCHANGED <<partitionVars, net, runVars>>

MainStep ==
  \/ CreateWindowJob \/ PrintCreated \/ PrintRace \/ CloseRound \/ AbortExtract
  \/ CreateCopyJob \/ AllCopiesCreated
  \/ Wait \/ OnJobEnd \/ OnJobEndHere \/ Destroy \/ Join

Next == MainStep \/ (\E t \in Threads : WorkerStep(t)) \/ Wakeup

Spec == Init /\ [][Next]_vars

-----------------------------------------------------------------------------
(* Properties.                                                             *)

\* Windows that are out have no node in common, and the nodes blocked are theirs.
WindowsApart ==
  /\ \A j, k \in DOMAIN mSubNtk2Io : j # k => mSubNtk2Io[j].ids \cap mSubNtk2Io[k].ids = {}
  /\ sBlocked = UNION {mSubNtk2Io[j].ids : j \in DOMAIN mSubNtk2Io}

\* The cost of every network of a call is a number.
CostsAreNumbers ==
  /\ CostFunction(GiaReader(gia)) \in Int
  /\ \A j \in DOMAIN net : CostFunction(net[j]) \in Int

\* Types of the variables of the scheduler, the partitioner and the run.
TypeOK ==
  /\ <<mode, gia>> \in Calls /\ costBest \in Int /\ CostsAreNumbers
  /\ main \in Ways \cup {"created", "drain", "destroy", "join", "done", "stopped"}
  /\ end \in {"ok", "race", "fanouts", "input", "map", "self", "repeated", "cycle", "used", "erase"}
  /\ DOMAIN net = 0..(nCreatedJobs - 1)
  /\ DOMAIN mSubNtk2Io \subseteq Jobs /\ WindowsApart

\* The network computes what the AIG given computes, whatever windows are out
\* and in whatever order they come back.
FunctionsKept == end = "ok" => PoFunctions(pNtk) = PoFunctions(GiaReader(gia))

\* The list of internal nodes is in topological order.
IntsTopological ==
  end = "ok" =>
    \A i \in DOMAIN pNtk.ints : \A e \in ToSet(pNtk.fanin[pNtk.ints[i]]) :
      IsInt(pNtk, Node(e)) => IndexOf(pNtk.ints, Node(e)) < i

\* Of the copies the cheapest is kept, and of several the first created if
\* the execution is to be deterministic.
BestCopyKept ==
  main \in {"destroy", "join", "done"} /\ mode.way = "copies" =>
    LET costs == {CostFunction(net[j]) : j \in DOMAIN net}
        best == {j \in DOMAIN net : CostFunction(net[j]) = Min(costs)}
    IN  IF Min(costs) >= CostFunction(GiaReader(gia)) THEN pNtk = GiaReader(gia)
        ELSE IF mode.fDeterministic THEN pNtk = net[Min(best)]
        ELSE \E j \in best : pNtk = net[j]

\* The queues are used as RrrQueue says, for which it is shown that no job is
\* lost or run twice and that Run returns.
Queue == INSTANCE RrrQueue WITH
  par <- [fMultiThreading |-> mode.fMultiThreading, fDeterministic |-> fDeterministic],
  phase <- IF main \in Ways \cup {"created"} THEN "create" ELSE main
QueueSpec == Queue!SafeSpec

\* "assert(IsInt(vInputs[i]) || IsPi(vInputs[i]))"
InputsAlive == end # "input"
=============================================================================
