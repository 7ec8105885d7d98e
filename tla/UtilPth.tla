------------------------------- MODULE UtilPth -------------------------------
(***************************************************************************)
(* Util_ProcessThreads (src/misc/util/utilPth.c): a manager hands the      *)
(* entries of vData to nProcs - 1 threads through one slot per thread, a   *)
(* pointer pUserData guarded by an atomic flag fWorking, then waits for    *)
(* them, stops them by a NULL pointer and joins them.                      *)
(*                                                                         *)
(* Entry number x of vData is the number x, NULL is 0.  Each step makes at *)
(* most one access to a field the two sides share.                         *)
(***************************************************************************)
EXTENDS Integers

CONSTANTS nItems,   \* entries of vData
          MaxProcs  \* bound on the parameter nProcs

Items   == 1 .. nItems
NULL    == 0
Threads == 0 .. (MaxProcs - 2)

ASSUME UtilPthAssumption ==
  nItems \in Nat /\ MaxProcs \in 3 .. 101  \* PAR_THR_MAX = 100 threads

VARIABLES
  nProcs,             \* the parameter: the manager and its threads
  vStack,             \* entries 1..vStack are still on the stack
  pUserData, fWorking,\* the slot of each thread
  mpc, i, item,       \* the manager, its loop counter and the entry popped
  wpc, arg,           \* the threads, and the argument of their call
  begun, finished     \* per entry, calls of the user function begun and ended

manager == <<mpc, i, item>>
calls   == <<begun, finished>>
vars == <<nProcs, vStack, pUserData, fWorking, mpc, i, item, wpc, arg, begun,
          finished>>

nThreads == nProcs - 1

Init ==
  /\ nProcs \in 1 .. MaxProcs
  /\ vStack = nItems
  /\ pUserData = [t \in Threads |-> NULL] /\ fWorking = [t \in Threads |-> FALSE]
  /\ mpc = (IF nProcs <= 2 THEN "serial" ELSE "create") /\ i = 0 /\ item = NULL
  /\ wpc = [t \in Threads |-> "none"] /\ arg = [t \in Threads |-> NULL]
  /\ begun = [x \in Items |-> 0] /\ finished = [x \in Items |-> 0]

-----------------------------------------------------------------------------
(* With at most two processes the manager calls the function itself, in    *)
(* the order of vData.                                                     *)

SerialCall ==
  /\ mpc = "serial" /\ i < nItems
  /\ i' = i + 1 /\ item' = i + 1 /\ mpc' = "call"
  /\ begun' = [begun EXCEPT ![i + 1] = @ + 1]
  /\ UNCHANGED <<nProcs, vStack, pUserData, fWorking, wpc, arg, finished>>

SerialReturn ==
  /\ mpc = "call"
  /\ finished' = [finished EXCEPT ![item] = @ + 1]
  /\ mpc' = "serial" /\ item' = NULL
  /\ UNCHANGED <<nProcs, vStack, pUserData, fWorking, i, wpc, arg, begun>>

SerialDone ==
  /\ mpc = "serial" /\ i = nItems
  /\ mpc' = "return"
  /\ UNCHANGED <<nProcs, vStack, pUserData, fWorking, i, item, wpc, arg, calls>>

-----------------------------------------------------------------------------
(* The manager.                                                            *)

\* A loop over the slots goes on to the next one, or to the stage after it.
Step(stage, after) ==
  IF i + 1 < nThreads THEN i' = i + 1 /\ mpc' = stage ELSE i' = 0 /\ mpc' = after

Create ==
  /\ mpc = "create"
  /\ wpc' = [wpc EXCEPT ![i] = "spin"]
  /\ Step("create", IF vStack > 0 THEN "scan" ELSE "wait")
  /\ UNCHANGED <<nProcs, vStack, pUserData, fWorking, item, arg, calls>>

\* The scan comes to a slot: a busy one is passed over, around and around.
ScanBusy ==
  /\ mpc = "scan" /\ fWorking[i]
  /\ i' = IF i + 1 < nThreads THEN i + 1 ELSE 0
  /\ UNCHANGED <<nProcs, vStack, pUserData, fWorking, mpc, item, wpc, arg, calls>>

ScanIdle ==
  /\ mpc = "scan" /\ ~fWorking[i]
  /\ item' = vStack /\ vStack' = vStack - 1
  /\ mpc' = "fill"
  /\ UNCHANGED <<nProcs, pUserData, fWorking, i, wpc, arg, calls>>

Fill ==
  /\ mpc = "fill"
  /\ pUserData' = [pUserData EXCEPT ![i] = item]
  /\ item' = NULL /\ mpc' = "start"
  /\ UNCHANGED <<nProcs, vStack, fWorking, i, wpc, arg, calls>>

\* The flag is released and the scan starts over at slot 0.
Start ==
  /\ mpc = "start"
  /\ fWorking' = [fWorking EXCEPT ![i] = TRUE]
  /\ i' = 0 /\ mpc' = (IF vStack > 0 THEN "scan" ELSE "wait")
  /\ UNCHANGED <<nProcs, vStack, pUserData, item, wpc, arg, calls>>

\* Slip: the wait does not start over when it meets a busy slot.
WaitOnce ==
  /\ mpc = "wait" /\ Step("wait", "clear")
  /\ UNCHANGED <<nProcs, vStack, pUserData, fWorking, item, wpc, arg, calls>>

\* The wait passes an idle slot; a busy one sends it back to slot 0.
Wait ==
  /\ mpc = "wait"
  /\ IF fWorking[i] THEN i' = 0 /\ UNCHANGED mpc ELSE Step("wait", "clear")
  /\ UNCHANGED <<nProcs, vStack, pUserData, fWorking, item, wpc, arg, calls>>

Clear ==
  /\ mpc = "clear"
  /\ pUserData' = [pUserData EXCEPT ![i] = NULL]
  /\ mpc' = "stop"
  /\ UNCHANGED <<nProcs, vStack, fWorking, i, item, wpc, arg, calls>>

\* Slip: the flag is left down (a "continue" before it).
StopSilent ==
  /\ mpc = "stop" /\ Step("clear", "join")
  /\ UNCHANGED <<nProcs, vStack, pUserData, fWorking, item, wpc, arg, calls>>

Stop ==
  /\ mpc = "stop"
  /\ fWorking' = [fWorking EXCEPT ![i] = TRUE]
  /\ Step("clear", "join")
  /\ UNCHANGED <<nProcs, vStack, pUserData, item, wpc, arg, calls>>

\* Slip: the threads are not joined.
JoinNone ==
  /\ mpc = "join" /\ Step("join", "return")
  /\ UNCHANGED <<nProcs, vStack, pUserData, fWorking, item, wpc, arg, calls>>

Join ==
  /\ mpc = "join" /\ wpc[i] = "exit"
  /\ Step("join", "return")
  /\ UNCHANGED <<nProcs, vStack, pUserData, fWorking, item, wpc, arg, calls>>

-----------------------------------------------------------------------------
(* Util_Thread.                                                            *)

Wake(t) ==
  /\ wpc[t] = "spin" /\ fWorking[t]
  /\ wpc' = [wpc EXCEPT ![t] = "look"]
  /\ UNCHANGED <<nProcs, vStack, pUserData, fWorking, manager, arg, calls>>

Exit(t) ==
  /\ wpc[t] = "look" /\ pUserData[t] = NULL
  /\ wpc' = [wpc EXCEPT ![t] = "exit"]
  /\ UNCHANGED <<nProcs, vStack, pUserData, fWorking, manager, arg, calls>>

\* Slip: the flag is cleared before the call, not after it.
CallReleased(t) ==
  /\ wpc[t] = "look" /\ pUserData[t] # NULL
  /\ arg' = [arg EXCEPT ![t] = pUserData[t]]
  /\ begun' = [begun EXCEPT ![pUserData[t]] = @ + 1]
  /\ wpc' = [wpc EXCEPT ![t] = "call"]
  /\ fWorking' = [fWorking EXCEPT ![t] = FALSE]
  /\ UNCHANGED <<nProcs, vStack, pUserData, manager, finished>>

Call(t) ==
  /\ wpc[t] = "look" /\ pUserData[t] # NULL
  /\ arg' = [arg EXCEPT ![t] = pUserData[t]]
  /\ begun' = [begun EXCEPT ![pUserData[t]] = @ + 1]
  /\ wpc' = [wpc EXCEPT ![t] = "call"]
  /\ UNCHANGED <<nProcs, vStack, pUserData, fWorking, manager, finished>>

CallOver(t) ==
  /\ wpc[t] = "call"
  /\ finished' = [finished EXCEPT ![arg[t]] = @ + 1]
  /\ wpc' = [wpc EXCEPT ![t] = "release"]
  /\ UNCHANGED <<nProcs, vStack, pUserData, fWorking, manager, arg, begun>>

\* Slip: the thread goes back to its loop with the flag still up.
ReleaseForgotten(t) ==
  /\ wpc[t] = "release"
  /\ wpc' = [wpc EXCEPT ![t] = "spin"]
  /\ UNCHANGED <<nProcs, vStack, pUserData, fWorking, manager, arg, calls>>

Release(t) ==
  /\ wpc[t] = "release"
  /\ fWorking' = [fWorking EXCEPT ![t] = FALSE]
  /\ wpc' = [wpc EXCEPT ![t] = "spin"]
  /\ UNCHANGED <<nProcs, vStack, pUserData, manager, arg, calls>>

Util_Thread(t) == Wake(t) \/ Exit(t) \/ Call(t) \/ CallOver(t) \/ Release(t)

Manager ==
  \/ SerialCall \/ SerialReturn \/ SerialDone
  \/ Create \/ ScanBusy \/ ScanIdle \/ Fill \/ Start \/ Wait \/ Clear \/ Stop \/ Join

Next == Manager \/ \E t \in Threads : Util_Thread(t)

Spec == Init /\ [][Next]_vars

\* The scheduler runs every thread, and the user function returns.
FairSpec == Spec /\ WF_vars(Manager) /\ \A t \in Threads : WF_vars(Util_Thread(t))

-----------------------------------------------------------------------------
(* Properties.                                                             *)

TypeOK ==
  /\ nProcs \in 1 .. MaxProcs /\ vStack \in 0 .. nItems
  /\ pUserData \in [Threads -> Items \cup {NULL}]
  /\ fWorking \in [Threads -> BOOLEAN]
  /\ mpc \in {"serial", "call", "create", "scan", "fill", "start", "wait",
              "clear", "stop", "join", "return"}
  /\ i \in Nat /\ item \in Items \cup {NULL}
  /\ wpc \in [Threads -> {"none", "spin", "look", "call", "release", "exit"}]
  /\ arg \in [Threads -> Items \cup {NULL}]
  /\ begun \in [Items -> Nat] /\ finished \in [Items -> Nat]

\* The plain field pUserData is never written while its thread may read it,
\* and the flag is raised only for a thread that waits for it: the flag alone
\* hands the slot back and forth.
SlotOwned ==
  mpc \in {"fill", "start", "clear", "stop"} => wpc[i] = "spin" /\ ~fWorking[i]

\* When Util_ProcessThreads returns no thread is left that could read ThData
\* on its stack frame.
NoThreadLeft ==
  mpc = "return" => \A t \in Threads : wpc[t] \in {"none", "exit"}

\* Every entry is passed to the user function once and not twice, and every
\* call is over when the procedure returns: what its callers rely on.
Loop == INSTANCE ForEach WITH returned <- (mpc = "return")
LoopSpec == Loop!Spec

\* It returns, whatever the number of entries and threads.
Returns == <>(mpc = "return")
=============================================================================
