# Verification of ABC (LSV-PA): TLA+ models, TLC runs and TLAPS proofs

The repository is a fork of ABC, the logic synthesis and verification system,
with one command of its own (`src/src/ext-lsv/lsvCmd.cpp`).  ABC is an
interactive shell: a command line is dispatched to one of about a thousand
commands, which read and replace the *current network* of the shell.  Most of
the code is sequential optimization.  What makes it hard to get right, and hard
to test, lies in a few places, and those are what this directory models:

* the proof engine **pdr**, whose frames, SAT solvers and obligations must agree
  over thousands of interleaved steps before a verdict is printed;
* the **thread pools** written by hand with spin flags, and the scheduler of the
  optimizer **rrr**, which uses condition variables and lets several windows of
  one network be optimized at a time;
* the **and-inverter graph** of a network, in which replacing one node sets off a
  cascade of others;
* the **pointer structures of the shell**, which several commands edit in turn.

Paths below are relative to `src/src/`.

## 1. Inventory

| Component | State it keeps | Operations | Interacts with | Correct when |
|---|---|---|---|---|
| pdr, `proof/pdr` | levels of blocked cubes, a solver per frame, obligation queue, output under work, verdict per output | block, generalize, push, open frame, recycle a solver, restart, time out, give up | SAT solver; AIG; the caller's `vOutMap`, `vCexes` | frames are inductive, solvers agree with them, a proof is an inductive invariant, a counter-example is real |
| `Util_ProcessThreads`, `misc/util/utilPth.c` | a stack of entries, a slot (entry, flag) per thread | create, hand over, wait, stop, join | any caller's function | function called once per entry, returns after the last call, no race on a slot |
| `Cec_GiaSplitTestInt`, `proof/cec/cecSplit.c` | stack of cofactors, a slot (cofactor, result, flag) per thread, verdict, counter-example | try, split, hand over, collect, wait, stop | SAT solver in threads | verdict right, no assignment lost, nothing freed in use, threads end |
| networks of the shell, `base/main/mainFrame.c`, `base/cmd` | linked list of networks with step numbers, a separate backup, flags | dispatch, replace, undo, recall, empty, backup, restore, set | every command | the list is sound and behaves as the history the user sees |
| `sswPart.c` | slots | as `utilPth.c`, no serial path | - | as `utilPth.c` |
| `&prove`, `proof/cec/cecProve.c` | slots with results, a winner | rounds of engines | engines in threads | a decided problem is reported decided |
| parallel BMC, `sat/bmc/bmcBmcS.c` | solvers per thread, stop flag | race, stop, share frames | SAT solvers | the verdict is that of a solver which finished |
| abstraction prover, `proof/abs/absPth.c`, `base/wlc/wlcPth.c` | run number, "proved" flag, mutex | start, cancel, answer | pdr in a thread | a late answer is not taken for a newer abstraction |
| rrr scheduler, `opt/rrr/rrrScheduler.h` | job and result queues, mutexes, condition variables, number of jobs made and taken back | make jobs, wait, take back, stop the workers | partitioner; optimizers in threads | no job or notification lost, `Run` returns, the best copy is kept |
| rrr partitioner, `opt/rrr/rrrPartitioner.h` | inputs and outputs of each window that is out, blocked nodes | cut a window, put it back | network; scheduler | the network computes the same whatever order windows come back in |
| rrr network and optimizer, `opt/rrr/rrrAndNetwork.h`, `rrrOptimizer.h` | lists of nodes, fanin edges, reference counts | extract, insert, replace, sort, sweep; remove and add redundant fanins | partitioner | functions kept, list sorted |
| AIG of a network, `base/abc/abcAig.c` | hash table, fanins and fanouts, levels, EXOR marks, stack of pending replacements | make an AND, replace a node, delete a cone, update levels, clean up | rewrite, refactor, restructure, resub, rr | hashed, no loops, no output changes, nothing freed in use |
| command starter, `base/cmd/cmdStarter.c` | count of running threads, mutex | start, finish | child processes | at most nCores - 1 run |
| stochastic synthesis, `aig/gia/giaTranStoch.c` | slots | worker pool | - | as `utilPth.c` |
| SAT solver, other AIG packages, synthesis, mapping, BDDs, readers, LSV command | - | - | - | not modelled, see section 8 |

Behaviours that are hard, by kind: *interleaving* (all the pools), *stale state*
(recycled solvers, obligations that outlive their output, windows whose inputs are
replaced while they are out, nodes that wait on a stack while others are freed, a
flag switched off after networks were saved), *time-outs and limits* (of pdr, of an output, of a
SAT call, of the obligation queue, of iterations), *liveness* (spin loops; a
solver that returns the same predecessor), *long sequences of legal calls* (the
network list).  Nothing is persisted and nothing is sent over a network, so
there is no recovery and no message loss.  `PROJECT.json` lists each hazard at
its line.

## 2. Modules

| Module | Role |
|---|---|
| `Pdr` | the engine |
| `PdrInvariant` | its inductive invariants |
| `PdrCtg` | the engine with generalization by `ZPdr_ManDown` and counter-examples to generalization |
| `PdrCtgInvariant` | its inductive invariant |
| `PdrProofs` | theorems about `Pdr` and `PdrCtg` |
| `MCPdrCtg` + `.cfg`, `MCPdrCtgLate.cfg` | instances of `PdrCtg` |
| `MCPdr` + `MCPdrFrames`, `MCPdrReuse` `.cfg` | instances |
| `ForEach` | abstract: call a function once per entry, return after the last call |
| `UtilPth` | `Util_ProcessThreads` and its threads; implements `ForEach` |
| `UtilPthInvariant`, `UtilPthProofs` | its inductive invariant; theorems, the refinement included |
| `MCUtilPth` + `.cfg` | instance |
| `CecSplit`, `MCCecSplit` + `Verdict.cfg` | parallel case-splitting |
| `CecSplitProofs` | its inductive invariant; theorems |
| `NtkHistory` | abstract: what undo and recall promise, over a sequence of networks |
| `FrameStack`, `MCFrameStack` + `.cfg` | the linked list and the commands that edit it; implements `NtkHistory` |
| `FrameStackProofs` | its inductive invariant; theorems, the refinement included |
| `RrrScheduler` | the operations on the job queues of rrr |
| `RrrQueue` + `MCRrrQueue.cfg` | abstract: rounds of jobs, whatever the jobs are |
| `RrrQueueProofs` | theorems about the queues |
| `RrrNetwork`, `RrrPartitioner`, `RrrOptimizer` | the network as a value; windows; flow 0 of the optimizer of a job, as the set of networks it may leave |
| `RrrRun`, `MCRrr` + `MCRrr.cfg`, `MCRrrInputs.cfg` | a call of `&rrr`: the four composed; implements `RrrQueue` |
| `RrrNetworkProofs` | lemmas: what is read, cut out, optimized or put back is a network in topological order |
| `RrrRunProofs` | its inductive invariant; theorems, the refinement included |
| `AigReplace`, `MCAigReplace` + `.cfg`, `MCAigLoop.cfg` | the AIG of a network and the replacement of its nodes |
| `AigReplaceProofs` | its inductive invariant; theorems |

A definition whose comment begins with *Slip:* or *Mutant of* is a plausible
mistake, placed before the definition it would replace; no specification uses it.
`PROJECT.json` pairs each with the property that notices it.

### Pdr

*State.*  The variables are the fields of `Pdr_Man_t`: `vClauses` (a set of cubes
per level; level k holds in frames 1..k), `vSolvers`, `pQueue`, `iOutCur`,
`iUseFrame`, `nQueLim`, plus the loop positions of the procedures (`iPush`,
`vDone`, `pc`) and the caller's `vOutMap` and `vCexes`.  The circuit and the
settings of `Pdr_Par_t` are chosen in `Init` and never change, so that one run
covers many circuits.  A solver is what was added to it: clauses, and outputs
asserted to hold (`fUsePropOut`).

*Actions.*  One per way an iteration of a loop can go.

| Code | Actions |
|---|---|
| output loop of `Pdr_ManSolveInt` | `SkipOutput`, `OutputHolds`, `OutputFails`, `OpenFrame` |
| `Pdr_ManBlockCube` | `BlockDone`, `BlockFailed`, `BlockRestart`, `BlockContained`, `BlockCovered`, `BlockLearn`, `BlockPredecessor` |
| `Pdr_ManPushClauses` | `PushKept`, `PushMoved`, `PushLevelDone`, `PushDone` |
| limits; end of `Pdr_ManSolve` | `GiveUp`, `OutputTimeOut` (which may leave `iUseFrame` lowered, `Lowest`), `Finish` |

*Abstractions.*  A SAT call is its specification: `Models(k, S)` is the set of
state and input pairs the solver admits; which model, core or generalization
comes back is free (`Shrunk`: any sub-cube outside the initial state for which
the code's own query is UNSAT; `Widen`: any cube around a model all of whose
states meet the goal, and the positive literal of flop 0 where ternary
simulation leaves nothing).  Counting activation variables up to `nRecycle` is
replaced by a free choice, for the frames in `Worn`, of the solvers rebuilt in a
step.  Obligations of one frame are taken in any order (the code's order by
priority is one of them).  A cube dropped from a level when a cube of the same
level contains it is dropped at the place the code does it.

*Not modelled.*  Abstraction (`fUseAbs`), blocking while pushing (`fBlocking`, with
`ZPdr_ManDown_Exhaustive`), `fSimpleGeneral`, outputs that are constants, the
callback `pFuncOnFail`, and `pdrIncr.c`.

### PdrCtg

In `Pdr` a generalization is one step (`BlockLearn`): nothing else happens in
between that a property could tell.  That is not so under `pdr -n -c`.  There a
state that spoils an attempt to drop a literal (a counter-example to
generalization, CTG) may itself be blocked and learned, and to help with that the
cube under work is given to the solvers of frames 1..k before it is in any level
(`pdrCore.c:526-531`).  `PdrCtg` extends `Pdr` by one variable, `down`: the
obligation and the cube under work, and the flag `added`.

| Code | Actions |
|---|---|
| `Pdr_ManGeneralize`, up to the core of the query | `DownStart` |
| a literal dropped, or `ZPdr_ManDown` returns 1 | `DownShrink` |
| `ZPdr_ManDown`, loop over CTGs | `CtgKept` (the CTG is not blocked), `CtgLearn` |
| the same, after the time of the output is over | `CtgLearnLate` |
| end of the generalization, the rest of `Pdr_ManBlockCube` | `DownDone` |
| a limit in the middle | `DownGiveUp`, `DownTimeOut` |
| everything else, with no cube under work | `Engine` (`Next` of `Pdr`) |

The loop over literals may end at any step, and which literal is tried next is
free; the code's order, its list of undroppable literals and its limit of three
CTGs each select some of these behaviours.  `CtgLearnLate` is there because
`pdrCore.c:543-545` takes the answer -1 of a query out of time for "holds".  Its
two asserts (547, 573) stop the program in most such cases; the action is the case
that comes through: a core of one literal, which needs no more queries, after
which the smaller cube is refuted by propagation (`sat_solver_solve` propagates its
assumptions before it looks at the clock).  The smaller cube itself is learned before
the output is dropped when nothing is left to ask, or when that is answered so too.

### UtilPth

Each access to a field shared between manager and thread is a step; the flag is
atomic with acquire and release, so the steps interleave as under sequential
consistency.  The thread function's loop has five steps (`Wake`, `Exit`, `Call`,
`CallOver`, `Release`); the manager's loops have one step per slot and phase.
The serial path for at most two processes is modelled as well.  Both `ForEach` and
`UtilPth` count, for each entry, the calls of the function that began and that ended (`begun`,
`finished`), so that a second call of an entry is a step which `ForEach` does not have.

### CecSplit

The problem is the set of satisfying assignments; a cofactor is the inputs it
fixes, and the literals recorded for them in `vCofVars`, which are not the same
thing (observation 5).  The SAT solver answers rightly or runs out of time; on
a cofactor without open inputs it answers.  A visit of the manager to a slot is
one step, because a slot belongs to one side at a time.  `fWorking` is a plain
`int` field in this file: the model takes reads and writes of it as sequentially
consistent, which C does not promise (observation 8).

### FrameStack

Memory is a set of addresses; a network is a record with its contents (an
identity), its step and its `pNetBackup`.  `Abc_FrameSetCurrentNetwork`,
`Abc_FrameSwapCurrentAndBackup` and `Abc_FrameReplaceCurrentNetwork` are operators
from heap to heap, composed by the commands in the order the code calls them:
`Command` is the dispatcher's copy, push and swap followed by the command's
replacement, in one action, as the shell runs one command at a time.  A command
may also fail, or derive a network and push it itself (`Derive`, as `l2s` does).
`Abc_NtkDelete` removes an address, so that a dangling pointer is an address
outside the heap.  Contents are not modelled.

### RrrScheduler, RrrQueue, RrrPartitioner, RrrNetwork, RrrOptimizer, RrrRun

*Queues* (`RrrScheduler`).  A mutex is held only around straight-line code, so each
critical section is one action.  The condition variables are the states `wait` of
a worker and `mainWaits` of the main thread: a notification turns waiting into
looking again, is lost when nobody waits, and `SpuriousWakeup` may do the same at
any time.  `fTerminate` is set by the destructor, which then joins.

| Code | Actions |
|---|---|
| `CreateJob` | `CreateJob` (in `CreateWindowJob`, `CreateCopyJob`) |
| `OnJobEnd` | `Wait`, `OnJobEnd`, `OnJobEndHere` (without threads) |
| `Thread` | `WaitForPending`, `Leave`, `TakeJob`, `RunJob` |
| `Run`, the three ways | `CreateWindowJob`, `PrintCreated`, `CloseRound`; `CreateCopyJob`, `AllCopiesCreated` |
| `~Scheduler` | `Destroy`, `Join` |

`RrrQueue` is the same protocol with everything about networks left out: a round
has any number of jobs, and after the last job of a round `Run` goes on or stops as
it likes.  `QueueSpec` says that `RrrRun` implements it (proved), so that what is proved of
`RrrQueue` holds of a whole call.

*Network.*  A network is a record: the lists of inputs, internal nodes and outputs,
and the fanin edges.  Reference counts are computed from them.  `Insert` is the
code's: the nodes of the window are appended, each output of the window is replaced
at its fanouts (a repeated fanin is dropped, one that meets its complement becomes
constant), the list is sorted again, and what is unused is deleted.  `SortInts` calls
itself for every fanin that stands behind its node; `SortStep` is one step of it, on a
stack of the calls that are open, and `MoveBefore` takes as many steps as there are edges and
nodes, which is enough unless a node depends on itself: then the set of its results is
empty, and the code's recursion does not end.  AIGs are those in which a fanin has a
smaller number (`IsAig`), as `GiaReader` takes them to be.

*Windows.*  `WindowOf` grows a neighbourhood and adds the nodes on paths that leave
it and come back, both in loops that end after `nPartitionSize` rounds at the latest
(each adds a node); a window that could close a loop with one that is out is refused
(`MayLoop`, for pairs, as the code does).  `Remap` makes the inputs of windows that
are out follow a replacement, with the complement.

*Optimizer.*  A job leaves one of the networks in `Optimized`, which is all of flow 0.
`RemoveRedundancy` takes fanins away that no output needs, from the last node to the first,
and begins again whenever it took one.  Then every node, from the last one to the first, is
resubstituted (`SingleResub`): it takes over the fanins of its fanins (`TrivialCollapse`);
every other input and internal node that does not depend on it is tried as a fanin, plain and,
if that is not feasible, complemented (`SingleAdd`); if `RemoveRedundancy` then finds
nothing to remove the fanin goes again (`Undo`), and if it does the change is kept, unless the
network has become larger and `fGreedy` is set, in which case the one saved last is loaded (`Judge`);
at last the node is split into nodes of two fanins again (`TrivialDecompose`), also when
nothing was added.  Two things are left open.  Fanins are sorted by a cost that depends on
the seed, so that with `fSort` any order may come of it (`SortFanins`).  With a time limit the time may
be up at every place where the code looks at the clock (`Timeout`).  Loops of the code are
therefore functions from sets of networks to sets of networks, and a call is checked with
each combination of `fSort`, `fGreedy` and `fTimeout`.

*How a call may stop.*  The code has assertions and undefined operations on this
path.  `end` says how the program stopped: `input` (assertion on the inputs of a
window, finding 3), `fanouts` (a repeated fanin makes the count of fanouts wrong),
`erase` (the end of a list is erased), `race` (`Print` walks through a network that
a worker changes), and five that no instance checked reaches: `map` (a fanin of a node
of the window is not found), `self` (an output would be replaced by itself), `repeated` (a fanout
with two edges to an output keeps one that would repeat another edge, the assertion at
`rrrAndNetwork.h:1484`), `cycle` (sorting recurs for ever) and `used` (an output to be deleted has
fanouts).  The invariants speak of what was so until then: no property says that a call
does not stop, and for two of the hazards listed (a deleted output of a window, a repeated fanin) none
could, since calls do stop there.  The same assertion in `RemoveBuffer` (1275) has no end of
its own: there the edge becomes the constant 0, and no instance reaches it.

*Not modelled.*  Flows 1 to 3 of the optimizer, multiple resubstitution, a limit on the distance of
candidates (`nDistance`), the analyzers (simulation, BDD, SAT) with their conflict limit and
compatible flexibilities (a fanin is checked by the functions of the outputs),
`fOptOnInsert`, the partitioner by levels (`-P 1`), statistics.

### AigReplace

*State.*  `fanin` is the hash table and the network at once: a look-up finds the node
that has the two fanins.  `po` holds the drivers of the outputs, `level` and `exor`
the fields `Level` and `fExor`, `vLevels` the nodes marked `fMarkA`, `stack` the two
stacks of pending replacements.  `cur` is the run of `Abc_AigReplace_int` (its
arguments and the fanouts it collected and has not seen yet), `dying` the calls of
`Abc_AigDeleteNode` still to be made.

| Code | Actions |
|---|---|
| `Abc_AigAnd` of edges not in the table | `AigAnd` |
| `Abc_AigCleanup` | `Cleanup`, then the deletion steps |
| `Abc_AigReplace`, its loop | `Replace`, `Pop` |
| `Abc_AigReplace_int`, a fanout | `PatchCo`, `MergeFanout`, `RebuildFanout`; `FanoutsDone` |
| `Abc_AigDeleteNode` | `NotCalled` (the node has fanouts), `DeleteNode`, `DeleteDone` |
| `Abc_AigUpdateLevel_int` | `LevelsStart`, `UpdateLevel`, `LevelsDone` |

*The callers' contract* is `Replaceable`: the new edge computes what the old node does
and is not built from it.  `Dec_GraphToNetworkCount` and its like refuse a new form
in which the old node comes up.  Any pair of nodes with that property may be given,
and any AND may be made before.

*Abstractions.*  Fanouts are taken in any order (the code's depends on its array).
`UpdateLevel` updates the fanouts of one node together, each from the levels its
fanins have before.  The loop that removes a deleted node's entries from the stack is
modelled with what it does: after a removal it looks at the next index, and so passes
over the entry that has moved down (`Queued`).  `fUpdateLevel` is 1, as the commands
have it by default.

*Not modelled.*  Bins and resizing of the table, `Abc_AigRehash`, levels from the outputs
(`vLevelsR`), choice nodes, `vAddedCells` and `vUpdatedNets`.

## 3. Runs

| Run | Instance | Shows |
|---|---|---|
| `pdr_frames` | 2 flops, 1 input, 2 outputs, at most 3 frames; every next-state function whose first step is to state *a*; four settings (shift start with time-outs, solve all with output time-outs, restarts at two obligations, reuse of obligations); all cubes | all invariants of `Pdr` (`TypeOK` is a conjunct of `IInv`), and that frames only shrink (179,097 states, 25 s) |
| `pdr_reuse` | 2 flops, reuse of obligations with both outputs failing | *violated*: finding 1 |
| `pdr_ctgs` | 6 circuits with 3 flops, 2 outputs, at most 5 frames; the solvers of frames 1 and 2 may be rebuilt; all minterms and four smaller cubes | as long as no output is dropped, what solvers are told ahead of the levels is made good, CTGs included, and no output that fails is reported proved; termination under fairness, also where a solver misses a clause of its frame (122,394 states, 90 s) |
| `pdr_ctg_late` | one circuit with 3 flops, 2 outputs of which one fails after four steps, time slices for outputs, at most 5 frames; all minterms and three smaller cubes | *violated*: finding 2 |
| `process_threads` | 5 entries, every number of processes from 1 to 5 | once per entry, ownership of slots, nobody left, refinement of `ForEach` (which counts the calls), return (42,249 states, 8 s) |
| `split_verdict` | every problem over 2 inputs, 2 threads, with limits 0 and 2 on iterations | verdict, nothing lost, nothing freed in use, return (48,038 states, 6 s) |
| `network_stack` | 6 addresses, 2 contents, `savesteps` 0 or 2, step numbers up to 5 | the list is sound and acts on the history (14,420 states, 20 s) |
| `rrr_run` | six small AIGs with three inputs and up to five ANDs, 2 threads or none, 3 jobs, windows of at most 2 nodes, up to 3 out at a time; also three copies and a single job. With threads: fanins not sorted, greedy, no time limit; without: all eight settings | functions kept until a stop, list sorted, best copy kept, refinement of `RrrQueue` (50,912 states, 110 s) |
| `rrr_queue` | 3 workers, 4 jobs, rounds of any size, spurious wake-ups | no job lost or run twice, nothing left behind, `Run` returns (about 7,000 states, 2 s) |
| `rrr_inputs` | one of the AIGs, without threads | *violated*: finding 3 |
| `aig_replace` | 2 inputs; every hashed graph of three ANDs whose first is the AND of the inputs, and five of five ANDs; one AND more may be made; every allowed replacement and every order of fanouts | nothing pending is freed, hashing, a loop takes a rebuild while another replacement is pending, outputs, levels, the cascade ends (234,938 states, 50 s) |
| `aig_loop` | one hashed graph of ten ANDs over two inputs | *violated*: finding 4 |

*Why the bounds are enough to mean something.*  Two flops give nine cubes, so that
cubes contain each other, shrink, absorb and are absorbed; three frames are
needed for a clause to be pushed twice and for a level to empty below one that is
not empty; two outputs for one to fail or run out of time while the other is
proved.  A CTG is met from frame 3 on and needs cubes of two
literals that can lose one, hence the three flops and five frames of `pdr_ctgs`;
its circuits were chosen so that each step with a CTG occurs, and so that in one of
them (`Hiding`) a solver misses a clause and repeats a predecessor until it is rebuilt,
for which two flops would not do.  With five processes there are four threads, more
than the entries left at the end, so that idle threads are stopped; fewer entries
than threads are covered by the later part of the same run.  Two inputs are
enough for a cofactor to be split again.  Six addresses hold four saved networks,
the current one and a backup, one more than `savesteps` 2 can fill, so that the
bottom of the list is cut; every bound guards an action by name (`nFrameMax`,
`MaxProcs`, `IterMaxes`, `Addresses` through `Enough`, `MaxSteps`, `nJobs`,
`nObjMax`).  `nFrameMax` and `nJobs` are parameters of the code too.

The AIGs of `rrr_run` are chosen so that the hard cases happen: a window whose input
is replaced, by a complemented edge, by a constant, by a node it has already; windows
that share a node; jobs that come back in any order; a second round; fanins whose order of removal
decides the result.  Two of them give a node one node twice as a fanin, and another window is then cut or put
back there (`Twins`, `Echo`).  In `rrr_queue` there are more jobs than workers and, at the end of a
round, more workers than jobs.

Three ANDs over two inputs give pairs of equal and of constant nodes, merges, and
nodes rebuilt in place; the five larger graphs were chosen so that one replacement
sets off a cascade with up to four pending entries, that a node waiting to replace
another loses its fanouts, that one node is on the stack twice, that levels sink, and that a node
becomes an EXOR in a cascade.  All hashed graphs of four ANDs (850,000 states) and random
graphs with up to ten objects (6.6 million states) were checked once in the same way,
outside the time limit kept for the runs here.

*Deadlock* is not checked in the runs: every modelled procedure returns and then
takes no more step, and the shell's model stops at its bounds.  That the
procedures do not stop earlier is what `Terminates` and `Returns` say.

## 4. Fairness

* `PdrCtg`, and with it `Pdr` (`CtgFairSpec`): weak fairness of `CtgNext` (the engine is
  one sequential procedure) and, for each frame in `Worn`, strong fairness of the steps,
  of the engine or of a generalization, that rebuild its solver: a
  solver consulted again and again spends `nRecycle` activation variables and is
  rebuilt (`pdrSat.c:84`).  Without it the engine may go round for ever, and so
  would the code with an unlimited `nRecycle`: `PushMoved` gives the shrunk cube to
  the solver of one frame only.
* `UtilPth`: weak fairness of the manager and of each thread: the operating system
  runs them all, and the caller's function returns.
* `CecSplit`: the same; the SAT solver has a time limit or decides.
* `FrameStack` states no liveness: a user need not type.
* `RrrQueue`: weak fairness of the main thread's steps and of each worker's: a thread
  that holds or waits for a mutex gets it, and a job ends.  Waking up is up to the
  notifications alone (`SpuriousWakeup` has no fairness).
* `RrrRun` states none: it implements the safety part of `RrrQueue`.
* `AigReplace`: weak fairness of `Step`: a procedure that has been called goes on.
  The callers owe nothing.

## 5. What is proved

Checked by TLAPS for every value of the constants that satisfies the named
assumptions.

**Pdr** (`PdrAssumption`: finitely many flops, flop 0 among them, at least one
output and one frame, cubes that include all minterms): `TypeCorrect`,
`FramesOnlyShrink`, `Invariant`, `FramesStayInductive`, `SolversStaySound`,
`LastSolverStaysExact`, `ObligationsStayAhead`, `ProofStaysInductive`, `CexesStayReal`.
So for every circuit, every setting modelled, every choice of models, cores,
generalizations and recycled solvers: frames are inductive, and what is reported
proved is excluded by an inductive invariant, namely the clauses from the lowest
empty level on.

The argument.  That frames are inductive is not inductive by itself.  `IInv` in
`PdrInvariant`, which `pdr_frames` checks too, adds what it rests on:

* A clause is learned on an answer of a *solver*, so solvers must know no more than
  their frames (`SolversSound`).  Outputs are asserted in them too: the outputs
  still to be decided must hold in every closed frame (`ClosedFramesSafe`).
* A cube must not hold the initial state, or its clause would cut it off: `Layout`
  says so of every cube in a level, and `ObligationsAhead` of every obligation.
* When the last frame's solver misses no clause of the last level
  (`LastSolverFull`), an output that holds according to the solver holds in the
  frame, which is what makes a frame closed.
* A proof is claimed because a level has emptied below the one being pushed
  (`PushingEmptied`), and only then (`ProofsFromPushing`): two adjacent frames are
  then the same set, so that it is inductive, and it lies in a closed frame.

`CexesStayReal` says that a counter-example, replayed from the initial state, fails the
output it is reported for, provided `OwnObligations`: there is one output, or
obligations are not reused (`fReuseProofOblig` off).  Without that the property is
false, which is finding 1.  The invariant behind it is `CexInv`: every
obligation in the queue belongs to the output under work (`QueueForOutput`), and
every state of each cube of its chain leads into the next cube and at last to a failure
(`ChainFails`).  The chain is about all states of a cube, so that it survives the
widening of models; the initial state is mentioned apart, because the cube that reached
frame 0 may have been given a positive literal.

**PdrCtg** (`PdrAssumption`; also in `PdrProofs`): `CtgInvariant`, `PendingStaysSound` (`PendingSound`),
`ProofHoldsUntilDrop` and `UnsatHoldsUntilDrop`.  `IInv` is not an invariant here: while
a cube is under work solvers know more than their frames.  What holds instead, in
`CtgInv`, is `SoundOver(Pending)`: the conjuncts of `IInv` with the cube under work counted as
learned at its frame, as long as the run goes on and no output was dropped by its time
limit (`Live`).  Each step of a generalization then reduces to learning a clause,
by the lemma that serves `BlockLearn` in `PdrProofs`, and each step between two
generalizations to `InvNext`.  `EndsWell` carries the conclusion past the end of the run:
it ended in a state of the engine, or gave up and reports nothing as proved.  So the
invariant printed is inductive (`ProofHoldsUntilDrop`), and no reachable state fails
an output reported proved (`UnsatUntilDrop`), until an output is dropped.  The
hypothesis matters: after a drop, `pdr_ctg_late` violates the conclusion
(finding 2).  Reachability is the recursive function `Reach`; that an inductive set
holds every value of it is an induction over numbers (below).

The proof found an error in the model: `DownStart` had no guard that no other cube is
under work.

**UtilPth** (`UtilPthAssumption`): `TypeCorrect`, `SlotsOwned` (a slot is written
only while its thread waits with the flag down, or by that thread), `ThreadsGone`,
`Invariant`, and `Implements`: `Spec => LoopSpec`, the refinement of `ForEach`.
The heart of `IInv` is a table of what the flag, the slot and the thread's place
can be together, for each phase of the manager; the refinement follows because an
entry not yet called is in exactly one of stack and slots, and in none once it was called (`Entries`).

**CecSplit** (`CecSplitAssumption`: finitely many inputs, 2 to 101 processes):
`Invariant`, `VerdictIsRight` (`VerdictRight`), `NoneLost` (`NothingLost`) and
`NoneFreedInUse` (`NotFreedInUse`), for every problem and whatever inputs are split on.
`IInv` adds to `NothingLost` a table of what flag, slot and thread can be together while the
search is on (`SlotInSearch`: a raised flag hands the slot to its thread, and with the flag
down the answer in the slot is about the cofactor in it) and after the wait for all threads
(`SlotPhases`).  The verdict "unsatisfiable" rests on `RoundQuiet`: a round that met no work
so far has passed empty slots only and left the stack empty, so at its end there is no
place left for an assignment.  `HalvesCover` says that a split loses none, `VisitKeeps`
covers the three visits to a slot that may hand over a cofactor.

`TypeCorrect` (`TypeOK`) includes the bound on the number of splits, 2^inputs - 1, which
no clause of the code states and which is why the search ends.  It is a counting argument
(`Count`): cofactors on the stack and in slots never overlap (`Apart`), so that there is a
set of assignments with one more member than there were splits and
exactly one in each cofactor (`Marked`); a split adds one, in the half that had none, and
there are only 2^inputs assignments.

**RrrQueue** (`ThreadsAssumption`: finitely many workers, at least one;
`JobsAssumption`: at least one job): `QueueTypes`, `JobsOnce` (a job is in one queue or with one worker, and
only those taken back are in none), `NoJobLeft` (when the workers are told to leave
nothing is pending, running or finished and forgotten: more than the assertion in
`Thread`), and `DrainFindsJob` (the assertion of `OnJobEnd` without threads).  Two
counts are the heart of it: jobs created equal jobs in the two queues, with workers
and taken back; and the round is drained only when the last two are equal.

**RrrRun** (`CallsAssumption`, `JobsAssumption`, `ThreadsAssumption`: what a call is given,
any number of jobs and workers; of the AIGs, that a fanin comes before its node): `Invariant`,
`QueueImplemented` (`QueueSpec`) and `NoJobLost`.  The operations of the scheduler are those
of `RrrQueue` (`SameOperations`); a call uses them where `RrrQueue` has its main thread
use them (`CreateImplements`, `CloseImplements`, `TakeImplements`, `EndImplements`),
whatever windows are found, whatever the optimizers leave and however a call is
stopped.  Without partitions this needs that nothing was taken back while jobs are
created (`Places`), since that round is closed without the test that closes a round of
windows.  The theorems about `RrrQueue` then hold of the queues of a call (`NoJobLost`).

`BestKept` proves `BestCopyKept`, of any number of copies and workers, in whatever order they
finish.  The invariant (`CopiesInv`) is about the jobs taken back (`Back`, those that are in no
queue and with no worker): the network kept is the cheapest of them, or the one given, and with a
deterministic execution they are the first ones created.  It needs that the network of a
job is no longer changed once it is taken back, which is why it rests on the invariant
of the queues.  That costs are numbers it has from `NetsInv` (below).

`WindowsStayApart` is about the windows that are out: no two share a node (`WindowsApart`, the
part of `TypeOK` that is not about types), exactly their nodes are blocked, and they are the
windows of the jobs not taken back.  It rests on the two loops that find a window: neither ever
adds a blocked node (`InnersUnblocked`, `WindowUnblocked`), whatever the network.

`TypesCorrect` (`TypeOK`) and `ListInOrder` (`IntsTopological`) are about what the networks
of a call are: the list of internal nodes is in topological order, however many windows were
cut out, optimized and put back, in whatever order they came back.  Windows that are out may
depend on each other, an output of a window may be replaced by a node anywhere in the list,
and the evaluation, the cleaning up and the cutting out of the next window pass over the list
once and rely on its order.  The property is not inductive alone.  `NetsInv` says that the
network is sound (`Sound`, `Networks` in `RrrNetworkProofs`): an edge points at a node of the
list or at one that has no fanins, such as an input or the constant (`Alive`), and the list is
in order (`Ordered`); that the network of each job is sound, with as many inputs and outputs as its window
(`IoFits`); and that once the program has stopped nothing is asked of the network.  In the
middle of `Insert` the order is broken: the node that replaces an output may stand behind the
fanouts of the output (`NearlyOrdered`).  `SortStep` then keeps `InOrderOrPending`: an edge that is
against the order is one of those still to be looked at by an open call, so that there is
none when no call is open.
The lemmas that lead there follow the code: `NetworkRead` (an AIG read by `GiaReader`),
`SweptSound` (`Sweep`, each buffer or constant taken out), `Extracted` (a window as
a network of its own), `OptimizedIn` (`TrivialCollapse`, `TrivialDecompose`, `AddFanin`,
removal of fanins), `InsertIn` (`Insert`, unless it stops the program), `CostsAre` (the cost is
a number).

The attempt to prove this changed the model: `SortInts` was modelled by the order it
leaves, by a post-order of the cone, and is now its steps; `Insert` had no outcome for a fanin
that is not found, an output replaced by itself and an output deleted while it has fanouts, which
are assertions of the code (`map`, `self`, `used`); and nothing said what an AIG is.

**AigReplace** (`StartsAssumption`: what a command is given is hashed, without loops, with
right levels): `InvHolds`, `TypeCorrect`, `GraphChecks` (`AigCheck`), `NothingIsStale`;
`LoopNeedsRebuild` (`LoopsTakeOverlap`), and two forms of `FunctionsKept` under a hypothesis:
`OutputsKeepFunctions` (`NewApart`) and `FunctionsNeedRebuild` (`~overlapped`).
Neither `AigCheck` nor `NothingStale` is inductive.  `IInv` adds where the entries of the stack, of `cur`
and of `dying` may point (`Layout`), and `LevelsOwed`: in the middle of a replacement a
level may be wrong, but then a fanin of the node is marked, and while levels are
updated it is so until the marks are gone.  That nothing pending is freed rests on
`Awaited`: a node that is to replace another is kept even without fanouts.  That a
fanout is still one when its turn comes rests on hashing: it is only ever this fanout
whose fanins change while the others wait.  EXOR marks depend on fanins two levels
down; a rebuilt node can only change its own mark and those of its fanouts.

`NewApart` says that, while a replacement is made, the new node is not built from the old
one; it and `NoLoop` are what one would like to prove of every behaviour.  Both are false: a cascade can
close a loop (finding 4).  What is proved, without any hypothesis, is when that
can happen.  `overlapped` is a history variable, which guards nothing: it is set when a fanout is
rebuilt while another replacement is pending, and stays set.  `LoopsTakeOverlap` says that, until it is
set, there is no loop and the new node is not built from the old one.  It is inductive together
with the same of every entry of the stack (`InTurn`).  No step closes a
loop as long as the new node is apart (`RebuildNoLoop`: a loop through a rebuilt fanout would have led
from the new node to the old one before), and from the absence of loops follows what the network computes.
A fanout is merged into a node that is not built from it (`MergedApart`: of the nodes built
from the fanout each would otherwise have a fanin among them, `FaninApart`), deletions leave
the two apart, and so does rebuilding a fanout of the old node itself; only another rebuild in between can put
one above the other.  Replacements that only rebuild, and cascades that only merge, are
therefore safe in every graph, and it is the mixture of the two, as in finding 4, that is not.  In a graph without
loops the equations of the nodes have exactly one solution (`ValuedExists`, `ValuedOnce`,
by taking a node without fanins among those that have no value yet, or two), so that
`Values`, which is recursive, can be reasoned about: a part of a graph computes what it
does in the whole (`PartComputes`), and a rebuilt fanout computes what it did
(`RebuildKeepsValues`).  The invariant is `Promised`: the new edge of every entry of the
stack computes what the old node does, if that one is still there; what
`Abc_AigAndLookup` finds is the AND of its arguments (`LookupValue`), so that a fanout that
is merged makes such a promise again.

**FrameStack** (`FrameStackAssumption`: finitely many addresses, `savesteps` a natural
number): `Invariant`, `TypeCorrect`, `StackIsSound` (`StackSound`), `StepsAreNumbered`
(`StepsCountDown`), `NothingLeaks` (`NoLeakWithBackup`) and `HistoryImplemented`
(`CommandsActOnHistory`), for every number of addresses, contents and steps saved.
`IInv` says that the networks from `pNtkCur` on form a list without repetition (`Chain`)
whose step numbers fall by one from the current one (`Numbered`), and that the separate
backup is not in it (`Loose`).  The operations on the heap (`TopGood`, `CutGood`,
`SetGood`, `SwapGood`, `ReplaceOnTop`, ...) each have a lemma that says which list the result
holds, what is left outside it, and which contents are seen along it; a command is the
composition of a few, and its step of `NtkHistory` is read off those contents.
`savesteps` is bounded below by 0 on purpose: for -1 the code deletes the current
network (observation 10).

**Induction.**  The library's induction theorems take an operator as a parameter and
cannot be used.  Sets of numbers can: the order of the numbers is well founded, so
that a set of numbers has a least member (`LeastOf` in `PdrProofs`), a
set that holds 0 and the successor of each member holds every number
(`NumberInduction`, `IntervalInduction`), and a function on numbers with a given start
and step exists (`RecursionExists`).  With these the recursive *functions* of the
models can be proved about: the walk along the list of networks, the replay of a
counter-example, the reachable states, the growth of a window.  So can folds: a fold is
a function from sets of places, by the definition of the community modules, and such a
function exists and keeps what each step keeps (`FoldExists`, `FoldStays` in
`RrrNetworkProofs`); a lemma cannot have the step as a parameter, so each fold of
`RrrNetwork` has a proof of its own.

Only model-checked:

* All liveness (`Terminates`, `Returns`, `RunReturns`, `ReplaceReturns`), which is out of
  the prover's reach.
* `FunctionsKept` of `RrrRun`: that what the outputs compute is kept until the program stops, which
  needs, beyond the order of the list, what a window computes and that windows put back one
  after another agree; `RrrNetworkProofs` is the ground for it.
* `FunctionsKept` of `AigReplace` for cascades that rebuild a fanout while other replacements
  are pending: it holds in the graphs of `aig_replace`, and in general it does not
  (once the loop of finding 4 is closed).

## 6. Findings

1. **pdr -p reports a counter-example for the wrong output** (`pdrMan.c:418`,
   run `pdr_reuse`).  Obligations put off past the last frame outlive the output
   they belong to; when one reaches frame 0 the chain is attributed to the output
   under work.
2. **pdr -a -H t -n -c may report an output proved that fails**
   (`pdrCore.c:544`, run `pdr_ctg_late`).  When the time slice of an output ends while
   a CTG is pushed, the answer -1 is taken for "holds": a core of one literal is
   learned in the last frame, where nothing shows it unreachable.  The output is then
   dropped, and the run goes on with a clause that excludes reachable states.  In the
   run, frame 3 loses all states with *c*, though {*a*, *c*} is reached in three steps
   and {*b*, *c*}, which fails the second output, in four; the clauses of level 2 move
   up, the level is empty, and the second output is reported proved (1 in `vOutMap`).
   The engine's check of its invariant would print "Verification of clause %d failed.",
   and changes no verdict.  Up to a drop no such thing happens (`UnsatHoldsUntilDrop`).
3. **&rrr stops when an input of a window has become constant**
   (`rrrAndNetwork.h:1447`, run `rrr_inputs`).  Inputs of windows that are out follow
   what is replaced (`rrrPartitioner.h:327-331`), and that may be the constant node,
   which the assertion does not allow for.
4. **A replacement may close a combinational loop** (`abcAig.c:951`, run `aig_loop`).  A
   fanout that becomes equal to an existing node waits on the stack for its turn; what the
   cascade does meanwhile can put that node above the fanout, and nothing looks again.
   In the run 3 = 1·2, 4 = 1·3, 5 = 3'·4, 6 = 1·4, 7 = 2·6, 8 = 5·7, 9 = 2·8', 10 = 4·9,
   11 = 3·9, 12 = 2·3, all of 10, 11 and 12 outputs, and 4 is replaced by 3, its equal, with its
   fanouts taken in the order 10, 6, 5:

   | Step | Effect |
   |---|---|
   | fanouts of 4 | 10 is to become 11, 6 to become 4, 5 to become 0 |
   | 5 by 0, 8 by 0, 9 by 2 | 11 is to become 12; 10 is rebuilt as 2·4 |
   | 11 by 12 | 11 = 3·9 loses its output, but is kept: it is to replace 10 |
   | 6 by 4 | 7 is to become 10 |
   | 7 by 10 | 8 is rebuilt as 5·10 |
   | 10 by 11 | 8 is rebuilt as 5·11, where 11 is built from 9 and 9 from 8 |

   The assertion at 951 looks for loops of one or two nodes; this one has three.  The header promises "the AND nodes
   are in the topological order" (35), and `Abc_NtkCheck` refuses such a network
   (`abcCheck.c:197-202`).  The order of the fanouts
   arises in the program: built with one node more, x = 2·4, in the place of 4 in the
   fanins of 6 and 5, and replacing x by 4 first, the library itself makes the loop when 4 is
   replaced by 3, and `Abc_NtkIsAcyclic` reports it.

Observations without a run, met while reading:

1. `pdr -Q 1`: `nQueLim * 3 / 2` stays 1, so that blocking restarts for ever
   (`pdrCore.c:1271`).
2. `nRecycle = 0` makes the assert at `pdrSat.c:86` fail.
3. `pdr -j` (`fSimpleGeneral`): the body of `Pdr_ManGeneralize2` is under `#if 0`
   (`pdrCore.c:882`), so that it returns no cube and `Pdr_ManGeneralize` (1070-1074)
   goes on with a NULL pointer.
4. The asserts at `pdrCore.c:547` and `573` stop the program when a later query of an
   attempt as in finding 2 runs out of time too.  Even without such an attempt a drop in
   the middle of a generalization leaves the cube under work in the solvers of frames
   1..k (526-531), in no level; clauses pushed with its help can make the invariant
   printed not inductive.  Whether a wrong verdict can come of that alone is open.
5. `&splitprove`: the cofactor for value 1 records value 0 (`cecSplit.c:677`), where the
   serial version at line 485 records the value taken; a combinational
   counter-example may be wrong.
6. `&splitprove`: under "// stop threads" (`cecSplit.c:709`) slots that are idle are
   skipped (715), and their threads spin for ever on a stack frame that is gone.
7. `Cec_GiaSplitTest` stops the manager of an output (`cecSplit.c:753`) before it
   takes the counter-example out of it (757).
8. `cecSplit.c:707` waits for a plain field to change; a compiler may hoist the
   read.
9. "This procedure does not modify the stack of saved networks" is not so with the
   flag `backup` off (`mainFrame.c:530-531`, 556).
10. `set savesteps -1` deletes the network that is current (`mainFrame.c:477-481`).
11. `recall` refuses the newest step although its message offers it
   (`cmd.c:1076-1087`).
12. `Cec_GiaWaitThreads` of `&prove` reads a flag twice (`cecProve.c:240`, `246`) and
   its threads are not joined (314).
13. `absPth.c:100`: a cancelled prover may raise the flag after its reset.
14. `&rrr`: removing what a window leaves unused may delete the output of a window that
   is out; putting that one back erases the end of a list
   (`rrrAndNetwork.h:1508`, 1232).
15. `&rrr`: two inputs of a window that become one node give its copy a repeated
   fanin, against "no duplicated fanins allowed" (`rrrAndNetwork.h:30`); the assertion
   at 852 fails later, or the one at 1484 (which no instance checked reaches).
16. `&rrr`: windows that are out are tested for loops in pairs; three may close one.
   No instance checked has it.
17. `rrrScheduler.h:513`, "it is deterministic anyways": windows come back in the order
   the threads end, and what is cut next depends on it.
18. `rrrScheduler.h:522`: `Print` reads the network of a job that a worker may be
   changing.
19. `&rrr`: `RemoveConst` takes a node whose only fanin is the constant 1 for a constant 0;
   nothing found makes such a node.
20. `abcAig.c:1001-1012`: the loop that takes a node's entries off the stack passes over
   the entry behind a removed one.  The entry left refers to an object that has been
   zeroed and recycled (`abcObj.c:90-93`), and no object is made before the end of the
   cascade, so that it has no fanouts and the entry is dropped later.
21. `abcAig.c:32`, "there are no dangling nodes": a node kept because it was to replace
   another is left without fanouts when that entry is dropped (3 = ab, 4 = b3, 5 = 34,
   6 = 35, 7 = 45; replace 4 by 3).  `Abc_AigCleanup` removes it.
22. The node replaced may stay: a fanout may become equal to the old node itself
   (3 = ab, 4 = b3, 5 = b4; replacing 4 by 3 replaces 5 by 4).  The assertion that the
   gain is as expected (`decAbc.c:253`) is commented out.
23. `abcAig.c:35`, "the AND nodes are in the topological order" of their numbers: not after
   a node is rebuilt with a newer fanin.

## 7. Plan

Done: the core of pdr and its generalization with CTGs, with proofs; one
thread pool with proofs and refinement, a second one with proofs; the network list
with proofs and refinement; the optimizer rrr, its queues with proofs and a composition
proved to implement them; the AIG of a network, its replacements with proofs.

Left, in this order:

1. `RrrRun`: `FunctionsKept`, proved from the order of the list; which of the ends
   (`map`, `self`, `repeated`, `cycle`, `used`) no call can reach.
2. `CecSplit`: a second call on slots that leftover threads still watch.
3. `AigReplace`: levels from the outputs (`vLevelsR`), `Abc_AigRehash`; which of the
   commands can meet finding 4, whose new forms are checked against the node they replace only.
4. `Pdr`: `fBlocking`, constant outputs and callbacks; `pdrIncr.c`.  `PdrCtg`:
   `UnsatNeverFails` after a drop that follows no late CTG, proved or refuted.
5. New modules: `CecProve` (rounds of engines, the double read), `AbsPth` (late
   answers; abstract: an answer belongs to the abstraction that asked),
   `BmcsMulti` (the race), `CmdStarter`.  `sswPart.c` and `giaTranStoch.c` as instances
   of `UtilPth`.
6. rrr: multiple resubstitution, flows 1 to 3, candidates within a distance, the partitioner by levels.

## 8. Not modelled

The SAT solvers (`sat/`) and ternary simulation are specified by what they return.
The other AIG packages (`aig/`, the GIA), BDD and truth-table packages, synthesis,
mapping, retiming and sequential equivalence algorithms compute functions whose
correctness is functional equivalence: tiny circuits would show little, and they have
no interleaving.  What they do to a network step by step is in `AigReplace`.
Readers, writers and printing are input and output.  CUDD, the bundled SAT solvers
and compression libraries are third-party code.  The LSV command prints the nodes
of the current network and keeps no state.
