------------------------------ MODULE FrameStack ------------------------------
(***************************************************************************)
(* The networks of the ABC shell (src/base/main/mainFrame.c and the        *)
(* commands of src/base/cmd/cmd.c): the current network heads a linked     *)
(* list of saved ones, which the dispatcher extends with a copy before a   *)
(* command that changes the network, and "undo" and "recall" read.         *)
(*                                                                         *)
(* A network is a block of memory at an address; of its contents only      *)
(* their identity counts.  The shell runs one command at a time, so that a *)
(* command with all it calls is one action; the calls are functions on a   *)
(* record of the fields of Abc_Frame_t they change.                        *)
(***************************************************************************)
EXTENDS Integers, FiniteSets, Sequences

CONSTANTS Addresses, NULL,
          Data,      \* contents of networks
          SaveSteps, \* values of the variable "savesteps"
          MaxSteps   \* bound on nSteps

ASSUME FrameStackAssumption ==
  /\ IsFiniteSet(Addresses) /\ NULL \notin Addresses
  /\ SaveSteps \subseteq Nat /\ MaxSteps \in Nat \ {0}

VARIABLES
  ntks,              \* the networks in memory
  pNtkCur, nSteps,   \* the current network, the number of steps so far
  pNtkBackup,        \* the network kept by the command "backup"
  backup, savesteps  \* the shell's variables of that name

settings == <<backup, savesteps>>
vars == <<ntks, pNtkCur, nSteps, pNtkBackup, settings>>

-----------------------------------------------------------------------------
(* The list of networks that starts at pNtkCur.  A list longer than there  *)
(* are addresses is a cycle; a list is read no further than a freed block. *)

Abc_NtkBackup(f, a) == IF a \in DOMAIN f.ntks THEN f.ntks[a].pNetBackup ELSE NULL
List(f) ==
  LET at[n \in 1 .. (Cardinality(Addresses) + 1)] ==
        IF n = 1 THEN f.pNtkCur ELSE Abc_NtkBackup(f, at[n - 1])
  IN  [n \in 1 .. Cardinality({m \in DOMAIN at : at[m] # NULL}) |-> at[n]]

Frame == [ntks |-> ntks, pNtkCur |-> pNtkCur, nSteps |-> nSteps]
Become(f) == ntks' = f.ntks /\ pNtkCur' = f.pNtkCur /\ nSteps' = f.nSteps

\* Memory.
Unused(f) == CHOOSE a \in Addresses : a \notin DOMAIN f.ntks
Enough(f, n) == Cardinality(DOMAIN f.ntks) + n <= Cardinality(Addresses)

New(f, a, d) == [f EXCEPT !.ntks = [x \in DOMAIN f.ntks \cup {a} |->
  IF x = a THEN [data |-> d, pNetBackup |-> NULL, iStep |-> 0] ELSE f.ntks[x]]]
Deleted(f, A) == [f EXCEPT !.ntks = [x \in DOMAIN f.ntks \ A |-> f.ntks[x]]]

-----------------------------------------------------------------------------
(* Functions of mainFrame.c.                                               *)

\* Slip: the stack is cut without cleaning the pointer to the last network.
CutDangling(f) ==
  LET list == List(f)
  IN  IF Len(list) - 1 > savesteps THEN Deleted(f, {list[Len(list)]}) ELSE f

\* One network more than savesteps allows: the last one is deleted.
Cut(f) ==
  LET list == List(f)
  IN  IF Len(list) - 1 > savesteps
      THEN Deleted([f EXCEPT !.ntks[list[Len(list) - 1]].pNetBackup = NULL],
                   {list[Len(list)]})
      ELSE f

\* Slip: the counter of steps is advanced twice.
SetCountingTwice(f, a) ==
  Cut([f EXCEPT !.ntks[a].pNetBackup = f.pNtkCur, !.ntks[a].iStep = f.nSteps + 1,
                !.nSteps = f.nSteps + 2, !.pNtkCur = a])

\* The given network heads the list; it has the next step number.
Abc_FrameSetCurrentNetwork(f, a) ==
  Cut([f EXCEPT !.ntks[a].pNetBackup = f.pNtkCur, !.ntks[a].iStep = f.nSteps + 1,
                !.nSteps = f.nSteps + 1, !.pNtkCur = a])

\* Slip: the two networks keep their own step numbers.
SwapKeepingSteps(f) ==
  LET back == f.ntks[f.pNtkCur].pNetBackup
  IN  IF back = NULL THEN f
      ELSE [f EXCEPT !.ntks[f.pNtkCur].pNetBackup = f.ntks[back].pNetBackup,
                     !.ntks[back].pNetBackup = f.pNtkCur,
                     !.pNtkCur = back]

\* The first two networks of the list change places, but not step numbers.
Abc_FrameSwapCurrentAndBackup(f) ==
  LET cur == f.pNtkCur
      back == f.ntks[cur].pNetBackup
  IN  IF back = NULL THEN f
      ELSE [f EXCEPT !.ntks[cur].pNetBackup = f.ntks[back].pNetBackup,
                     !.ntks[cur].iStep = f.ntks[back].iStep,
                     !.ntks[back].pNetBackup = cur,
                     !.ntks[back].iStep = f.ntks[cur].iStep,
                     !.pNtkCur = back]

\* Slip: the network replaced is not deleted.
ReplaceKeeping(f, a) ==
  IF f.pNtkCur # NULL /\ backup
  THEN [f EXCEPT !.ntks[a].pNetBackup = f.ntks[f.pNtkCur].pNetBackup,
                 !.ntks[a].iStep = f.ntks[f.pNtkCur].iStep, !.pNtkCur = a]
  ELSE [f EXCEPT !.ntks[a].iStep = f.nSteps + 1, !.nSteps = f.nSteps + 1,
                 !.pNtkCur = a]

\* With backup the new network takes the place of the current one in the list;
\* without, it starts a list of its own.
Abc_FrameReplaceCurrentNetwork(f, a) ==
  LET placed ==
        IF f.pNtkCur # NULL /\ backup
        THEN [f EXCEPT !.ntks[a].pNetBackup = f.ntks[f.pNtkCur].pNetBackup,
                       !.ntks[a].iStep = f.ntks[f.pNtkCur].iStep, !.pNtkCur = a]
        ELSE [f EXCEPT !.ntks[a].iStep = f.nSteps + 1, !.nSteps = f.nSteps + 1,
                       !.pNtkCur = a]
  IN  Deleted(placed, {f.pNtkCur})

Abc_FrameDeleteAllNetworks(f) ==
  LET list == List(f)
  IN  [Deleted(f, {list[n] : n \in DOMAIN list}) EXCEPT !.pNtkCur = NULL]

-----------------------------------------------------------------------------
Init ==
  /\ ntks = <<>> /\ pNtkCur = NULL /\ nSteps = 1 /\ pNtkBackup = NULL
  /\ backup \in BOOLEAN /\ savesteps \in SaveSteps

More == nSteps < MaxSteps
Copy(f, a) == New(f, Unused(f), f.ntks[a].data)

\* CmdCommandDispatch saves the network before a command marked as changing it:
\* the copy is saved, the network itself stays current.
Dispatched(f) ==
  IF f.pNtkCur # NULL /\ backup
  THEN Abc_FrameSwapCurrentAndBackup(
         Abc_FrameSetCurrentNetwork(Copy(f, f.pNtkCur), Unused(f)))
  ELSE f

\* A command that reads or derives a network: it succeeds, or it fails after
\* the copy has been saved.
Command(d) ==
  /\ More /\ Enough(Frame, 2)
  /\ LET f == Dispatched(Frame)
     IN Become(Abc_FrameReplaceCurrentNetwork(New(f, Unused(f), d), Unused(f)))
  /\ UNCHANGED <<pNtkBackup, settings>>

CommandFails ==
  /\ More /\ Enough(Frame, 1)
  /\ Become(Dispatched(Frame))
  /\ UNCHANGED <<pNtkBackup, settings>>

\* "l2s" and its like: the result is put on top by the command itself.
Derive(d) ==
  /\ pNtkCur # NULL /\ More /\ Enough(Frame, 1)
  /\ Become(Abc_FrameSetCurrentNetwork(New(Frame, Unused(Frame), d), Unused(Frame)))
  /\ UNCHANGED <<pNtkBackup, settings>>

\* "undo", and "recall" without an argument.
Undo ==
  /\ pNtkCur # NULL /\ ntks[pNtkCur].pNetBackup # NULL
  /\ More /\ Enough(Frame, 1)
  /\ Become(Abc_FrameSetCurrentNetwork(Copy(Frame, ntks[pNtkCur].pNetBackup),
                                       Unused(Frame)))
  /\ UNCHANGED <<pNtkBackup, settings>>

\* The network of the list with the given step number, if there is one (slip:
\* the one after it).
FoundAfter(iStep) ==
  LET list == List(Frame)
  IN  {list[n] : n \in {m \in 2 .. Len(list) : ntks[list[m - 1]].iStep = iStep}}
Found(iStep) ==
  LET list == List(Frame)
  IN  {list[n] : n \in {m \in DOMAIN list : ntks[list[m]].iStep = iStep}}

Recall(iStep) ==
  /\ pNtkCur # NULL /\ iStep < nSteps
  /\ More /\ Enough(Frame, 1)
  /\ \E a \in Found(iStep) :
       Become(Abc_FrameSetCurrentNetwork(Copy(Frame, a), Unused(Frame)))
  /\ UNCHANGED <<pNtkBackup, settings>>

\* "empty" and "recall 0".
Empty ==
  /\ Become(Abc_FrameDeleteAllNetworks(Frame))
  /\ UNCHANGED <<pNtkBackup, settings>>

\* "backup": a copy outside the list, which replaces the one kept before.
Backup ==
  /\ pNtkCur # NULL /\ Enough(Frame, 1)
  /\ LET f == Deleted(Frame, {pNtkBackup})
     IN Become(Copy(f, pNtkCur)) /\ pNtkBackup' = Unused(f)
  /\ UNCHANGED settings

\* "restore".
Restore ==
  /\ pNtkBackup # NULL /\ More /\ Enough(Frame, 1)
  /\ Become(Abc_FrameReplaceCurrentNetwork(Copy(Frame, pNtkBackup), Unused(Frame)))
  /\ UNCHANGED <<pNtkBackup, settings>>

\* "set", "unset".
Set ==
  /\ backup' \in BOOLEAN /\ savesteps' \in SaveSteps
  /\ UNCHANGED <<ntks, pNtkCur, nSteps, pNtkBackup>>

Next ==
  \/ \E d \in Data : Command(d) \/ Derive(d)
  \/ CommandFails \/ Undo \/ (\E iStep \in 1 .. nSteps : Recall(iStep))
  \/ Empty \/ Backup \/ Restore \/ Set

Spec == Init /\ [][Next]_vars

-----------------------------------------------------------------------------
(* Properties.                                                             *)

Stack == List(Frame)
Stacked == LET list == Stack IN {list[n] : n \in DOMAIN list}
Contents == LET list == Stack IN [n \in DOMAIN list |-> ntks[list[n]].data]
Leaked == DOMAIN ntks \ (Stacked \cup {pNtkBackup})

\* Every variable keeps its type.
TypeOK ==
  /\ DOMAIN ntks \subseteq Addresses
  /\ \A a \in DOMAIN ntks :
       ntks[a] \in [data : Data, pNetBackup : Addresses \cup {NULL}, iStep : 0 .. MaxSteps]
  /\ {pNtkCur, pNtkBackup} \subseteq Addresses \cup {NULL}
  /\ nSteps \in 1 .. MaxSteps /\ backup \in BOOLEAN /\ savesteps \in SaveSteps

\* The list has no cycle, holds no freed network and does not share one with
\* the command "backup", so that deleting a network is safe.
StackSound ==
  /\ Stacked \cup ({pNtkBackup} \ {NULL}) \subseteq DOMAIN ntks
  /\ pNtkBackup \notin Stacked
  /\ Cardinality(Stacked) = Len(Stack)

\* Steps count down along the list from nSteps: "recall" cannot confuse two
\* networks, and refusing iStep >= nSteps refuses only the current one.
StepsCountDown ==
  LET list == Stack IN \A n \in DOMAIN list : ntks[list[n]].iStep = nSteps - n + 1

\* A step taken with backup on leaks no network.
NoLeakWithBackup == [][backup => Leaked' \subseteq Leaked]_vars

\* What a user sees of the networks is a history that each command changes as
\* documented, whatever the copies, swaps and deletions underneath.
History == INSTANCE NtkHistory WITH history <- Contents
ActsOnHistory ==
  /\ \A d \in Data : (Command(d) => History!Command(d)) /\ (Derive(d) => History!Push(d))
  /\ CommandFails => History!Again
  /\ Undo => History!Undo
  /\ \A iStep \in 1 .. nSteps : Recall(iStep) => History!Recall(iStep)
  /\ Empty => History!Empty
  /\ Backup \/ Set => UNCHANGED Contents
  /\ Restore => History!Overwrite(ntks[pNtkBackup].data)
CommandsActOnHistory == [][ActsOnHistory]_vars
=============================================================================
