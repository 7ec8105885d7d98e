------------------------------ MODULE NtkHistory ------------------------------
(***************************************************************************)
(* What a user of the ABC shell sees of the networks it keeps: a history   *)
(* of network contents, the current one first, numbered by steps that      *)
(* "recall" takes.  FrameStack adds the linked list of networks and copies *)
(* that implements it.                                                     *)
(***************************************************************************)
EXTENDS Integers, Sequences

CONSTANT Data

VARIABLES history,   \* contents, the current network first
          nSteps,    \* step number of the current network
          backup,    \* the flag that makes commands save the network
          savesteps  \* saved networks to keep

settings == <<backup, savesteps>>

\* One saved network too many: the oldest goes.
Kept(h) == IF Len(h) - 1 > savesteps THEN SubSeq(h, 1, Len(h) - 1) ELSE h

Push(d) ==
  /\ history' = Kept(<<d>> \o history) /\ nSteps' = nSteps + 1
  /\ UNCHANGED settings

\* A command that changes the network: without backup only its result is left.
Command(d) ==
  IF backup THEN Push(d)
  ELSE history' = <<d>> /\ nSteps' = nSteps + 1 /\ UNCHANGED settings

\* A command that fails: what it would have changed is saved all the same.
Again == IF backup /\ history # <<>> THEN Push(history[1])
         ELSE UNCHANGED <<history, nSteps, settings>>

\* A command that is not saved before it runs changes the top in place.
Overwrite(d) ==
  IF backup /\ history # <<>>
  THEN history' = <<d>> \o Tail(history) /\ UNCHANGED <<nSteps, settings>>
  ELSE Command(d)

Undo == Len(history) > 1 /\ Push(history[2])

Recall(iStep) ==
  /\ iStep \in (nSteps - Len(history) + 1) .. (nSteps - 1)
  /\ Push(history[nSteps - iStep + 1])

Empty == history' = <<>> /\ UNCHANGED <<nSteps, settings>>
=============================================================================
