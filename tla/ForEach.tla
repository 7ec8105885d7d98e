------------------------------- MODULE ForEach -------------------------------
(***************************************************************************)
(* What a caller of Util_ProcessThreads (src/misc/util/utilPth.c) relies   *)
(* on: the user function is called exactly once for every entry of vData,  *)
(* and all calls are over when the procedure returns.                      *)
(*                                                                         *)
(* The calls are counted: a second call of an entry changes the count, and *)
(* no step below allows it.                                                *)
(***************************************************************************)
EXTENDS Naturals

CONSTANT Items

VARIABLES begun, finished, \* how often each entry's call began, and ended
          returned

Init ==
  /\ begun = [x \in Items |-> 0] /\ finished = [x \in Items |-> 0]
  /\ returned = FALSE

Begin(x) ==
  /\ ~returned /\ begun[x] = 0
  /\ begun' = [begun EXCEPT ![x] = @ + 1]
  /\ UNCHANGED <<finished, returned>>

End(x) ==
  /\ ~returned /\ finished[x] < begun[x]
  /\ finished' = [finished EXCEPT ![x] = @ + 1]
  /\ UNCHANGED <<begun, returned>>

Return ==
  /\ ~returned /\ \A x \in Items : finished[x] = 1
  /\ returned' = TRUE
  /\ UNCHANGED <<begun, finished>>

Next == (\E x \in Items : Begin(x) \/ End(x)) \/ Return

Spec == Init /\ [][Next]_<<begun, finished, returned>>
=============================================================================
