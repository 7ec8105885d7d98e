--------------------------- MODULE UtilPthInvariant ---------------------------
(***************************************************************************)
(* The inductive invariant of UtilPth.                                     *)
(***************************************************************************)
EXTENDS UtilPth

Started   == 0 .. (nProcs - 2)
Serial    == mpc \in {"serial", "call"}
Working   == mpc \in {"scan", "fill", "start", "wait"}
Stopping  == mpc \in {"clear", "stop"}

\* Thread t is told to stop.
Told(t) == pUserData[t] = NULL /\ fWorking[t] /\ wpc[t] \in {"spin", "look", "exit"}

\* Which threads exist, and which the manager has passed in its current loop.
Control ==
  /\ Serial <=> (nProcs <= 2 /\ mpc # "return")
  /\ ~Serial /\ mpc # "return" => i \in Started
  /\ \A t \in Threads : wpc[t] = "none" <=>
       (nProcs <= 2 \/ t \notin Started \/ (mpc = "create" /\ t >= i))
  /\ mpc = "create" => \A t \in Threads : ~fWorking[t]
  /\ Working => \A t \in Threads : wpc[t] # "exit"
  /\ mpc = "wait" => \A t \in Threads : t < i => ~fWorking[t]
  /\ Stopping => \A t \in Started : IF t < i THEN Told(t) ELSE ~fWorking[t]
  /\ mpc = "stop" => pUserData[i] = NULL
  /\ mpc = "join" => \A t \in Started : Told(t) /\ (t < i => wpc[t] = "exit")

\* The flag is up from the moment a slot is handed over until its release.
Handshake ==
  /\ \A t \in Threads : /\ wpc[t] = "none" => ~fWorking[t]
                        /\ wpc[t] \in {"look", "call", "release", "exit"} => fWorking[t]
  /\ Working => \A t \in Threads : fWorking[t] => pUserData[t] # NULL
  /\ mpc \in {"fill", "start"} => ~fWorking[i]

\* Entry x is on its way: popped, in a slot, or in a call.
InHand(x) ==
  \/ mpc = "fill" /\ x = item
  \/ mpc = "start" /\ x = pUserData[i]
InSlot(t, x) == fWorking[t] /\ wpc[t] \in {"spin", "look"} /\ pUserData[t] = x
InCall(t, x) == wpc[t] = "call" /\ arg[t] = x

\* The entries whose call began, and ended.
Begun    == {x \in Items : begun[x] > 0}
Finished == {x \in Items : finished[x] > 0}

\* No entry is passed to the user function twice.
Once == \A x \in Items : begun[x] \in 0 .. 1 /\ finished[x] \in 0 .. 1

\* Every entry popped is in one place only, or its call is over.
Entries ==
  /\ Finished \subseteq Begun
  /\ ~Serial /\ mpc # "return" => Begun \subseteq (vStack + 1) .. nItems
  /\ mpc = "create" => vStack = nItems
  /\ mpc = "scan" => vStack > 0
  /\ mpc = "fill" => item \in Items /\ item = vStack + 1
  /\ mpc = "start" => pUserData[i] \in Items /\ pUserData[i] = vStack + 1
  /\ mpc \in {"wait", "clear", "stop", "join"} => vStack = 0
  /\ \A x \in Items : InHand(x) => x \notin Begun
  /\ \A x \in Items, t \in Threads :
       /\ InSlot(t, x) => x > vStack /\ x \notin Begun /\ ~InHand(x)
       /\ InCall(t, x) => x \in Begun \ Finished
       /\ \A u \in Threads : u # t => /\ ~(InSlot(t, x) /\ InSlot(u, x))
                                      /\ ~(InCall(t, x) /\ InCall(u, x))
  /\ ~Serial /\ mpc # "return" =>
       \A x \in Items : \/ x <= vStack \/ x \in Finished \/ InHand(x)
                        \/ \E t \in Threads : InSlot(t, x) \/ InCall(t, x)
  /\ mpc = "serial" => i \in 0 .. nItems /\ Begun = 1 .. i /\ Finished = 1 .. i
  /\ mpc = "call" => /\ i \in 1 .. nItems /\ Begun = 1 .. i
                     /\ item = i /\ Finished = 1 .. (i - 1)
  /\ mpc = "return" => Finished = Items

\* A call in progress has an entry of vData for its argument.
CallsKnown == \A t \in Threads : wpc[t] = "call" => arg[t] \in Items

IInv == TypeOK /\ CallsKnown /\ Control /\ Handshake /\ Once /\ Entries /\ NoThreadLeft
=============================================================================
