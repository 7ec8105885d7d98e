---------------------------- MODULE UtilPthProofs ----------------------------
(***************************************************************************)
(* Util_ProcessThreads implements ForEach, for every number of entries and *)
(* of processes.                                                           *)
(***************************************************************************)
EXTENDS UtilPthInvariant, TLAPS

USE UtilPthAssumption DEF Items, Threads, NULL

-----------------------------------------------------------------------------
(* The calls are counted.                                                  *)

\* The first call of an entry puts it among those begun, and counts one.
LEMMA CountBegin ==
  ASSUME begun \in [Items -> Nat], Once, NEW y \in Items, y \notin Begun,
         begun' = [begun EXCEPT ![y] = @ + 1]
  PROVE  /\ Begun' = Begun \cup {y} /\ begun' \in [Items -> Nat]
         /\ begun[y] = 0 /\ \A x \in Items : begun'[x] \in 0 .. 1
<1>1. begun[y] = 0
  BY DEF Begun
<1>2. \A x \in Items : begun'[x] = IF x = y THEN 1 ELSE begun[x]
  BY <1>1
<1>3. begun' \in [Items -> Nat]
  OBVIOUS
<1>4. Begun' = Begun \cup {y}
  BY <1>2 DEF Begun
<1> QED BY <1>1, <1>2, <1>3, <1>4 DEF Once

\* The end of an entry's only call puts it among those finished.
LEMMA CountEnd ==
  ASSUME finished \in [Items -> Nat], Once, NEW y \in Items, y \notin Finished,
         finished' = [finished EXCEPT ![y] = @ + 1]
  PROVE  /\ Finished' = Finished \cup {y} /\ finished' \in [Items -> Nat]
         /\ finished[y] = 0 /\ \A x \in Items : finished'[x] \in 0 .. 1
<1>1. finished[y] = 0
  BY DEF Finished
<1>2. \A x \in Items : finished'[x] = IF x = y THEN 1 ELSE finished[x]
  BY <1>1
<1>3. finished' \in [Items -> Nat]
  OBVIOUS
<1>4. Finished' = Finished \cup {y}
  BY <1>2 DEF Finished
<1> QED BY <1>1, <1>2, <1>3, <1>4 DEF Once

-----------------------------------------------------------------------------
(* Every action keeps the inductive invariant.                             *)

\* The serial loop of at most two processes keeps the invariant.
LEMMA InvSerial ==
  ASSUME IInv, SerialCall \/ SerialReturn \/ SerialDone
  PROVE  IInv'
<1>a. ASSUME SerialCall
      PROVE  /\ Begun' = Begun \cup {i + 1} /\ begun' \in [Items -> Nat]
             /\ finished' = finished /\ Finished' = Finished /\ Once'
  <2>1. i + 1 \in Items /\ i + 1 \notin Begun
    BY <1>a DEF SerialCall, IInv, Entries
  <2>2. begun' = [begun EXCEPT ![i + 1] = @ + 1] /\ finished' = finished
    BY <1>a DEF SerialCall
  <2>3. Finished' = Finished
    BY <2>2 DEF Finished
  <2> QED BY <2>1, <2>2, <2>3, CountBegin DEF IInv, TypeOK, Once
<1>b. ASSUME SerialReturn
      PROVE  /\ Finished' = Finished \cup {item} /\ finished' \in [Items -> Nat]
             /\ begun' = begun /\ Begun' = Begun /\ Once'
  <2>1. item \in Items /\ item \notin Finished
    BY <1>b DEF SerialReturn, IInv, Entries
  <2>2. finished' = [finished EXCEPT ![item] = @ + 1] /\ begun' = begun
    BY <1>b DEF SerialReturn
  <2>3. Begun' = Begun
    BY <2>2 DEF Begun
  <2> QED BY <2>1, <2>2, <2>3, CountEnd DEF IInv, TypeOK, Once
<1>c. ASSUME SerialDone
      PROVE  UNCHANGED <<begun, finished, Begun, Finished>> /\ Once'
  <2>1. UNCHANGED <<begun, finished>>
    BY <1>c DEF SerialDone, calls
  <2> QED BY <2>1 DEF IInv, Once, Begun, Finished
<1>1. TypeOK'
  <2>1. CASE SerialCall
    BY <1>a, <2>1 DEF SerialCall, IInv, TypeOK
  <2>2. CASE SerialReturn
    BY <1>b, <2>2 DEF SerialReturn, IInv, TypeOK
  <2>3. CASE SerialDone
    BY <1>c, <2>3 DEF SerialDone, IInv, TypeOK
  <2> QED BY <2>1, <2>2, <2>3
<1>2. Control'
  BY DEF SerialCall, SerialReturn, SerialDone, calls, IInv, TypeOK, Control, Handshake, Told, Serial, Working, Stopping, Started
<1>3. Handshake'
  <2>1. UNCHANGED <<pUserData, fWorking, wpc>> /\ mpc' \in {"serial", "call", "return"}
    BY DEF SerialCall, SerialReturn, SerialDone
  <2> QED BY <2>1 DEF IInv, Handshake, Working
<1>4. Entries'
  <2>1. /\ \A t \in Threads : wpc'[t] = "none" /\ ~fWorking'[t]
        /\ mpc \in {"serial", "call"} /\ mpc' \in {"serial", "call", "return"}
    BY DEF SerialCall, SerialReturn, SerialDone, calls, IInv, TypeOK, Control, Handshake, Serial
  <2>2. \A x \in Items : ~InHand(x)' /\ \A t \in Threads : ~InSlot(t, x)' /\ ~InCall(t, x)'
    BY <2>1 DEF InHand, InSlot, InCall
  <2>3. /\ mpc' = "serial" => i' \in 0 .. nItems /\ Begun' = 1 .. i' /\ Finished' = 1 .. i'
        /\ mpc' = "call" => (i' \in 1 .. nItems /\ Begun' = 1 .. i'
                              /\ item' = i' /\ Finished' = 1 .. (i' - 1))
        /\ mpc' = "return" => Finished' = Items
        /\ Finished' \subseteq Begun'
    <3>1. CASE SerialCall
      <4>1. i \in 0 .. nItems /\ Begun = 1 .. i /\ Finished = 1 .. i
        BY <3>1 DEF SerialCall, IInv, Entries
      <4>2. Begun' = Begun \cup {i + 1} /\ Finished' = Finished
        BY <1>a, <3>1
      <4>3. i' = i + 1 /\ i < nItems
        BY <3>1 DEF SerialCall
      <4>4. i' \in 1 .. nItems /\ Begun' = 1 .. i' /\ Finished' = 1 .. (i' - 1)
        BY <4>1, <4>2, <4>3
      <4> QED BY <3>1, <4>4, <4>3 DEF SerialCall
    <3>2. CASE SerialReturn
      <4>1. i \in 1 .. nItems /\ Begun = 1 .. i /\ item = i /\ Finished = 1 .. (i - 1)
        BY <3>2 DEF SerialReturn, IInv, Entries
      <4>2. Finished' = Finished \cup {item} /\ Begun' = Begun
        BY <1>b, <3>2
      <4>3. i' = i
        BY <3>2 DEF SerialReturn
      <4>4. i' \in 0 .. nItems /\ Begun' = 1 .. i' /\ Finished' = 1 .. i'
        BY <4>1, <4>2, <4>3
      <4> QED BY <3>2, <4>4 DEF SerialReturn
    <3>3. CASE SerialDone
      BY <1>c, <3>3 DEF SerialDone, IInv, Entries
    <3> QED BY <3>1, <3>2, <3>3
  <2> QED BY <2>1, <2>2, <2>3 DEF Entries, Serial
<1>4a. Once'
  BY <1>a, <1>b, <1>c
<1>5. NoThreadLeft'
  BY DEF SerialCall, SerialReturn, SerialDone, calls, IInv, TypeOK, Control, NoThreadLeft, Told, Serial, Started
<1>6. CallsKnown'
  BY DEF SerialCall, SerialReturn, SerialDone, calls, IInv, TypeOK, CallsKnown
<1> QED BY <1>1, <1>2, <1>3, <1>4, <1>4a, <1>5, <1>6 DEF IInv

\* Creating a thread keeps the invariant.
LEMMA InvCreate ==
  ASSUME IInv, Create
  PROVE  IInv'
<1>0. UNCHANGED <<begun, finished, Begun, Finished>>
  BY DEF Create, calls, Begun, Finished
<1>1. TypeOK'
  <2>1. i' \in Nat /\ mpc' \in {"create", "scan", "wait", "clear", "join"}
    BY DEF Create, Step, nThreads, IInv, TypeOK
  <2> QED BY <2>1 DEF Create, calls, IInv, TypeOK
<1>2. Control'
  BY DEF Create, Step, nThreads, calls, IInv, TypeOK, Control, Handshake, Told, Serial, Working, Stopping, Started
<1>3. Handshake'
  BY DEF Create, Step, nThreads, calls, IInv, TypeOK, Control, Handshake, Told, Serial, Working, Stopping, Started
<1>4. Entries'
  <2>1. /\ \A x \in Items : ~InHand(x) /\ ~InHand(x)'
        /\ mpc = "create" /\ mpc' \in {"create", "scan", "wait"}
        /\ (mpc' = "scan" => vStack > 0) /\ (mpc' = "wait" => ~(vStack > 0))
    BY DEF Create, Step, InHand
  <2>2. \A x \in Items, t \in Threads :
          /\ ~InSlot(t, x) /\ ~InSlot(t, x)'
          /\ InCall(t, x)' <=> InCall(t, x)
    BY DEF Create, InSlot, InCall, IInv, TypeOK, Control, Serial
  <2>3. vStack' = vStack /\ vStack \in 0 .. nItems
    BY DEF Create, IInv, TypeOK
  <2> QED BY <1>0, <2>1, <2>2, <2>3 DEF IInv, Entries, Serial
<1>4a. Once'
  BY <1>0 DEF IInv, Once
<1>5. NoThreadLeft'
  BY DEF Create, Step, nThreads, calls, IInv, TypeOK, Control, NoThreadLeft, Told, Serial, Started
<1>6. CallsKnown'
  BY DEF Create, Step, nThreads, calls, IInv, TypeOK, CallsKnown
<1> QED BY <1>1, <1>2, <1>3, <1>4, <1>4a, <1>5, <1>6 DEF IInv

\* Passing a busy slot keeps the invariant.
LEMMA InvScanBusy ==
  ASSUME IInv, ScanBusy
  PROVE  IInv'
<1>0. UNCHANGED <<begun, finished, Begun, Finished>>
  BY DEF ScanBusy, calls, Begun, Finished
<1>1. TypeOK'
  BY DEF ScanBusy, nThreads, calls, IInv, TypeOK, Entries
<1>2. Control'
  BY DEF ScanBusy, nThreads, calls, IInv, TypeOK, Control, Handshake, Told, Serial, Working, Stopping, Started
<1>3. Handshake'
  BY DEF ScanBusy, nThreads, calls, IInv, TypeOK, Control, Handshake, Told, Serial, Working, Stopping, Started
<1>4. Entries'
  BY <1>0 DEF ScanBusy, nThreads, IInv, TypeOK, Control, Handshake, Entries, InHand, InSlot, InCall, Told, Serial, Working, Stopping, Started
<1>4a. Once'
  BY <1>0 DEF IInv, Once
<1>5. NoThreadLeft'
  BY DEF ScanBusy, nThreads, calls, IInv, TypeOK, Control, NoThreadLeft, Told, Serial, Started
<1>6. CallsKnown'
  BY DEF ScanBusy, nThreads, calls, IInv, TypeOK, CallsKnown
<1> QED BY <1>1, <1>2, <1>3, <1>4, <1>4a, <1>5, <1>6 DEF IInv

\* Popping an entry for an idle slot keeps the invariant.
LEMMA InvScanIdle ==
  ASSUME IInv, ScanIdle
  PROVE  IInv'
<1>0. UNCHANGED <<begun, finished, Begun, Finished>>
  BY DEF ScanIdle, calls, Begun, Finished
<1>1. TypeOK'
  BY DEF ScanIdle, calls, IInv, TypeOK, Entries
<1>2. Control'
  BY DEF ScanIdle, calls, IInv, TypeOK, Control, Handshake, Told, Serial, Working, Stopping, Started
<1>3. Handshake'
  BY DEF ScanIdle, calls, IInv, TypeOK, Control, Handshake, Told, Serial, Working, Stopping, Started
<1>4. Entries'
  <2>1. /\ vStack \in Items /\ vStack' = vStack - 1 /\ item' = vStack
        /\ mpc = "scan" /\ mpc' = "fill"
    BY DEF ScanIdle, IInv, TypeOK, Entries
  <2>2. \A x \in Items : ~InHand(x) /\ (InHand(x)' <=> x = vStack)
    BY <2>1 DEF InHand
  <2>3. \A x \in Items, t \in Threads :
          /\ InSlot(t, x)' <=> InSlot(t, x)
          /\ InCall(t, x)' <=> InCall(t, x)
    BY DEF ScanIdle, InSlot, InCall
  <2>4. Begun \subseteq (vStack + 1) .. nItems
    BY <2>1 DEF IInv, Entries, Serial
  <2>5. \A x \in Items : InHand(x)' => x \notin Begun
    BY <2>1, <2>2, <2>4
  <2>6. \A x \in Items, t \in Threads : InSlot(t, x) => x > vStack
    BY DEF IInv, Entries
  <2> QED BY <1>0, <2>1, <2>2, <2>3, <2>4, <2>5, <2>6 DEF IInv, Entries, Serial
<1>4a. Once'
  BY <1>0 DEF IInv, Once
<1>5. NoThreadLeft'
  BY DEF ScanIdle, calls, IInv, TypeOK, Control, NoThreadLeft, Told, Serial, Started
<1>6. CallsKnown'
  BY DEF ScanIdle, calls, IInv, TypeOK, CallsKnown
<1> QED BY <1>1, <1>2, <1>3, <1>4, <1>4a, <1>5, <1>6 DEF IInv

\* Writing the entry to the slot keeps the invariant: its thread is not looking.
LEMMA InvFill ==
  ASSUME IInv, Fill
  PROVE  IInv'
<1>0. UNCHANGED <<begun, finished, Begun, Finished>>
  BY DEF Fill, calls, Begun, Finished
<1>1. TypeOK'
  BY DEF Fill, calls, IInv, TypeOK, Entries
<1>2. Control'
  BY DEF Fill, calls, IInv, TypeOK, Control, Handshake, Told, Serial, Working, Stopping, Started
<1>3. Handshake'
  BY DEF Fill, calls, IInv, TypeOK, Control, Handshake, Told, Serial, Working, Stopping, Started
<1>4. Entries'
  <2>1. item \in Items /\ item = vStack + 1 /\ item \notin Begun /\ i \in Threads /\ ~fWorking[i]
    BY DEF Fill, IInv, TypeOK, Control, Handshake, Entries, InHand, Serial, Started
  <2>2. pUserData'[i] = item /\ mpc = "fill" /\ mpc' = "start" /\ i' = i
    BY <2>1 DEF Fill, IInv, TypeOK
  <2>3. \A x \in Items : InHand(x)' <=> InHand(x)
    BY <2>2 DEF InHand
  <2>4. \A x \in Items, t \in Threads :
          /\ InSlot(t, x)' <=> InSlot(t, x)
          /\ InCall(t, x)' <=> InCall(t, x)
    BY <2>1 DEF Fill, InSlot, InCall, IInv, TypeOK
  <2>5. UNCHANGED <<vStack, Begun, Finished>>
    BY <1>0 DEF Fill
  <2> QED BY <2>1, <2>2, <2>3, <2>4, <2>5 DEF IInv, Entries, Serial
<1>4a. Once'
  BY <1>0 DEF IInv, Once
<1>5. NoThreadLeft'
  BY DEF Fill, calls, IInv, TypeOK, Control, NoThreadLeft, Told, Serial, Started
<1>6. CallsKnown'
  BY DEF Fill, calls, IInv, TypeOK, CallsKnown
<1> QED BY <1>1, <1>2, <1>3, <1>4, <1>4a, <1>5, <1>6 DEF IInv

\* Raising the flag keeps the invariant: the entry goes from the manager to the slot.
LEMMA InvStart ==
  ASSUME IInv, Start
  PROVE  IInv'
<1>0. UNCHANGED <<begun, finished, Begun, Finished>>
  BY DEF Start, calls, Begun, Finished
<1>1. TypeOK'
  BY DEF Start, calls, IInv, TypeOK, Entries
<1>2. Control'
  BY DEF Start, calls, IInv, TypeOK, Control, Handshake, Told, Serial, Working, Stopping, Started
<1>3. Handshake'
  <2>1. i \in Threads /\ pUserData[i] \in Items /\ wpc[i] = "spin"
    BY DEF Start, IInv, TypeOK, Control, Handshake, Entries, Serial, Started, Working
  <2> QED BY <2>1 DEF Start, calls, IInv, TypeOK, Handshake, Working
<1>4. Entries'
  <2> DEFINE y == pUserData[i]
  <2>1. /\ mpc = "start" /\ mpc' \in {"scan", "wait"} /\ vStack' = vStack
        /\ (mpc' = "scan" => vStack > 0) /\ (mpc' = "wait" => ~(vStack > 0))
        /\ i \in Threads /\ vStack \in 0 .. nItems
    BY DEF Start, IInv, TypeOK, Control, Serial, Started
  <2>2. \A x \in Items : (InHand(x) <=> x = y) /\ ~InHand(x)'
    BY <2>1 DEF InHand
  <2>3. wpc[i] = "spin" /\ ~fWorking[i]
    BY <2>1 DEF IInv, TypeOK, Control, Handshake, Serial, Started, Working
  <2>4. \A x \in Items, t \in Threads :
          /\ InSlot(t, x)' <=> InSlot(t, x) \/ (t = i /\ x = y)
          /\ InCall(t, x)' <=> InCall(t, x)
    BY <2>1, <2>3 DEF Start, InSlot, InCall, IInv, TypeOK
  <2>5. \A x \in Items : ~InSlot(i, x)
    BY <2>3 DEF InSlot
  <2>6. y \in Items /\ y = vStack + 1
    BY <2>1 DEF IInv, Entries
  <2> HIDE DEF y
  <2>7. y \notin Begun /\ \A t \in Threads : ~InSlot(t, y)
    BY <2>2, <2>6 DEF IInv, Entries
  <2> QED BY <1>0, <2>1, <2>2, <2>4, <2>5, <2>6, <2>7 DEF IInv, Entries, Serial
<1>4a. Once'
  BY <1>0 DEF IInv, Once
<1>5. NoThreadLeft'
  BY DEF Start, calls, IInv, TypeOK, Control, NoThreadLeft, Told, Serial, Started
<1>6. CallsKnown'
  BY DEF Start, calls, IInv, TypeOK, CallsKnown
<1> QED BY <1>1, <1>2, <1>3, <1>4, <1>4a, <1>5, <1>6 DEF IInv

\* The wait keeps the invariant: the slots it has passed stay idle.
LEMMA InvWait ==
  ASSUME IInv, Wait
  PROVE  IInv'
<1>0. UNCHANGED <<begun, finished, Begun, Finished>>
  BY DEF Wait, calls, Begun, Finished
<1>1. TypeOK'
  BY DEF Wait, Step, nThreads, calls, IInv, TypeOK, Entries
<1>2. Control'
  <2>1. /\ mpc = "wait" /\ nProcs > 2 /\ i \in Started /\ nProcs' = nProcs
        /\ fWorking' = fWorking /\ wpc' = wpc /\ pUserData' = pUserData
    BY DEF Wait, IInv, TypeOK, Control, Serial
  <2>2. /\ \A t \in Threads : wpc[t] = "none" <=> t \notin Started
        /\ \A t \in Threads : wpc[t] # "exit" /\ (t < i => ~fWorking[t])
    BY <2>1 DEF IInv, TypeOK, Control, Working
  <2>3. CASE fWorking[i]
    <3>1. i' = 0 /\ mpc' = "wait"
      BY <2>1, <2>3 DEF Wait
    <3> QED BY <2>1, <2>2, <3>1 DEF IInv, TypeOK, Control, Serial, Working, Stopping, Started
  <2>4. CASE ~fWorking[i] /\ i + 1 < nThreads
    <3>1. i' = i + 1 /\ mpc' = "wait"
      BY <2>1, <2>4 DEF Wait, Step
    <3>2. i' \in Started /\ \A t \in Threads : t < i' => ~fWorking[t]
      BY <2>1, <2>2, <2>4, <3>1 DEF nThreads, Started, IInv, TypeOK
    <3> QED BY <2>1, <2>2, <3>1, <3>2 DEF IInv, TypeOK, Control, Serial, Working, Stopping, Started
  <2>5. CASE ~fWorking[i] /\ ~(i + 1 < nThreads)
    <3>1. i' = 0 /\ mpc' = "clear"
      BY <2>1, <2>5 DEF Wait, Step
    <3>2. \A t \in Started : ~fWorking[t]
      BY <2>1, <2>2, <2>5 DEF nThreads, Started, IInv, TypeOK
    <3> QED BY <2>1, <2>2, <3>1, <3>2 DEF IInv, TypeOK, Control, Serial, Working, Stopping, Started
  <2> QED BY <2>3, <2>4, <2>5
<1>3. Handshake'
  BY DEF Wait, Step, nThreads, calls, IInv, TypeOK, Control, Handshake, Told, Serial, Working, Stopping, Started
<1>4. Entries'
  <2>1. \A x \in Items : ~InHand(x) /\ ~InHand(x)'
    BY DEF Wait, Step, InHand
  <2>2. \A x \in Items, t \in Threads :
          /\ InSlot(t, x)' <=> InSlot(t, x)
          /\ InCall(t, x)' <=> InCall(t, x)
    BY DEF Wait, InSlot, InCall
  <2>3. UNCHANGED <<vStack, Begun, Finished>>
    BY <1>0 DEF Wait
  <2>4. vStack = 0 /\ ~Serial /\ mpc # "return"
    BY DEF Wait, IInv, Entries, Serial
  <2>5. mpc' \in {"wait", "clear"}
    BY DEF Wait, Step
  <2> QED BY <2>1, <2>2, <2>3, <2>4, <2>5 DEF IInv, Entries, Serial
<1>4a. Once'
  BY <1>0 DEF IInv, Once
<1>5. NoThreadLeft'
  BY DEF Wait, Step, nThreads, calls, IInv, TypeOK, Control, NoThreadLeft, Told, Serial, Started
<1>6. CallsKnown'
  BY DEF Wait, Step, nThreads, calls, IInv, TypeOK, CallsKnown
<1> QED BY <1>1, <1>2, <1>3, <1>4, <1>4a, <1>5, <1>6 DEF IInv

\* Writing NULL keeps the invariant: no thread is looking at an idle slot.
LEMMA InvClear ==
  ASSUME IInv, Clear
  PROVE  IInv'
<1>0. UNCHANGED <<begun, finished, Begun, Finished>>
  BY DEF Clear, calls, Begun, Finished
<1>1. TypeOK'
  BY DEF Clear, calls, IInv, TypeOK, Entries
<1>2. Control'
  BY DEF Clear, calls, IInv, TypeOK, Control, Handshake, Told, Serial, Working, Stopping, Started
<1>3. Handshake'
  BY DEF Clear, calls, IInv, TypeOK, Control, Handshake, Told, Serial, Working, Stopping, Started
<1>4. Entries'
  BY <1>0 DEF Clear, IInv, TypeOK, Control, Handshake, Entries, InHand, InSlot, InCall, Told, Serial, Working, Stopping, Started
<1>4a. Once'
  BY <1>0 DEF IInv, Once
<1>5. NoThreadLeft'
  BY DEF Clear, calls, IInv, TypeOK, Control, NoThreadLeft, Told, Serial, Started
<1>6. CallsKnown'
  BY DEF Clear, calls, IInv, TypeOK, CallsKnown
<1> QED BY <1>1, <1>2, <1>3, <1>4, <1>4a, <1>5, <1>6 DEF IInv

\* Raising the flag of a cleared slot keeps the invariant.
LEMMA InvStop ==
  ASSUME IInv, Stop
  PROVE  IInv'
<1>0. UNCHANGED <<begun, finished, Begun, Finished>>
  BY DEF Stop, calls, Begun, Finished
<1>1. TypeOK'
  <2>1. i' \in Nat /\ mpc' \in {"create", "scan", "wait", "clear", "join"}
    BY DEF Stop, Step, nThreads, IInv, TypeOK
  <2> QED BY <2>1 DEF Stop, calls, IInv, TypeOK
<1>2. Control'
  BY DEF Stop, Step, nThreads, calls, IInv, TypeOK, Control, Handshake, Told, Serial, Working, Stopping, Started
<1>3. Handshake'
  BY DEF Stop, Step, nThreads, calls, IInv, TypeOK, Control, Handshake, Told, Serial, Working, Stopping, Started
<1>4. Entries'
  <2>1. /\ \A x \in Items : ~InHand(x) /\ ~InHand(x)'
        /\ mpc = "stop" /\ mpc' \in {"clear", "join"} /\ vStack' = vStack
    BY DEF Stop, Step, InHand
  <2>2. i \in Threads /\ pUserData[i] = NULL
    BY <2>1 DEF IInv, TypeOK, Control, Serial, Started
  <2>3. \A x \in Items, t \in Threads :
          /\ InSlot(t, x)' <=> InSlot(t, x)
          /\ InCall(t, x)' <=> InCall(t, x)
    BY <2>2 DEF Stop, InSlot, InCall, IInv, TypeOK
  <2> QED BY <1>0, <2>1, <2>3 DEF IInv, Entries, Serial
<1>4a. Once'
  BY <1>0 DEF IInv, Once
<1>5. NoThreadLeft'
  BY DEF Stop, Step, nThreads, calls, IInv, TypeOK, Control, NoThreadLeft, Told, Serial, Started
<1>6. CallsKnown'
  BY DEF Stop, Step, nThreads, calls, IInv, TypeOK, CallsKnown
<1> QED BY <1>1, <1>2, <1>3, <1>4, <1>4a, <1>5, <1>6 DEF IInv

\* Joining keeps the invariant; after the last thread every entry is finished.
LEMMA InvJoin ==
  ASSUME IInv, Join
  PROVE  IInv'
<1>0. UNCHANGED <<begun, finished, Begun, Finished>>
  BY DEF Join, calls, Begun, Finished
<1>1. TypeOK'
  BY DEF Join, Step, nThreads, calls, IInv, TypeOK, Entries
<1>2. Control'
  BY DEF Join, Step, nThreads, calls, IInv, TypeOK, Control, Handshake, Told, Serial, Working, Stopping, Started
<1>3. Handshake'
  BY DEF Join, Step, nThreads, calls, IInv, TypeOK, Control, Handshake, Told, Serial, Working, Stopping, Started
<1>4. Entries'
  <2>1. \A x \in Items : ~InHand(x) /\ ~InHand(x)'
    BY DEF Join, Step, InHand
  <2>2. \A x \in Items, t \in Threads :
          /\ InSlot(t, x)' <=> InSlot(t, x)
          /\ InCall(t, x)' <=> InCall(t, x)
    BY DEF Join, InSlot, InCall
  <2>3. UNCHANGED <<vStack, Begun, Finished>>
    BY <1>0 DEF Join
  <2>4. vStack = 0 /\ ~Serial /\ mpc # "return"
    BY DEF Join, IInv, Entries, Serial
  <2>5. mpc' \in {"join", "return"}
    BY DEF Join, Step
  <2>6. \A x \in Items, t \in Threads : ~InSlot(t, x) /\ ~InCall(t, x)
    <3>1. \A t \in Started : Told(t)
      BY DEF Join, IInv, Control
    <3>2. \A t \in Threads : t \notin Started => wpc[t] = "none" /\ ~fWorking[t]
      BY DEF Join, IInv, Control, Handshake
    <3> QED BY <3>1, <3>2 DEF InSlot, InCall, Told
  <2>7. Finished = Items
    <3>1. \A x \in Items : x <= vStack \/ x \in Finished
      BY <2>1, <2>4, <2>6 DEF IInv, Entries
    <3>2. Finished \subseteq Items
      BY DEF Finished
    <3>3. \A x \in Items : x \in Finished
      BY <2>4, <3>1
    <3> QED BY <3>2, <3>3
  <2> QED BY <2>1, <2>2, <2>3, <2>4, <2>5, <2>7 DEF IInv, Entries, Serial
<1>4a. Once'
  BY <1>0 DEF IInv, Once
<1>5. NoThreadLeft'
  BY DEF Join, Step, nThreads, calls, IInv, TypeOK, Control, NoThreadLeft, Told, Serial, Started
<1>6. CallsKnown'
  BY DEF Join, Step, nThreads, calls, IInv, TypeOK, CallsKnown
<1> QED BY <1>1, <1>2, <1>3, <1>4, <1>4a, <1>5, <1>6 DEF IInv

\* A thread that sees its flag keeps the invariant.
LEMMA InvWake ==
  ASSUME IInv, NEW t \in Threads, Wake(t)
  PROVE  IInv'
<1>0. UNCHANGED <<begun, finished, Begun, Finished>>
  BY DEF Wake, calls, Begun, Finished
<1>1. TypeOK'
  BY DEF Wake, manager, calls, IInv, TypeOK, Entries
<1>2. Control'
  BY DEF Wake, manager, calls, IInv, TypeOK, Control, Handshake, Told, Serial, Working, Stopping, Started
<1>3. Handshake'
  BY DEF Wake, manager, calls, IInv, TypeOK, Control, Handshake, Told, Serial, Working, Stopping, Started
<1>4. Entries'
  <2>1. \A x \in Items : InHand(x)' <=> InHand(x)
    BY DEF Wake, manager, InHand
  <2>2. \A x \in Items, u \in Threads :
          /\ InSlot(u, x)' <=> InSlot(u, x)
          /\ InCall(u, x)' <=> InCall(u, x)
    BY DEF Wake, InSlot, InCall, IInv, TypeOK
  <2>3. UNCHANGED <<vStack, Begun, Finished, mpc, i, item, pUserData>>
    BY <1>0 DEF Wake, manager
  <2> QED BY <2>1, <2>2, <2>3 DEF IInv, Entries, Serial
<1>4a. Once'
  BY <1>0 DEF IInv, Once
<1>5. NoThreadLeft'
  BY DEF Wake, manager, calls, IInv, TypeOK, Control, NoThreadLeft, Told, Serial, Started
<1>6. CallsKnown'
  BY DEF Wake, manager, calls, IInv, TypeOK, CallsKnown
<1> QED BY <1>1, <1>2, <1>3, <1>4, <1>4a, <1>5, <1>6 DEF IInv

\* A thread that finds NULL exits, and keeps the invariant.
LEMMA InvExit ==
  ASSUME IInv, NEW t \in Threads, Exit(t)
  PROVE  IInv'
<1>0. UNCHANGED <<begun, finished, Begun, Finished>>
  BY DEF Exit, calls, Begun, Finished
<1>1. TypeOK'
  BY DEF Exit, manager, calls, IInv, TypeOK, Entries
<1>2. Control'
  BY DEF Exit, manager, calls, IInv, TypeOK, Control, Handshake, Told, Serial, Working, Stopping, Started
<1>3. Handshake'
  BY DEF Exit, manager, calls, IInv, TypeOK, Control, Handshake, Told, Serial, Working, Stopping, Started
<1>4. Entries'
  <2>1. \A x \in Items : InHand(x)' <=> InHand(x)
    BY DEF Exit, manager, InHand
  <2>2. \A x \in Items, u \in Threads :
          /\ InSlot(u, x)' <=> InSlot(u, x)
          /\ InCall(u, x)' <=> InCall(u, x)
    BY DEF Exit, InSlot, InCall, IInv, TypeOK
  <2>3. UNCHANGED <<vStack, Begun, Finished, mpc, i, item, pUserData>>
    BY <1>0 DEF Exit, manager
  <2> QED BY <2>1, <2>2, <2>3 DEF IInv, Entries, Serial
<1>4a. Once'
  BY <1>0 DEF IInv, Once
<1>5. NoThreadLeft'
  BY DEF Exit, manager, calls, IInv, TypeOK, Control, NoThreadLeft, Told, Serial, Started
<1>6. CallsKnown'
  BY DEF Exit, manager, calls, IInv, TypeOK, CallsKnown
<1> QED BY <1>1, <1>2, <1>3, <1>4, <1>4a, <1>5, <1>6 DEF IInv

\* A call begins for an entry that no thread has begun before.
LEMMA InvCall ==
  ASSUME IInv, NEW t \in Threads, Call(t)
  PROVE  IInv'
<1>0. /\ Begun' = Begun \cup {pUserData[t]} /\ begun' \in [Items -> Nat]
      /\ finished' = finished /\ Finished' = Finished /\ Once'
  <2>1. pUserData[t] \in Items /\ InSlot(t, pUserData[t])
    BY DEF Call, InSlot, IInv, TypeOK, Handshake
  <2>2. pUserData[t] \notin Begun
    BY <2>1 DEF IInv, Entries
  <2>3. begun' = [begun EXCEPT ![pUserData[t]] = @ + 1] /\ finished' = finished
    BY DEF Call
  <2>4. Finished' = Finished
    BY <2>3 DEF Finished
  <2> QED BY <2>1, <2>2, <2>3, <2>4, CountBegin DEF IInv, TypeOK, Once
<1>1. TypeOK'
  <2>1. pUserData[t] \in Items
    BY DEF Call, IInv, TypeOK
  <2> QED BY <1>0, <2>1 DEF Call, manager, calls, IInv, TypeOK
<1>2. Control'
  BY DEF Call, manager, calls, IInv, TypeOK, Control, Handshake, Told, Serial, Working, Stopping, Started
<1>3. Handshake'
  BY DEF Call, manager, calls, IInv, TypeOK, Control, Handshake, Told, Serial, Working, Stopping, Started
<1>4. Entries'
  <2> DEFINE y == pUserData[t]
  <2>0. y \in Items /\ InSlot(t, y) /\ fWorking[t] /\ wpc[t] = "look" /\ Begun' = Begun \cup {y}
    BY <1>0 DEF Call, InSlot, IInv, TypeOK, Handshake
  <2>1. \A x \in Items : InHand(x)' <=> InHand(x)
    BY DEF Call, manager, InHand
  <2>2. \A x \in Items, u \in Threads :
          /\ InSlot(u, x)' <=> InSlot(u, x) /\ u # t
          /\ InCall(u, x)' <=> (InCall(u, x) \/ (u = t /\ x = y))
    BY <2>0 DEF Call, InSlot, InCall, IInv, TypeOK
  <2>3. UNCHANGED <<vStack, Finished, mpc, i, item, pUserData, nProcs>>
    BY <1>0 DEF Call, manager
  <2>4. ~Serial /\ mpc # "return"
    BY <2>0 DEF IInv, Control, NoThreadLeft, Serial
  <2>5. y > vStack /\ y \notin Begun /\ ~InHand(y) /\ y \notin Finished
    BY <2>0 DEF IInv, Entries
  <2>6. \A x \in Items : InSlot(t, x) => x = y
    BY DEF InSlot
  <2>7. \A u \in Threads : ~InCall(t, y) /\ ~InCall(u, y) /\ (u # t => ~InSlot(u, y))
    BY <2>0, <2>5 DEF IInv, Entries
  <2>8. \A x \in Items : ~InCall(t, x)
    BY <2>0 DEF InCall
  <2> HIDE DEF y
  <2>9. Begun' \subseteq (vStack' + 1) .. nItems
    BY <2>0, <2>3, <2>4, <2>5 DEF IInv, TypeOK, Entries
  <2>10. \A x \in Items, u \in Threads :
           /\ InSlot(u, x)' => x > vStack' /\ x \notin Begun' /\ ~InHand(x)'
           /\ InCall(u, x)' => x \in Begun' \ Finished'
    BY <2>0, <2>1, <2>2, <2>3, <2>5, <2>7 DEF IInv, Entries
  <2>11. \A x \in Items, u \in Threads, v \in Threads :
           u # v => ~(InSlot(u, x)' /\ InSlot(v, x)') /\ ~(InCall(u, x)' /\ InCall(v, x)')
    BY <2>2, <2>7, <2>8 DEF IInv, Entries
  <2>12. \A x \in Items :
          \/ x <= vStack' \/ x \in Finished' \/ InHand(x)'
          \/ \E u \in Threads : InSlot(u, x)' \/ InCall(u, x)'
    <3> SUFFICES ASSUME NEW x \in Items, ~(x <= vStack), x \notin Finished, ~InHand(x)
                 PROVE  \E u \in Threads : InSlot(u, x)' \/ InCall(u, x)'
      BY <2>1, <2>3
    <3>1. PICK u \in Threads : InSlot(u, x) \/ InCall(u, x)
      BY <2>4 DEF IInv, Entries
    <3> QED BY <2>2, <2>6, <3>1
  <2>13. \A x \in Items : InHand(x)' => x \notin Begun'
    BY <2>0, <2>1, <2>5 DEF IInv, Entries
  <2> QED BY <2>0, <2>3, <2>4, <2>9, <2>10, <2>11, <2>12, <2>13 DEF IInv, Entries, Serial
<1>4a. Once'
  BY <1>0
<1>5. NoThreadLeft'
  BY DEF Call, manager, calls, IInv, TypeOK, Control, NoThreadLeft, Told, Serial, Started
<1>6. CallsKnown'
  BY DEF Call, manager, calls, IInv, TypeOK, CallsKnown
<1> QED BY <1>1, <1>2, <1>3, <1>4, <1>4a, <1>5, <1>6 DEF IInv

\* The end of a call keeps the invariant.
LEMMA InvCallOver ==
  ASSUME IInv, NEW t \in Threads, CallOver(t)
  PROVE  IInv'
<1>0. /\ Finished' = Finished \cup {arg[t]} /\ finished' \in [Items -> Nat]
      /\ begun' = begun /\ Begun' = Begun /\ Once'
  <2>1. arg[t] \in Items /\ InCall(t, arg[t])
    BY DEF CallOver, InCall, IInv, CallsKnown
  <2>2. arg[t] \notin Finished
    BY <2>1 DEF IInv, Entries
  <2>3. finished' = [finished EXCEPT ![arg[t]] = @ + 1] /\ begun' = begun
    BY DEF CallOver
  <2>4. Begun' = Begun
    BY <2>3 DEF Begun
  <2> QED BY <2>1, <2>2, <2>3, <2>4, CountEnd DEF IInv, TypeOK, Once
<1>1. TypeOK'
  <2>1. arg[t] \in Items
    BY DEF CallOver, IInv, TypeOK, CallsKnown
  <2> QED BY <1>0, <2>1 DEF CallOver, manager, calls, IInv, TypeOK
<1>2. Control'
  BY DEF CallOver, manager, calls, IInv, TypeOK, Control, Handshake, Told, Serial, Working, Stopping, Started
<1>3. Handshake'
  BY DEF CallOver, manager, calls, IInv, TypeOK, Control, Handshake, Told, Serial, Working, Stopping, Started
<1>4. Entries'
  <2> DEFINE y == arg[t]
  <2>0. y \in Items /\ InCall(t, y) /\ Finished' = Finished \cup {y}
    BY <1>0 DEF CallOver, InCall, IInv, TypeOK, CallsKnown
  <2>1. \A x \in Items : InHand(x)' <=> InHand(x)
    BY DEF CallOver, manager, InHand
  <2>2. \A x \in Items, u \in Threads :
          /\ InSlot(u, x)' <=> InSlot(u, x)
          /\ InCall(u, x)' <=> InCall(u, x) /\ u # t
    BY DEF CallOver, InSlot, InCall, IInv, TypeOK
  <2>3. UNCHANGED <<vStack, Begun, mpc, i, item, pUserData, nProcs>>
    BY <1>0 DEF CallOver, manager
  <2>4. ~Serial /\ mpc # "return"
    BY DEF CallOver, IInv, Control, NoThreadLeft, Serial
  <2>5. y \in Begun /\ \A u \in Threads : u # t => ~InCall(u, y)
    BY <2>0 DEF IInv, Entries
  <2>6. \A x \in Items : InCall(t, x) => x = y
    BY DEF InCall
  <2> HIDE DEF y
  <2>7. \A x \in Items, u \in Threads :
           /\ InSlot(u, x)' => x > vStack' /\ x \notin Begun' /\ ~InHand(x)'
           /\ InCall(u, x)' => x \in Begun' \ Finished'
    BY <2>0, <2>1, <2>2, <2>3, <2>5 DEF IInv, Entries
  <2>8. \A x \in Items, u \in Threads, v \in Threads :
           u # v => ~(InSlot(u, x)' /\ InSlot(v, x)') /\ ~(InCall(u, x)' /\ InCall(v, x)')
    BY <2>2 DEF IInv, Entries
  <2>9. \A x \in Items :
          \/ x <= vStack' \/ x \in Finished' \/ InHand(x)'
          \/ \E u \in Threads : InSlot(u, x)' \/ InCall(u, x)'
    <3> SUFFICES ASSUME NEW x \in Items, ~(x <= vStack), x \notin Finished', ~InHand(x)
                 PROVE  \E u \in Threads : InSlot(u, x)' \/ InCall(u, x)'
      BY <2>1, <2>3
    <3>1. PICK u \in Threads : InSlot(u, x) \/ InCall(u, x)
      BY <2>0, <2>4 DEF IInv, Entries
    <3> QED BY <2>0, <2>2, <2>6, <3>1
  <2>10. Finished' \subseteq Begun' /\ Begun' \subseteq (vStack' + 1) .. nItems
    BY <2>0, <2>3, <2>4, <2>5 DEF IInv, Entries
  <2>11. \A x \in Items : InHand(x)' => x \notin Begun'
    BY <2>1, <2>3 DEF IInv, Entries
  <2> QED BY <2>0, <2>3, <2>4, <2>7, <2>8, <2>9, <2>10, <2>11 DEF IInv, Entries, Serial
<1>4a. Once'
  BY <1>0
<1>5. NoThreadLeft'
  BY DEF CallOver, manager, calls, IInv, TypeOK, Control, NoThreadLeft, Told, Serial, Started
<1>6. CallsKnown'
  BY DEF CallOver, manager, calls, IInv, TypeOK, CallsKnown
<1> QED BY <1>1, <1>2, <1>3, <1>4, <1>4a, <1>5, <1>6 DEF IInv

\* Clearing the flag keeps the invariant: the entry of the slot is finished.
LEMMA InvRelease ==
  ASSUME IInv, NEW t \in Threads, Release(t)
  PROVE  IInv'
<1>0. UNCHANGED <<begun, finished, Begun, Finished>>
  BY DEF Release, calls, Begun, Finished
<1>1. TypeOK'
  BY DEF Release, manager, calls, IInv, TypeOK, Entries
<1>2. Control'
  BY DEF Release, manager, calls, IInv, TypeOK, Control, Handshake, Told, Serial, Working, Stopping, Started
<1>3. Handshake'
  BY DEF Release, manager, calls, IInv, TypeOK, Control, Handshake, Told, Serial, Working, Stopping, Started
<1>4. Entries'
  <2>1. \A x \in Items : InHand(x)' <=> InHand(x)
    BY DEF Release, manager, InHand
  <2>2. \A x \in Items, u \in Threads :
          /\ InSlot(u, x)' <=> InSlot(u, x)
          /\ InCall(u, x)' <=> InCall(u, x)
    BY DEF Release, InSlot, InCall, IInv, TypeOK
  <2>3. UNCHANGED <<vStack, Begun, Finished, mpc, i, item, pUserData>>
    BY <1>0 DEF Release, manager
  <2> QED BY <2>1, <2>2, <2>3 DEF IInv, Entries, Serial
<1>4a. Once'
  BY <1>0 DEF IInv, Once
<1>5. NoThreadLeft'
  BY DEF Release, manager, calls, IInv, TypeOK, Control, NoThreadLeft, Told, Serial, Started
<1>6. CallsKnown'
  BY DEF Release, manager, calls, IInv, TypeOK, CallsKnown
<1> QED BY <1>1, <1>2, <1>3, <1>4, <1>4a, <1>5, <1>6 DEF IInv

\* The invariant holds when the procedure is entered.
LEMMA InvInit ==
  ASSUME Init
  PROVE  IInv
<1>1. TypeOK /\ CallsKnown /\ NoThreadLeft
  BY DEF Init, TypeOK, CallsKnown, NoThreadLeft
<1>2. Control
  BY DEF Init, Control, Serial, Working, Stopping, Started
<1>3. Handshake
  BY DEF Init, Handshake, Working
<1>a. Begun = {} /\ Finished = {} /\ Once
  BY DEF Init, Begun, Finished, Once
<1>4. Entries
  <2>1. mpc = "serial" => Begun = 1 .. i /\ Finished = 1 .. i /\ i \in 0 .. nItems
    BY <1>a DEF Init
  <2> QED BY <1>a, <2>1 DEF Init, Entries, InHand, InSlot, InCall, Serial
<1> QED BY <1>1, <1>2, <1>3, <1>4, <1>a DEF IInv

\* Every step keeps the invariant.
LEMMA InvNext ==
  ASSUME IInv, [Next]_vars
  PROVE  IInv'
<1>1. CASE Manager
  BY <1>1, InvSerial, InvCreate, InvScanBusy, InvScanIdle, InvFill, InvStart, InvWait,
     InvClear, InvStop, InvJoin DEF Manager
<1>2. ASSUME NEW t \in Threads, Util_Thread(t) PROVE IInv'
  BY <1>2, InvWake, InvExit, InvCall, InvCallOver, InvRelease DEF Util_Thread
<1>3. CASE UNCHANGED vars
  <2>1. (TypeOK /\ CallsKnown /\ Control /\ Handshake)'
    BY <1>3 DEF vars, IInv, TypeOK, CallsKnown, Control, Handshake, Told, Serial, Working,
       Stopping, Started
  <2>2. UNCHANGED <<Begun, Finished>> /\ (Once /\ NoThreadLeft)'
    BY <1>3 DEF vars, IInv, Once, Begun, Finished, NoThreadLeft
  <2>3. Entries'
    BY <1>3, <2>2 DEF vars, IInv, Entries, InHand, InSlot, InCall, Serial
  <2> QED BY <2>1, <2>2, <2>3 DEF IInv
<1> QED BY <1>1, <1>2, <1>3 DEF Next

\* The inductive invariant holds throughout.
THEOREM Invariant == Spec => []IInv
<1>1. Init => IInv
  BY InvInit
<1>2. IInv /\ [Next]_vars => IInv'
  BY InvNext
<1> QED BY <1>1, <1>2, PTL DEF Spec

-----------------------------------------------------------------------------
(* What the invariant gives.                                               *)

\* The manager and the threads keep their data well typed; in particular the
\* manager never pops an empty stack.
THEOREM TypeCorrect == Spec => []TypeOK
<1>1. IInv => TypeOK
  BY DEF IInv
<1> QED BY <1>1, Invariant, PTL

\* A slot is written only while its thread waits with the flag down.
THEOREM SlotsOwned == Spec => []SlotOwned
<1>1. ASSUME IInv PROVE SlotOwned
  <2> SUFFICES ASSUME mpc \in {"fill", "start", "clear", "stop"}
               PROVE  wpc[i] = "spin" /\ ~fWorking[i]
    BY DEF SlotOwned
  <2>1. i \in Started /\ i \in Threads /\ ~(nProcs <= 2)
    BY <1>1 DEF IInv, TypeOK, Control, Serial, Started
  <2>2. ~fWorking[i]
    BY <1>1, <2>1 DEF IInv, Control, Handshake, Stopping, Started
  <2>3. wpc[i] # "none"
    BY <1>1, <2>1 DEF IInv, Control
  <2> QED BY <1>1, <2>1, <2>2, <2>3 DEF IInv, TypeOK, Handshake
<1> QED BY <1>1, Invariant, PTL

\* No thread survives the return of Util_ProcessThreads, whose stack frame
\* holds the slots.
THEOREM ThreadsGone == Spec => []NoThreadLeft
<1>1. IInv => NoThreadLeft
  BY DEF IInv
<1> QED BY <1>1, Invariant, PTL

\* When every entry is finished each has had its one call.
LEMMA AllFinished ==
  ASSUME Once, Finished = Items
  PROVE  \A x \in Items : finished[x] = 1
BY DEF Once, Finished

\* Each step of the manager or of a thread is a step of the abstract loop over
\* the entries, or changes nothing the caller sees.
LEMMA StepRefines ==
  ASSUME IInv, [Next]_vars
  PROVE  [Loop!Next]_<<begun, finished, mpc = "return">>
<1> DEFINE Same == UNCHANGED <<begun, finished, mpc = "return">>
<1>1. CASE SerialCall
  <2>1. i + 1 \in Items /\ i + 1 \notin Begun
    BY <1>1 DEF SerialCall, IInv, Entries
  <2>2. begun[i + 1] = 0
    BY <1>1, <2>1, CountBegin DEF SerialCall, IInv, TypeOK
  <2>3. Loop!Begin(i + 1)
    BY <1>1, <2>1, <2>2 DEF SerialCall, Loop!Begin
  <2> QED BY <2>1, <2>3 DEF Loop!Next
<1>2. CASE SerialReturn
  <2>1. item \in Begun \ Finished /\ item \in Items
    BY <1>2 DEF SerialReturn, IInv, TypeOK, Entries
  <2>2. finished[item] = 0 /\ finished[item] < begun[item]
    BY <2>1 DEF Begun, Finished, IInv, TypeOK
  <2>3. Loop!End(item)
    BY <1>2, <2>2 DEF SerialReturn, Loop!End
  <2> QED BY <2>1, <2>3 DEF Loop!Next
<1>3. CASE SerialDone
  <2>1. \A x \in Items : finished[x] = 1
    BY <1>3, AllFinished DEF SerialDone, IInv, Entries
  <2> QED BY <1>3, <2>1 DEF SerialDone, calls, Loop!Next, Loop!Return
<1>4. CASE Join
  <2>1. IInv'
    BY <1>4, InvJoin
  <2>2. UNCHANGED <<begun, finished>> /\ mpc = "join"
    BY <1>4 DEF Join, calls
  <2>3. mpc' = "return" => \A x \in Items : finished[x] = 1
    <3> SUFFICES ASSUME mpc' = "return" PROVE \A x \in Items : finished[x] = 1
      OBVIOUS
    <3>1. Finished' = Items /\ Once'
      BY <2>1 DEF IInv, Entries
    <3>2. finished' = finished /\ Finished = Items
      BY <2>2, <3>1 DEF Finished
    <3> QED BY <3>2, AllFinished DEF IInv
  <2> QED BY <2>2, <2>3 DEF Loop!Next, Loop!Return
<1>5. CASE Create \/ ScanBusy \/ ScanIdle \/ Fill \/ Start \/ Wait \/ Clear \/ Stop
  BY <1>5 DEF Create, ScanBusy, ScanIdle, Fill, Start, Wait, Clear, Stop, Step, calls
<1>6. ASSUME NEW t \in Threads, Call(t) PROVE Loop!Next
  <2>1. pUserData[t] \in Items /\ InSlot(t, pUserData[t])
    BY <1>6 DEF Call, InSlot, IInv, TypeOK, Handshake
  <2>2. pUserData[t] \notin Begun
    BY <2>1 DEF IInv, Entries
  <2>5. begun[pUserData[t]] = 0
    BY <1>6, <2>1, <2>2, CountBegin DEF Call, IInv, TypeOK
  <2>3. mpc # "return"
    BY <1>6 DEF Call, IInv, NoThreadLeft
  <2>4. Loop!Begin(pUserData[t])
    BY <1>6, <2>5, <2>3 DEF Call, manager, Loop!Begin
  <2> QED BY <2>1, <2>4 DEF Loop!Next
<1>7. ASSUME NEW t \in Threads, CallOver(t) PROVE Loop!Next
  <2>1. arg[t] \in Items /\ InCall(t, arg[t])
    BY <1>7 DEF CallOver, InCall, IInv, CallsKnown
  <2>2. arg[t] \in Begun \ Finished
    BY <2>1 DEF IInv, Entries
  <2>5. finished[arg[t]] = 0 /\ finished[arg[t]] < begun[arg[t]]
    BY <2>1, <2>2 DEF Begun, Finished, IInv, TypeOK
  <2>3. mpc # "return"
    BY <1>7 DEF CallOver, IInv, NoThreadLeft
  <2>4. Loop!End(arg[t])
    BY <1>7, <2>5, <2>3 DEF CallOver, manager, Loop!End
  <2> QED BY <2>1, <2>4 DEF Loop!Next
<1>8. ASSUME NEW t \in Threads, Wake(t) \/ Exit(t) \/ Release(t) PROVE Same
  BY <1>8 DEF Wake, Exit, Release, manager, calls
<1>9. CASE UNCHANGED vars
  BY <1>9 DEF vars
<1> QED BY <1>1, <1>2, <1>3, <1>4, <1>5, <1>6, <1>7, <1>8, <1>9
     DEF Next, Manager, Util_Thread

\* Util_ProcessThreads calls the function once and not twice per entry, whatever
\* the order of its threads' steps, and returns after the last call is over.
THEOREM Implements == Spec => LoopSpec
<1>1. Init => Loop!Init
  BY DEF Init, Loop!Init
<1>2. IInv /\ [Next]_vars => [Loop!Next]_<<begun, finished, mpc = "return">>
  BY StepRefines
<1> QED BY <1>1, <1>2, Invariant, PTL DEF Spec, LoopSpec, Loop!Spec

=============================================================================
