-------------------------- MODULE EventBridge_proofs --------------------------
(***************************************************************************)
(* Proofs about EventBridge for a queue of any length: whatever ESP-IDF    *)
(* refuses, bridge, adapter and ESP-IDF agree after every call, the result *)
(* tells what was left, no handler calls through a null pointer, and the   *)
(* readiness follows the station.                                          *)
(***************************************************************************)
EXTENDS EventBridge, TLAPS

(* The three signals are numbered. *)
LEMMA RegisteredFacts ==
    /\ \A i \in 1 .. 3 : Registered[i] \in Signals
    /\ \A i, j \in 1 .. 3 : Registered[i] = Registered[j] => i = j
    /\ \A s \in Signals : \E i \in 1 .. 3 : s = Registered[i]
    /\ Signals = {"StationGotIp", "StationLostIp", "StationDisconnected"}
<1>1. /\ Registered[1] = "StationGotIp" /\ Registered[2] = "StationLostIp"
      /\ Registered[3] = "StationDisconnected"
  BY DEF Registered
<1>2. 1 .. 3 = {1, 2, 3}
  OBVIOUS
<1>3. Signals = {Registered[1], Registered[2], Registered[3]}
  BY <1>2 DEF Signals
<1> QED
  BY <1>1, <1>2, <1>3

(* A mask is empty or full as its three bits say. *)
LEMMA MaskBits ==
    ASSUME NEW M \in SUBSET Signals
    PROVE  /\ M # {} <=> \E i \in 1 .. 3 : Registered[i] \in M
           /\ M = Signals <=> \A i \in 1 .. 3 : Registered[i] \in M
<1>1. \A s \in Signals : \E i \in 1 .. 3 : s = Registered[i]
  BY RegisteredFacts
<1>2. \A i \in 1 .. 3 : Registered[i] \in Signals
  BY RegisteredFacts
<1>3. M # {} <=> \E i \in 1 .. 3 : Registered[i] \in M
  BY <1>1
<1>4. M = Signals <=> \A i \in 1 .. 3 : Registered[i] \in M
  BY <1>1, <1>2
<1> QED
  BY <1>3, <1>4

-----------------------------------------------------------------------------
(* The invariant. *)

Here(i) == Registered[i] \in bridgeMask

(* The masks agree at every step; ESP-IDF is ahead of them between its       *)
(* answer and the bookkeeping.                                               *)
MaskInv ==
    /\ adapterMask = bridgeMask
    /\ callback <=> bridgeMask # {}
    /\ handlers = IF pc = "adopt" THEN bridgeMask \union {Registered[index]}
                  ELSE IF pc = "drop" THEN bridgeMask \ {Registered[index]}
                  ELSE bridgeMask

(* Inside the loops: which signals have been dealt with. *)
LoopInv ==
    /\ pc \in {"add", "adopt"} => \A i \in 1 .. 3 : Here(i) <=> i < index
    /\ pc = "drop" => Here(index)
    /\ pc \in {"remove", "drop"} => (failed <=> \E i \in 1 .. 3 : i > index /\ Here(i))

(* A handler that runs is registered, since ESP-IDF's lock is held, and the  *)
(* pointer it was dispatched through is needed as long as it is.             *)
RunningInv == running # "none" => running \in handlers /\ callback

(* While the handlers are being watched, no call changes them.               *)
WatchInv ==
    /\ watched => pc = "idle" /\ bridgeMask = Signals /\ station # "off"
    /\ station = "off" => queue = <<>> /\ running = "none" /\ networkReady = FALSE

(* The last event that was posted agrees with the station.                   *)
LastInv ==
    watched =>
        IF queue # <<>> THEN ReadyAfter(queue[Len(queue)]) = (station = "ip")
        ELSE IF running # "none" THEN ReadyAfter(running) = (station = "ip")
        ELSE networkReady = (station = "ip")

IInv == TypeOK /\ MaskInv /\ LoopInv /\ ResultsHonest /\ RunningInv /\ WatchInv /\ LastInv

(* TypeOK in two halves: flags, and the rest. *)
FlagTypes ==
    /\ rollback \in BOOLEAN /\ failed \in BOOLEAN /\ callback \in BOOLEAN
    /\ loopReady \in BOOLEAN /\ networkReady \in BOOLEAN /\ watched \in BOOLEAN

DataTypes ==
    /\ pc \in {"idle", "add", "adopt", "remove", "drop"}
    /\ index \in 1 .. 3 /\ result \in Results
    /\ bridgeMask \subseteq Signals /\ adapterMask \subseteq Signals
    /\ handlers \subseteq Signals
    /\ running \in Signals \union {"none"} /\ queue \in Seq(Signals)
    /\ station \in {"off", "down", "associated", "ip"}

LEMMA TypesInHalves == TypeOK <=> FlagTypes /\ DataTypes
BY Zenon DEF TypeOK, FlagTypes, DataTypes

LEMMA InitInv == Init => IInv
<1> SUFFICES ASSUME Init PROVE IInv
  OBVIOUS
<1>1. DataTypes
  BY DEF Init, DataTypes, Results
<1>2. FlagTypes
  BY Zenon DEF Init, FlagTypes
<1> QED
  BY <1>1, <1>2, TypesInHalves
  DEF Init, IInv, MaskInv, LoopInv, ResultsHonest, RunningInv, WatchInv, LastInv

LEMMA FlagStep == FlagTypes /\ [Next]_vars => FlagTypes'
<1> SUFFICES ASSUME FlagTypes, [Next]_vars PROVE FlagTypes'
  OBVIOUS
<1> USE DEF FlagTypes, call, masks, flags, events
<1>1. CASE Register
  BY <1>1, Zenon DEF Register, Return
<1>2. ASSUME NEW r \in BOOLEAN, BeginUnregister(r), failed \in BOOLEAN
      PROVE  rollback' \in BOOLEAN /\ failed' \in BOOLEAN
  BY <1>2, Zenon DEF BeginUnregister, Return
<1>3. CASE Unregister
  BY <1>2, <1>3, Zenon DEF Unregister
<1>4. CASE Add
  BY <1>2, <1>4, Zenon DEF Add
<1>5. CASE Adopt
  BY <1>5, Zenon DEF Adopt, Return
<1>6. CASE Remove
  BY <1>6, Zenon DEF Remove, KeepRefused, NextRemoval
<1>7. CASE Drop
  BY <1>7, Zenon DEF Drop, NextRemoval
<1>8. CASE ReportEventLoop
  BY <1>8, Zenon DEF ReportEventLoop
<1>9. CASE Dispatch
  BY <1>9, Zenon DEF Dispatch
<1>10. CASE Handle
  BY <1>10, Zenon DEF Handle, ReadyAfter
<1>11. CASE World
  BY <1>11, Zenon DEF World, StartWifi, Associate, GotIp, LostIp, Disconnected, Post
<1>12. CASE UNCHANGED vars
  BY <1>12, Zenon DEF vars
<1> QED
  BY <1>1, <1>3, <1>4, <1>5, <1>6, <1>7, <1>8, <1>9, <1>10, <1>11, <1>12
  DEF Next, ApplicationStep, EventLoop

LEMMA DataStep == DataTypes /\ [Next]_vars => DataTypes'
<1> SUFFICES ASSUME DataTypes, [Next]_vars PROVE DataTypes'
  OBVIOUS
<1> USE DEF DataTypes, call, masks, flags, events
<1>0. Registered[index] \in Signals
  BY RegisteredFacts
<1>1. CASE Register
  BY <1>1 DEF Register, Return, Results
<1>2. CASE Unregister
  BY <1>2 DEF Unregister, BeginUnregister, Return, Results
<1>3. CASE Add
  BY <1>0, <1>3 DEF Add, BeginUnregister, Return, Results
<1>4. CASE Adopt
  BY <1>0, <1>4 DEF Adopt, Return, Results
<1>5. ASSUME NEW b, NextRemoval(b)
      PROVE  pc' \in {"idle", "remove"} /\ index' \in 1 .. 3 /\ result' \in Results
  BY <1>5 DEF NextRemoval, RemovalResult, Return, Results
<1>6. CASE Remove
  BY <1>5, <1>6 DEF Remove, KeepRefused
<1>7. CASE Drop
  BY <1>5, <1>7 DEF Drop
<1>8. CASE ReportEventLoop
  BY <1>8 DEF ReportEventLoop
<1>9. CASE Dispatch
  BY <1>9 DEF Dispatch, Unlocked
<1>10. CASE Handle
  BY <1>10 DEF Handle
<1>11. CASE World
  <2>1. ASSUME NEW s \in Signals, NEW t \in {"down", "associated", "ip"}, Post(s, t)
        PROVE  DataTypes'
    BY <2>1 DEF Post
  <2>2. CASE GotIp \/ LostIp \/ Disconnected
    BY <2>1, <2>2, RegisteredFacts DEF GotIp, LostIp, Disconnected
  <2>3. CASE StartWifi \/ Associate
    BY <2>3 DEF StartWifi, Associate
  <2> QED
    BY <1>11, <2>2, <2>3 DEF World
<1>12. CASE UNCHANGED vars
  BY <1>12 DEF vars
<1> QED
  BY <1>1, <1>2, <1>3, <1>4, <1>6, <1>7, <1>8, <1>9, <1>10, <1>11, <1>12
  DEF Next, ApplicationStep, EventLoop

(* The event loop and the station leave the call and the masks alone.        *)
LEMMA QuietSteps ==
    ASSUME ReportEventLoop \/ EventLoop \/ World \/ UNCHANGED vars
    PROVE  UNCHANGED <<call, masks>>
<1>1. CASE ReportEventLoop
  BY <1>1 DEF ReportEventLoop
<1>2. CASE EventLoop
  BY <1>2 DEF EventLoop, Dispatch, Handle
<1>3. CASE World
  BY <1>3 DEF World, StartWifi, Associate, GotIp, LostIp, Disconnected, Post
<1>4. CASE UNCHANGED vars
  BY <1>4 DEF vars
<1> QED
  BY <1>1, <1>2, <1>3, <1>4

(* The masks and the loops over them. *)
CallInv == MaskInv /\ LoopInv /\ ResultsHonest

LEMMA CallStep == IInv /\ [Next]_vars => CallInv'
<1> SUFFICES ASSUME IInv, [Next]_vars PROVE CallInv'
  OBVIOUS
<1>0. /\ MaskInv /\ LoopInv /\ ResultsHonest
      /\ index \in 1 .. 3 /\ bridgeMask \subseteq Signals
      /\ Registered[index] \in Signals
  BY RegisteredFacts, TypesInHalves DEF IInv, DataTypes
<1> USE DEF CallInv, MaskInv, LoopInv, ResultsHonest, Here
<1>1. CASE Register
  BY <1>0, <1>1, RegisteredFacts DEF Register, Return, masks
<1>2. CASE Unregister
  <2>1. CASE bridgeMask = {}
    BY <1>0, <1>2, <2>1, RegisteredFacts DEF Unregister, BeginUnregister, Return, masks
  <2>2. CASE bridgeMask # {}
    <3>1. MaskInv'
      BY <1>0, <1>2, <2>2, RegisteredFacts DEF Unregister, BeginUnregister, Return, masks
    <3>2. LoopInv'
      BY <1>0, <1>2, <2>2, RegisteredFacts DEF Unregister, BeginUnregister, Return, masks
    <3>3. ResultsHonest'
      BY <1>0, <1>2, <2>2, RegisteredFacts DEF Unregister, BeginUnregister, Return, masks
    <3> QED
      BY <3>1, <3>2, <3>3
  <2> QED
    BY <2>1, <2>2
<1>3. CASE Add
  <2>1. CASE BeginUnregister(TRUE) /\ bridgeMask = {}
    BY <1>0, <1>3, <2>1, RegisteredFacts DEF Add, BeginUnregister, Return
  <2>2. CASE BeginUnregister(TRUE) /\ bridgeMask # {}
    <3>1. MaskInv'
      BY <1>0, <1>3, <2>2, RegisteredFacts DEF Add, BeginUnregister, Return
    <3>2. LoopInv'
      BY <1>0, <1>3, <2>2, RegisteredFacts DEF Add, BeginUnregister, Return
    <3>3. ResultsHonest'
      BY <1>0, <1>3, <2>2, RegisteredFacts DEF Add, BeginUnregister, Return
    <3> QED
      BY <3>1, <3>2, <3>3
  <2>3. CASE pc' = "adopt"
    BY <1>0, <1>3, <2>3, RegisteredFacts DEF Add, BeginUnregister, Return
  <2> QED
    BY <1>3, <2>1, <2>2, <2>3 DEF Add
<1>4. CASE Adopt
  <2>1. CASE index = 3
    <3>1. MaskInv'
      BY <1>0, <1>4, <2>1, RegisteredFacts DEF Adopt, Return
    <3>2. LoopInv'
      BY <1>0, <1>4, <2>1, RegisteredFacts DEF Adopt, Return
    <3>3. ResultsHonest'
      <4>1. \A i \in 1 .. 3 : Registered[i] \in bridgeMask'
        BY <1>0, <1>4, <2>1 DEF Adopt
      <4>2. bridgeMask' = Signals
        <5>1. bridgeMask' \in SUBSET Signals
          BY <1>0, <1>4 DEF Adopt
        <5> QED
          BY <4>1, <5>1, MaskBits
      <4>3. handlers' = Signals /\ result' = "Registered"
        BY <1>4, <2>1, <3>1, <4>2 DEF Adopt, Return
      <4> QED
        BY <4>3
    <3> QED
      BY <3>1, <3>2, <3>3
  <2>2. CASE index # 3
    BY <1>0, <1>4, <2>2, RegisteredFacts DEF Adopt, Return
  <2> QED
    BY <2>1, <2>2
<1>5. CASE Remove
  <2>1. CASE Registered[index] \notin bridgeMask
    <3>1. MaskInv'
      BY <1>0, <1>5, <2>1, RegisteredFacts DEF Remove, NextRemoval, RemovalResult, Return
    <3>2. LoopInv'
      BY <1>0, <1>5, <2>1, RegisteredFacts DEF Remove, NextRemoval, RemovalResult, Return
    <3>3. ResultsHonest'
      <4>1. NextRemoval(failed) /\ UNCHANGED bridgeMask
        BY <1>5, <2>1 DEF Remove
      <4>2. CASE index = 1
        <5>1. failed <=> \E i \in 1 .. 3 : i > 1 /\ Registered[i] \in bridgeMask
          BY <1>0, <1>5, <4>2 DEF Remove
        <5>2. bridgeMask # {} <=> failed
          <6>1. \A i \in 1 .. 3 : Registered[i] \in bridgeMask => i > 1
            BY <2>1, <4>2
          <6> QED
            BY <1>0, <5>1, <6>1, MaskBits
        <5>3. pc' = "idle" /\ handlers' = bridgeMask /\ result' = RemovalResult(failed)
          BY <3>1, <4>1, <4>2 DEF NextRemoval, Return
        <5> QED
          BY <5>2, <5>3 DEF RemovalResult
      <4>3. CASE index # 1
        BY <4>1, <4>3 DEF NextRemoval
      <4> QED
        BY <4>2, <4>3
    <3> QED
      BY <3>1, <3>2, <3>3
  <2>2. CASE pc' = "drop"
    BY <1>0, <1>5, <2>2, RegisteredFacts DEF Remove, NextRemoval, RemovalResult, Return
  <2>3. CASE Registered[index] \in bridgeMask /\ pc' # "drop"
    BY <1>0, <1>5, <2>3, RegisteredFacts DEF Remove, KeepRefused, NextRemoval, RemovalResult, Return
  <2> QED
    BY <2>1, <2>2, <2>3
<1>6. CASE Drop
  <2>1. CASE index = 1
    <3>1. MaskInv'
      BY <1>0, <1>6, <2>1, RegisteredFacts DEF Drop, StillNeeded, NextRemoval, RemovalResult, Return
    <3>2. LoopInv'
      BY <1>0, <1>6, <2>1, RegisteredFacts DEF Drop, StillNeeded, NextRemoval, RemovalResult, Return
    <3>3. ResultsHonest'
      <4>1. bridgeMask' # {} <=> failed
        <5>1. failed <=> \E i \in 1 .. 3 : i > 1 /\ Registered[i] \in bridgeMask
          BY <1>0, <1>6, <2>1 DEF Drop
        <5>2. bridgeMask' \in SUBSET Signals /\ bridgeMask' = bridgeMask \ {Registered[1]}
          BY <1>0, <1>6, <2>1 DEF Drop
        <5>3. \A i \in 1 .. 3 : Registered[i] \in bridgeMask' <=> i > 1 /\ Registered[i] \in bridgeMask
          BY <5>2, RegisteredFacts
        <5> QED
          BY <5>1, <5>2, <5>3, MaskBits
      <4>2. pc' = "idle" /\ handlers' = bridgeMask' /\ result' = RemovalResult(failed)
        BY <1>6, <2>1, <3>1 DEF Drop, NextRemoval, Return
      <4> QED
        BY <4>1, <4>2 DEF RemovalResult
    <3> QED
      BY <3>1, <3>2, <3>3
  <2>2. CASE index # 1
    <3>1. MaskInv'
      BY <1>0, <1>6, <2>2, RegisteredFacts DEF Drop, StillNeeded, NextRemoval, RemovalResult, Return
    <3>2. LoopInv'
      BY <1>0, <1>6, <2>2, RegisteredFacts DEF Drop, StillNeeded, NextRemoval, RemovalResult, Return
    <3>3. ResultsHonest'
      BY <1>0, <1>6, <2>2, RegisteredFacts DEF Drop, StillNeeded, NextRemoval, RemovalResult, Return
    <3> QED
      BY <3>1, <3>2, <3>3
  <2> QED
    BY <2>1, <2>2
<1>7. CASE ReportEventLoop \/ EventLoop \/ World \/ UNCHANGED vars
  BY <1>0, <1>7, QuietSteps DEF call, masks
<1> QED
  BY <1>1, <1>2, <1>3, <1>4, <1>5, <1>6, <1>7 DEF Next, ApplicationStep

(* The event loop's handler. *)
LEMMA RunningStep == IInv /\ [Next]_vars => RunningInv'
<1> SUFFICES ASSUME IInv, [Next]_vars, running' # "none" PROVE running' \in handlers' /\ callback'
  BY DEF RunningInv
<1>0. RunningInv /\ MaskInv
  BY DEF IInv
<1> USE DEF RunningInv, Unlocked, call, masks, events
<1>1. CASE Register
  BY <1>0, <1>1 DEF Register
<1>2. CASE Unregister
  BY <1>0, <1>2 DEF Unregister
<1>3. CASE Add
  BY <1>0, <1>3 DEF Add
<1>4. CASE Adopt
  BY <1>0, <1>4 DEF Adopt
<1>5. CASE Remove
  BY <1>0, <1>5 DEF Remove
<1>6. CASE Drop
  <2>1. running \in bridgeMask \ {Registered[index]} /\ callback /\ UNCHANGED <<running, handlers>>
    BY <1>0, <1>6 DEF Drop, MaskInv
  <2>2. adapterMask' # {} /\ callback' = (callback /\ StillNeeded(adapterMask'))
    BY <1>0, <1>6, <2>1 DEF Drop, MaskInv
  <2> QED
    BY <1>0, <2>1, <2>2 DEF StillNeeded
<1>7. CASE ReportEventLoop
  BY <1>0, <1>7 DEF ReportEventLoop
<1>8. CASE EventLoop
  BY <1>0, <1>8 DEF EventLoop, Dispatch, Handle
<1>9. CASE World
  BY <1>0, <1>9 DEF World, StartWifi, Associate, GotIp, LostIp, Disconnected, Post
<1>10. CASE UNCHANGED vars
  BY <1>0, <1>10 DEF vars
<1> QED
  BY <1>1, <1>2, <1>3, <1>4, <1>5, <1>6, <1>7, <1>8, <1>9, <1>10 DEF Next, ApplicationStep

(* While the handlers are watched, no call takes any away. *)
LEMMA WatchStep == IInv /\ [Next]_vars => WatchInv'
<1> SUFFICES ASSUME IInv, [Next]_vars PROVE WatchInv'
  OBVIOUS
<1>0. WatchInv /\ Signals # {}
  BY RegisteredFacts DEF IInv
<1> USE DEF WatchInv, call, masks, flags, events
<1>1. CASE Register
  BY <1>0, <1>1 DEF Register, Return
<1>2. CASE Unregister
  BY <1>0, <1>2 DEF Unregister, BeginUnregister, Return
<1>3. CASE ApplicationStep
  <2>1. pc # "idle" /\ UNCHANGED <<flags, events, station, watched>>
    BY <1>3 DEF ApplicationStep, Add, Adopt, Remove, Drop
  <2> QED
    BY <1>0, <2>1
<1>4. CASE ReportEventLoop
  BY <1>0, <1>4 DEF ReportEventLoop
<1>5. CASE EventLoop
  BY <1>0, <1>5 DEF EventLoop, Dispatch, Handle
<1>6. CASE World
  BY <1>0, <1>6 DEF World, StartWifi, Associate, GotIp, LostIp, Disconnected, Post
<1>7. CASE UNCHANGED vars
  BY <1>0, <1>7 DEF vars
<1> QED
  BY <1>1, <1>2, <1>3, <1>4, <1>5, <1>6, <1>7 DEF Next

(* What the last event said, and the station, agree. *)
LEMMA LastStep == IInv /\ [Next]_vars => LastInv'
<1> SUFFICES ASSUME IInv, [Next]_vars, watched' PROVE LastInv'
  BY DEF LastInv
<1>0. /\ LastInv /\ WatchInv /\ MaskInv /\ RunningInv
      /\ queue \in Seq(Signals) /\ station \in {"off", "down", "associated", "ip"}
      /\ running \in Signals \union {"none"}
  BY TypesInHalves DEF IInv, DataTypes
<1> USE DEF LastInv, call, masks, flags, events
<1>1. CASE Register \/ Unregister \/ ApplicationStep \/ ReportEventLoop \/ UNCHANGED vars
  <2>1. UNCHANGED <<networkReady, events, station>> /\ watched
    BY <1>1 DEF Register, Unregister, ApplicationStep, Add, Adopt, Remove, Drop, ReportEventLoop, vars
  <2> QED
    BY <1>0, <2>1
<1>2. CASE Dispatch
  <2>1. queue # <<>> /\ running = "none" /\ watched /\ UNCHANGED <<networkReady, station>>
        /\ queue' = Tail(queue)
    BY <1>2 DEF Dispatch, Unlocked
  <2>2. running' = Head(queue) /\ Head(queue) # "none"
    <3>1. Head(queue) \in Signals /\ handlers = Signals /\ callback
      BY <1>0, <2>1, RegisteredFacts DEF WatchInv, MaskInv
    <3> QED
      BY <1>2, <3>1, RegisteredFacts DEF Dispatch
  <2>3. CASE Len(queue) = 1
    <3>1. queue' = <<>> /\ Head(queue) = queue[Len(queue)]
      BY <1>0, <2>1, <2>3
    <3> QED
      BY <1>0, <2>1, <2>2, <3>1 DEF ReadyAfter
  <2>4. CASE Len(queue) # 1
    <3>1. queue' # <<>> /\ queue'[Len(queue')] = queue[Len(queue)]
      <4> DEFINE n == Len(queue)
      <4>1. n \in Nat /\ n > 1
        <5>1. queue \in Seq(Signals) /\ queue # <<>>
          BY <1>0, <2>1
        <5>2. n \in Nat /\ n # 0
          BY <5>1
        <5> QED
          BY <2>4, <5>2
      <4>2. Len(queue') = n - 1 /\ queue'[n - 1] = queue[n] /\ queue' \in Seq(Signals)
        BY <1>0, <2>1, <4>1
      <4> QED
        BY <4>1, <4>2
    <3> QED
      BY <1>0, <2>1, <3>1 DEF ReadyAfter
  <2> QED
    BY <2>3, <2>4
<1>3. CASE Handle
  BY <1>0, <1>3 DEF Handle, ReadyAfter
<1>4. ASSUME NEW s \in Signals, NEW t, Post(s, t), ReadyAfter(s) = (t = "ip") PROVE LastInv'
  <2>1. queue' # <<>> /\ queue'[Len(queue')] = s /\ station' = t
    BY <1>0, <1>4 DEF Post
  <2> QED
    BY <1>4, <2>1 DEF ReadyAfter
<1>5. CASE GotIp \/ LostIp \/ Disconnected
  BY <1>4, <1>5, RegisteredFacts DEF GotIp, LostIp, Disconnected, ReadyAfter
<1>6. CASE StartWifi
  BY <1>0, <1>6 DEF StartWifi, WatchInv
<1>7. CASE Associate
  BY <1>0, <1>7 DEF Associate, ReadyAfter
<1> QED
  BY <1>1, <1>2, <1>3, <1>5, <1>6, <1>7 DEF Next, EventLoop, World

LEMMA Invariance == Spec => []IInv
<1>1. IInv /\ [Next]_vars => IInv'
  <2> SUFFICES ASSUME IInv, [Next]_vars PROVE IInv'
    OBVIOUS
  <2>1. TypeOK'
    <3>1. (FlagTypes /\ DataTypes)'
      BY TypesInHalves, FlagStep, DataStep DEF IInv
    <3> QED
      BY <3>1, Zenon DEF TypeOK, FlagTypes, DataTypes
  <2> QED
    BY <2>1, CallStep, RunningStep, WatchStep, LastStep DEF IInv, CallInv
<1> QED
  BY <1>1, InitInv, PTL DEF Spec

-----------------------------------------------------------------------------
(* The theorems. *)

(* Types, whatever was refused and however long the queue is. *)
THEOREM TypeCorrect == Spec => []TypeOK
<1>1. IInv => TypeOK
  BY DEF IInv
<1> QED
  BY <1>1, Invariance, PTL

(* After every call, successful, rolled back or left half done, bridge,      *)
(* adapter and ESP-IDF agree on which handlers are registered.               *)
THEOREM MasksStayEqual == Spec => []MasksAgree
<1>1. IInv => MasksAgree
  BY DEF IInv, MaskInv, MasksAgree
<1> QED
  BY <1>1, Invariance, PTL

(* A call's result says what it left, through refusals in the registration,  *)
(* in its rollback and in the removal.                                       *)
THEOREM ResultsAreHonest == Spec => []ResultsHonest
<1>1. IInv => ResultsHonest
  BY DEF IInv
<1> QED
  BY <1>1, Invariance, PTL

(* on_event never calls through the pointer that the other task clears: the  *)
(* handler that runs is registered as long as it runs, and the pointer goes  *)
(* with the last handler.                                                    *)
THEOREM CallsAreSafe == Spec => []NoNullCall
<1>1. IInv => NoNullCall
  BY DEF IInv, RunningInv, NoNullCall
<1> QED
  BY <1>1, Invariance, PTL

(* Once all events are handled, network_ready_ is what the station's last    *)
(* event said, for a queue of any length.                                    *)
THEOREM ReadinessIsRight == Spec => []ReadinessTracksStation
<1>1. IInv => ReadinessTracksStation
  BY DEF IInv, LastInv, ReadinessTracksStation
<1> QED
  BY <1>1, Invariance, PTL
=============================================================================
