--------------------------- MODULE BootClock_proofs ---------------------------
(***************************************************************************)
(* Proofs about BootClock for every width of the millisecond counter,      *)
(* every time-out, every queue and every set of refusals: the rollback is  *)
(* complete, no synchronisation is lost, the time-out is measured right,   *)
(* and the reports are those that TrustedClock allows.                     *)
(***************************************************************************)
EXTENDS BootClock, TLAPS

-----------------------------------------------------------------------------
(* Milliseconds: an unsigned counter of any width. *)

(* The next reading: the counter starts again at zero. *)
LEMMA CounterSuccessor ==
    ASSUME NEW width \in Nat, width > 0, NEW a \in 0 .. width - 1
    PROVE  (a + 1) % width = IF a + 1 = width THEN 0 ELSE a + 1
BY SMT

(* The unsigned difference of two readings: the way from b up to a, through  *)
(* the wrap when a is below b.                                               *)
LEMMA CounterDifference ==
    ASSUME NEW width \in Nat, width > 0, NEW a \in 0 .. width - 1, NEW b \in 0 .. width - 1
    PROVE  (a - b) % width = IF a >= b THEN a - b ELSE a - b + width
BY SMT

-----------------------------------------------------------------------------
(* The invariant of the source and its backend. *)

Early == {"registerSync", "storeCallback", "initSntp", "registerIp"}

Failing == {"undoIp", "undoService", "undoInit", "undoSync"}

Started == {"start", "storeInitialized"}

Up == ipc = "out" /\ initialized

(* How far initialize() or its rollback has come decides what is registered; *)
(* a handler that ESP-IDF refused to give back stays for the rest.           *)
HandlerInv ==
    /\ handlers \subseteq {"sync", "ip"} /\ kept \subseteq {"sync", "ip"}
    /\ "sync" \in handlers <=>
         \/ ipc \in (Early \ {"registerSync"}) \union Started \union Failing
         \/ Up \/ "sync" \in kept
    /\ "ip" \in handlers <=> ipc \in Started \union {"undoIp"} \/ Up \/ "ip" \in kept
    /\ "sync" \in kept => ipc = "out" /\ ~initialized
    /\ "ip" \in kept => ipc \in {"undoService", "undoSync", "clearCallback", "out"} /\ ~initialized

CallbackInv ==
    /\ callback <=>
         \/ ipc \in {"initSntp", "registerIp", "clearCallback"} \union Started \union Failing
         \/ Up \/ "sync" \in kept
    /\ registered <=> callback

ServiceInv ==
    /\ ipc \in {"registerSync", "storeCallback", "initSntp", "undoSync", "clearCallback"}
         => service = "absent"
    /\ ipc \in {"registerIp", "undoInit"} => service = "configured"
    /\ ipc = "out" /\ ~initialized => service = "absent"
    /\ sntpUp <=> ipc \in Started \union {"undoIp", "undoService"} \/ Up

(* initialize() succeeds once, and only its last step says so. *)
OutcomeInv ==
    /\ initialized <=> outcome = "Initialized"
    /\ initialized => ipc = "out"
    /\ ipc \in Failing \union {"clearCallback"} => outcome # "none"

(* A handler that runs is registered, and one for the time has its callback. *)
RunningInv ==
    /\ running # "none" => running \in handlers
    /\ running = "sync" => callback

Pending == running = "sync" \/ \E i \in 1 .. Len(queue) : queue[i] = "sync"

(* A synchronisation has its origin in an answer, ...                        *)
AnswerInv ==
    /\ queue \in Seq({"sync", "ip"})
    /\ Pending \/ synchronized => answered
    /\ ipc \in Early => ~answered /\ kept = {}

(* ... and every answer is on its way or has arrived, until a rollback.      *)
NotLostInv == answered /\ (ipc \in Started \/ initialized) => Pending \/ synchronized

SntpInv ==
    /\ HandlerInv /\ CallbackInv /\ ServiceInv /\ OutcomeInv
    /\ RunningInv /\ AnswerInv /\ NotLostInv

(* Before initialize() was called. *)
Fresh == ipc = "out" /\ outcome = "none" /\ kept = {} /\ ~answered

-----------------------------------------------------------------------------
(* The invariant of the coordinator. *)

TaskInv ==
    /\ ipc # "out" => tpc = "initialize"
    /\ tpc = "initialize" => state = "WaitingForPrerequisites" /\ ~sourceInitialized
    /\ tpc # "initialize" => (sourceInitialized <=> initialized)
    /\ tpc # "initialize" /\ state = "WaitingForPrerequisites" => Fresh
    /\ state \in {"WaitingForSynchronization", "SynchronizationTimedOut"} => sourceInitialized
    /\ tpc \in {"check", "measure"} => sourceInitialized
    /\ ipc = "out" /\ tpc = "initialize" => outcome # "none"

ReportInv ==
    /\ tpc = "idle" => report = state
    /\ tpc \in {"initialize", "check", "measure"} =>
         /\ report \in {"WaitingForPrerequisites", "WaitingForSynchronization",
                        "SynchronizationTimedOut"}
         /\ state \in {"WaitingForPrerequisites", "WaitingForSynchronization",
                        "SynchronizationTimedOut"}
    /\ tpc \in {"check", "measure"} => state # "WaitingForPrerequisites"
    /\ tpc \in {"idle", "initialize", "check", "measure"}
    /\ tpc = "initialize" => report = "WaitingForPrerequisites"
    /\ sourceInitialized => state # "WaitingForPrerequisites" /\ state # "InitializationFailed"
    /\ state \in Promise!Reports

(* The true time since the start and the difference of the counters. *)
TimeInv ==
    /\ nowMs \in 0 .. Word - 1 /\ startedMs \in 0 .. Word - 1 /\ waited \in 0 .. LongTime
    /\ waited < Word => (nowMs - startedMs) % Word = waited

IInv == SntpInv /\ TaskInv /\ ReportInv /\ TimeInv

LEMMA InitInv == Init => IInv
<1> SUFFICES ASSUME Init PROVE IInv
  OBVIOUS
<1>1. SntpInv
  BY DEF Init, SntpInit, SntpInv, HandlerInv, CallbackInv, ServiceInv, OutcomeInv, RunningInv,
     AnswerInv, NotLostInv, Pending, Early, Started, Failing, Up
<1>2. TaskInv /\ ReportInv
  BY DEF Init, SntpInit, TaskInv, ReportInv, Fresh, Promise!Reports
<1>3. TimeInv
  BY TimeoutFits, CounterDifference DEF Init, TimeInv, LongTime
<1> QED
  BY <1>1, <1>2, <1>3 DEF IInv

-----------------------------------------------------------------------------
(* What is registered: one case per step of initialize() and its rollback.   *)

RegistrationInv == HandlerInv /\ CallbackInv /\ ServiceInv /\ OutcomeInv

LEMMA RegistrationStep ==
    ASSUME SntpInv,
           \/ InitializeStep \/ EventStep \/ Network
           \/ Initialize /\ Fresh
           \/ UNCHANGED sntpVars
    PROVE  RegistrationInv'
<1>0. RegistrationInv
  BY DEF SntpInv, RegistrationInv
<1> USE DEF RegistrationInv, HandlerInv, CallbackInv, ServiceInv, OutcomeInv, Early, Started,
        Failing, Up, Proceed, Fail
<1>1. CASE RegisterSync
  <2>1. /\ handlers = {} /\ kept = {} /\ ~initialized /\ outcome # "Initialized" /\ ~callback
        /\ service = "absent"
    BY <1>0, <1>1 DEF RegisterSync, SntpInv, AnswerInv
  <2>2. CASE ipc' = "storeCallback"
    BY <1>0, <1>1, <2>1, <2>2 DEF RegisterSync
  <2>3. CASE ipc' = "out"
    <3>1. handlers' = {} /\ kept' = {} /\ ~initialized'
      BY <1>1, <2>1, <2>3 DEF RegisterSync
    <3>2. HandlerInv'
      BY <2>3, <3>1
    <3> QED
      BY <1>0, <1>1, <2>1, <2>3, <3>1, <3>2 DEF RegisterSync
  <2> QED
    BY <1>1, <2>2, <2>3 DEF RegisterSync
<1>2. CASE StoreCallback
  BY <1>0, <1>2 DEF StoreCallback, SntpInv, AnswerInv
<1>3. CASE InitSntp
  BY <1>0, <1>3 DEF InitSntp, SntpInv, AnswerInv
<1>4. CASE RegisterIp
  <2>1. CASE ipc' = "start"
    <3>1. HandlerInv'
      BY <1>0, <1>4, <2>1 DEF RegisterIp, SntpInv, AnswerInv
    <3> QED
      BY <1>0, <1>4, <2>1, <3>1 DEF RegisterIp, SntpInv, AnswerInv
  <2>2. CASE ipc' # "start"
    <3>1. HandlerInv'
      BY <1>0, <1>4, <2>2 DEF RegisterIp, SntpInv, AnswerInv
    <3> QED
      BY <1>0, <1>4, <2>2, <3>1 DEF RegisterIp, SntpInv, AnswerInv
  <2> QED
    BY <2>1, <2>2
<1>5. CASE UndoInit
  BY <1>0, <1>5 DEF UndoInit
<1>6. CASE StartSntp
  BY <1>0, <1>6 DEF StartSntp
<1>7. CASE StoreInitialized
  BY <1>0, <1>7 DEF StoreInitialized, backendVars
<1>8. CASE UndoIp
  BY <1>0, <1>8 DEF UndoIp, RemoveHandler, RefuseRemoval
<1>9. CASE UndoService
  BY <1>0, <1>9 DEF UndoService, KeepCallback
<1>10. CASE UndoSync
  <2>1. /\ "sync" \in handlers /\ "sync" \notin kept /\ ~initialized /\ callback
        /\ "ip" \in handlers <=> "ip" \in kept
    BY <1>0, <1>10 DEF UndoSync
  <2>2. CASE ipc' = "clearCallback"
    <3>1. handlers' = handlers \ {"sync"} /\ kept' = kept \ {"sync"} /\ initialized' = initialized
      BY <1>10, <2>2 DEF UndoSync, RemoveHandler
    <3>2. HandlerInv'
      BY <1>0, <2>1, <2>2, <3>1
    <3> QED
      BY <1>0, <1>10, <2>1, <2>2, <3>1, <3>2 DEF UndoSync
  <2>3. CASE ipc' = "out"
    <3>1. handlers' = handlers /\ kept' = kept \union {"sync"} /\ initialized' = initialized
      BY <1>10, <2>3 DEF UndoSync, RefuseRemoval
    <3>2. HandlerInv'
      BY <1>0, <1>10, <2>1, <2>3, <3>1 DEF UndoSync
    <3> QED
      BY <1>0, <1>10, <2>1, <2>3, <3>1, <3>2 DEF UndoSync
  <2> QED
    BY <1>10, <2>2, <2>3 DEF UndoSync
<1>11. CASE ClearCallback
  BY <1>0, <1>11 DEF ClearCallback
<1>12. CASE EventStep \/ Network
  <2>1. UNCHANGED <<sourceVars, callback, registered, sntpUp, handlers, kept>>
    BY <1>12 DEF EventStep, Dispatch, OnSynchronized, OnNetworkReady, Network, Answer,
       AddressObtained, backendVars
  <2>2. service' = service \/ (service # "absent" /\ running = "ip")
    BY <1>12 DEF EventStep, Dispatch, OnSynchronized, OnNetworkReady, Network, Answer,
       AddressObtained, backendVars
  <2>3. running = "ip" => ipc \notin {"registerIp", "undoInit"}
    BY <1>0 DEF SntpInv, RunningInv
  <2>4. service' # "absent" <=> service # "absent"
    BY <1>12, <2>2 DEF EventStep, Dispatch, OnSynchronized, OnNetworkReady, Network, Answer,
       AddressObtained, backendVars
  <2> QED
    BY <1>0, <2>1, <2>2, <2>3, <2>4 DEF sourceVars
<1>13. CASE Initialize /\ Fresh
  BY <1>0, <1>13 DEF Initialize, Fresh, backendVars
<1>14. CASE UNCHANGED sntpVars
  BY <1>0, <1>14 DEF sntpVars, sourceVars, backendVars, loopVars
<1> QED
  BY <1>1, <1>2, <1>3, <1>4, <1>5, <1>6, <1>7, <1>8, <1>9, <1>10, <1>11, <1>12, <1>13, <1>14
  DEF InitializeStep

-----------------------------------------------------------------------------
(* Events. *)

LEMMA RunningStep ==
    ASSUME SntpInv,
           \/ InitializeStep \/ EventStep \/ Network
           \/ Initialize /\ Fresh
           \/ UNCHANGED sntpVars
    PROVE  RunningInv'
<1>0. RunningInv /\ HandlerInv
  BY DEF SntpInv
<1> USE DEF RunningInv, loopVars, backendVars, Unlocked
<1>1. CASE RegisterSync \/ StoreCallback \/ InitSntp \/ RegisterIp \/ UndoInit \/ StartSntp
  BY <1>0, <1>1 DEF RegisterSync, StoreCallback, InitSntp, RegisterIp, UndoInit, StartSntp
<1>2. CASE StoreInitialized \/ UndoService
  BY <1>0, <1>2 DEF StoreInitialized, UndoService, KeepCallback
<1>3. CASE UndoIp \/ UndoSync
  BY <1>0, <1>3 DEF UndoIp, UndoSync
<1>4. CASE ClearCallback
  <2>1. "sync" \notin handlers
    BY <1>0, <1>4 DEF ClearCallback, HandlerInv, Early, Started, Failing, Up
  <2> QED
    BY <1>0, <1>4, <2>1 DEF ClearCallback
<1>5. CASE Dispatch
  BY <1>0, <1>5 DEF Dispatch
<1>6. CASE OnSynchronized \/ OnNetworkReady \/ Network
  BY <1>0, <1>6 DEF OnSynchronized, OnNetworkReady, Network, Answer, AddressObtained
<1>7. CASE Initialize \/ UNCHANGED sntpVars
  BY <1>0, <1>7 DEF Initialize, sntpVars
<1> QED
  BY <1>1, <1>2, <1>3, <1>4, <1>5, <1>6, <1>7 DEF InitializeStep, EventStep

(* Taking the first event and adding one to the end of the queue. *)
LEMMA QueueFacts ==
    ASSUME queue \in Seq({"sync", "ip"})
    PROVE  /\ queue # <<>> =>
                /\ Head(queue) \in {"sync", "ip"} /\ Tail(queue) \in Seq({"sync", "ip"})
                /\ (\E i \in 1 .. Len(queue) : queue[i] = "sync") <=>
                     \/ Head(queue) = "sync"
                     \/ \E i \in 1 .. Len(Tail(queue)) : Tail(queue)[i] = "sync"
           /\ \A e \in {"sync", "ip"} :
                /\ Append(queue, e) \in Seq({"sync", "ip"})
                /\ (\E i \in 1 .. Len(Append(queue, e)) : Append(queue, e)[i] = "sync") <=>
                     \/ e = "sync"
                     \/ \E i \in 1 .. Len(queue) : queue[i] = "sync"
<1>1. ASSUME queue # <<>>
      PROVE  /\ Head(queue) \in {"sync", "ip"} /\ Tail(queue) \in Seq({"sync", "ip"})
             /\ Len(queue) \in Nat \ {0} /\ Len(Tail(queue)) = Len(queue) - 1
             /\ Head(queue) = queue[1]
             /\ \A i \in 1 .. Len(Tail(queue)) : Tail(queue)[i] = queue[i + 1]
  BY <1>1
<1>2. ASSUME queue # <<>>, NEW i \in 1 .. Len(queue), queue[i] = "sync"
      PROVE  Head(queue) = "sync" \/ \E j \in 1 .. Len(Tail(queue)) : Tail(queue)[j] = "sync"
  <2>1. i = 1 \/ i - 1 \in 1 .. Len(Tail(queue))
    BY <1>1, <1>2
  <2>2. i - 1 \in 1 .. Len(Tail(queue)) => Tail(queue)[i - 1] = queue[i]
    BY <1>1, <1>2
  <2> QED
    BY <1>1, <1>2, <2>1, <2>2
<1>3. ASSUME queue # <<>>, NEW j \in 1 .. Len(Tail(queue)), Tail(queue)[j] = "sync"
      PROVE  \E i \in 1 .. Len(queue) : queue[i] = "sync"
  BY <1>1, <1>3
<1>4. ASSUME NEW e \in {"sync", "ip"}
      PROVE  /\ Append(queue, e) \in Seq({"sync", "ip"}) /\ Len(queue) \in Nat
             /\ Len(Append(queue, e)) = Len(queue) + 1
             /\ Append(queue, e)[Len(queue) + 1] = e
             /\ \A i \in 1 .. Len(queue) : Append(queue, e)[i] = queue[i]
  BY <1>4
<1>5. ASSUME NEW e \in {"sync", "ip"}
      PROVE  (\E i \in 1 .. Len(Append(queue, e)) : Append(queue, e)[i] = "sync") <=>
                \/ e = "sync"
                \/ \E i \in 1 .. Len(queue) : queue[i] = "sync"
  <2>1. \A i : i \in 1 .. Len(Append(queue, e)) <=> i \in 1 .. Len(queue) \/ i = Len(queue) + 1
    BY <1>4, <1>5
  <2> QED
    BY <1>4, <1>5, <2>1
<1> QED
  BY <1>1, <1>2, <1>3, <1>4, <1>5

(* What each step does to the events under way. *)
LEMMA EventsMove ==
    ASSUME SntpInv
    PROVE  /\ InitializeStep \/ UNCHANGED sntpVars =>
                UNCHANGED <<queue, running, synchronized, answered>>
           /\ Initialize => UNCHANGED <<queue, running, answered>> /\ ~synchronized'
           /\ EventStep \/ Network => UNCHANGED <<ipc, initialized, kept>>
<1>1. InitializeStep => UNCHANGED <<queue, running, synchronized, answered>>
  BY DEF InitializeStep, RegisterSync, StoreCallback, InitSntp, RegisterIp, UndoInit, StartSntp,
     StoreInitialized, UndoIp, UndoService, UndoSync, ClearCallback, loopVars
<1>2. EventStep \/ Network => UNCHANGED <<ipc, initialized, kept>>
  BY DEF EventStep, Network, Dispatch, OnSynchronized, OnNetworkReady, Answer, AddressObtained,
     sourceVars
<1> QED
  BY <1>1, <1>2 DEF sntpVars, loopVars, Initialize

LEMMA AnswerStep ==
    ASSUME SntpInv,
           \/ InitializeStep \/ EventStep \/ Network
           \/ Initialize /\ Fresh
           \/ UNCHANGED sntpVars
    PROVE  AnswerInv' /\ NotLostInv'
<1>0. AnswerInv /\ NotLostInv /\ RunningInv /\ HandlerInv /\ CallbackInv /\ ServiceInv
  BY DEF SntpInv
<1> USE DEF AnswerInv, NotLostInv, Pending, Early, Started
<1>1. CASE InitializeStep \/ UNCHANGED sntpVars
  <2>1. UNCHANGED <<queue, running, synchronized, answered>>
    BY <1>1, EventsMove
  <2>2. ipc' \in Early => ipc \in Early /\ kept' = kept
    BY <1>1 DEF InitializeStep, RegisterSync, StoreCallback, InitSntp, RegisterIp, UndoInit,
       StartSntp, StoreInitialized, UndoIp, UndoService, UndoSync, ClearCallback, Proceed, Fail,
       sntpVars, sourceVars
  <2>3. ipc' \in Started \/ initialized' => ipc \in Started \union {"registerIp"} \/ initialized
    BY <1>1 DEF InitializeStep, RegisterSync, StoreCallback, InitSntp, RegisterIp, UndoInit,
       StartSntp, StoreInitialized, UndoIp, UndoService, UndoSync, ClearCallback, Proceed, Fail,
       sntpVars, sourceVars
  <2>4. AnswerInv'
    BY <1>0, <2>1, <2>2
  <2>5. NotLostInv'
    BY <1>0, <2>1, <2>3
  <2> QED
    BY <2>4, <2>5
<1>2. CASE Initialize /\ Fresh
  <2>1. UNCHANGED <<queue, running, answered>> /\ ~synchronized' /\ ~answered /\ kept' = kept /\ kept = {}
    BY <1>2, EventsMove DEF Fresh, Initialize
  <2> QED
    BY <1>0, <2>1
<1>3. CASE EventStep \/ Network
  <2>1. UNCHANGED <<ipc, initialized, kept>>
    BY <1>3, EventsMove
  <2>2. CASE Dispatch
    <3>1. running = "none" /\ queue # <<>> /\ queue' = Tail(queue)
          /\ UNCHANGED <<synchronized, answered>>
      BY <2>2 DEF Dispatch, Unlocked
    <3>2. running' = "sync" => Head(queue) = "sync"
      BY <2>2, <3>1 DEF Dispatch
    <3>3. AnswerInv'
      BY <1>0, <2>1, <3>1, <3>2, QueueFacts
    <3>4. ASSUME ipc \in Started \/ initialized, Head(queue) = "sync" PROVE running' = "sync"
      <4>1. "sync" \in handlers /\ callback
        BY <1>0, <3>4 DEF HandlerInv, CallbackInv, SntpInv, OutcomeInv, Up
      <4> QED
        BY <2>2, <3>4, <4>1 DEF Dispatch
    <3>5. NotLostInv'
      BY <1>0, <2>1, <3>1, <3>4, QueueFacts
    <3> QED
      BY <3>3, <3>5
  <2>3. CASE OnSynchronized
    <3>1. running = "sync" /\ synchronized' /\ running' = "none" /\ UNCHANGED <<queue, answered>>
      BY <2>3 DEF OnSynchronized
    <3> QED
      BY <1>0, <2>1, <3>1
  <2>4. CASE OnNetworkReady
    <3>1. running = "ip" /\ running' = "none" /\ UNCHANGED <<queue, answered, synchronized>>
      BY <2>4 DEF OnNetworkReady, KeepTrust
    <3> QED
      BY <1>0, <2>1, <3>1
  <2>5. CASE Answer
    <3>1. answered' /\ queue' = Append(queue, "sync") /\ UNCHANGED <<running, synchronized>>
          /\ service = "running"
      BY <2>5 DEF Answer
    <3>2. ipc \notin Early
      BY <1>0, <3>1 DEF ServiceInv
    <3> QED
      BY <1>0, <2>1, <3>1, <3>2, QueueFacts
  <2>6. CASE AddressObtained
    <3>1. queue' = Append(queue, "ip") /\ UNCHANGED <<running, synchronized, answered>>
      BY <2>6 DEF AddressObtained
    <3> QED
      BY <1>0, <2>1, <3>1, QueueFacts
  <2> QED
    BY <1>3, <2>2, <2>3, <2>4, <2>5, <2>6 DEF EventStep, Network
<1> QED
  BY <1>1, <1>2, <1>3

-----------------------------------------------------------------------------
(* The coordinator. *)

(* What a step of the system is for the source. *)
LEMMA SourceSteps ==
    ASSUME IInv, [Next]_vars
    PROVE  \/ InitializeStep \/ EventStep \/ Network
           \/ Initialize /\ Fresh
           \/ UNCHANGED sntpVars
<1>1. ASSUME Initialize, TickBegin PROVE Fresh
  <2>1. ipc' # ipc
    BY <1>1 DEF Initialize, Proceed
  <2>2. tpc = "idle" /\ state \notin Final /\ ~sourceInitialized
    BY <1>1, <2>1 DEF TickBegin, sntpVars, sourceVars
  <2>3. state = "WaitingForPrerequisites"
    BY <2>2 DEF IInv, TaskInv, ReportInv, Final, Promise!Reports
  <2> QED
    BY <2>2, <2>3 DEF IInv, TaskInv
<1> QED
  BY <1>1 DEF Next, Tick, TickBegin, InitializeReturns, CheckSynchronized, Measure, MarkReadiness,
     TimePasses, OtherTasks, vars

LEMMA TimeStep == IInv /\ [Next]_vars => TimeInv'
<1> SUFFICES ASSUME IInv, [Next]_vars PROVE TimeInv'
  OBVIOUS
<1>0. TimeInv /\ Word \in Nat /\ Word > 0 /\ LongTime = 2 * Word
  BY TimeoutFits DEF IInv, LongTime
<1>1. CASE UNCHANGED <<nowMs, startedMs, waited>>
  BY <1>0, <1>1 DEF TimeInv
<1>2. CASE startedMs' = nowMs /\ waited' = 0 /\ nowMs' = nowMs
  BY <1>0, <1>2, CounterDifference DEF TimeInv
<1>3. CASE TimePasses
  <2>1. nowMs' = (nowMs + 1) % Word /\ startedMs' = startedMs
        /\ waited' = IF waited < LongTime THEN waited + 1 ELSE waited
    BY <1>3 DEF TimePasses, coordinator
  <2>2. (nowMs - startedMs) % Word
          = IF nowMs >= startedMs THEN nowMs - startedMs ELSE nowMs - startedMs + Word
    BY <1>0, CounterDifference DEF TimeInv
  <2>3. nowMs' = IF nowMs + 1 = Word THEN 0 ELSE nowMs + 1
    BY <1>0, <2>1, CounterSuccessor DEF TimeInv
  <2>4. nowMs' \in 0 .. Word - 1
    BY <1>0, <2>3 DEF TimeInv
  <2>5. (nowMs' - startedMs) % Word
          = IF nowMs' >= startedMs THEN nowMs' - startedMs ELSE nowMs' - startedMs + Word
    BY <1>0, <2>4, CounterDifference DEF TimeInv
  <2> HIDE DEF LongTime
  <2> QED
    BY <1>0, <2>1, <2>2, <2>3, <2>4, <2>5 DEF TimeInv
<1> QED
  BY <1>1, <1>2, <1>3 DEF Next, Tick, TickBegin, InitializeReturns, CheckSynchronized, Measure,
     MarkReadiness, OtherTasks, vars, coordinator

LEMMA TaskStep == IInv /\ [Next]_vars => TaskInv' /\ ReportInv'
<1> SUFFICES ASSUME IInv, [Next]_vars PROVE TaskInv' /\ ReportInv'
  OBVIOUS
<1>0. TaskInv /\ ReportInv /\ OutcomeInv
  BY DEF IInv, SntpInv
<1> USE DEF TaskInv, ReportInv, OutcomeInv, Promise!Reports
<1>1. CASE TickBegin
  <2>1. CASE state \in Final /\ Return(state) /\ UNCHANGED sntpVars
    BY <1>0, <1>1, <2>1 DEF TickBegin, Return, sntpVars, sourceVars, Fresh
  <2>2. CASE Initialize /\ tpc' = "initialize"
    <3>1. tpc = "idle" /\ state \notin Final /\ ~sourceInitialized /\ UNCHANGED <<state, sourceInitialized, report>>
      BY <1>1, <2>2 DEF TickBegin, Initialize, Proceed, sntpVars, sourceVars, Return
    <3>2. state = "WaitingForPrerequisites"
      BY <1>0, <3>1 DEF Final
    <3> QED
      BY <1>0, <2>2, <3>1, <3>2 DEF Initialize, Proceed
  <2>3. CASE state \notin Final /\ ~sourceInitialized /\ Return("WaitingForPrerequisites") /\ UNCHANGED sntpVars
    BY <1>0, <1>1, <2>3 DEF TickBegin, Return, Final, sntpVars, sourceVars, Fresh
  <2>4. CASE state \notin Final /\ sourceInitialized /\ tpc' = "check" /\ UNCHANGED <<report, sntpVars>>
    BY <1>0, <1>1, <2>4 DEF TickBegin, Final, sntpVars, sourceVars, Fresh
  <2> QED
    BY <1>1, <2>1, <2>2, <2>3, <2>4 DEF TickBegin
<1>2. CASE InitializeReturns
  BY <1>0, <1>2 DEF InitializeReturns, Settle, Return, sntpVars, sourceVars, Fresh
<1>3. CASE CheckSynchronized
  BY <1>0, <1>3 DEF CheckSynchronized, Settle, Return, sntpVars, sourceVars, Fresh
<1>4. CASE Measure
  BY <1>0, <1>4 DEF Measure, Settle, Return, sntpVars, sourceVars, Fresh
<1>5. CASE MarkReadiness \/ TimePasses \/ UNCHANGED vars
  BY <1>0, <1>5 DEF MarkReadiness, TimePasses, vars, coordinator, sntpVars, sourceVars, Fresh
<1>6. CASE OtherTasks
  <2>1. UNCHANGED coordinator
    BY <1>6 DEF OtherTasks
  <2>2. CASE InitializeStep
    <3>1. ipc # "out"
      BY <2>2 DEF InitializeStep, RegisterSync, StoreCallback, InitSntp, RegisterIp, UndoInit,
         StartSntp, StoreInitialized, UndoIp, UndoService, UndoSync, ClearCallback
    <3>2. tpc = "initialize"
      BY <1>0, <3>1
    <3>3. ipc' = "out" => outcome' # "none"
      BY <1>0, <2>2 DEF InitializeStep, RegisterSync, StoreCallback, InitSntp, RegisterIp, UndoInit,
         StartSntp, StoreInitialized, UndoIp, UndoService, UndoSync, ClearCallback, Proceed, Fail,
         Failing
    <3> QED
      BY <1>0, <2>1, <3>2, <3>3 DEF coordinator
  <2>3. CASE EventStep \/ Network
    <3>1. UNCHANGED <<ipc, outcome, initialized, kept>>
      BY <2>3 DEF EventStep, Network, Dispatch, OnSynchronized, OnNetworkReady, Answer,
         AddressObtained, sourceVars
    <3>2. Fresh => answered' = answered
      <4>1. Fresh => service = "absent"
        BY <1>0 DEF Fresh, ServiceInv, IInv, SntpInv
      <4> QED
        BY <2>3, <4>1 DEF EventStep, Network, Dispatch, OnSynchronized, OnNetworkReady, Answer,
           AddressObtained
    <3> QED
      BY <1>0, <2>1, <3>1, <3>2 DEF coordinator, Fresh, IInv, SntpInv
  <2> QED
    BY <1>6, <2>2, <2>3 DEF OtherTasks
<1> QED
  BY <1>1, <1>2, <1>3, <1>4, <1>5, <1>6 DEF Next, Tick

LEMMA Invariance == Spec => []IInv
<1>1. IInv /\ [Next]_vars => IInv'
  <2> SUFFICES ASSUME IInv, [Next]_vars PROVE IInv'
    OBVIOUS
  <2>1. SntpInv'
    BY SourceSteps, RegistrationStep, RunningStep, AnswerStep DEF IInv, SntpInv, RegistrationInv
  <2> QED
    BY <2>1, TaskStep, TimeStep DEF IInv
<1> QED
  BY <1>1, InitInv, PTL DEF Spec

-----------------------------------------------------------------------------
(* Types: the flags, and what the invariant does not say of the rest. *)

FlagTypes ==
    /\ initialized \in BOOLEAN /\ synchronized \in BOOLEAN /\ callback \in BOOLEAN
    /\ registered \in BOOLEAN /\ sntpUp \in BOOLEAN /\ answered \in BOOLEAN
    /\ sourceInitialized \in BOOLEAN /\ loopReady \in BOOLEAN /\ networkReady \in BOOLEAN

Steps == {"out", "registerSync", "storeCallback", "initSntp", "registerIp", "undoInit", "start",
          "storeInitialized", "undoIp", "undoService", "undoSync", "clearCallback"}

DataTypes ==
    /\ ipc \in Steps /\ outcome \in Outcomes
    /\ service \in {"absent", "configured", "running"}
    /\ running \in {"none", "sync", "ip"}

LEMMA TypesInHalves == IInv /\ FlagTypes /\ DataTypes => TypeOK
<1> SUFFICES ASSUME IInv, FlagTypes, DataTypes PROVE TypeOK
  OBVIOUS
<1>1. /\ handlers \subseteq {"sync", "ip"} /\ kept \subseteq {"sync", "ip"}
      /\ queue \in Seq({"sync", "ip"})
      /\ tpc \in {"idle", "initialize", "check", "measure"}
      /\ startedMs \in 0 .. Word - 1 /\ nowMs \in 0 .. Word - 1 /\ waited \in 0 .. LongTime
      /\ state \in Promise!Reports
  BY DEF IInv, SntpInv, HandlerInv, AnswerInv, ReportInv, TimeInv
<1>2. report \in Promise!Reports
  BY <1>1 DEF IInv, ReportInv, Promise!Reports
<1> QED
  BY <1>1, <1>2, Zenon DEF TypeOK, SntpTypeOK, FlagTypes, DataTypes, Steps

LEMMA TypesInit == Init => FlagTypes /\ DataTypes
<1> SUFFICES ASSUME Init PROVE FlagTypes /\ DataTypes
  OBVIOUS
<1>1. FlagTypes
  BY Zenon DEF Init, SntpInit, FlagTypes
<1>2. DataTypes
  BY DEF Init, SntpInit, DataTypes, Outcomes, Steps
<1> QED
  BY <1>1, <1>2

LEMMA FlagStep == FlagTypes /\ [Next]_vars => FlagTypes'
<1> SUFFICES ASSUME FlagTypes, [Next]_vars PROVE FlagTypes'
  OBVIOUS
<1> USE DEF FlagTypes, sntpVars, sourceVars, backendVars, loopVars, coordinator, prerequisites
<1>1. CASE TickBegin
  BY <1>1, Zenon DEF TickBegin, Initialize, Proceed
<1>2. CASE InitializeReturns
  BY <1>2, Zenon DEF InitializeReturns
<1>3. CASE CheckSynchronized \/ Measure
  BY <1>3, Zenon DEF CheckSynchronized, Measure
<1>4. CASE MarkReadiness
  BY <1>4, Zenon DEF MarkReadiness
<1>5. CASE TimePasses
  BY <1>5, Zenon DEF TimePasses
<1>6. CASE InitializeStep /\ UNCHANGED <<coordinator, prerequisites>>
  <2>1. CASE RegisterSync \/ StoreCallback \/ InitSntp \/ RegisterIp \/ UndoInit
    BY <1>6, <2>1, Zenon DEF RegisterSync, StoreCallback, InitSntp, RegisterIp, UndoInit, Proceed, Fail
  <2>2. CASE StartSntp \/ StoreInitialized
    BY <1>6, <2>2, Zenon DEF StartSntp, StoreInitialized, Proceed, Fail
  <2>3. CASE UndoIp \/ UndoService \/ UndoSync \/ ClearCallback
    BY <1>6, <2>3, Zenon DEF UndoIp, UndoService, UndoSync, ClearCallback, KeepCallback, Proceed
  <2> QED
    BY <1>6, <2>1, <2>2, <2>3, Zenon DEF InitializeStep
<1>7. CASE EventStep /\ UNCHANGED <<coordinator, prerequisites>>
  BY <1>7, Zenon DEF EventStep, Dispatch, OnSynchronized, OnNetworkReady, KeepTrust
<1>8. CASE Network /\ UNCHANGED <<coordinator, prerequisites>>
  BY <1>8, Zenon DEF Network, Answer, AddressObtained
<1>9. CASE UNCHANGED vars
  BY <1>9, Zenon DEF vars
<1> QED
  BY <1>1, <1>2, <1>3, <1>4, <1>5, <1>6, <1>7, <1>8, <1>9, Zenon DEF Next, Tick, OtherTasks

LEMMA DataStep == IInv /\ DataTypes /\ [Next]_vars => DataTypes'
<1> SUFFICES ASSUME IInv, DataTypes, [Next]_vars PROVE DataTypes'
  OBVIOUS
<1> USE DEF DataTypes, Steps, Outcomes
<1>1. CASE Initialize \/ UNCHANGED sntpVars
  BY <1>1 DEF Initialize, Proceed, sntpVars, sourceVars, backendVars, loopVars
<1>2. CASE InitializeStep
  <2>1. CASE RegisterSync \/ StoreCallback \/ InitSntp \/ RegisterIp \/ UndoInit
    BY <2>1 DEF RegisterSync, StoreCallback, InitSntp, RegisterIp, UndoInit, Proceed, Fail, loopVars
  <2>2. CASE StartSntp \/ StoreInitialized
    BY <2>2 DEF StartSntp, StoreInitialized, Proceed, Fail, loopVars, backendVars
  <2>3. CASE UndoIp \/ UndoService \/ UndoSync \/ ClearCallback
    BY <2>3 DEF UndoIp, UndoService, UndoSync, ClearCallback, Proceed, loopVars
  <2> QED
    BY <1>2, <2>1, <2>2, <2>3 DEF InitializeStep
<1>3. CASE EventStep
  <2>1. CASE Dispatch
    <3>1. Head(queue) \in {"sync", "ip"}
      BY <2>1 DEF Dispatch, IInv, SntpInv, AnswerInv
    <3> QED
      BY <2>1, <3>1 DEF Dispatch, sourceVars, backendVars
  <2>2. CASE OnSynchronized \/ OnNetworkReady
    BY <2>2 DEF OnSynchronized, OnNetworkReady, sourceVars, backendVars
  <2> QED
    BY <1>3, <2>1, <2>2 DEF EventStep
<1>4. CASE Network
  BY <1>4 DEF Network, Answer, AddressObtained, sourceVars, backendVars
<1> QED
  BY <1>1, <1>2, <1>3, <1>4, SourceSteps

-----------------------------------------------------------------------------
(* The theorems. *)

(* Types, for every width of the counter and every queue. *)
THEOREM TypeCorrect == Spec => []TypeOK
<1>1. Init => FlagTypes /\ DataTypes
  BY TypesInit
<1>2. IInv /\ FlagTypes /\ DataTypes /\ [Next]_vars => (FlagTypes /\ DataTypes)'
  BY FlagStep, DataStep
<1>3. IInv /\ FlagTypes /\ DataTypes => TypeOK
  BY TypesInHalves
<1> QED
  BY <1>1, <1>2, <1>3, Invariance, PTL DEF Spec

(* A failed initialize() leaves exactly what ESP-IDF refused to give back,   *)
(* whichever of its steps failed and whatever the event loop did meanwhile.  *)
THEOREM RollbackIsComplete == Spec => []RollbackComplete
<1>1. ASSUME IInv, ipc = "out", ~initialized
      PROVE  /\ handlers = kept /\ service = "absent" /\ ~sntpUp
             /\ callback <=> "sync" \in handlers
             /\ registered <=> "sync" \in handlers
  <2>1. HandlerInv /\ CallbackInv /\ ServiceInv
    BY <1>1 DEF IInv, SntpInv
  <2>2. /\ "sync" \in handlers <=> "sync" \in kept
        /\ "ip" \in handlers <=> "ip" \in kept
        /\ handlers \subseteq {"sync", "ip"} /\ kept \subseteq {"sync", "ip"}
    BY <1>1, <2>1 DEF HandlerInv, Early, Started, Failing, Up
  <2>3. callback <=> "sync" \in kept
    BY <1>1, <2>1 DEF CallbackInv, Early, Started, Failing, Up
  <2>4. handlers = kept
    <3>1. \A h : h \in handlers <=> h \in kept
      BY <2>2
    <3> QED
      BY <3>1
  <2> QED
    BY <1>1, <2>1, <2>2, <2>3, <2>4 DEF CallbackInv, ServiceInv, Started, Up
<1> QED
  BY <1>1, Invariance, PTL DEF RollbackComplete

(* The event loop never calls through the pointer the rollback clears.       *)
THEOREM SyncCallsAreSafe == Spec => []SyncCallbackThere
<1>1. IInv => SyncCallbackThere
  BY DEF IInv, SntpInv, RunningInv, SyncCallbackThere
<1> QED
  BY <1>1, Invariance, PTL

(* An answer is noticed, also one that comes before initialize() is through. *)
THEOREM SynchronisationIsKept == Spec => []NoSynchronisationLost
<1>1. IInv => NoSynchronisationLost
  BY DEF IInv, SntpInv, NotLostInv, Pending, NoSynchronisationLost, IsSynchronized
<1> QED
  BY <1>1, Invariance, PTL

(* For every counter width and every time-out below it, the unsigned         *)
(* difference tells the truth: never early, and late only after a whole turn *)
(* of the counter.                                                           *)
THEOREM TimeoutIsRight == Spec => TimeoutIsReal
<1>1. ASSUME IInv, [Next]_vars, tpc = "measure", tpc' = "idle"
      PROVE  /\ report' = "SynchronizationTimedOut" => waited >= Timeout
             /\ waited \in Timeout .. (Word - 1) => report' = "SynchronizationTimedOut"
  <2>1. Measure
    BY <1>1 DEF Next, Tick, TickBegin, InitializeReturns, CheckSynchronized, MarkReadiness,
       TimePasses, OtherTasks, vars, coordinator
  <2>2. report' = IF TimedOut THEN "SynchronizationTimedOut" ELSE "WaitingForSynchronization"
    BY <2>1 DEF Measure, Settle, Return
  <2>3. waited \in Nat /\ (waited < Word => (TimedOut <=> waited >= Timeout))
    BY <1>1, TimeoutFits DEF IInv, TimeInv, TimedOut, LongTime
  <2> QED
    BY <2>2, <2>3, TimeoutFits
<1> QED
  BY <1>1, Invariance, PTL DEF Spec, TimeoutIsReal

(* The coordinator, with the source, the backend and the event loop below    *)
(* it, makes only the reports of TrustedClock: Ready only after an answer,   *)
(* and final results are final.                                              *)
THEOREM ReportsAreTrusted == Spec => ImplementsTrustedClock
<1> USE DEF Promise!Reports, Promise!Waiting
<1>1. Init => Promise!Init
  BY DEF Init, SntpInit, Promise!Init
<1>2. ASSUME IInv, [Next]_vars PROVE [Promise!Next]_<<report, answered>>
  <2>1. CASE TickBegin
    <3>1. report = state /\ answered' = answered
      BY <1>2, <2>1 DEF TickBegin, IInv, ReportInv, Initialize, sntpVars
    <3>2. report' = report
      BY <1>2, <2>1, <3>1 DEF TickBegin, Return, Final, IInv, TaskInv, ReportInv
    <3> QED
      BY <3>1, <3>2
  <2>2. CASE InitializeReturns
    <3>1. answered' = answered /\ report = "WaitingForPrerequisites"
          /\ report' \in {report, "InitializationFailed"}
      BY <1>2, <2>2 DEF InitializeReturns, Settle, Return, sntpVars, IInv, ReportInv
    <3> QED
      BY <3>1 DEF Promise!Next, Promise!Tick, Promise!CanFollow
  <2>3. CASE CheckSynchronized
    <3>1. answered' = answered /\ report \in Promise!Waiting \union {"WaitingForPrerequisites"}
          /\ (report' = report \/ (report' = "Ready" /\ IsSynchronized))
      BY <1>2, <2>3 DEF CheckSynchronized, Settle, Return, sntpVars, IInv, ReportInv
    <3>2. IsSynchronized => answered
      BY <1>2 DEF IsSynchronized, IInv, SntpInv, AnswerInv
    <3> QED
      BY <3>1, <3>2 DEF Promise!Next, Promise!Tick, Promise!CanFollow
  <2>4. CASE Measure
    <3>1. answered' = answered /\ report \in Promise!Waiting \union {"WaitingForPrerequisites"}
          /\ report' \in Promise!Waiting
      BY <1>2, <2>4 DEF Measure, Settle, Return, sntpVars, IInv, ReportInv
    <3> QED
      BY <3>1 DEF Promise!Next, Promise!Tick, Promise!CanFollow
  <2>5. CASE OtherTasks
    <3>1. report' = report /\ (answered' = answered \/ answered' = TRUE)
      <4>1. InitializeStep => answered' = answered
        BY <1>2, EventsMove DEF IInv
      <4>2. EventStep \/ Network => answered' = answered \/ answered' = TRUE
        BY DEF EventStep, Network, Dispatch, OnSynchronized, OnNetworkReady, Answer, AddressObtained
      <4> QED
        BY <2>5, <4>1, <4>2 DEF OtherTasks, coordinator
    <3> QED
      BY <3>1 DEF Promise!Next, Promise!Answered
  <2>6. CASE MarkReadiness \/ TimePasses \/ UNCHANGED vars
    BY <2>6 DEF MarkReadiness, TimePasses, vars, coordinator, sntpVars
  <2> QED
    BY <1>2, <2>1, <2>2, <2>3, <2>4, <2>5, <2>6 DEF Next, Tick
<1> QED
  BY <1>1, <1>2, Invariance, PTL DEF Spec, ImplementsTrustedClock, Promise!Spec
=============================================================================
