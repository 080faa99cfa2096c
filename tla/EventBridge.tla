----------------------------- MODULE EventBridge -----------------------------
(***************************************************************************)
(* EspIdfBootClockEventBridge and the registry adapter below it            *)
(* (examples/scheduler): three station events are registered one by one    *)
(* with ESP-IDF, rolled back when one is refused, and turned into the      *)
(* readiness flags of EspIdfBootClockPrerequisites.                        *)
(*                                                                         *)
(* Two tasks: the application registers and unregisters, the event loop    *)
(* runs handlers.  ESP-IDF (external) holds the loop's lock while a handler *)
(* runs, and takes it to register or unregister one.                       *)
(***************************************************************************)
EXTENDS Naturals, Sequences

CONSTANTS
    MaxQueue,    \* bound: events posted and not yet dispatched
    MayRefuse    \* ESP-IDF may refuse to register or unregister a handler

ASSUME BridgeBounds == MaxQueue \in Nat /\ MayRefuse \in BOOLEAN

VARIABLES
    pc,           \* application task: next step of the call ("idle": none)
    index,        \* index into kRegisteredSignals
    rollback,     \* unregister_handlers() was called by register_handlers()
    failed,       \* cleanup_failed
    result,       \* what the last call returned
    bridgeMask,   \* registered_handler_mask_ of the bridge
    adapterMask,  \* registered_handler_mask_ of the adapter
    callback,     \* callback_ and context_ of the adapter are set
    handlers,     \* ESP-IDF: the signals whose handler is registered
    running,      \* event loop: the signal whose handler runs ("none": none)
    queue,        \* event loop: posted events
    loopReady,    \* event_loop_ready_
    networkReady, \* network_ready_
    station,      \* the Wi-Fi station: "off", "down", "associated" or "ip"
    watched       \* history: all handlers have been there since Wi-Fi started

call   == <<pc, index, rollback, failed, result>>
masks  == <<bridgeMask, adapterMask, callback, handlers>>
flags  == <<loopReady, networkReady>>
events == <<running, queue>>
vars   == <<call, masks, flags, events, station, watched>>

Registered == <<"StationGotIp", "StationLostIp", "StationDisconnected">>
Signals    == {Registered[i] : i \in 1 .. 3}

-----------------------------------------------------------------------------
(* The application task. *)

Unlocked == running = "none"
Refusals == IF MayRefuse THEN {TRUE, FALSE} ELSE {FALSE}

Return(r) == pc' = "idle" /\ result' = r

(* register_handlers(): either all are there already, or an earlier cleanup  *)
(* left some, or the loop begins.                                            *)
Register ==
    /\ pc = "idle"
    /\ \/ bridgeMask = Signals /\ Return("AlreadyRegistered") /\ UNCHANGED <<index, rollback>>
       \/ bridgeMask \notin {{}, Signals} /\ Return("CleanupFailed") /\ UNCHANGED <<index, rollback>>
       \/ /\ bridgeMask = {}
          /\ pc' = "add" /\ index' = 1 /\ rollback' = FALSE /\ UNCHANGED result
    /\ UNCHANGED <<failed, masks, flags, events, station, watched>>

(* unregister_handlers(), called by itself or to roll back.                  *)
BeginUnregister(isRollback) ==
    /\ rollback' = isRollback
    /\ IF bridgeMask = {}
       THEN /\ Return(IF isRollback THEN "RegistrationFailed" ELSE "NotRegistered")
            /\ UNCHANGED <<index, failed>>
       ELSE pc' = "remove" /\ index' = 3 /\ failed' = FALSE /\ UNCHANGED result

Unregister ==
    /\ pc = "idle"
    /\ BeginUnregister(FALSE)
    /\ watched' = (watched /\ bridgeMask = {})
    /\ UNCHANGED <<masks, flags, events, station>>

(* One turn of the registration loop: the adapter refuses a signal it holds  *)
(* already, ESP-IDF may refuse any.                                          *)
Add ==
    /\ pc = "add" /\ Unlocked
    /\ \/ /\ Registered[index] \notin adapterMask
          /\ handlers' = handlers \union {Registered[index]}
          /\ pc' = "adopt" /\ UNCHANGED <<index, rollback, failed, result>>
       \/ /\ Registered[index] \in adapterMask \/ MayRefuse
          /\ BeginUnregister(TRUE) /\ UNCHANGED handlers
    /\ UNCHANGED <<bridgeMask, adapterMask, callback, flags, events, station, watched>>

(* The bookkeeping after ESP-IDF accepted: adapter first, then bridge.  An   *)
(* event that comes between its two assignments of callback_ and context_ is *)
(* lost just like one that comes before both.                                *)
Adopt ==
    /\ pc = "adopt"
    /\ callback' = TRUE
    /\ adapterMask' = adapterMask \union {Registered[index]}
    /\ bridgeMask' = bridgeMask \union {Registered[index]}
    /\ IF index = 3 THEN Return("Registered") /\ UNCHANGED index
       ELSE pc' = "add" /\ index' = index + 1 /\ UNCHANGED result
    /\ UNCHANGED <<rollback, failed, handlers, flags, events, station, watched>>

RollbackAlwaysClean(leftOver) == IF rollback THEN "RegistrationFailed" ELSE "Unregistered"

(* What unregister_handlers() returns, or register_handlers() after it. *)
RemovalResult(leftOver) ==
    IF leftOver THEN "CleanupFailed"
    ELSE IF rollback THEN "RegistrationFailed" ELSE "Unregistered"

RemovalPastEnd(leftOver) ==
    /\ failed' = leftOver
    /\ IF index = 0 THEN Return(RemovalResult(leftOver)) /\ UNCHANGED index
       ELSE pc' = "remove" /\ index' = index - 1 /\ UNCHANGED result

(* The removal loop runs from the last index down to the first. *)
NextRemoval(leftOver) ==
    /\ failed' = leftOver
    /\ IF index = 1 THEN Return(RemovalResult(leftOver)) /\ UNCHANGED index
       ELSE pc' = "remove" /\ index' = index - 1 /\ UNCHANGED result

ForgetRefused == bridgeMask' = bridgeMask \ {Registered[index]}

KeepRefused == UNCHANGED bridgeMask

(* One turn of the removal loop: a signal that is not registered is skipped, *)
(* a refused one stays in both masks and the loop goes on.                   *)
Remove ==
    /\ pc = "remove"
    /\ \/ /\ Registered[index] \notin bridgeMask
          /\ NextRemoval(failed) /\ UNCHANGED <<bridgeMask, handlers>>
       \/ /\ Registered[index] \in bridgeMask /\ Unlocked
          /\ Registered[index] \in adapterMask
          /\ handlers' = handlers \ {Registered[index]}
          /\ pc' = "drop" /\ UNCHANGED <<index, failed, result, bridgeMask>>
       \/ /\ Registered[index] \in bridgeMask /\ Unlocked
          /\ Registered[index] \notin adapterMask \/ MayRefuse
          /\ KeepRefused /\ NextRemoval(TRUE) /\ UNCHANGED handlers
    /\ UNCHANGED <<rollback, adapterMask, callback, flags, events, station, watched>>

NeverNeeded(mask) == FALSE

StillNeeded(mask) == mask # {}

(* The bookkeeping after ESP-IDF removed a handler; the last one takes       *)
(* callback_ and context_ with it.                                           *)
Drop ==
    /\ pc = "drop"
    /\ adapterMask' = adapterMask \ {Registered[index]}
    /\ callback' = (callback /\ StillNeeded(adapterMask'))
    /\ bridgeMask' = bridgeMask \ {Registered[index]}
    /\ NextRemoval(failed)
    /\ UNCHANGED <<rollback, handlers, flags, events, station, watched>>

(* report_event_loop_creation(succeeded) *)
ReportEventLoop ==
    /\ pc = "idle"
    /\ loopReady' \in {loopReady, TRUE}
    /\ UNCHANGED <<call, masks, networkReady, events, station, watched>>

-----------------------------------------------------------------------------
(* The event loop. *)

(* The next event is taken; without a handler, or with callback_ still null, *)
(* nothing comes of it.                                                      *)
Dispatch ==
    /\ Unlocked /\ queue # <<>>
    /\ queue' = Tail(queue)
    /\ running' = IF Head(queue) \in handlers /\ callback THEN Head(queue) ELSE "none"
    /\ UNCHANGED <<call, masks, flags, station, watched>>

ReadyUnlessLost(signal) ==
    signal = "StationGotIp" \/ (signal = "StationDisconnected" /\ networkReady)

(* handle(): what a registered signal says about the network. *)
ReadyAfter(signal) == signal = "StationGotIp"

(* callback_(context_): the bridge's handle() for the signal. *)
Handle ==
    /\ running # "none"
    /\ networkReady' = ReadyAfter(running)
    /\ running' = "none"
    /\ UNCHANGED <<call, masks, loopReady, queue, station, watched>>

-----------------------------------------------------------------------------
(* The station. *)

Post(signal, s) ==
    /\ Len(queue) < MaxQueue
    /\ queue' = Append(queue, signal) /\ station' = s
    /\ UNCHANGED <<call, masks, flags, running, watched>>

(* The boot task starts Wi-Fi once all handlers are registered. *)
StartWifi ==
    /\ station = "off" /\ pc = "idle" /\ bridgeMask = Signals
    /\ station' = "down" /\ watched' = TRUE
    /\ UNCHANGED <<call, masks, flags, events>>

Associate ==
    /\ station = "down" /\ station' = "associated"
    /\ UNCHANGED <<call, masks, flags, events, watched>>

GotIp == station \in {"associated", "ip"} /\ Post("StationGotIp", "ip")

(* ESP-IDF reports a lost address also some time after the disconnection. *)
LostIp ==
    \/ station = "ip" /\ Post("StationLostIp", "associated")
    \/ station = "down" /\ Post("StationLostIp", "down")

Disconnected == station \in {"down", "associated", "ip"} /\ Post("StationDisconnected", "down")

-----------------------------------------------------------------------------
Init ==
    /\ pc = "idle" /\ index = 1 /\ rollback = FALSE /\ failed = FALSE
    /\ result = "NotRegistered"
    /\ bridgeMask = {} /\ adapterMask = {} /\ callback = FALSE /\ handlers = {}
    /\ running = "none" /\ queue = <<>>
    /\ loopReady = FALSE /\ networkReady = FALSE
    /\ station = "off" /\ watched = FALSE

ApplicationStep == Add \/ Adopt \/ Remove \/ Drop
EventLoop == Dispatch \/ Handle
World == StartWifi \/ Associate \/ GotIp \/ LostIp \/ Disconnected

Next == Register \/ Unregister \/ ReportEventLoop \/ ApplicationStep \/ EventLoop \/ World

Spec == Init /\ [][Next]_vars

-----------------------------------------------------------------------------
Results == {"Registered", "AlreadyRegistered", "RegistrationFailed", "CleanupFailed",
            "Unregistered", "NotRegistered"}

(* Every variable has its type. *)
TypeOK ==
    /\ pc \in {"idle", "add", "adopt", "remove", "drop"}
    /\ index \in 1 .. 3 /\ result \in Results
    /\ rollback \in BOOLEAN /\ failed \in BOOLEAN /\ callback \in BOOLEAN
    /\ bridgeMask \subseteq Signals /\ adapterMask \subseteq Signals
    /\ handlers \subseteq Signals
    /\ running \in Signals \union {"none"} /\ queue \in Seq(Signals)
    /\ loopReady \in BOOLEAN /\ networkReady \in BOOLEAN /\ watched \in BOOLEAN
    /\ station \in {"off", "down", "associated", "ip"}

(* Between calls the bridge, the adapter and ESP-IDF agree on what is        *)
(* registered, whatever was refused: registered_handler_mask_ twice, and     *)
(* callback_ is there exactly as long as some handler needs it.              *)
MasksAgree ==
    pc = "idle" =>
        /\ bridgeMask = adapterMask /\ adapterMask = handlers
        /\ callback <=> handlers # {}

(* What a call returned is what it left: Registered all three, the three     *)
(* clean results none, CleanupFailed something that a retry must remove.     *)
ResultsHonest ==
    pc = "idle" =>
        /\ result \in {"Registered", "AlreadyRegistered"} => handlers = Signals
        /\ result \in {"RegistrationFailed", "Unregistered", "NotRegistered"} => handlers = {}
        /\ result = "CleanupFailed" => handlers # {}

(* on_event tests callback_ and calls through it later, on another task than *)
(* the one that clears it: the pointer is still there at the call.           *)
NoNullCall == running # "none" => callback

(* Once Wi-Fi was started with all handlers in place, network_ready_ says    *)
(* what the station's last event said as soon as all events are handled.     *)
ReadinessTracksStation ==
    watched /\ queue = <<>> /\ running = "none" => networkReady = (station = "ip")
=============================================================================
