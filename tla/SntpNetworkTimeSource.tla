------------------------ MODULE SntpNetworkTimeSource ------------------------
(***************************************************************************)
(* SntpNetworkTimeSource over EspIdfSntpBackend (examples/scheduler): the  *)
(* steps of initialize() with their rollback on the runtime task, and the  *)
(* two event handlers, time synchronised and address obtained, on the      *)
(* event loop task.  EspIdfSntpBackend registers both.                     *)
(*                                                                         *)
(* ESP-IDF is external: its event loop holds a lock while a handler runs   *)
(* and takes it to register or unregister one; its SNTP service is absent, *)
(* configured or running, and answers only when running.                   *)
(***************************************************************************)
EXTENDS Naturals, Sequences

CONSTANTS
    MaxQueue,     \* bound: events posted and not yet dispatched
    Refusable     \* the ESP-IDF calls that may fail

SdkCalls == {"registerSync", "initSntp", "registerIp", "start",
             "unregisterIp", "unregisterSync"}

ASSUME SourceBounds == MaxQueue \in Nat /\ Refusable \subseteq SdkCalls

VARIABLES
    ipc,           \* runtime task: next step of initialize() ("out": not inside)
    outcome,       \* what initialize() returned, or will after its rollback
    initialized,   \* initialized_
    synchronized,  \* synchronized_
    callback,      \* sync_callback_ and sync_context_ are set
    registered,    \* handler_registered_
    sntpUp,        \* sntp_initialized_
    handlers,      \* ESP-IDF: registered handlers, of {"sync", "ip"}
    service,       \* ESP-IDF: "absent", "configured" or "running"
    running,       \* event loop: the handler that runs ("none": none)
    queue,         \* event loop: posted events
    answered,      \* history: a time server has set the clock in this boot
    kept           \* history: handlers whose removal ESP-IDF refused

sourceVars  == <<ipc, outcome, initialized>>
backendVars == <<callback, registered, sntpUp, handlers, service>>
loopVars    == <<running, queue, synchronized>>
sntpVars    == <<sourceVars, backendVars, loopVars, answered, kept>>

Unlocked == running = "none"

Refused(sdkCall) == sdkCall \in Refusable

-----------------------------------------------------------------------------
(* initialize() on the runtime task. *)

Proceed(step) == ipc' = step /\ UNCHANGED <<outcome, initialized>>

Fail(step, why) == ipc' = step /\ outcome' = why /\ UNCHANGED initialized

Initialize ==
    /\ ipc = "out" /\ ~initialized
    /\ synchronized' = FALSE
    /\ Proceed("registerSync")
    /\ UNCHANGED <<backendVars, running, queue, answered, kept>>

RegisterSync ==
    /\ ipc = "registerSync" /\ Unlocked
    /\ \/ handlers' = handlers \union {"sync"} /\ Proceed("storeCallback")
       \/ /\ Refused("registerSync")
          /\ Fail("out", "SyncHandlerRegistrationFailed") /\ UNCHANGED handlers
    /\ UNCHANGED <<callback, registered, sntpUp, service, loopVars, answered, kept>>

(* An event between the two assignments of sync_callback_ and sync_context_  *)
(* is ignored just like one before both.                                     *)
StoreCallback ==
    /\ ipc = "storeCallback"
    /\ callback' = TRUE /\ registered' = TRUE
    /\ Proceed("initSntp")
    /\ UNCHANGED <<sntpUp, handlers, service, loopVars, answered, kept>>

InitSntp ==
    /\ ipc = "initSntp"
    /\ \/ service = "absent" /\ service' = "configured" /\ Proceed("registerIp")
       \/ /\ service # "absent" \/ Refused("initSntp")
          /\ Fail("undoSync", "SntpInitializationFailed") /\ UNCHANGED service
    /\ UNCHANGED <<callback, registered, sntpUp, handlers, loopVars, answered, kept>>

RegisterIp ==
    /\ ipc = "registerIp" /\ Unlocked
    /\ \/ handlers' = handlers \union {"ip"} /\ sntpUp' = TRUE /\ Proceed("start")
       \/ /\ Refused("registerIp")
          /\ Fail("undoInit", "SntpInitializationFailed") /\ UNCHANGED <<handlers, sntpUp>>
    /\ UNCHANGED <<callback, registered, service, loopVars, answered, kept>>

(* esp_netif_sntp_deinit() after the address handler was refused. *)
UndoInit ==
    /\ ipc = "undoInit"
    /\ service' = "absent" /\ Proceed("undoSync")
    /\ UNCHANGED <<callback, registered, sntpUp, handlers, loopVars, answered, kept>>

StartSntp ==
    /\ ipc = "start"
    /\ \/ service' = "running" /\ Proceed("storeInitialized")
       \/ Refused("start") /\ Fail("undoIp", "SntpStartFailed") /\ UNCHANGED service
    /\ UNCHANGED <<callback, registered, sntpUp, handlers, loopVars, answered, kept>>

LoseEarlySync ==
    /\ ipc = "storeInitialized"
    /\ initialized' = TRUE /\ outcome' = "Initialized" /\ ipc' = "out"
    /\ synchronized' = FALSE
    /\ UNCHANGED <<backendVars, running, queue, answered, kept>>

(* The clock may have been synchronised on the other task by now. *)
StoreInitialized ==
    /\ ipc = "storeInitialized"
    /\ initialized' = TRUE /\ outcome' = "Initialized" /\ ipc' = "out"
    /\ UNCHANGED <<backendVars, loopVars, answered, kept>>

-----------------------------------------------------------------------------
(* The rollback. *)

SkipUnregister(handler) == UNCHANGED <<handlers, kept>>

(* Removing a handler: afterwards it is gone, or ESP-IDF refused. *)
RemoveHandler(handler) ==
    /\ handlers' = handlers \ {handler}
    /\ kept' = kept \ {handler}

RefuseRemoval(handler) ==
    /\ kept' = kept \union {handler}
    /\ UNCHANGED handlers

(* deinitialize_sntp(): a refusal to remove the address handler is ignored.  *)
UndoIp ==
    /\ ipc = "undoIp" /\ Unlocked
    /\ \/ RemoveHandler("ip")
       \/ Refused("unregisterIp") /\ RefuseRemoval("ip")
    /\ Proceed("undoService")
    /\ UNCHANGED <<callback, registered, sntpUp, service, loopVars, answered>>

ClearCallbackFirst == callback' = FALSE /\ registered' = FALSE

KeepCallback == UNCHANGED <<callback, registered>>

UndoService ==
    /\ ipc = "undoService"
    /\ service' = "absent" /\ sntpUp' = FALSE
    /\ Proceed("undoSync") /\ KeepCallback
    /\ UNCHANGED <<handlers, loopVars, answered, kept>>

(* unregister_sync_handler(): the callback goes only with the handler. *)
UndoSync ==
    /\ ipc = "undoSync" /\ Unlocked
    /\ \/ RemoveHandler("sync") /\ Proceed("clearCallback")
       \/ Refused("unregisterSync") /\ RefuseRemoval("sync") /\ Proceed("out")
    /\ UNCHANGED <<callback, registered, sntpUp, service, loopVars, answered>>

ClearCallback ==
    /\ ipc = "clearCallback"
    /\ callback' = FALSE /\ registered' = FALSE
    /\ Proceed("out")
    /\ UNCHANGED <<sntpUp, handlers, service, loopVars, answered, kept>>

-----------------------------------------------------------------------------
(* The event loop task and the world. *)

Dispatch ==
    /\ Unlocked /\ queue # <<>>
    /\ queue' = Tail(queue)
    /\ running' = IF /\ Head(queue) \in handlers
                     /\ Head(queue) = "sync" => callback
                  THEN Head(queue) ELSE "none"
    /\ UNCHANGED <<sourceVars, backendVars, synchronized, answered, kept>>

(* sync_callback_(sync_context_): on_synchronized(). *)
OnSynchronized ==
    /\ running = "sync"
    /\ synchronized' = TRUE /\ running' = "none"
    /\ UNCHANGED <<sourceVars, backendVars, queue, answered, kept>>

TrustOnNetwork == synchronized' = TRUE

KeepTrust == UNCHANGED synchronized

(* on_network_ready(): asks for the time again; the SDK refuses a service    *)
(* that is not configured, and may refuse any.                               *)
OnNetworkReady ==
    /\ running = "ip" /\ running' = "none"
    /\ \/ service # "absent" /\ service' = "running"
       \/ (service = "absent" \/ Refused("start")) /\ UNCHANGED service
    /\ KeepTrust
    /\ UNCHANGED <<sourceVars, callback, registered, sntpUp, handlers, queue, answered, kept>>

(* A time server answers, and ESP-IDF sets the clock and posts the event.    *)
Answer ==
    /\ service = "running" /\ Len(queue) < MaxQueue
    /\ queue' = Append(queue, "sync") /\ answered' = TRUE
    /\ UNCHANGED <<sourceVars, backendVars, running, synchronized, kept>>

AddressObtained ==
    /\ Len(queue) < MaxQueue
    /\ queue' = Append(queue, "ip")
    /\ UNCHANGED <<sourceVars, backendVars, running, synchronized, answered, kept>>

-----------------------------------------------------------------------------
SntpInit ==
    /\ ipc = "out" /\ outcome = "none" /\ initialized = FALSE /\ synchronized = FALSE
    /\ callback = FALSE /\ registered = FALSE /\ sntpUp = FALSE
    /\ handlers = {} /\ service = "absent"
    /\ running = "none" /\ queue = <<>>
    /\ answered = FALSE /\ kept = {}

InitializeStep ==
    \/ RegisterSync \/ StoreCallback \/ InitSntp \/ RegisterIp \/ UndoInit
    \/ StartSntp \/ StoreInitialized \/ UndoIp \/ UndoService \/ UndoSync \/ ClearCallback

EventStep == Dispatch \/ OnSynchronized \/ OnNetworkReady

Network == Answer \/ AddressObtained

(* is_synchronized(): initialized_ never goes back, so the order in which    *)
(* the two flags are read does not matter.                                   *)
IsSynchronized == initialized /\ synchronized

-----------------------------------------------------------------------------
Outcomes == {"none", "Initialized", "SyncHandlerRegistrationFailed",
             "SntpInitializationFailed", "SntpStartFailed"}

(* Every variable of the source and its backend has its type. *)
SntpTypeOK ==
    /\ ipc \in {"out", "registerSync", "storeCallback", "initSntp", "registerIp",
                "undoInit", "start", "storeInitialized", "undoIp", "undoService",
                "undoSync", "clearCallback"}
    /\ outcome \in Outcomes
    /\ initialized \in BOOLEAN /\ synchronized \in BOOLEAN
    /\ callback \in BOOLEAN /\ registered \in BOOLEAN /\ sntpUp \in BOOLEAN
    /\ handlers \subseteq {"sync", "ip"} /\ kept \subseteq {"sync", "ip"}
    /\ service \in {"absent", "configured", "running"}
    /\ running \in {"none", "sync", "ip"} /\ queue \in Seq({"sync", "ip"})
    /\ answered \in BOOLEAN

(* An initialize() that failed leaves nothing behind that ESP-IDF agreed to  *)
(* give back: no handler, no service, and flags that say so.                 *)
RollbackComplete ==
    ipc = "out" /\ ~initialized =>
        /\ handlers = kept /\ service = "absent" /\ ~sntpUp
        /\ callback <=> "sync" \in handlers
        /\ registered <=> "sync" \in handlers

(* on_sntp_event tests sync_callback_ and calls through it later, while the  *)
(* runtime task may be rolling back: the pointer is still there at the call. *)
SyncCallbackThere == running = "sync" => callback

(* A synchronisation is not lost to the other task, not even when the answer *)
(* comes before initialize() has stored initialized_: once the source is     *)
(* initialised and all events are handled, it is trusted if a server answered.*)
NoSynchronisationLost ==
    initialized /\ answered /\ running = "none" /\ queue = <<>> => IsSynchronized

(* "No IP callback may outlive the SNTP configuration"                       *)
(* (tests/esp_sntp_backend_test.cpp, esp_netif_sntp_deinit).                 *)
NoHandlerOutlivesService == "ip" \in handlers => service # "absent"
=============================================================================
