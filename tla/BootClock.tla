------------------------------ MODULE BootClock ------------------------------
(***************************************************************************)
(* BootClockCoordinator (examples/scheduler): tick() waits for the event   *)
(* loop and the network, initialises SNTP once, and reports when the time  *)
(* can be trusted.  The runtime task ticks; the prerequisites change and   *)
(* the synchronisation arrives on the event loop task, between any steps.  *)
(*                                                                         *)
(* Milliseconds are counted modulo Word, 2^32 in the code.                 *)
(***************************************************************************)
EXTENDS SntpNetworkTimeSource, Integers

CONSTANTS
    Word,      \* the number of values of a millisecond counter
    Timeout    \* synchronization_timeout_ms_

ASSUME TimeoutFits == Word \in Nat /\ Timeout \in 1 .. (Word - 1)

VARIABLES
    tpc,                \* next step of tick() ("idle": none)
    state,              \* state_
    sourceInitialized,  \* source_initialized_
    startedMs,          \* synchronization_started_ms_
    report,             \* what the last tick() returned
    nowMs,              \* the monotonic clock, modulo Word
    loopReady,          \* event_loop_ready_
    networkReady,       \* network_ready_
    waited              \* history: the true time since startedMs was set, up
                        \* to LongTime

coordinator   == <<tpc, state, sourceInitialized, startedMs, report>>
prerequisites == <<loopReady, networkReady>>
vars == <<sntpVars, coordinator, prerequisites, nowMs, waited>>

LongTime == 2 * Word

Promise == INSTANCE TrustedClock

-----------------------------------------------------------------------------
(* tick() *)

Return(r) == tpc' = "idle" /\ report' = r

Settle(s) == state' = s /\ Return(s)

FinalForCaller == {"Ready", "InitializationFailed", "SynchronizationTimedOut"}

Final == {"Ready", "InitializationFailed"}

TickBegin ==
    /\ tpc = "idle"
    /\ \/ state \in Final /\ Return(state) /\ UNCHANGED sntpVars
       \/ /\ state \notin Final /\ ~sourceInitialized
          /\ IF loopReady /\ networkReady
             THEN Initialize /\ tpc' = "initialize" /\ UNCHANGED report
             ELSE Return("WaitingForPrerequisites") /\ UNCHANGED sntpVars
       \/ /\ state \notin Final /\ sourceInitialized
          /\ tpc' = "check" /\ UNCHANGED <<report, sntpVars>>
    /\ UNCHANGED <<state, sourceInitialized, startedMs, prerequisites, nowMs, waited>>

InitializeReturns ==
    /\ tpc = "initialize" /\ ipc = "out"
    /\ IF outcome = "Initialized"
       THEN /\ sourceInitialized' = TRUE /\ startedMs' = nowMs /\ waited' = 0
            /\ state' = "WaitingForSynchronization" /\ tpc' = "check"
            /\ UNCHANGED report
       ELSE /\ Settle("InitializationFailed")
            /\ UNCHANGED <<sourceInitialized, startedMs, waited>>
    /\ UNCHANGED <<sntpVars, prerequisites, nowMs>>

CheckSynchronized ==
    /\ tpc = "check"
    /\ IF IsSynchronized THEN Settle("Ready") ELSE tpc' = "measure" /\ UNCHANGED <<state, report>>
    /\ UNCHANGED <<sntpVars, sourceInitialized, startedMs, prerequisites, nowMs, waited>>

PastDeadline == nowMs >= (startedMs + Timeout) % Word

TimedOut == (nowMs - startedMs) % Word >= Timeout

Measure ==
    /\ tpc = "measure"
    /\ Settle(IF TimedOut THEN "SynchronizationTimedOut" ELSE "WaitingForSynchronization")
    /\ UNCHANGED <<sntpVars, sourceInitialized, startedMs, prerequisites, nowMs, waited>>

-----------------------------------------------------------------------------
(* The other tasks, and time. *)

(* mark_event_loop_ready, mark_network_ready, mark_network_unready *)
MarkReadiness ==
    /\ \/ loopReady' = TRUE /\ UNCHANGED networkReady
       \/ networkReady' \in BOOLEAN /\ UNCHANGED loopReady
    /\ UNCHANGED <<sntpVars, coordinator, nowMs, waited>>

TimePasses ==
    /\ nowMs' = (nowMs + 1) % Word
    /\ waited' = IF waited < LongTime THEN waited + 1 ELSE waited
    /\ UNCHANGED <<sntpVars, coordinator, prerequisites>>

OtherTasks ==
    /\ InitializeStep \/ EventStep \/ Network
    /\ UNCHANGED <<coordinator, prerequisites, nowMs, waited>>

-----------------------------------------------------------------------------
Init ==
    /\ SntpInit
    /\ tpc = "idle" /\ state = "WaitingForPrerequisites"
    /\ sourceInitialized = FALSE /\ startedMs = 0
    /\ report = "WaitingForPrerequisites"
    /\ nowMs = 0 /\ loopReady = FALSE /\ networkReady = FALSE /\ waited = 0

Tick == TickBegin \/ InitializeReturns \/ CheckSynchronized \/ Measure

Next == Tick \/ MarkReadiness \/ TimePasses \/ OtherTasks

Spec == Init /\ [][Next]_vars

(* The boot loop ticks for ever and the event loop runs.  A handler that     *)
(* needs the event loop's lock gets it in the end, and a server that is      *)
(* asked answers in the end, although other events come first again and      *)
(* again (strong fairness).                                                  *)
RunsOn(A) == A /\ UNCHANGED <<coordinator, prerequisites, nowMs, waited>>

FairSpec ==
    /\ Spec
    /\ WF_vars(Tick) /\ WF_vars(RunsOn(EventStep))
    /\ SF_vars(RunsOn(InitializeStep)) /\ SF_vars(RunsOn(Answer))

-----------------------------------------------------------------------------
(* Every variable has its type. *)
TypeOK ==
    /\ SntpTypeOK
    /\ tpc \in {"idle", "initialize", "check", "measure"}
    /\ state \in Promise!Reports /\ report \in Promise!Reports
    /\ sourceInitialized \in BOOLEAN
    /\ startedMs \in 0 .. Word - 1 /\ nowMs \in 0 .. Word - 1
    /\ loopReady \in BOOLEAN /\ networkReady \in BOOLEAN
    /\ waited \in 0 .. LongTime

(* The time-out is never reported early, and not withheld either while the   *)
(* true time since the start is less than one turn of the counter: the       *)
(* unsigned difference is right across the wrap of both its operands.        *)
TimeoutIsReal ==
    [][tpc = "measure" /\ tpc' = "idle" =>
         /\ report' = "SynchronizationTimedOut" => waited >= Timeout
         /\ waited \in Timeout .. (Word - 1) => report' = "SynchronizationTimedOut"]_vars

(* "A timeout does not revoke the source's ability to become ready later"    *)
(* (boot_clock.hpp): a server that answers after the time-out is noticed.    *)
LateSynchronisationNoticed == state = "SynchronizationTimedOut" ~> report = "Ready"

(* The reports are those TrustedClock allows: Ready only after an answer of  *)
(* this boot and for good, failure for good, a time-out until the answer.    *)
ImplementsTrustedClock == Promise!Spec
=============================================================================
