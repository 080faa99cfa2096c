---------------------------- MODULE ProductionBoot ----------------------------
(***************************************************************************)
(* run_configured_boot (examples/scheduler): start-up steps that end the   *)
(* task when they fail, then the loop that keeps Wi-Fi connected, ticks    *)
(* the boot clock, starts the BLE session once the time is trusted, and    *)
(* runs the schedule.  The coordinator is what TrustedClock promises of    *)
(* it; runner.tick() blocks.                                               *)
(*                                                                         *)
(* Milliseconds are counted modulo Word, 2^32 in the code.  The two        *)
(* intervals of the code are equal.                                        *)
(***************************************************************************)
EXTENDS Integers, Sequences

CONSTANTS
    Word,       \* the number of values of a millisecond counter
    Interval,   \* kReconnectIntervalMs and kScheduleIntervalMs
    MaxPass     \* bound: the length of one pass of the loop

ASSUME LoopBounds ==
    /\ Word \in Nat /\ Interval \in Nat \ {0} /\ MaxPass \in Nat \ {0}
    /\ Interval + MaxPass <= Word

VARIABLES
    phase,         \* next step of the task
    now,           \* the reading of this pass
    networkReady,  \* the reading of prerequisites.ready() of this pass
    lastConnect,   \* last_connect_ms
    lastSchedule,  \* last_schedule_ms
    bleStarted,    \* ble_started
    bleReady,      \* the BLE session's ready flag, set by the NimBLE host task
    network,       \* what prerequisites.ready() would return
    nowMs,         \* the monotonic clock, modulo Word
    report,        \* the status of the last coordinator.tick()
    answered,      \* a time server has set the clock in this boot
    zoneSet,       \* timezone_configured_ of the clock
    passed,        \* history: the true time since now was read
    connectAge,    \* history: the true time from lastConnect to now, up to Word
    scheduleAge    \* history: the true time from lastSchedule to now, up to Word

readings == <<now, networkReady>>
lasts    == <<lastConnect, lastSchedule>>
ble      == <<bleStarted, bleReady>>
world    == <<network, nowMs, passed>>
clock    == <<report, answered, zoneSet>>
ages     == <<connectAge, scheduleAge>>
vars     == <<phase, readings, lasts, ble, world, clock, ages>>

Coordinator == INSTANCE TrustedClock

StartUp == <<"configuration", "nvs", "netif", "eventLoop", "handlers", "wifi", "peer",
             "schedule", "enter">>
Loop    == {"pass", "connect", "requesting", "tick", "clock", "run", "applying", "delay"}

Sum(a, b) == IF a + b < Word THEN a + b ELSE Word

-----------------------------------------------------------------------------
Goto(p) == phase' = p

(* Any step may fail; the task then ends for this boot. *)
StartUpStep ==
    /\ \E i \in 1 .. Len(StartUp) - 1 :
         phase = StartUp[i] /\ (Goto(StartUp[i + 1]) \/ Goto("stopped"))
    /\ UNCHANGED <<readings, lasts, ble, world, clock, ages>>

(* Both timers start one interval ago, so that both are due at once.        *)
EnterLoop ==
    /\ phase = "enter" /\ Goto("pass")
    /\ lastConnect' = (nowMs - Interval) % Word
    /\ lastSchedule' = (nowMs - Interval) % Word
    /\ connectAge' = Interval /\ scheduleAge' = Interval /\ passed' = 0
    /\ UNCHANGED <<readings, ble, network, nowMs, clock>>

BeginPass ==
    /\ phase = "pass" /\ Goto("connect")
    /\ now' = nowMs /\ networkReady' = network
    /\ connectAge' = Sum(connectAge, passed)
    /\ scheduleAge' = Sum(scheduleAge, passed)
    /\ passed' = 0
    /\ UNCHANGED <<lasts, ble, network, nowMs, clock>>

ElapsedUnwrapped(last) == now - last

Elapsed(last) == (now - last) % Word

RestartTimer == lastConnect' = now

KeepTimer == UNCHANGED lastConnect

Connect ==
    /\ phase = "connect"
    /\ \/ /\ ~networkReady /\ Elapsed(lastConnect) >= Interval
          /\ lastConnect' = now /\ connectAge' = 0 /\ Goto("requesting")
       \/ /\ networkReady \/ Elapsed(lastConnect) < Interval
          /\ KeepTimer /\ UNCHANGED connectAge /\ Goto("tick")
    /\ UNCHANGED <<readings, lastSchedule, ble, world, clock, scheduleAge>>

(* esp_wifi_connect() returns; its result is only logged. *)
Requested ==
    /\ phase = "requesting" /\ Goto("tick")
    /\ UNCHANGED <<readings, lasts, ble, world, clock, ages>>

CoordinatorTick ==
    /\ phase = "tick" /\ Goto("clock")
    /\ Coordinator!Tick
    /\ UNCHANGED <<readings, lasts, ble, world, zoneSet, ages>>

TrustedUnlessFailed == report # "InitializationFailed" /\ report # "WaitingForPrerequisites"

TrustedOnNetwork == report = "Ready" /\ networkReady

Trusted == report = "Ready"

(* clock.read(), which sets the time zone once, and the start of the BLE     *)
(* session, once; a session that cannot be started ends the task.            *)
ClockRead ==
    /\ phase = "clock" /\ Trusted
    /\ zoneSet' = TRUE
    /\ \/ Goto("run") /\ bleStarted' = TRUE
       \/ ~bleStarted /\ Goto("stopped") /\ UNCHANGED bleStarted
    /\ UNCHANGED <<readings, lasts, bleReady, world, report, answered, ages>>

(* The time is not trusted yet, or setenv() failed.  localtime_r() succeeds  *)
(* on the times that servers set.                                            *)
ClockUnavailable ==
    /\ phase = "clock" /\ (~Trusted \/ ~zoneSet)
    /\ Goto("delay")
    /\ UNCHANGED <<readings, lasts, ble, world, clock, ages>>

RunSchedule ==
    /\ phase = "run" /\ bleReady /\ Elapsed(lastSchedule) >= Interval
    /\ lastSchedule' = now /\ scheduleAge' = 0
    /\ Goto("applying")
    /\ UNCHANGED <<readings, lastConnect, ble, world, clock, connectAge>>

SkipSchedule ==
    /\ phase = "run" /\ (~bleReady \/ Elapsed(lastSchedule) < Interval)
    /\ Goto("delay")
    /\ UNCHANGED <<readings, lasts, ble, world, clock, ages>>

(* runner.tick() returns; its result is only logged. *)
TickReturns ==
    /\ phase = "applying" /\ Goto("delay")
    /\ UNCHANGED <<readings, lasts, ble, world, clock, ages>>

Delay ==
    /\ phase = "delay" /\ Goto("pass")
    /\ UNCHANGED <<readings, lasts, ble, world, clock, ages>>

-----------------------------------------------------------------------------
(* The other tasks, and time.  The next reading comes before the pass is     *)
(* MaxPass long.                                                             *)

TimePasses ==
    /\ phase \in Loop => passed < MaxPass
    /\ nowMs' = (nowMs + 1) % Word
    /\ passed' = IF phase \in Loop THEN passed + 1 ELSE passed
    /\ UNCHANGED <<phase, readings, lasts, ble, network, clock, ages>>

NetworkChanges ==
    /\ network' = ~network
    /\ UNCHANGED <<phase, readings, lasts, ble, nowMs, passed, clock, ages>>

(* sync and reset, and the end of the host task. *)
HostReports ==
    /\ bleStarted /\ bleReady' = ~bleReady
    /\ UNCHANGED <<phase, readings, lasts, bleStarted, world, clock, ages>>

ServerAnswers ==
    /\ Coordinator!Answered
    /\ UNCHANGED <<phase, readings, lasts, ble, world, zoneSet, ages>>

-----------------------------------------------------------------------------
Init ==
    /\ phase = "configuration"
    /\ now = 0 /\ networkReady = FALSE /\ lastConnect = 0 /\ lastSchedule = 0
    /\ bleStarted = FALSE /\ bleReady = FALSE
    /\ network = FALSE /\ nowMs = 0 /\ passed = 0
    /\ zoneSet = FALSE /\ connectAge = 0 /\ scheduleAge = 0
    /\ Coordinator!Init

Starting == StartUpStep \/ EnterLoop
Pass == BeginPass \/ Connect \/ Requested \/ CoordinatorTick \/ ClockRead
        \/ ClockUnavailable \/ RunSchedule \/ SkipSchedule \/ TickReturns \/ Delay
Others == TimePasses \/ NetworkChanges \/ HostReports \/ ServerAnswers

Next == Starting \/ Pass \/ Others

Spec == Init /\ [][Next]_vars

(* The task runs and time goes on; setenv() succeeds in the end (strong      *)
(* fairness: it is tried again and again).                                   *)
FairSpec == Spec /\ WF_vars(Pass) /\ WF_vars(TimePasses) /\ SF_vars(ClockRead)

-----------------------------------------------------------------------------
IsPaced(age, acts) ==
    /\ acts => age >= Interval
    /\ age \in Interval .. (Word - 1) => acts

(* A connection is requested and the schedule is run as soon as, and never   *)
(* before, one interval of true time has gone by between the readings of the *)
(* clock: through the wrap of the counter, from the first pass on, whose     *)
(* start values may lie below zero, and however long the pass before took.   *)
(* After a whole turn of the counter the action may be late, never early.    *)
PacedExactly ==
    [][/\ phase = "connect" /\ ~networkReady => IsPaced(connectAge, phase' = "requesting")
       /\ phase = "run" /\ bleReady => IsPaced(scheduleAge, phase' = "applying")]_phase

(* No radio session with the thermostat, and no schedule, before a time      *)
(* server has answered in this boot.                                         *)
TrustedTimeOnly == bleStarted \/ phase = "applying" => answered

(* "After the first synchronization in a boot, temporary Wi-Fi loss does not *)
(* stop scheduling" (docs/setup.md): whatever the network does from then on, *)
(* the runner is ticked again and again once the BLE host is in sync and     *)
(* stays so, unless the BLE session could not be started.                    *)
NetworkLossHarmless ==
    <>[]bleReady => (report = "Ready" ~> phase \in {"applying", "stopped"})

(* While the network is down, the station is asked to connect again and      *)
(* again, also while the thermostat keeps the task busy.                     *)
KeepsReconnecting ==
    phase \in Loop /\ ~network ~> network \/ phase \in {"requesting", "stopped"}
=============================================================================
