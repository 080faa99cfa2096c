--------------------------- MODULE ScheduledControl ---------------------------
(***************************************************************************)
(* ScheduleRunner over ControllerScheduleApplier over EcyStatController,   *)
(* with the thermostat below them: the runtime task is inside the          *)
(* controller while the runner ticks, and minutes pass, the clock is       *)
(* corrected, somebody turns the knob and the power fails between any two  *)
(* calls of the transport.                                                 *)
(***************************************************************************)
EXTENDS Sequences, Integers

CONSTANTS
    Temps, NotFinite, Malformed, Lost, NotRead,   \* as in EcyStatController
    DayLength, MaxEntries, MaxDay, Years          \* as in ScheduleRunner

VARIABLES
    pc, op, phase, desired, result, session, polls,             \* EcyStatController
    device, commanded, sent, seen, fresh,
    entries, valid, applied, last, ticking, chosen, wall,       \* ScheduleRunner
    due, done,
    verified    \* history: the sample of both fields behind the last Verified

(* The assumptions of the two components. *)
ASSUME ControlAssumption ==
    /\ DayLength \in Nat \ {0} /\ MaxEntries \in Nat /\ MaxDay \in Nat /\ Years \subseteq Int
    /\ Temps # {} /\ NotFinite \notin Temps
    /\ {Malformed, Lost, NotRead} \intersect (Temps \union {"Auto", "On", NotFinite}) = {}
    /\ Malformed # Lost /\ Malformed # NotRead /\ Lost # NotRead

Controller == INSTANCE EcyStatController

Runner == INSTANCE ScheduleRunner
            WITH States <- [target : Temps, fan : Controller!FanModes],
                 BadState <- [target |-> NotFinite, fan |-> "Auto"]

controllerVars == <<pc, op, phase, desired, result, session, polls, device, commanded,
                    sent, seen, fresh>>
runnerVars == <<entries, valid, applied, last, ticking, chosen, wall, verified, due, done>>
vars == <<controllerVars, runnerVars>>

-----------------------------------------------------------------------------
(* tick() calls ensure_applied with the state of the event it selected. *)
StartTick ==
    /\ Runner!TickStart
    /\ Controller!Call("ensure", entries[chosen'[2]].state)

Transport ==
    /\ Controller!Step
    /\ UNCHANGED runnerVars

BothCommandsSent(r) == r.status \in {"Verified", "PartialFailure"}

(* ControllerScheduleApplier::ensure_applied: what of the result is success. *)
Success(r) == r.status = "Verified"

TickReturns ==
    /\ ticking /\ pc = "idle"
    /\ IF Success(result)
       THEN /\ applied' = TRUE /\ last' = chosen
            /\ verified' = [target |-> seen.target, fan |-> seen.fan]
            /\ done' = done \union ({due} \ {Runner!NoBoundary})
       ELSE UNCHANGED <<applied, last, verified, done>>
    /\ ticking' = FALSE
    /\ UNCHANGED <<entries, valid, chosen, wall, due, controllerVars>>

(* Power failure: the objects are new, the link is gone, and the thermostat  *)
(* may or may not have taken what was under way.                             *)
Restart ==
    /\ Runner!Restart
    /\ pc' = "idle" /\ op' = "none" /\ phase' = "verify"
    /\ result' = Controller!Result("InvalidCommand")
    /\ session' = FALSE /\ polls' = 0
    /\ sent' = {} /\ fresh' = {} /\ seen' = [f \in Controller!Fields |-> NotRead]
    /\ UNCHANGED <<desired, device, commanded>>

Time ==
    /\ Runner!MinutePasses \/ Runner!ClockCorrection
    /\ UNCHANGED controllerVars

Room ==
    /\ Controller!Thermostat
    /\ UNCHANGED runnerVars

-----------------------------------------------------------------------------
Init == Controller!Init /\ Runner!Init /\ valid

Next == StartTick \/ Transport \/ TickReturns \/ Restart \/ Time \/ Room

Spec == Init /\ [][Next]_vars

(* The runner on top of this controller is the runner specified by itself:   *)
(* an event is recorded only when both fields were read from the thermostat  *)
(* in exactly the scheduled state, so that all that holds of ScheduleRunner  *)
(* holds here, for every outcome of every transport call.                    *)
ImplementsRunner == Runner!Spec
=============================================================================
