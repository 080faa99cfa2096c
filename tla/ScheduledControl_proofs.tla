------------------------ MODULE ScheduledControl_proofs ------------------------
(***************************************************************************)
(* ScheduledControl implements ScheduleRunner, for any set of temperatures *)
(* and any schedule: what the runner records as verified is what the       *)
(* controller read from the thermostat.  The invariant is the part of the  *)
(* controller's own that this rests on, and the state of the call in       *)
(* progress.                                                               *)
(***************************************************************************)
EXTENDS ScheduledControl, WellFoundedInduction, TLAPS

(* The assumptions of the components follow from those of the composition. *)
LEMMA ComponentAssumptions == Controller!SamplesDistinct /\ Runner!ScheduleAssumption
BY ControlAssumption DEF Controller!SamplesDistinct, Controller!FanModes, Runner!ScheduleAssumption

(* A bounded set of naturals has a greatest element. *)
LEMMA GreatestElement ==
    ASSUME NEW N \in Nat, NEW T \in SUBSET (0 .. N), T # {}
    PROVE  \E n \in T : \A m \in T : m <= n
<1> DEFINE U == {k \in Nat : N - k \in T}
<1>1. U # {}
  <2>1. PICK t \in T : TRUE
    OBVIOUS
  <2>2. N - t \in Nat /\ N - (N - t) = t
    BY <2>1
  <2> QED
    BY <2>1, <2>2
<1>2. PICK k \in U : \A j \in U : ~(<<j, k>> \in OpToRel(<, Nat))
  <2> HIDE DEF U
  <2>1. U \in SUBSET Nat
    BY DEF U
  <2> QED
    BY <1>1, <2>1, NatLessThanWellFounded, WFMin
<1>3. ASSUME NEW m \in T PROVE m <= N - k
  <2>1. N - m \in Nat /\ N - (N - m) = m
    OBVIOUS
  <2>2. N - m \in U /\ k \in Nat
    BY <1>2, <2>1
  <2>3. ~(N - m < k)
    BY <1>2, <2>1, <2>2 DEF OpToRel
  <2> QED
    BY <2>1, <2>2, <2>3
<1> QED
  BY <1>2, <1>3

(* tick() selects an entry of the schedule. *)
LEMMA SelectsAnEntry ==
    ASSUME NEW S, NEW s \in Seq(S), s # <<>>, NEW day, NEW minute
    PROVE  Runner!Select(s, day, minute)[2] \in 1 .. Len(s)
<1>1. CASE Runner!Reached(s, minute) = {}
  BY <1>1 DEF Runner!Select
<1>2. CASE Runner!Reached(s, minute) # {}
  <2>1. Runner!Reached(s, minute) \in SUBSET (0 .. Len(s)) /\ Len(s) \in Nat
    BY DEF Runner!Reached
  <2>2. \E n \in Runner!Reached(s, minute) : \A m \in Runner!Reached(s, minute) : m <= n
    BY <1>2, <2>1, GreatestElement
  <2>3. Runner!LastReached(s, minute) \in Runner!Reached(s, minute)
    BY <2>2 DEF Runner!LastReached
  <2>4. Runner!LastReached(s, minute) \in 1 .. Len(s)
    BY <2>3 DEF Runner!Reached
  <2> QED
    BY <1>2, <2>4 DEF Runner!Select
<1> QED
  BY <1>1, <1>2

-----------------------------------------------------------------------------
(* The result and the samples have their fields. *)
Shape ==
    /\ result = [status |-> result.status, target |-> result.target, fan |-> result.fan]
    /\ seen = [f \in Controller!Fields |-> seen[f]]

(* Verified is not said of a field before its last sample was as desired,    *)
(* and a recheck of the target comes after the fan was.                      *)
SampleInv ==
    /\ pc = "connect" => result.status # "Verified"
    /\ pc = "readFan" /\ result.target = "Verified" => seen.target = desired.target
    /\ pc = "recheckTarget" => seen.fan = desired.fan
    /\ pc \in {"finish", "idle"} /\ result.status = "Verified" =>
         seen.target = desired.target /\ seen.fan = desired.fan

(* The controller is asked for the state of an entry of a valid schedule. *)
ScheduleInv ==
    /\ entries \in Seq(Runner!Entries)
    /\ valid => Runner!ValidSchedule(entries)

AskedInv ==
    ticking => /\ desired = entries[chosen[2]].state
               /\ desired = [target |-> desired.target, fan |-> desired.fan]

IInv == Shape /\ SampleInv /\ ScheduleInv /\ AskedInv

LEMMA ControlInit == Init => IInv
<1> SUFFICES ASSUME Init PROVE IInv
  OBVIOUS
<1>1. Shape /\ SampleInv /\ AskedInv
  BY DEF Init, Controller!Init, Runner!Init, Controller!Result, Shape, SampleInv, AskedInv
<1>2. entries \in Seq(Runner!Entries)
  <2>1. PICK n \in 0 .. MaxEntries : entries \in [1 .. n -> Runner!Entries]
    BY DEF Init, Runner!Init
  <2> QED
    BY <2>1, ControlAssumption
<1>3. valid => Runner!ValidSchedule(entries)
  BY DEF Init, Runner!Init
<1> QED
  BY <1>1, <1>2, <1>3 DEF IInv, ScheduleInv

(* One transport call of the controller. *)
LEMMA TransportKeeps == Shape /\ SampleInv /\ Controller!Step => Shape' /\ SampleInv' /\ UNCHANGED desired
<1> SUFFICES ASSUME Shape, SampleInv, Controller!Step
             PROVE  Shape' /\ SampleInv' /\ UNCHANGED desired
  OBVIOUS
<1>0. ASSUME NEW s, NEW want PROVE Controller!Judge(s, want) = "Verified" => s = want
  BY DEF Controller!Judge
<1> USE DEF Shape, SampleInv, Controller!Fields, Controller!Finish, Controller!External,
           Controller!history, Controller!Result, Controller!Observe
<1>1. CASE Controller!Connect
  BY <1>1 DEF Controller!Connect
<1>2. CASE Controller!Discover
  BY <1>2 DEF Controller!Discover
<1>3. CASE Controller!ReadTarget
  <2>1. PICK s, verdict :
          /\ verdict = Controller!Judge(s, desired.target) /\ seen' = [seen EXCEPT !["target"] = s]
          /\ \/ pc' = "readFan" /\ result' = [result EXCEPT !.target = verdict]
             \/ pc' = "finish" /\ result' = [Controller!Result("Failed") EXCEPT !.target = verdict]
    BY <1>3 DEF Controller!ReadTarget
  <2>2. desired' = desired /\ (verdict = "Verified" => seen'.target = desired.target)
    BY <1>3, <1>0, <2>1 DEF Controller!ReadTarget
  <2>3. seen' = [f \in Controller!Fields |-> seen'[f]]
    BY <2>1
  <2>4. CASE pc' = "readFan" /\ result' = [result EXCEPT !.target = verdict]
    BY <2>2, <2>3, <2>4
  <2>5. CASE pc' = "finish" /\ result' = [Controller!Result("Failed") EXCEPT !.target = verdict]
    BY <2>2, <2>3, <2>5
  <2> QED
    BY <2>1, <2>4, <2>5
<1>4. CASE Controller!ReadFan
  <2>1. PICK s, verdict :
          /\ verdict = Controller!Judge(s, desired.fan) /\ seen' = [seen EXCEPT !["fan"] = s]
          /\ pc' = "finish"
          /\ result' = [result EXCEPT !.fan = verdict, !.status =
                          IF {result.target, verdict} = {"Verified"} THEN "Verified" ELSE "Failed"]
    BY <1>4 DEF Controller!ReadFan
  <2>2. /\ desired' = desired /\ pc = "readFan"
        /\ verdict = "Verified" => seen'.fan = desired.fan
    BY <1>4, <1>0, <2>1 DEF Controller!ReadFan
  <2>3. /\ seen' = [f \in Controller!Fields |-> seen'[f]] /\ seen'.target = seen.target
        /\ result' = [status |-> result'.status, target |-> result'.target, fan |-> result'.fan]
    BY <2>1
  <2>4. result'.status = "Verified" => result.target = "Verified" /\ verdict = "Verified"
    BY <2>1
  <2> QED
    BY <2>1, <2>2, <2>3, <2>4
<1>5. CASE Controller!WriteTarget
  BY <1>5 DEF Controller!WriteTarget, Controller!SendTargetCommand
<1>6. CASE Controller!ConfirmTarget
  BY <1>6, <1>0 DEF Controller!ConfirmTarget
<1>7. CASE Controller!WriteFan
  BY <1>7 DEF Controller!WriteFan, Controller!SendFanCommand
<1>8. CASE Controller!PollFan
  BY <1>8, <1>0 DEF Controller!PollFan, Controller!PollAgain
<1>9. CASE Controller!RecheckTarget
  <2>1. PICK s, verdict :
          /\ verdict = Controller!Judge(s, desired.target) /\ seen' = [seen EXCEPT !["target"] = s]
          /\ pc' = "finish"
          /\ result' = [result EXCEPT
                          !.status = IF verdict = "Verified" THEN verdict ELSE "PartialFailure",
                          !.target = verdict]
    BY <1>9 DEF Controller!RecheckTarget
  <2>2. /\ desired' = desired /\ pc = "recheckTarget"
        /\ verdict = "Verified" => seen'.target = desired.target
    BY <1>9, <1>0, <2>1 DEF Controller!RecheckTarget
  <2>3. /\ seen' = [f \in Controller!Fields |-> seen'[f]] /\ seen'.fan = seen.fan
        /\ result' = [status |-> result'.status, target |-> result'.target, fan |-> result'.fan]
        /\ result'.status = "Verified" => verdict = "Verified"
    BY <2>1
  <2> QED
    BY <2>1, <2>2, <2>3
<1>10. CASE Controller!Disconnect
  BY <1>10 DEF Controller!Disconnect
<1> QED
  BY <1>1, <1>2, <1>3, <1>4, <1>5, <1>6, <1>7, <1>8, <1>9, <1>10 DEF Controller!Step

LEMMA ControlStep == IInv /\ [Next]_vars => IInv'
<1> SUFFICES ASSUME IInv, [Next]_vars PROVE IInv'
  OBVIOUS
<1> USE DEF IInv, ScheduleInv, AskedInv
<1>1. CASE StartTick
  <2>1. /\ entries # <<>> /\ chosen'[2] \in 1 .. Len(entries)
        /\ entries[chosen'[2]].state # [target |-> NotFinite, fan |-> "Auto"]
    <3>1. valid /\ chosen' = Runner!Select(entries, wall.day, wall.minute)
      BY <1>1 DEF StartTick, Runner!TickStart
    <3>2. entries # <<>>
      BY <3>1 DEF Runner!ValidSchedule
    <3>3. chosen'[2] \in 1 .. Len(entries)
      BY <3>1, <3>2, SelectsAnEntry
    <3> QED
      BY <3>1, <3>2, <3>3 DEF Runner!ValidSchedule
  <2>2. entries[chosen'[2]].state \in [target : Temps, fan : Controller!FanModes]
    <3>1. entries[chosen'[2]] \in Runner!Entries
      BY <2>1
    <3> QED
      BY <2>1, <3>1 DEF Runner!Entries
  <2>3. /\ desired' = entries[chosen'[2]].state /\ UNCHANGED <<entries, valid>>
        /\ seen' = [f \in Controller!Fields |-> NotRead]
        /\ \/ pc' = "connect" /\ result' = Controller!Result("ConnectionFailed")
           \/ pc' = "idle" /\ result' = Controller!Result("InvalidCommand")
    BY <1>1 DEF StartTick, Runner!TickStart, Controller!Call
  <2>4. Shape' /\ SampleInv'
    BY <2>3 DEF Shape, SampleInv, Controller!Result
  <2> QED
    BY <2>2, <2>3, <2>4
<1>2. CASE Transport
  BY <1>2, TransportKeeps DEF Transport, runnerVars
<1>3. CASE TickReturns
  BY <1>3 DEF TickReturns, controllerVars, Shape, SampleInv
<1>4. CASE Restart
  BY <1>4 DEF Restart, Runner!Restart, Controller!Result, Shape, SampleInv
<1>5. CASE Time
  BY <1>5 DEF Time, Runner!MinutePasses, Runner!ClockCorrection, Runner!runner, Shape, SampleInv,
              controllerVars
<1>6. CASE Room
  BY <1>6 DEF Room, Controller!Thermostat, Controller!Converge, Controller!ManualChange,
              Controller!control, Controller!history, runnerVars, Shape, SampleInv
<1>7. CASE UNCHANGED vars
  BY <1>7 DEF vars, runnerVars, controllerVars, Shape, SampleInv
<1> QED
  BY <1>1, <1>2, <1>3, <1>4, <1>5, <1>6, <1>7 DEF Next

(* Every step is a step of the runner or changes nothing it can see: a tick  *)
(* that the controller ends with Verified records what the thermostat was    *)
(* read in, and that is the state of the event it was called for.            *)
LEMMA RunnerStep == IInv /\ [Next]_vars => [Runner!Next]_Runner!vars
<1> SUFFICES ASSUME IInv, [Next]_vars PROVE [Runner!Next]_Runner!vars
  OBVIOUS
<1> USE DEF Runner!vars, Runner!runner, Runner!history
<1>1. CASE StartTick
  BY <1>1 DEF StartTick, Runner!Next, Runner!Tick
<1>2. CASE Transport \/ Room \/ UNCHANGED vars
  BY <1>2 DEF Transport, Room, vars, runnerVars
<1>3. CASE TickReturns
  <2>1. CASE Success(result)
    <3>1. verified' = entries[chosen[2]].state
      BY <1>3, <2>1 DEF TickReturns, Success, IInv, SampleInv, AskedInv
    <3> QED
      BY <1>3, <2>1, <3>1 DEF TickReturns, Runner!ApplySucceeds, Runner!Next, Runner!Tick
  <2>2. CASE ~Success(result)
    BY <1>3, <2>2 DEF TickReturns, Runner!ApplyFails, Runner!KeepRecord, Runner!Next, Runner!Tick
  <2> QED
    BY <2>1, <2>2
<1>4. CASE Restart \/ Time
  BY <1>4 DEF Restart, Time, Runner!Next
<1> QED
  BY <1>1, <1>2, <1>3, <1>4 DEF Next

(* The runner over this controller and this thermostat is the runner         *)
(* specified by itself, whatever every transport call returns, however often *)
(* the power fails and whoever turns the knob: what is proved of             *)
(* ScheduleRunner holds of the composition.                                  *)
THEOREM ControlImplementsRunner == Spec => ImplementsRunner
<1>1. Init => Runner!Init
  BY DEF Init
<1> QED
  BY <1>1, ControlInit, ControlStep, RunnerStep, PTL DEF Spec, ImplementsRunner, Runner!Spec
=============================================================================
