-------------------------- MODULE EcyStatController --------------------------
(***************************************************************************)
(* EcyStatController (components/frost): verify_current, ensure_applied    *)
(* and apply drive one thermostat through the blocking BleTransport        *)
(* interface.  One action per transport call; between two calls the        *)
(* thermostat may change by itself or by hand.                             *)
(*                                                                         *)
(* The temperature and the fan mode are members of small sets; a readback  *)
(* that the codec refuses is Malformed, one that never arrives is Lost.    *)
(***************************************************************************)
EXTENDS Naturals

CONSTANTS
    Temps,         \* temperatures that are finite floats
    NotFinite,     \* a temperature the codec cannot encode
    Malformed,     \* a readback the codec cannot decode
    Lost,          \* a read that failed in the transport
    NotRead        \* no reading of this field since its last command

FanModes  == {"Auto", "On"}

ASSUME SamplesDistinct ==
    /\ Temps # {}
    /\ NotFinite \notin Temps
    /\ {Malformed, Lost, NotRead} \intersect (Temps \union FanModes \union {NotFinite}) = {}
    /\ Malformed # Lost /\ Malformed # NotRead /\ Lost # NotRead

VARIABLES
    pc,         \* the next transport call ("idle": no call is being executed)
    op,         \* the public method called last
    phase,      \* "verify" inside verify_current, "apply" inside apply
    desired,    \* its DesiredState
    result,     \* final_result; what the caller got once pc is "idle"
    session,    \* connect() succeeded and disconnect() has not been called
    polls,      \* fan readbacks already judged by the poll loop
    device,     \* the thermostat's state, as a read would report it
    commanded,  \* a fan command the thermostat has taken up but not shown yet
    sent,       \* history: the commands this call gave to the transport
    seen,       \* history: per field, the last sample since its last command
    fresh       \* history: the fields sampled since the last command or, after
                \* the fan command, since the last fan sample

control == <<pc, op, phase, desired, result, session, polls>>
history == <<sent, seen, fresh>>
vars    == <<control, device, commanded, history>>

Operations    == {"verify", "ensure", "apply"}
Fields        == {"target", "fan"}
Statuses      == {"Verified", "InvalidCommand", "ConnectionFailed",
                  "DiscoveryFailed", "Failed", "PartialFailure"}
FieldStatuses == {"NotAttempted", "Verified", "WriteFailed", "ReadFailed",
                  "ReadbackMalformed", "Mismatch", "Timeout"}
Unreadable    == {Malformed, Lost}

(* DesiredState as a caller may fill it: a float, and a FanMode that need    *)
(* not be one of the two enumerators.                                        *)
DesiredStates == [target : Temps \union {NotFinite}, fan : FanModes \union {"Other"}]

Encodable(d) == d.target # NotFinite /\ d.fan \in FanModes

Result(s) == [status |-> s, target |-> "NotAttempted", fan |-> "NotAttempted"]

IsComparableIfAttempted(s) == s # "NotAttempted"

IsComparable(s) == s \in {"Verified", "Mismatch"}

(* The last index of kFanReadbackPollDelaysMs. *)
LastPoll == 2

-----------------------------------------------------------------------------
(* The thermostat, seen through the transport. *)

(* What one read of field f can give: the field's present value, a value the *)
(* codec refuses, or nothing.                                                *)
Samples(f) == {device[f]} \union Unreadable

(* The decoders and the comparison with the desired value. *)
JudgeUndecoded(sample, want) ==
    CASE sample = Lost -> "ReadFailed"
      [] sample = want -> "Verified"
      [] OTHER         -> "Mismatch"

Judge(sample, want) ==
    CASE sample = Lost      -> "ReadFailed"
      [] sample = Malformed -> "ReadbackMalformed"
      [] sample = want      -> "Verified"
      [] OTHER              -> "Mismatch"

(* A write of the target: the thermostat may apply, clamp or ignore it, and  *)
(* none of these depends on whether the response reaches the controller.     *)
SendTargetCommand ==
    /\ \E t \in Temps : device' = [device EXCEPT !.target = t]
    /\ sent' = sent \union {"target"}
    /\ seen' = [seen EXCEPT !.target = NotRead]
    /\ fresh' = {}
    /\ UNCHANGED commanded

(* A write of the fan mode: shown later, or never taken up. *)
SendFanCommand ==
    /\ commanded' \in {commanded, desired.fan}
    /\ sent' = sent \union {"fan"}
    /\ seen' = [seen EXCEPT !.fan = NotRead]
    /\ fresh' = {}
    /\ UNCHANGED device

Observe(f, sample) ==
    /\ seen' = [seen EXCEPT ![f] = sample]
    /\ fresh' = IF f = "fan" /\ phase = "apply" THEN {f} ELSE fresh \union {f}
    /\ UNCHANGED <<sent, device, commanded>>

(* The fan follows a command after a while; the target need not stay. *)
Converge ==
    /\ commanded \in FanModes
    /\ \E t \in Temps : device' = [target |-> t, fan |-> commanded]
    /\ commanded' = "none"
    /\ UNCHANGED <<control, history>>

(* Somebody turns the knob. *)
ManualChange ==
    /\ device' \in [target : Temps, fan : FanModes]
    /\ UNCHANGED <<control, history, commanded>>

-----------------------------------------------------------------------------
(* The controller. *)

External == UNCHANGED <<device, commanded, history>>

(* finish(completed): the result is settled, the session is still open. *)
FinishWithoutDisconnect(r) == result' = r /\ pc' = "idle"

Finish(r) == result' = r /\ pc' = "finish"

(* A public method is called.  A state that cannot be encoded is refused     *)
(* without touching the transport.                                           *)
Call(o, d) ==
    /\ pc = "idle"
    /\ op' = o /\ desired' = d
    /\ phase' = IF o = "apply" THEN "apply" ELSE "verify"
    /\ sent' = {} /\ fresh' = {}
    /\ seen' = [f \in Fields |-> NotRead]
    /\ IF Encodable(d)
       THEN pc' = "connect" /\ result' = Result("ConnectionFailed")
       ELSE pc' = "idle"    /\ result' = Result("InvalidCommand")
    /\ UNCHANGED <<session, polls, device, commanded>>

Connect ==
    /\ pc = "connect"
    /\ session' \in BOOLEAN
    /\ pc' = IF session' THEN "discover" ELSE "idle"
    /\ External /\ UNCHANGED <<op, phase, desired, result, polls>>

Discover ==
    /\ pc = "discover"
    /\ \/ /\ pc' = IF phase = "verify" THEN "readTarget" ELSE "writeTarget"
          /\ UNCHANGED result
       \/ Finish(Result("DiscoveryFailed"))
    /\ External /\ UNCHANGED <<op, phase, desired, session, polls>>

(* verify_current: both fields are read even when the first one differs. *)
ReadTarget ==
    /\ pc = "readTarget"
    /\ \E s \in Samples("target") :
         LET verdict == Judge(s, desired.target) IN
         /\ Observe("target", s)
         /\ IF IsComparable(verdict)
            THEN pc' = "readFan" /\ result' = [result EXCEPT !.target = verdict]
            ELSE Finish([Result("Failed") EXCEPT !.target = verdict])
    /\ UNCHANGED <<op, phase, desired, session, polls>>

ReadFan ==
    /\ pc = "readFan"
    /\ \E s \in Samples("fan") :
         LET verdict == Judge(s, desired.fan)
             both    == {result.target, verdict} = {"Verified"}
         IN  /\ Observe("fan", s)
             /\ Finish([result EXCEPT !.fan = verdict,
                                      !.status = IF both THEN "Verified" ELSE "Failed"])
    /\ UNCHANGED <<op, phase, desired, session, polls>>

WriteTarget ==
    /\ pc = "writeTarget"
    /\ SendTargetCommand
    /\ \/ pc' = "confirmTarget" /\ UNCHANGED result
       \/ Finish([Result("Failed") EXCEPT !.target = "WriteFailed"])
    /\ UNCHANGED <<op, phase, desired, session, polls>>

ConfirmAnyTarget ==
    /\ pc = "confirmTarget"
    /\ \E s \in Samples("target") :
         LET verdict == Judge(s, desired.target) IN
         /\ Observe("target", s)
         /\ IF IsComparable(verdict)
            THEN pc' = "writeFan" /\ result' = [result EXCEPT !.target = verdict]
            ELSE Finish([Result("Failed") EXCEPT !.target = verdict])
    /\ UNCHANGED <<op, phase, desired, session, polls>>

ConfirmTarget ==
    /\ pc = "confirmTarget"
    /\ \E s \in Samples("target") :
         LET verdict == Judge(s, desired.target) IN
         /\ Observe("target", s)
         /\ IF verdict = "Verified"
            THEN pc' = "writeFan" /\ result' = [result EXCEPT !.target = verdict]
            ELSE Finish([Result("Failed") EXCEPT !.target = verdict])
    /\ UNCHANGED <<op, phase, desired, session, polls>>

WriteFan ==
    /\ pc = "writeFan"
    /\ SendFanCommand
    /\ \/ pc' = "pollFan" /\ polls' = 0 /\ UNCHANGED result
       \/ /\ Finish([result EXCEPT !.status = "PartialFailure", !.fan = "WriteFailed"])
          /\ UNCHANGED polls
    /\ UNCHANGED <<op, phase, desired, session>>

PollAgainUnbounded == polls' = polls + 1 /\ UNCHANGED <<pc, result>>

PollAgainUncounted == polls < LastPoll /\ UNCHANGED <<pc, result, polls>>

PollAgain == polls < LastPoll /\ polls' = polls + 1 /\ UNCHANGED <<pc, result>>

(* One turn of the poll loop, its delay included: only a read that fails, a  *)
(* match, or the last turn leaves the loop.                                  *)
PollFan ==
    /\ pc = "pollFan"
    /\ \E s \in Samples("fan") :
         LET verdict == Judge(s, desired.fan)
             report  == IF verdict = "Mismatch" THEN "Timeout" ELSE verdict
         IN  /\ Observe("fan", s)
             /\ \/ /\ verdict = "Verified"
                   /\ pc' = "recheckTarget" /\ result' = [result EXCEPT !.fan = verdict]
                   /\ UNCHANGED polls
                \/ /\ verdict # "Verified"
                   /\ verdict = "ReadFailed" \/ polls = LastPoll
                   /\ Finish([result EXCEPT !.status = "PartialFailure", !.fan = report])
                   /\ UNCHANGED polls
                \/ verdict \notin {"Verified", "ReadFailed"} /\ PollAgain
    /\ UNCHANGED <<op, phase, desired, session>>

SkipRecheck ==
    /\ pc = "recheckTarget"
    /\ Finish([result EXCEPT !.status = "Verified"])
    /\ External /\ UNCHANGED <<op, phase, desired, session, polls>>

RecheckTarget ==
    /\ pc = "recheckTarget"
    /\ \E s \in Samples("target") :
         LET verdict == Judge(s, desired.target) IN
         /\ Observe("target", s)
         /\ Finish([result EXCEPT
                      !.status = IF verdict = "Verified" THEN verdict ELSE "PartialFailure",
                      !.target = verdict])
    /\ UNCHANGED <<op, phase, desired, session, polls>>

(* disconnect(), then the return; ensure_applied goes on to apply only when  *)
(* verify_current could compare both fields and they differ.                 *)
MustApplyAnyMethod ==
    /\ phase = "verify" /\ result.status # "Verified"
    /\ IsComparable(result.target) /\ IsComparable(result.fan)

MustApply ==
    /\ op = "ensure" /\ phase = "verify"
    /\ result.status # "Verified"
    /\ IsComparable(result.target) /\ IsComparable(result.fan)

Disconnect ==
    /\ pc = "finish"
    /\ session' = FALSE
    /\ IF MustApply
       THEN pc' = "connect" /\ phase' = "apply" /\ result' = Result("ConnectionFailed")
       ELSE pc' = "idle" /\ UNCHANGED <<phase, result>>
    /\ External /\ UNCHANGED <<op, desired, polls>>

-----------------------------------------------------------------------------
Init ==
    /\ pc = "idle" /\ op = "none" /\ phase = "verify"
    /\ desired \in [target : Temps, fan : FanModes]
    /\ result = Result("InvalidCommand")
    /\ session = FALSE /\ polls = 0
    /\ device \in [target : Temps, fan : FanModes] /\ commanded = "none"
    /\ sent = {} /\ fresh = {} /\ seen = [f \in Fields |-> NotRead]

Step == \/ Connect \/ Discover \/ ReadTarget \/ ReadFan
        \/ WriteTarget \/ ConfirmTarget \/ WriteFan \/ PollFan \/ RecheckTarget
        \/ Disconnect

Thermostat == Converge \/ ManualChange

Next == Step \/ Thermostat \/ \E o \in Operations, d \in DesiredStates : Call(o, d)

Spec == Init /\ [][Next]_vars

(* Every method of BleTransport returns: each wait of the BLE transport has  *)
(* a time limit.  Nobody has to call the controller or touch the thermostat. *)
FairSpec == Spec /\ WF_vars(Step)

-----------------------------------------------------------------------------
(* Every variable has its type. *)
TypeOK ==
    /\ pc \in {"idle", "connect", "discover", "readTarget", "readFan", "writeTarget",
               "confirmTarget", "writeFan", "pollFan", "recheckTarget", "finish"}
    /\ op \in Operations \union {"none"}
    /\ phase \in {"verify", "apply"}
    /\ desired \in DesiredStates
    /\ result \in [status : Statuses, target : FieldStatuses, fan : FieldStatuses]
    /\ session \in BOOLEAN
    /\ polls \in 0 .. LastPoll
    /\ device \in [target : Temps, fan : FanModes]
    /\ commanded \in FanModes \union {"none"}
    /\ sent \subseteq Fields
    /\ seen \in [Fields -> Temps \union FanModes \union Unreadable \union {NotRead}]
    /\ fresh \subseteq Fields

(* A call that returns Verified has read both desired values since its last  *)
(* command, and has read the target again after the fan converged: the Target *)
(* and the Fan command are not atomic.                                        *)
VerifiedConfirmed ==
    pc = "idle" /\ result.status = "Verified" =>
        /\ fresh = Fields
        /\ seen.target = desired.target /\ seen.fan = desired.fan

(* Whatever the outcome, the status returned for a field is what its last    *)
(* sample says; after a partial failure the caller has no other account of   *)
(* which half of its state the thermostat took.                              *)
FieldReportsHonest ==
    pc = "idle" =>
        /\ \A f \in Fields :
             /\ result[f] = "Verified" => seen[f] = desired[f]
             /\ result[f] \in {"Mismatch", "Timeout"} =>
                  seen[f] \notin Unreadable \union {NotRead, desired[f]}
             /\ result[f] = "ReadFailed" => seen[f] = Lost
             /\ result[f] = "ReadbackMalformed" => seen[f] = Malformed
             /\ result[f] = "WriteFailed" => f \in sent /\ seen[f] = NotRead
             /\ result[f] = "NotAttempted" => f \notin sent
        /\ result.fan = "Timeout" => polls = LastPoll

(* verify_current sends nothing, and ensure_applied sends its first command  *)
(* only after one complete session in which both fields were read, decoded   *)
(* and found to differ from the desired state.                               *)
WritesAuthorized ==
    [][sent = {} /\ sent' # {} /\ op # "apply" =>
         /\ op = "ensure"
         /\ \A f \in Fields : seen[f] \notin Unreadable \union {NotRead}
         /\ \E f \in Fields : seen[f] # desired[f]]_vars

(* The fan command follows a target command of the same call, and only when  *)
(* the target was read back as desired after it.                             *)
FanAfterTarget ==
    [][sent' # sent /\ sent # {} =>
         \/ sent' = {}
         \/ sent = {"target"} /\ sent' = Fields /\ seen.target = desired.target]_vars

(* No session outlives its call: the session is closed on every path out of  *)
(* verify_current and apply, so the next connect() never finds one open.     *)
SessionClosed == pc \in {"idle", "connect"} => ~session

(* The controller is an ApplyContract. *)
Contract == INSTANCE ApplyContract WITH busy <- pc # "idle", status <- IF pc = "idle" THEN result.status ELSE "pending"

ImplementsContract == Contract!ContractSpec

(* Every call returns, however often a readback is malformed or differs. *)
EveryCallReturns == pc # "idle" ~> pc = "idle"
=============================================================================
