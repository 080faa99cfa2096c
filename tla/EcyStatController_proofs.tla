----------------------- MODULE EcyStatController_proofs -----------------------
(***************************************************************************)
(* Proofs about EcyStatController for any set of temperatures: types, the  *)
(* invariant behind the safety properties, the properties themselves, and  *)
(* the refinement of ApplyContract.                                        *)
(***************************************************************************)
EXTENDS EcyStatController, TLAPS

(* What the decoders and the comparison make of a sample. *)
LEMMA JudgeFacts ==
    ASSUME NEW s \in Temps \union FanModes \union Unreadable,
           NEW want \in Temps \union FanModes
    PROVE  /\ Judge(s, want) \in {"Verified", "Mismatch", "ReadFailed", "ReadbackMalformed"}
           /\ Judge(s, want) = "Verified" <=> s = want
           /\ IsComparable(Judge(s, want)) <=> s \notin Unreadable
           /\ s # NotRead
BY SamplesDistinct DEF Judge, IsComparable, Unreadable, FanModes

LEMMA JudgeType ==
    ASSUME NEW s, NEW want PROVE Judge(s, want) \in FieldStatuses \ {"NotAttempted", "Timeout"}
BY DEF Judge, FieldStatuses

(* A sample of either field is a value of that field or unreadable. *)
LEMMA SampleTypes ==
    ASSUME TypeOK
    PROVE  /\ Samples("target") \subseteq Temps \union Unreadable
           /\ Samples("fan") \subseteq FanModes \union Unreadable
BY DEF TypeOK, Samples

(* Taking a sample keeps the types of what the thermostat and the history    *)
(* hold.                                                                     *)
LEMMA ObserveTypes ==
    ASSUME TypeOK, NEW f \in Fields, NEW s \in Samples(f), Observe(f, s)
    PROVE  /\ seen' \in [Fields -> Temps \union FanModes \union Unreadable \union {NotRead}]
           /\ fresh' \subseteq Fields
           /\ sent' \subseteq Fields
           /\ device' \in [target : Temps, fan : FanModes]
           /\ commanded' \in FanModes \union {"none"}
BY SampleTypes DEF TypeOK, Observe, Fields

(* Types, and the fact they rest on: only an encodable state gets past the   *)
(* test at the head of verify_current and apply.                             *)
TypeInv == TypeOK /\ (pc # "idle" => Encodable(desired))

LEMMA TypeInit == Init => TypeInv
<1> SUFFICES ASSUME Init PROVE TypeInv
  OBVIOUS
<1>1. desired \in DesiredStates
  BY DEF Init, DesiredStates, FanModes
<1>2. result \in [status : Statuses, target : FieldStatuses, fan : FieldStatuses]
  BY DEF Init, Result, Statuses, FieldStatuses
<1>3. seen \in [Fields -> Temps \union FanModes \union Unreadable \union {NotRead}]
  BY DEF Init
<1>4. session \in BOOLEAN
  BY Zenon DEF Init
<1>5. polls \in 0 .. LastPoll
  BY DEF Init, LastPoll
<1>6. /\ pc = "idle" /\ op = "none" /\ phase = "verify" /\ commanded = "none"
      /\ device \in [target : Temps, fan : FanModes] /\ sent = {} /\ fresh = {}
  BY DEF Init
<1> QED
  BY <1>1, <1>2, <1>3, <1>4, <1>6, <1>5 DEF TypeInv, TypeOK

LEMMA TypeStep == TypeInv /\ [Next]_vars => TypeInv'
<1> SUFFICES ASSUME TypeInv, [Next]_vars PROVE TypeInv'
  OBVIOUS
<1> USE DEF TypeInv, Encodable, Fields, Statuses, FieldStatuses, Operations, LastPoll
<1>1. ASSUME NEW o \in Operations, NEW d \in DesiredStates, Call(o, d) PROVE TypeInv'
  BY <1>1 DEF TypeOK, Call, Result
<1>2. CASE Connect
  BY <1>2 DEF TypeOK, Connect, External, history
<1>3. CASE Discover
  BY <1>3 DEF TypeOK, Discover, Finish, Result, External, history
<1>4. CASE ReadTarget
  <2> PICK s \in Samples("target") : ReadTarget!2!(s)
    BY <1>4 DEF ReadTarget
  <2> QED
    BY <1>4, JudgeType, ObserveTypes DEF TypeOK, ReadTarget, Finish, Result
<1>5. CASE ReadFan
  <2> PICK s \in Samples("fan") : ReadFan!2!(s)
    BY <1>5 DEF ReadFan
  <2> QED
    BY <1>5, JudgeType, ObserveTypes DEF TypeOK, ReadFan, Finish
<1>6. CASE WriteTarget
  BY <1>6 DEF TypeOK, WriteTarget, SendTargetCommand, Finish, Result
<1>7. CASE ConfirmTarget
  <2> PICK s \in Samples("target") : ConfirmTarget!2!(s)
    BY <1>7 DEF ConfirmTarget
  <2> QED
    BY <1>7, JudgeType, ObserveTypes DEF TypeOK, ConfirmTarget, Finish, Result
<1>8. CASE WriteFan
  <2>1. /\ seen' \in [Fields -> Temps \union FanModes \union Unreadable \union {NotRead}]
        /\ sent' \subseteq Fields /\ fresh' \subseteq Fields
        /\ device' = device /\ commanded' \in FanModes \union {"none"}
    BY <1>8 DEF TypeOK, WriteFan, SendFanCommand
  <2>2. /\ pc' \in {"pollFan", "finish"} /\ polls' \in 0 .. LastPoll
        /\ result' \in [status : Statuses, target : FieldStatuses, fan : FieldStatuses]
    <3>1. CASE pc' = "pollFan" /\ polls' = 0 /\ UNCHANGED result
      BY <3>1 DEF TypeOK
    <3>2. CASE /\ Finish([result EXCEPT !.status = "PartialFailure", !.fan = "WriteFailed"])
               /\ UNCHANGED polls
      BY <3>2 DEF TypeOK, Finish
    <3> QED
      BY <1>8, <3>1, <3>2 DEF WriteFan
  <2> QED
    BY <1>8, <2>1, <2>2 DEF TypeOK, WriteFan
<1>9. CASE PollFan
  <2> PICK s \in Samples("fan") : PollFan!2!(s)
    BY <1>9 DEF PollFan
  <2> QED
    <3>1. UNCHANGED <<op, phase, desired, session>>
      BY <1>9 DEF PollFan
    <3>2. Observe("fan", s)
      OBVIOUS
    <3>3. /\ pc' \in {"recheckTarget", "finish", "pollFan"}
          /\ polls' \in 0 .. LastPoll
          /\ result' \in [status : Statuses, target : FieldStatuses, fan : FieldStatuses]
      <4> DEFINE verdict == Judge(s, desired.fan)
                 report  == IF verdict = "Mismatch" THEN "Timeout" ELSE verdict
      <4>1. report \in FieldStatuses /\ verdict \in FieldStatuses
        BY JudgeType
      <4>2. CASE /\ pc' = "recheckTarget" /\ result' = [result EXCEPT !.fan = verdict]
                 /\ UNCHANGED polls
        BY <4>1, <4>2 DEF TypeOK
      <4>3. CASE /\ Finish([result EXCEPT !.status = "PartialFailure", !.fan = report])
                 /\ UNCHANGED polls
        BY <4>1, <4>3 DEF TypeOK, Finish
      <4>4. CASE PollAgain
        BY <1>9, <4>4 DEF TypeOK, PollAgain, PollFan
      <4> QED
        BY <4>2, <4>3, <4>4
    <3> QED
      BY <1>9, <3>1, <3>2, <3>3, ObserveTypes DEF TypeOK, PollFan
<1>10. CASE RecheckTarget
  <2> PICK s \in Samples("target") : RecheckTarget!2!(s)
    BY <1>10 DEF RecheckTarget
  <2> QED
    BY <1>10, JudgeType, ObserveTypes DEF TypeOK, RecheckTarget, Finish
<1>11. CASE Disconnect
  <2>1. /\ pc' \in {"connect", "idle"} /\ phase' \in {"verify", "apply"}
        /\ result' \in [status : Statuses, target : FieldStatuses, fan : FieldStatuses]
    <3>1. CASE MustApply
      BY <1>11, <3>1 DEF Disconnect, Result
    <3>2. CASE ~MustApply
      BY <1>11, <3>2 DEF TypeOK, Disconnect
    <3> QED
      BY <3>1, <3>2
  <2> QED
    BY <1>11, <2>1 DEF TypeOK, Disconnect, External, history
<1>12. CASE Converge
  BY <1>12 DEF TypeOK, Converge, control, history
<1>13. CASE ManualChange
  BY <1>13 DEF TypeOK, ManualChange, control, history
<1>14. CASE UNCHANGED vars
  BY <1>14 DEF TypeOK, vars, control, history
<1> QED
  BY <1>1, <1>2, <1>3, <1>4, <1>5, <1>6, <1>7, <1>8, <1>9, <1>10, <1>11, <1>12, <1>13, <1>14
  DEF Next, Step, Thermostat

-----------------------------------------------------------------------------
(* The invariant behind the safety properties. *)

(* Which half of the controller a call is in. *)
CallInv ==
    /\ pc # "idle" => op \in Operations
    /\ pc # "idle" /\ op = "verify" => phase = "verify"
    /\ pc # "idle" /\ op = "apply" => phase = "apply"
    /\ pc \in {"readTarget", "readFan"} => phase = "verify"
    /\ pc \in {"writeTarget", "confirmTarget", "writeFan", "pollFan", "recheckTarget"} =>
         phase = "apply"

(* Which commands have been sent when a transport call is about to be made. *)
SentInv ==
    /\ phase = "verify" => sent = {}
    /\ pc \in {"connect", "discover", "readTarget", "readFan", "writeTarget"} => sent = {}
    /\ pc \in {"confirmTarget", "writeFan"} => sent = {"target"}
    /\ pc \in {"pollFan", "recheckTarget"} => sent = Fields

(* Both fields were read and decoded and one differs from the desired state. *)
Differs ==
    /\ \A f \in Fields : seen[f] \notin Unreadable \union {NotRead}
    /\ \E f \in Fields : seen[f] # desired[f]

(* ensure_applied enters apply with evidence of a difference: what            *)
(* verify_current read is still the last sample when its session has closed.  *)
EvidenceInv ==
    /\ pc = "finish" /\ MustApply => Differs
    /\ op = "ensure" /\ phase = "apply" /\ pc \in {"connect", "discover", "writeTarget"} =>
         Differs

(* What the samples taken so far say, where a later step relies on them. *)
SampleInv ==
    /\ pc = "readFan" =>
         /\ "target" \in fresh
         /\ seen.target \notin Unreadable \union {NotRead}
         /\ result.target = "Verified" <=> seen.target = desired.target
    /\ pc = "writeFan" => seen.target = desired.target
    /\ pc = "recheckTarget" => "fan" \in fresh /\ seen.fan = desired.fan

(* What the result says once it is settled. *)
ResultInv ==
    /\ pc = "connect" => result.status = "ConnectionFailed"
    /\ pc = "finish" => result.status \in Contract!Allowed(op, sent)
    /\ pc \in {"finish", "idle"} /\ result.status = "Verified" =>
         fresh = Fields /\ seen.target = desired.target /\ seen.fan = desired.fan

SafetyInv == CallInv /\ SentInv /\ EvidenceInv /\ SampleInv /\ ResultInv /\ SessionClosed

IInv == TypeInv /\ SafetyInv

(* An encodable state holds two values the codec can produce. *)
LEMMA DesiredTypes ==
    TypeInv /\ pc # "idle" => desired.target \in Temps /\ desired.fan \in FanModes
BY DEF TypeInv, TypeOK, Encodable, DesiredStates

LEMMA SafetyInit == Init => SafetyInv
BY DEF Init, SafetyInv, CallInv, SentInv, EvidenceInv, SampleInv, ResultInv, SessionClosed,
       Result, MustApply

(* One read of field f during a call: the history takes the sample, and the  *)
(* verdict says how it compares with the desired value.                       *)
LEMMA ReadFacts ==
    ASSUME IInv, pc # "idle", NEW f \in Fields, NEW s \in Samples(f), Observe(f, s)
    PROVE  /\ seen'[f] = s /\ s # NotRead
           /\ \A g \in Fields \ {f} : seen'[g] = seen[g]
           /\ sent' = sent
           /\ Judge(s, desired[f]) \in {"Verified", "Mismatch", "ReadFailed", "ReadbackMalformed"}
           /\ Judge(s, desired[f]) = "Verified" <=> s = desired[f]
           /\ IsComparable(Judge(s, desired[f])) <=> s \notin Unreadable
<1>1. s \in Temps \union FanModes \union Unreadable
  BY SampleTypes DEF IInv, TypeInv, Fields
<1>2. desired[f] \in Temps \union FanModes
  BY DesiredTypes DEF IInv, Fields
<1>3. /\ seen'[f] = s /\ sent' = sent
      /\ \A g \in Fields \ {f} : seen'[g] = seen[g]
  BY DEF IInv, TypeInv, TypeOK, Observe
<1> QED
  BY <1>1, <1>2, <1>3, JudgeFacts

LEMMA SafetyStep == IInv /\ [Next]_vars => SafetyInv'
<1> SUFFICES ASSUME IInv, [Next]_vars PROVE SafetyInv'
  OBVIOUS
<1> USE DEF IInv, SafetyInv
<1>1. ASSUME NEW o \in Operations, NEW d \in DesiredStates, Call(o, d) PROVE SafetyInv'
  <2>1. CallInv' /\ SentInv' /\ SampleInv' /\ SessionClosed'
    BY <1>1 DEF Call, CallInv, SentInv, SampleInv, SessionClosed, Operations
  <2>2. EvidenceInv' /\ ResultInv'
    BY <1>1 DEF Call, EvidenceInv, ResultInv, Result, Operations, MustApply
  <2> QED
    BY <2>1, <2>2
<1>2. CASE Connect
  <2> USE DEF Connect, External, history
  <2>1. CallInv' /\ SentInv' /\ SampleInv' /\ SessionClosed'
    BY <1>2 DEF CallInv, SentInv, SampleInv, SessionClosed
  <2>2. EvidenceInv' /\ ResultInv'
    BY <1>2 DEF EvidenceInv, ResultInv, Differs
  <2> QED
    BY <2>1, <2>2
<1>3. CASE Discover
  <2> USE DEF Discover, Finish, External, history
  <2>1. phase \in {"verify", "apply"}
    BY DEF TypeInv, TypeOK
  <2>2. CallInv' /\ SentInv' /\ SampleInv' /\ SessionClosed'
    BY <1>3, <2>1 DEF CallInv, SentInv, SampleInv, SessionClosed
  <2>3. EvidenceInv'
    BY <1>3 DEF EvidenceInv, Differs, MustApply, Result, IsComparable
  <2>4. ResultInv'
    BY <1>3 DEF ResultInv, Result, SentInv, Contract!Allowed, Contract!Fields
  <2> QED
    BY <2>2, <2>3, <2>4
<1>4. CASE ReadTarget
  <2>1. PICK s \in Samples("target") : ReadTarget!2!(s)
    BY <1>4 DEF ReadTarget
  <2> DEFINE verdict == Judge(s, desired.target)
  <2>2. /\ seen'.target = s /\ s # NotRead /\ sent' = sent /\ sent = {}
        /\ verdict = "Verified" <=> s = desired.target
        /\ IsComparable(verdict) <=> s \notin Unreadable
        /\ verdict \in {"Verified", "Mismatch", "ReadFailed", "ReadbackMalformed"}
    BY <1>4, <2>1, ReadFacts DEF ReadTarget, Fields, SentInv
  <2>3. phase = "verify" /\ UNCHANGED <<op, phase, desired, session>> /\ op \in {"verify", "ensure"}
    BY <1>4 DEF ReadTarget, CallInv, Operations
  <2>4. fresh' = fresh \union {"target"}
    BY <2>1, <2>3 DEF Observe
  <2>5. result \in [status : Statuses, target : FieldStatuses, fan : FieldStatuses]
    BY DEF TypeInv, TypeOK
  <2> HIDE DEF verdict
  <2>6. CASE IsComparable(verdict) /\ pc' = "readFan" /\ result' = [result EXCEPT !.target = verdict]
    BY <2>2, <2>3, <2>4, <2>5, <2>6
    DEF CallInv, SentInv, EvidenceInv, SampleInv, ResultInv, SessionClosed, Operations
  <2>7. CASE ~IsComparable(verdict) /\ Finish([Result("Failed") EXCEPT !.target = verdict])
    <3>1. /\ pc' = "finish" /\ result'.status = "Failed" /\ result'.target = verdict
      BY <2>7 DEF Finish, Result
    <3>2. CallInv' /\ SentInv' /\ SampleInv' /\ SessionClosed'
      BY <2>2, <2>3, <3>1 DEF CallInv, SentInv, SampleInv, SessionClosed, Operations
    <3>3. EvidenceInv'
      BY <2>3, <2>7, <3>1 DEF EvidenceInv, MustApply
    <3>4. ResultInv'
      BY <2>2, <2>3, <3>1 DEF ResultInv, Contract!Allowed, Contract!Fields
    <3> QED
      BY <3>2, <3>3, <3>4
  <2> QED
    BY <2>1, <2>6, <2>7 DEF verdict
<1>5. CASE ReadFan
  <2>1. PICK s \in Samples("fan") : ReadFan!2!(s)
    BY <1>5 DEF ReadFan
  <2> DEFINE verdict == Judge(s, desired.fan)
             both    == {result.target, verdict} = {"Verified"}
  <2>2. /\ seen'.fan = s /\ s # NotRead /\ seen'.target = seen.target
        /\ sent' = sent /\ sent = {}
        /\ verdict = "Verified" <=> s = desired.fan
        /\ IsComparable(verdict) <=> s \notin Unreadable
    BY <1>5, <2>1, ReadFacts DEF ReadFan, Fields, SentInv
  <2>3. phase = "verify" /\ UNCHANGED <<op, phase, desired, session>> /\ op \in {"verify", "ensure"}
    BY <1>5 DEF ReadFan, CallInv, Operations
  <2>4. fresh' = Fields
    BY <1>5, <2>1, <2>3 DEF Observe, ReadFan, SampleInv, TypeInv, TypeOK, Fields
  <2>5. /\ pc' = "finish" /\ result'.status = IF both THEN "Verified" ELSE "Failed"
        /\ result'.target = result.target /\ result'.fan = verdict
    BY <2>1 DEF Finish, TypeInv, TypeOK
  <2>6. /\ seen.target \notin Unreadable \union {NotRead}
        /\ result.target = "Verified" <=> seen.target = desired.target
    BY <1>5 DEF ReadFan, SampleInv
  <2>7. both <=> result.target = "Verified" /\ verdict = "Verified"
    OBVIOUS
  <2> HIDE DEF verdict, both
  <2>8. CallInv' /\ SentInv' /\ SampleInv' /\ SessionClosed'
    BY <2>2, <2>3, <2>5 DEF CallInv, SentInv, SampleInv, SessionClosed, Operations
  <2>9. EvidenceInv'
    BY <2>2, <2>3, <2>5, <2>6, <2>7 DEF EvidenceInv, MustApply, Differs, Fields
  <2>10. ResultInv'
    BY <2>2, <2>3, <2>4, <2>5, <2>6, <2>7 DEF ResultInv, Contract!Allowed, Contract!Fields
  <2> QED
    BY <2>8, <2>9, <2>10
<1>6. CASE WriteTarget
  <2>1. /\ pc = "writeTarget" /\ UNCHANGED <<op, phase, desired, session>>
        /\ phase = "apply" /\ op \in {"ensure", "apply"} /\ sent' = {"target"}
    BY <1>6 DEF WriteTarget, SendTargetCommand, CallInv, SentInv, Operations
  <2>2. \/ pc' = "confirmTarget"
        \/ pc' = "finish" /\ result'.status = "Failed"
    BY <1>6 DEF WriteTarget, Finish, Result
  <2>3. CallInv' /\ SentInv' /\ SampleInv' /\ SessionClosed' /\ EvidenceInv'
    BY <2>1, <2>2
    DEF CallInv, SentInv, SampleInv, SessionClosed, EvidenceInv, MustApply, Operations
  <2>4. ResultInv'
    BY <2>1, <2>2 DEF ResultInv, Contract!Allowed, Contract!Fields
  <2> QED
    BY <2>3, <2>4
<1>7. CASE ConfirmTarget
  <2>1. PICK s \in Samples("target") : ConfirmTarget!2!(s)
    BY <1>7 DEF ConfirmTarget
  <2> DEFINE verdict == Judge(s, desired.target)
  <2>2. /\ seen'.target = s /\ sent' = sent /\ sent = {"target"}
        /\ verdict = "Verified" <=> s = desired.target
    BY <1>7, <2>1, ReadFacts DEF ConfirmTarget, Fields, SentInv
  <2>3. /\ phase = "apply" /\ UNCHANGED <<op, phase, desired, session>>
        /\ op \in {"ensure", "apply"}
    BY <1>7 DEF ConfirmTarget, CallInv, Operations
  <2>4. \/ pc' = "writeFan" /\ verdict = "Verified"
        \/ pc' = "finish" /\ result'.status = "Failed"
    BY <2>1 DEF Finish, Result
  <2> HIDE DEF verdict
  <2>5. CallInv' /\ SentInv' /\ SampleInv' /\ SessionClosed' /\ EvidenceInv'
    BY <2>2, <2>3, <2>4
    DEF CallInv, SentInv, SampleInv, SessionClosed, EvidenceInv, MustApply, Operations
  <2>6. ResultInv'
    BY <2>2, <2>3, <2>4 DEF ResultInv, Contract!Allowed, Contract!Fields
  <2> QED
    BY <2>5, <2>6
<1>8. CASE WriteFan
  <2>1. /\ phase = "apply" /\ UNCHANGED <<op, phase, desired, session>>
        /\ op \in {"ensure", "apply"} /\ sent' = Fields
    BY <1>8 DEF WriteFan, SendFanCommand, CallInv, SentInv, Operations, Fields
  <2>2. \/ pc' = "pollFan"
        \/ pc' = "finish" /\ result'.status = "PartialFailure"
    BY <1>8 DEF WriteFan, Finish, TypeInv, TypeOK
  <2>3. CallInv' /\ SentInv' /\ SampleInv' /\ SessionClosed' /\ EvidenceInv'
    BY <2>1, <2>2
    DEF CallInv, SentInv, SampleInv, SessionClosed, EvidenceInv, MustApply, Operations
  <2>4. ResultInv'
    BY <2>1, <2>2 DEF ResultInv, Contract!Allowed, Contract!Fields, Fields
  <2> QED
    BY <2>3, <2>4
<1>9. CASE PollFan
  <2>1. PICK s \in Samples("fan") : PollFan!2!(s)
    BY <1>9 DEF PollFan
  <2>2. /\ seen'.fan = s /\ sent' = sent /\ sent = Fields
        /\ Judge(s, desired.fan) = "Verified" <=> s = desired.fan
    BY <1>9, <2>1, ReadFacts DEF PollFan, Fields, SentInv
  <2>3. /\ phase = "apply" /\ UNCHANGED <<op, phase, desired, session>>
        /\ op \in {"ensure", "apply"}
    BY <1>9 DEF PollFan, CallInv, Operations
  <2>4. fresh' = {"fan"}
    BY <2>1, <2>3 DEF Observe
  <2>5. \/ pc' = "recheckTarget" /\ Judge(s, desired.fan) = "Verified"
        \/ pc' = "pollFan"
        \/ pc' = "finish" /\ result'.status = "PartialFailure"
    BY <1>9, <2>1 DEF PollFan, PollAgain, Finish, TypeInv, TypeOK
  <2>6. CallInv' /\ SentInv' /\ SampleInv' /\ SessionClosed' /\ EvidenceInv'
    BY <2>2, <2>3, <2>4, <2>5
    DEF CallInv, SentInv, SampleInv, SessionClosed, EvidenceInv, MustApply, Operations
  <2>7. ResultInv'
    BY <2>2, <2>3, <2>5 DEF ResultInv, Contract!Allowed, Contract!Fields, Fields
  <2> QED
    BY <2>6, <2>7
<1>10. CASE RecheckTarget
  <2>1. PICK s \in Samples("target") : RecheckTarget!2!(s)
    BY <1>10 DEF RecheckTarget
  <2>2. /\ seen'.target = s /\ seen'.fan = seen.fan /\ sent' = sent /\ sent = Fields
        /\ Judge(s, desired.target) = "Verified" <=> s = desired.target
    BY <1>10, <2>1, ReadFacts DEF RecheckTarget, Fields, SentInv
  <2>3. /\ phase = "apply" /\ UNCHANGED <<op, phase, desired, session>>
        /\ op \in {"ensure", "apply"}
    BY <1>10 DEF RecheckTarget, CallInv, Operations
  <2>4. fresh' = Fields /\ seen.fan = desired.fan
    BY <1>10, <2>1 DEF Observe, RecheckTarget, SampleInv, TypeInv, TypeOK, Fields
  <2>5. /\ pc' = "finish"
        /\ result'.status = IF Judge(s, desired.target) = "Verified" THEN "Verified" ELSE "PartialFailure"
    BY <2>1 DEF Finish, TypeInv, TypeOK
  <2>6. CallInv' /\ SentInv' /\ SampleInv' /\ SessionClosed' /\ EvidenceInv'
    BY <2>2, <2>3, <2>5
    DEF CallInv, SentInv, SampleInv, SessionClosed, EvidenceInv, MustApply, Operations
  <2>7. ResultInv'
    BY <2>2, <2>3, <2>4, <2>5 DEF ResultInv, Contract!Allowed, Contract!Fields, Fields
  <2> QED
    BY <2>6, <2>7
<1>11. CASE Disconnect
  <2> USE DEF Disconnect, External, history
  <2>1. CallInv' /\ SentInv' /\ SampleInv' /\ SessionClosed'
    BY <1>11 DEF CallInv, SentInv, SampleInv, SessionClosed, MustApply
  <2>2. EvidenceInv'
    BY <1>11 DEF EvidenceInv, Differs
  <2>3. ResultInv'
    BY <1>11 DEF ResultInv, Result, SentInv
  <2> QED
    BY <2>1, <2>2, <2>3
<1>12. CASE Converge
  BY <1>12 DEF Converge, control, history, CallInv, SentInv, EvidenceInv, SampleInv, ResultInv,
     SessionClosed, Differs, MustApply
<1>13. CASE ManualChange
  BY <1>13 DEF ManualChange, control, history, CallInv, SentInv, EvidenceInv, SampleInv, ResultInv,
     SessionClosed, Differs, MustApply
<1>14. CASE UNCHANGED vars
  BY <1>14 DEF vars, control, history, CallInv, SentInv, EvidenceInv, SampleInv, ResultInv,
     SessionClosed, Differs, MustApply
<1> QED
  BY <1>1, <1>2, <1>3, <1>4, <1>5, <1>6, <1>7, <1>8, <1>9, <1>10, <1>11, <1>12, <1>13, <1>14
  DEF Next, Step, Thermostat

(* The invariant holds in every reachable state. *)
LEMMA Invariance == Spec => []IInv
<1>1. Init => IInv
  BY TypeInit, SafetyInit DEF IInv
<1>2. IInv /\ [Next]_vars => IInv'
  BY TypeStep, SafetyStep DEF IInv
<1> QED
  BY <1>1, <1>2, PTL DEF Spec

-----------------------------------------------------------------------------
(* The properties. *)

(* Every variable keeps its type, for every set of temperatures. *)
THEOREM TypeCorrect == Spec => []TypeOK
<1>1. IInv => TypeOK
  BY DEF IInv, TypeInv
<1> QED
  BY <1>1, Invariance, PTL

(* verify_current, ensure_applied and apply return Verified only after both   *)
(* fields were sampled as desired since the last command, the target once     *)
(* more after the fan.                                                        *)
THEOREM VerifiedIsConfirmed == Spec => []VerifiedConfirmed
<1>1. IInv => VerifiedConfirmed
  BY DEF IInv, SafetyInv, ResultInv, VerifiedConfirmed
<1> QED
  BY <1>1, Invariance, PTL

(* Every path out of verify_current and apply disconnects. *)
THEOREM SessionsClose == Spec => []SessionClosed
<1>1. IInv => SessionClosed
  BY DEF IInv, SafetyInv
<1> QED
  BY <1>1, Invariance, PTL

(* Commands are given by WriteTarget and WriteFan only, and forgotten by a new *)
(* call only.                                                                 *)
LEMMA Commands ==
    ASSUME [Next]_vars, sent' # sent
    PROVE  \/ WriteTarget /\ sent' = sent \union {"target"}
           \/ WriteFan /\ sent' = sent \union {"fan"}
           \/ sent' = {}
<1>1. \A f : \A s : Observe(f, s) => sent' = sent
  BY DEF Observe
<1>2. (\E o \in Operations, d \in DesiredStates : Call(o, d)) => sent' = {}
  BY DEF Call
<1>3. Connect \/ Discover \/ Disconnect => sent' = sent
  BY DEF Connect, Discover, Disconnect, External, history
<1>4. ReadTarget \/ ReadFan \/ ConfirmTarget \/ PollFan \/ RecheckTarget => sent' = sent
  BY <1>1 DEF ReadTarget, ReadFan, ConfirmTarget, PollFan, RecheckTarget
<1>5. WriteTarget => sent' = sent \union {"target"}
  BY DEF WriteTarget, SendTargetCommand
<1>6. WriteFan => sent' = sent \union {"fan"}
  BY DEF WriteFan, SendFanCommand
<1>7. Thermostat \/ UNCHANGED vars => sent' = sent
  BY DEF Thermostat, Converge, ManualChange, vars, control, history
<1> QED
  BY <1>2, <1>3, <1>4, <1>5, <1>6, <1>7 DEF Next, Step

(* Of verify_current and ensure_applied, only the second ever writes, and only *)
(* on the evidence of a session that read both fields and found a difference. *)
THEOREM WritesAreAuthorized == Spec => WritesAuthorized
<1>1. IInv /\ [Next]_vars =>
        [sent = {} /\ sent' # {} /\ op # "apply" =>
           /\ op = "ensure"
           /\ \A f \in Fields : seen[f] \notin Unreadable \union {NotRead}
           /\ \E f \in Fields : seen[f] # desired[f]]_vars
  <2> SUFFICES ASSUME IInv, [Next]_vars, sent = {}, sent' # {}, op # "apply"
               PROVE  op = "ensure" /\ Differs
    BY DEF Differs
  <2>1. pc = "writeTarget"
    BY Commands DEF WriteTarget, WriteFan, IInv, SafetyInv, SentInv
  <2>2. op = "ensure" /\ phase = "apply"
    BY <2>1 DEF IInv, SafetyInv, CallInv, Operations
  <2> QED
    BY <2>1, <2>2 DEF IInv, SafetyInv, EvidenceInv
<1> QED
  BY <1>1, Invariance, PTL DEF Spec, WritesAuthorized

(* Fan is written in the same call, after Target and after its confirmation.   *)
THEOREM FanFollowsTarget == Spec => FanAfterTarget
<1>1. IInv /\ [Next]_vars =>
        [sent' # sent /\ sent # {} =>
           \/ sent' = {}
           \/ sent = {"target"} /\ sent' = Fields /\ seen.target = desired.target]_vars
  <2> SUFFICES ASSUME IInv, [Next]_vars, sent' # sent, sent # {}, sent' # {}
               PROVE  sent = {"target"} /\ sent' = Fields /\ seen.target = desired.target
    OBVIOUS
  <2>1. pc = "writeFan" /\ sent' = sent \union {"fan"}
    BY Commands DEF WriteTarget, WriteFan, IInv, SafetyInv, SentInv
  <2> QED
    BY <2>1 DEF IInv, SafetyInv, SentInv, SampleInv, Fields
<1> QED
  BY <1>1, Invariance, PTL DEF Spec, FanAfterTarget

-----------------------------------------------------------------------------
(* The reports about each field. *)

(* The status of field f is what its last sample says. *)
Honest(f) ==
    /\ result[f] = "Verified" => seen[f] = desired[f]
    /\ result[f] \in {"Mismatch", "Timeout"} =>
         seen[f] \notin Unreadable \union {NotRead, desired[f]}
    /\ result[f] = "ReadFailed" => seen[f] = Lost
    /\ result[f] = "ReadbackMalformed" => seen[f] = Malformed
    /\ result[f] = "WriteFailed" => f \in sent /\ seen[f] = NotRead
    /\ result[f] = "NotAttempted" => f \notin sent

(* A report is honest from the step that settles it to the next call, and      *)
(* before that step the field is NotAttempted.                                 *)
ReportInv ==
    /\ pc \in {"connect", "discover", "readTarget", "writeTarget", "confirmTarget"} =>
         result.target = "NotAttempted" /\ result.fan = "NotAttempted"
    /\ pc \in {"readFan", "writeFan", "pollFan"} => Honest("target") /\ result.fan = "NotAttempted"
    /\ pc \in {"recheckTarget", "finish", "idle"} =>
         /\ Honest("fan")
         /\ pc # "recheckTarget" => Honest("target")
         /\ result.fan = "Timeout" => polls = LastPoll

(* The step that samples field f and reports the verdict reports honestly; a   *)
(* mismatch may be reported as Timeout.                                        *)
LEMMA HonestRead ==
    ASSUME IInv, pc # "idle", NEW f \in Fields, NEW s \in Samples(f), Observe(f, s),
           desired' = desired,
           \/ result'[f] = Judge(s, desired[f])
           \/ Judge(s, desired[f]) = "Mismatch" /\ result'[f] = "Timeout"
    PROVE  Honest(f)'
<1>1. s \in Temps \union FanModes \union Unreadable
  BY SampleTypes DEF IInv, TypeInv, Fields
<1>2. desired[f] \in Temps \union FanModes
  BY DesiredTypes DEF IInv, Fields
<1>3. seen'[f] = s /\ s # NotRead
  BY ReadFacts
<1>4. /\ Judge(s, desired[f]) = "Verified" => s = desired[f]
      /\ Judge(s, desired[f]) = "Mismatch" => s \notin Unreadable /\ s # desired[f]
      /\ Judge(s, desired[f]) = "ReadFailed" => s = Lost
      /\ Judge(s, desired[f]) = "ReadbackMalformed" => s = Malformed
      /\ Judge(s, desired[f]) \in {"Verified", "Mismatch", "ReadFailed", "ReadbackMalformed"}
  BY <1>1, <1>2, SamplesDistinct DEF Judge, Unreadable, FanModes
<1> QED
  BY <1>3, <1>4 DEF Honest

(* A step that leaves a field, its report and its command alone keeps it honest. *)
LEMMA HonestKept ==
    ASSUME NEW f, Honest(f), result'[f] = result[f], seen'[f] = seen[f], desired' = desired,
           f \in sent' <=> f \in sent
    PROVE  Honest(f)'
BY DEF Honest

LEMMA ReportInit == Init => ReportInv
BY DEF Init, ReportInv, Honest, Result

LEMMA ReportStep == IInv /\ ReportInv /\ [Next]_vars => ReportInv'
<1> SUFFICES ASSUME IInv, ReportInv, [Next]_vars PROVE ReportInv'
  OBVIOUS
<1> USE DEF Fields
<1>1. result \in [status : Statuses, target : FieldStatuses, fan : FieldStatuses]
  BY DEF IInv, TypeInv, TypeOK
<1>2. ASSUME NEW o \in Operations, NEW d \in DesiredStates, Call(o, d) PROVE ReportInv'
  BY <1>2 DEF Call, ReportInv, Honest, Result
<1>3. CASE Connect
  <2>1. sent = {} /\ result.target = "NotAttempted" /\ result.fan = "NotAttempted"
    BY <1>3 DEF Connect, ReportInv, IInv, SafetyInv, SentInv
  <2> QED
    BY <1>3, <2>1 DEF Connect, ReportInv, Honest, External, history
<1>4. CASE Discover
  <2>1. sent = {} /\ result.target = "NotAttempted" /\ result.fan = "NotAttempted"
    BY <1>4 DEF Discover, ReportInv, IInv, SafetyInv, SentInv
  <2> QED
    BY <1>4, <2>1 DEF Discover, Finish, Result, ReportInv, Honest, External, history
<1>5. CASE ReadTarget
  <2>1. PICK s \in Samples("target") : ReadTarget!2!(s)
    BY <1>5 DEF ReadTarget
  <2>2. /\ pc' \in {"readFan", "finish"} /\ desired' = desired
        /\ result'.target = Judge(s, desired.target) /\ result'.fan = "NotAttempted"
    BY <1>1, <1>5, <2>1 DEF ReadTarget, Finish, Result, ReportInv
  <2>3. Honest("target")'
    BY <1>5, <2>1, <2>2, HonestRead DEF ReadTarget
  <2>4. Honest("fan")'
    BY <1>5, <2>1, <2>2 DEF ReadTarget, Honest, Observe, IInv, SafetyInv, SentInv
  <2> QED
    BY <2>2, <2>3, <2>4 DEF ReportInv
<1>6. CASE ReadFan
  <2>1. PICK s \in Samples("fan") : ReadFan!2!(s)
    BY <1>6 DEF ReadFan
  <2>2. /\ pc' = "finish" /\ desired' = desired
        /\ result'.fan = Judge(s, desired.fan) /\ result'.target = result.target
        /\ result'.fan # "Timeout"
    BY <1>1, <1>6, <2>1, JudgeType DEF ReadFan, Finish
  <2>3. Honest("fan")'
    BY <1>6, <2>1, <2>2, HonestRead DEF ReadFan
  <2>4. Honest("target")'
    BY <1>6, <2>1, <2>2, ReadFacts, HonestKept DEF ReadFan, ReportInv
  <2> QED
    BY <2>2, <2>3, <2>4 DEF ReportInv
<1>7. CASE WriteTarget
  <2>1. /\ sent' = {"target"} /\ seen'.target = NotRead
        /\ result.target = "NotAttempted" /\ result.fan = "NotAttempted"
    BY <1>7 DEF WriteTarget, SendTargetCommand, ReportInv, IInv, SafetyInv, SentInv, TypeInv, TypeOK
  <2> QED
    BY <1>7, <2>1 DEF WriteTarget, Finish, Result, ReportInv, Honest
<1>8. CASE ConfirmTarget
  <2>1. PICK s \in Samples("target") : ConfirmTarget!2!(s)
    BY <1>8 DEF ConfirmTarget
  <2>2. /\ pc' \in {"writeFan", "finish"} /\ desired' = desired
        /\ result'.target = Judge(s, desired.target) /\ result'.fan = "NotAttempted"
    BY <1>1, <1>8, <2>1 DEF ConfirmTarget, Finish, Result, ReportInv
  <2>3. Honest("target")'
    BY <1>8, <2>1, <2>2, HonestRead DEF ConfirmTarget
  <2>4. Honest("fan")'
    BY <1>8, <2>1, <2>2 DEF ConfirmTarget, Honest, Observe, IInv, SafetyInv, SentInv
  <2> QED
    BY <2>2, <2>3, <2>4 DEF ReportInv
<1>9. CASE WriteFan
  <2>1. /\ sent' = sent \union {"fan"} /\ seen'.fan = NotRead /\ seen'.target = seen.target
        /\ desired' = desired /\ result.fan = "NotAttempted" /\ Honest("target")
    BY <1>9 DEF WriteFan, SendFanCommand, ReportInv, IInv, TypeInv, TypeOK
  <2>2. /\ result'.target = result.target
        /\ \/ pc' = "pollFan" /\ result'.fan = "NotAttempted"
           \/ pc' = "finish" /\ result'.fan = "WriteFailed"
    BY <1>1, <1>9, <2>1 DEF WriteFan, Finish
  <2>3. Honest("target")'
    BY <2>1, <2>2, HonestKept
  <2>4. pc' = "finish" => Honest("fan")'
    BY <2>1, <2>2 DEF Honest
  <2> QED
    BY <2>2, <2>3, <2>4 DEF ReportInv
<1>10. CASE PollFan
  <2>1. PICK s \in Samples("fan") : PollFan!2!(s)
    BY <1>10 DEF PollFan
  <2> DEFINE verdict == Judge(s, desired.fan)
  <2>2. /\ result'.target = result.target /\ desired' = desired
        /\ \/ pc' = "recheckTarget" /\ result'.fan = verdict
           \/ /\ pc' = "finish"
              /\ \/ result'.fan = verdict
                 \/ verdict = "Mismatch" /\ result'.fan = "Timeout" /\ polls' = LastPoll
           \/ pc' = "pollFan" /\ result'.fan = "NotAttempted"
    BY <1>1, <1>10, <2>1 DEF PollFan, PollAgain, Finish, ReportInv
  <2>3. Honest("target")'
    BY <1>10, <2>1, <2>2, ReadFacts, HonestKept DEF PollFan, ReportInv
  <2>4. pc' # "pollFan" => Honest("fan")'
    BY <1>10, <2>1, <2>2, HonestRead DEF PollFan
  <2>5. verdict # "Timeout"
    BY JudgeType
  <2> QED
    BY <2>2, <2>3, <2>4, <2>5 DEF ReportInv
<1>11. CASE RecheckTarget
  <2>1. PICK s \in Samples("target") : RecheckTarget!2!(s)
    BY <1>11 DEF RecheckTarget
  <2>2. /\ pc' = "finish" /\ desired' = desired /\ polls' = polls
        /\ result'.target = Judge(s, desired.target) /\ result'.fan = result.fan
    BY <1>1, <1>11, <2>1 DEF RecheckTarget, Finish
  <2>3. Honest("target")'
    BY <1>11, <2>1, <2>2, HonestRead DEF RecheckTarget
  <2>4. Honest("fan")'
    BY <1>11, <2>1, <2>2, ReadFacts, HonestKept DEF RecheckTarget, ReportInv
  <2> QED
    BY <1>11, <2>2, <2>3, <2>4 DEF RecheckTarget, ReportInv
<1>12. CASE Disconnect
  BY <1>12 DEF Disconnect, Result, ReportInv, Honest, External, history
<1>13. CASE Thermostat \/ UNCHANGED vars
  BY <1>13 DEF Thermostat, Converge, ManualChange, ReportInv, Honest, vars, control, history
<1> QED
  BY <1>2, <1>3, <1>4, <1>5, <1>6, <1>7, <1>8, <1>9, <1>10, <1>11, <1>12, <1>13
  DEF Next, Step

(* The status returned for each field is what its last sample says, and a       *)
(* Timeout follows the last poll: a caller may trust a partial failure.         *)
THEOREM ReportsAreHonest == Spec => []FieldReportsHonest
<1>1. IInv /\ ReportInv /\ [Next]_vars => ReportInv'
  BY ReportStep
<1>2. ReportInv => FieldReportsHonest
  BY DEF ReportInv, FieldReportsHonest, Honest, Fields
<1> QED
  BY <1>1, <1>2, ReportInit, Invariance, PTL DEF Spec

-----------------------------------------------------------------------------
(* Refinement. *)

(* The controller implements ApplyContract: whatever the thermostat and the    *)
(* radio do, a call sends Target before Fan, verify_current sends neither, and *)
(* the status it returns is one the commands sent allow.                       *)
THEOREM ControllerImplementsContract == Spec => ImplementsContract
<1> USE DEF Contract!contractVars
<1>1. Init => Contract!ContractInit
  BY DEF Init, Contract!ContractInit, Result
<1>2. ASSUME IInv, [Next]_vars PROVE [Contract!ContractNext]_(Contract!contractVars)
  <2>1. ASSUME NEW o \in Operations, NEW d \in DesiredStates, Call(o, d)
        PROVE  Contract!ContractNext
    <3>1. CASE Encodable(d)
      BY <2>1, <3>1 DEF Call, Operations, Contract!ContractNext, Contract!Operations, Contract!Begin
    <3>2. CASE ~Encodable(d)
      BY <2>1, <3>2 DEF Call, Operations, Result, Contract!ContractNext, Contract!Operations, Contract!Reject
    <3> QED
      BY <3>1, <3>2
  <2>2. CASE Connect
    <3>1. CASE pc' = "idle"
      <4>1. result.status \in Contract!Allowed(op, sent)
        BY <1>2, <2>2 DEF Connect, IInv, SafetyInv, ResultInv, SentInv, Contract!Allowed, Contract!Fields
      <4> QED
        BY <2>2, <3>1, <4>1 DEF Connect, External, history, Contract!ContractNext, Contract!Return
    <3>2. CASE pc' = "discover"
      BY <2>2, <3>2 DEF Connect, External, history
    <3> QED
      BY <2>2, <3>1, <3>2 DEF Connect
  <2>3. CASE Discover \/ ReadTarget \/ ReadFan \/ ConfirmTarget \/ PollFan \/ RecheckTarget
    BY <2>3 DEF Discover, ReadTarget, ReadFan, ConfirmTarget, PollFan, RecheckTarget, PollAgain,
       Finish, Observe, External, history
  <2>4. CASE WriteTarget
    <3>1. op # "verify" /\ sent = {}
      BY <1>2, <2>4 DEF WriteTarget, IInv, SafetyInv, CallInv, SentInv
    <3> QED
      BY <2>4, <3>1 DEF WriteTarget, SendTargetCommand, Finish, Contract!ContractNext, Contract!SendTarget
  <2>5. CASE WriteFan
    <3>1. sent = {"target"}
      BY <1>2, <2>5 DEF WriteFan, IInv, SafetyInv, SentInv
    <3> QED
      BY <2>5, <3>1 DEF WriteFan, SendFanCommand, Finish, Contract!ContractNext, Contract!SendFan,
         Contract!Fields
  <2>6. CASE Disconnect
    <3>1. CASE MustApply
      BY <2>6, <3>1 DEF Disconnect, External, history
    <3>2. CASE ~MustApply
      <4>1. result'.status \in Contract!Allowed(op, sent)
        BY <1>2, <2>6, <3>2 DEF Disconnect, IInv, SafetyInv, ResultInv
      <4> QED
        BY <2>6, <3>2, <4>1 DEF Disconnect, External, history, Contract!ContractNext, Contract!Return
    <3> QED
      BY <3>1, <3>2
  <2>7. CASE Thermostat \/ UNCHANGED vars
    BY <2>7 DEF Thermostat, Converge, ManualChange, vars, control, history
  <2> QED
    BY <1>2, <2>1, <2>2, <2>3, <2>4, <2>5, <2>6, <2>7 DEF Next, Step
<1> QED
  BY <1>1, <1>2, Invariance, PTL DEF Spec, ImplementsContract, Contract!ContractSpec

=============================================================================
