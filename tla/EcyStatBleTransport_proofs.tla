---------------------- MODULE EcyStatBleTransport_proofs ----------------------
(***************************************************************************)
(* Proofs about EcyStatBleTransport, for any number of sessions, reads and *)
(* writes, any set of operations whose wait may expire, and any            *)
(* interleaving of the two tasks: types, and, as long as no call is given  *)
(* up over a running callback, whose request is pending, what the handle   *)
(* says of the link, and whose answer was stored.                          *)
(***************************************************************************)
EXTENDS EcyStatBleTransport, TLAPS

EventTypes == {"none", "connect", "answer", "encryption", "refused", "disconnect"}
Kinds == Characteristics \union
           {"services", "commandChr", "targetChr", "fanChr", "write", "none"}
Events == [type : EventTypes, status : {"ok", "error", "secure"}, proc : Procs,
           ok : BOOLEAN, again : BOOLEAN]

(* The callback is inside complete_operation; it is storing an answer; it is *)
(* still on its way to either.                                               *)
Completing == hpc \in {"check", "set", "withdraw", "give"}
Storing    == hpc \in {"load", "copy", "loadLength", "store"}
Retrying   == hpc \in {"retry", "retest", "resend"}
Ending     == hpc \in {"forget", "ended", "outcome"}
Testing    == hpc \in {"guard", "accept", "effect"}

(* What an event is while it is handled: complete_operation is called twice  *)
(* only for a refused security request, and reports success only for a       *)
(* connection, an answer or a disconnection.                                 *)
EventShape ==
    /\ hpc = "idle" <=> ev.type = "none"
    /\ ~Completing => ~ev.ok /\ ~ev.again
    /\ Testing /\ ev.type = "connect" => ev.status \in {"ok", "error"} /\ hpc # "accept"
    /\ hpc = "effect" /\ ev.type = "connect" => ev.status = "ok"
    /\ hpc = "recorded" => ev.type = "connect"
    /\ hpc = "accept" => ev.type = "answer"
    /\ Storing => ev.type = "answer" /\ OperationOf(ev.proc) = "Read"
    /\ Retrying => ev.type = "encryption"
    /\ Ending => ev.type = "disconnect"
    /\ ev.again => ev.type = "answer" /\ ~ev.ok
    /\ ev.type \in {"encryption", "refused"} => ~ev.ok

(* The steps of each operation. *)
ResetSteps == {"reset", "resetHandle", "resetPending", "resetBuffer"}

StepsOf(op) ==
    {"begin", "clear", "post", "start", "refused", "wait", "woken", "expired"} \union
    CASE op = "Connect"    -> {"connect", "handle", "reconnect", "test", "report"} \union ResetSteps
      [] op = "Disconnect" -> {"disconnect", "notConnected"} \union ResetSteps
      [] op = "Discover"   -> {"enter", "discovered"}
      [] OTHER             -> {"enter", "prepare", "prepareStart", "done", "failed"}

(* Which operation the application is in, and which it may ask for next. *)
CallShape ==
    /\ apc # "idle" => apc \in StepsOf(call)
    /\ nested => call = "Disconnect" /\ client = "out" /\ apc # "idle"
    /\ apc = "idle" => \/ client = "out" /\ call \in {"Connect", "Disconnect"}
                       \/ client = "connected" /\ call = "Connect"
                       \/ client \in {"ready", "failed"} /\ call \in {"Discover", "Read", "Write"}
    /\ apc # "idle" /\ call = "Connect" => client = "out"
    /\ apc # "idle" /\ call = "Discover" => client = "connected"
    /\ apc # "idle" /\ call \in {"Read", "Write"} => client = "ready"
    /\ apc # "idle" /\ call = "Disconnect" /\ ~nested => client \in {"ready", "failed"}

TypeInv == TypeOK /\ writes <= ops /\ EventShape /\ CallShape

-----------------------------------------------------------------------------
(* The parts of a step that handlers share. *)

LEMMA OperationType ==
    ASSUME NEW proc PROVE OperationOf(proc) \in {"Discover", "Read", "Write"}
BY DEF OperationOf

LEMMA ProcType ==
    ASSUME TypeOK, NEW kind \in Kinds PROVE Proc(kind) \in Procs
BY DEF TypeOK, Proc, Procs, Kinds

LEMMA PendingIOType == ASSUME TypeOK PROVE PendingIO \in Procs
<1>1. (IF call = "Read" THEN want ELSE "write") \in Kinds
  BY DEF TypeOK, Kinds
<1> QED
  BY <1>1, ProcType DEF PendingIO

LEMMA BufferType ==
    ASSUME TypeOK PROVE NoBuffer \in Buffers /\ (call \in {"Read", "Write"} => Owner \in Buffers)
BY TransportBounds DEF TypeOK, Buffers, NoBuffer, Owner

LEMMA DeliverFacts ==
    ASSUME NEW type \in EventTypes, NEW status \in {"ok", "error", "secure"},
           NEW proc \in Procs, Deliver(Event(type, status, proc))
    PROVE  /\ hpc = "idle" /\ hpc' = "guard" /\ UNCHANGED held /\ ev' \in Events
           /\ ev'.type = type /\ ev'.status = status /\ ev'.proc = proc
           /\ ~ev'.ok /\ ~ev'.again
BY DEF Deliver, Event, Events

LEMMA IgnoreFacts ==
    ASSUME TransportBounds, Ignore
    PROVE  hpc' = "idle" /\ ev' \in Events /\ ev'.type = "none" /\ ~ev'.ok /\ ~ev'.again
BY DEF Ignore, NoEvent, Event, Events, EventTypes, NoAnswer, Procs, TransportBounds

LEMMA CompleteFacts ==
    ASSUME ev \in Events, NEW ok \in BOOLEAN, Complete(ok)
    PROVE  /\ hpc' = "check" /\ ev' \in Events
           /\ ev'.type = ev.type /\ ev'.status = ev.status /\ ev'.proc = ev.proc
           /\ (ev'.ok <=> ok) /\ (ev'.again <=> ev.again)
BY DEF Complete, Events

LEMMA AfterFacts ==
    ASSUME TransportBounds, ev \in Events, AfterComplete
    PROVE  /\ ev' \in Events
           /\ \/ /\ ev.again /\ hpc' = "check" /\ ~ev'.again
                 /\ ev'.type = ev.type /\ ev'.status = ev.status /\ ev'.proc = ev.proc
                 /\ (ev'.ok <=> ev.ok)
              \/ hpc' = "idle" /\ ev'.type = "none" /\ ~ev'.ok /\ ~ev'.again
<1>1. CASE ev.again
  BY <1>1 DEF AfterComplete, Events
<1>2. CASE ~ev.again
  BY <1>2, IgnoreFacts DEF AfterComplete
<1> QED
  BY <1>1, <1>2

LEMMA ReturnFacts ==
    ASSUME TypeOK, CallShape, apc # "idle", NEW v \in BOOLEAN, Return(v)
    PROVE  /\ CallShape'
           /\ apc' \in {"idle", "reconnect"} /\ call' \in Operations /\ nested' \in BOOLEAN
           /\ client' \in {"out", "connected", "ready", "failed"}
           /\ want' = want /\ sessions' = sessions /\ ops' = ops
<1>1. CASE nested
  BY <1>1 DEF Return, CallShape, TypeOK, Operations, StepsOf
<1>2. CASE ~nested
  <2>1. /\ apc' = "idle" /\ UNCHANGED <<call, nested, want, sessions, ops>>
        /\ call \in Operations /\ client \in {"out", "connected", "ready", "failed"}
    BY <1>2 DEF Return, TypeOK
  <2>2. \/ call = "Connect" /\ client' \in {"connected", "out"}
        \/ call = "Disconnect" /\ client' = "out"
        \/ call \in {"Discover", "Read", "Write"} /\ ~v /\ client' = "failed"
        \/ call = "Discover" /\ v /\ client' = "ready"
        \/ call \in {"Read", "Write"} /\ v /\ client' = client
    BY <1>2, <2>1 DEF Return, Operations
  <2>3. CallShape'
    BY <1>2, <2>1, <2>2 DEF CallShape
  <2>4. client' \in {"out", "connected", "ready", "failed"}
    BY <2>1, <2>2
  <2> QED
    BY <2>1, <2>3, <2>4 DEF TypeOK
<1> QED
  BY <1>1, <1>2 DEF TypeOK

-----------------------------------------------------------------------------
(* Types. *)

(* The application asks for its next operation. *)
LEMMA TypeClient == TypeInv /\ Client => TypeInv'
<1> SUFFICES ASSUME TypeInv, Client PROVE TypeInv'
  OBVIOUS
<1> USE TransportBounds DEF TypeInv, Operations
<1>1. UNCHANGED <<hostVars, semVars, flagVars, ioVars, worldVars, overlapped, abandoned>>
  BY DEF Client, Request
<1>2. EventShape' /\ got' \in Procs
  BY <1>1 DEF TypeOK, Client, EventShape, hostVars, NoAnswer, Procs,
              Completing, Storing, Retrying, Ending, Testing
<1>3. CallShape'
  BY DEF Client, Request, CallShape, StepsOf
<1>4. /\ apc' \in {"connect", "enter", "disconnect"} /\ call' \in Operations
      /\ want' \in Characteristics /\ UNCHANGED <<nested, client>>
      /\ sessions' \in 0 .. MaxSessions /\ ops' \in 0 .. MaxOps
      /\ writes' \in 0 .. MaxOps /\ writes' <= ops'
  BY DEF TypeOK, Client, Request, Characteristics
<1> QED
  BY <1>1, <1>2, <1>3, <1>4 DEF TypeOK, semVars, flagVars, ioVars, hostVars, worldVars

(* A step of a call: the next step of it, or the return. *)
LEMMA AppMoves ==
    ASSUME TypeInv, App \/ Expire
    PROVE  /\ apc # "idle" /\ UNCHANGED <<hostVars, got, writes>>
           /\ \/ \E v \in BOOLEAN : Return(v)
              \/ \E step \in StepsOf(call) : Goto(step)
              \/ apc = "handle" /\ apc' = "disconnect" /\ call' = "Disconnect" /\ nested' = TRUE
                    /\ UNCHANGED <<want, client, sessions, ops>>
<1> USE DEF TypeInv, CallShape, StepsOf, ResetSteps, AppKeeps, CallKeeps, histVars
<1>1. CASE EnterConnect
  BY <1>1 DEF EnterConnect, TestConnected, TestHandle, TestReleased, TestReuse
<1>2. CASE EnterGatt \/ PrepareIO \/ PrepareStart
  BY <1>2 DEF EnterGatt, PrepareIO, PrepareStart
<1>3. CASE EnterDisconnect \/ NotConnected
  BY <1>3 DEF EnterDisconnect, NotConnected, GiveUp
<1>4. CASE reset_connection_state
  BY <1>4 DEF reset_connection_state, ResetFlags, ResetHandle, ResetPending, ResetBuffer
<1>5. CASE Begin \/ BeginClear \/ BeginPost
  BY <1>5 DEF Begin, BeginClear, BeginPost
<1>6. CASE Start \/ Refused
  BY <1>6 DEF Start, Refused, GiveUp
<1>7. CASE Wake \/ Expire
  BY <1>7 DEF Wake, Expire
<1>8. CASE Expired
  BY <1>8 DEF Expired, GiveUp
<1>9. CASE Woken
  BY <1>9 DEF Woken, Terminated, TypeOK
<1>10. CASE ReportConnected
  BY <1>10 DEF ReportConnected, TypeOK
<1>11. CASE ClearIO
  <2>1. (apc = "done") \in BOOLEAN
    OBVIOUS
  <2> QED
    BY <1>11, <2>1 DEF ClearIO
<1> QED
  BY <1>1, <1>2, <1>3, <1>4, <1>5, <1>6, <1>7, <1>8, <1>9, <1>10, <1>11 DEF App

LEMMA ShapeApp == TypeInv /\ (App \/ Expire) => CallShape' /\ EventShape'
<1> SUFFICES ASSUME TypeInv, App \/ Expire PROVE CallShape' /\ EventShape'
  OBVIOUS
<1>1. EventShape'
  BY AppMoves DEF TypeInv, EventShape, hostVars, Completing, Storing, Retrying, Ending, Testing
<1>2. CallShape'
  <2>1. CASE \E v \in BOOLEAN : Return(v)
    BY <2>1, AppMoves, ReturnFacts DEF TypeInv
  <2>2. CASE \E step \in StepsOf(call) : Goto(step)
    <3>1. apc' \in StepsOf(call) /\ UNCHANGED <<call, nested, client>>
      BY <2>2 DEF Goto
    <3>2. apc' # "idle" /\ apc # "idle"
      BY <3>1, AppMoves DEF StepsOf, ResetSteps
    <3> QED
      BY <3>1, <3>2 DEF TypeInv, CallShape
  <2>3. CASE /\ apc = "handle" /\ apc' = "disconnect" /\ call' = "Disconnect" /\ nested' = TRUE
             /\ UNCHANGED <<want, client, sessions, ops>>
    <3>1. call = "Connect"
      BY <2>3 DEF TypeInv, TypeOK, Operations, CallShape, StepsOf, ResetSteps
    <3> QED
      BY <2>3, <3>1 DEF TypeInv, CallShape, StepsOf
  <2> QED
    BY <2>1, <2>2, <2>3, AppMoves
<1> QED
  BY <1>1, <1>2

(* Types of what the application writes. *)
LEMMA TypeApp == TypeInv /\ (App \/ Expire) => TypeInv'
<1> SUFFICES ASSUME TypeInv, App \/ Expire PROVE TypeInv'
  OBVIOUS
<1> USE DEF TypeInv
<1>1. /\ apc' \in StepsOf(call) \union {"idle", "reconnect", "disconnect"}
      /\ call' \in Operations /\ want' \in Characteristics /\ nested' \in BOOLEAN
      /\ client' \in {"out", "connected", "ready", "failed"}
      /\ sessions' \in 0 .. MaxSessions /\ ops' \in 0 .. MaxOps /\ ops' = ops
  BY AppMoves, ReturnFacts DEF TypeOK, Goto, Operations
<1>2. UNCHANGED <<hpc, ev, held, got, writes>>
  BY AppMoves DEF hostVars
<1>3. /\ pending' \in Operations \union {"None"} /\ success' \in BOOLEAN /\ token' \in BOOLEAN
      /\ {connected, discovered, handle, secTried, securing}' \subseteq BOOLEAN
      /\ link' \in {"down", "connecting", "up", "terminating", "breaking"}
  BY DEF App, EnterConnect, TestConnected, TestHandle, TestReleased, TestReuse, EnterGatt,
         PrepareIO, PrepareStart, EnterDisconnect, NotConnected, reset_connection_state,
         ResetFlags, ResetHandle, ResetPending, ResetBuffer, Begin, BeginClear, BeginPost,
         Start, Refused, GiveUp, Wake, Woken, Expire, Expired, ReportConnected, ClearIO,
         AppKeeps, CallKeeps, semVars, flagVars, ioVars, worldVars, TypeOK
<1>4. buffer' \in Buffers
  <2>1. CASE PrepareIO
    <3>1. call \in {"Read", "Write"}
      BY <2>1 DEF PrepareIO, CallShape, StepsOf, ResetSteps, TypeOK, Operations
    <3> QED
      BY <2>1, <3>1, BufferType DEF PrepareIO
  <2>2. CASE ResetBuffer \/ ClearIO
    BY <2>2, BufferType DEF ResetBuffer, ClearIO
  <2>3. CASE ~(PrepareIO \/ ResetBuffer \/ ClearIO)
    <3>1. UNCHANGED buffer
      BY <2>3, Zenon
      DEF App, EnterConnect, TestConnected, TestHandle, TestReleased, TestReuse, EnterGatt,
          PrepareStart, EnterDisconnect, NotConnected, reset_connection_state,
          ResetFlags, ResetHandle, ResetPending, Begin, BeginClear, BeginPost,
          Start, Refused, GiveUp, Wake, Woken, Expire, Expired, ReportConnected,
          AppKeeps, CallKeeps, ioVars
    <3> QED
      BY <3>1 DEF TypeOK
  <2> QED
    BY <2>1, <2>2, <2>3
<1>5. procs' \in Seq(Procs)
  <2>1. CASE Start
    <3>1. Proc(Queries[1]) \in Procs
      BY ProcType DEF Queries, Kinds
    <3> QED
      BY <2>1, <3>1, PendingIOType DEF Start, TypeOK
  <2>2. CASE ~Start
    BY <2>2 DEF App, EnterConnect, TestConnected, TestHandle, TestReleased, TestReuse, EnterGatt,
         PrepareIO, PrepareStart, EnterDisconnect, NotConnected, reset_connection_state,
         ResetFlags, ResetHandle, ResetPending, ResetBuffer, Begin, BeginClear, BeginPost,
         Refused, GiveUp, Wake, Woken, Expire, Expired, ReportConnected, ClearIO,
         AppKeeps, CallKeeps, worldVars, TypeOK
  <2> QED
    BY <2>1, <2>2
<1>6. overlapped' \in BOOLEAN /\ abandoned' \in BOOLEAN
  <2>1. UNCHANGED abandoned \/ Abandons
    BY DEF App, EnterConnect, TestConnected, TestHandle, TestReleased, TestReuse, EnterGatt,
         PrepareIO, PrepareStart, EnterDisconnect, NotConnected, reset_connection_state,
         ResetFlags, ResetHandle, ResetPending, ResetBuffer, Begin, BeginClear, BeginPost,
         Start, Refused, GiveUp, Wake, Woken, Expire, Expired, ReportConnected, ClearIO,
         AppKeeps, CallKeeps, histVars
  <2>2. \/ UNCHANGED overlapped
        \/ overlapped' = (overlapped \/ hpc \notin {"idle", "guard", "accept"})
    BY DEF App, EnterConnect, TestConnected, TestHandle, TestReleased, TestReuse, EnterGatt,
         PrepareIO, PrepareStart, EnterDisconnect, NotConnected, reset_connection_state,
         ResetFlags, ResetHandle, ResetPending, ResetBuffer, Begin, BeginClear, BeginPost,
         Start, Refused, GiveUp, Wake, Woken, Expire, Expired, ReportConnected, ClearIO,
         AppKeeps, CallKeeps, histVars
  <2> QED
    BY <2>1, <2>2, Zenon DEF Abandons, TypeOK
<1>7. apc' \in {"idle", "connect", "handle", "reconnect", "test", "reset", "resetHandle",
                "resetPending", "resetBuffer", "enter", "discovered", "prepare", "disconnect",
                "begin", "clear", "post", "prepareStart", "start", "notConnected", "refused",
                "wait", "woken", "report", "done", "failed", "expired"}
  BY <1>1 DEF StepsOf, ResetSteps
<1> QED
  BY <1>1, <1>2, <1>3, <1>4, <1>5, <1>6, <1>7, ShapeApp DEF TypeOK

(* What a step of a callback makes of its event. *)
Walk(from, to) == hpc = from /\ hpc' = to /\ UNCHANGED ev

LEMMA HostMoves ==
    ASSUME TypeInv, Host
    PROVE  /\ UNCHANGED <<apc, call, want, nested, client, sessions, ops,
                          writes, overlapped, abandoned>>
           /\ \/ Walk("guard", "effect") /\ ev.type # "answer"
                   /\ ~(ev.type = "connect" /\ ev.status = "error")
              \/ Walk("guard", "accept") /\ ev.type = "answer"
              \/ Walk("accept", "effect")
              \/ Walk("effect", "recorded") /\ ev.type = "connect"
              \/ Walk("effect", "retry") /\ ev.type = "encryption"
              \/ Walk("effect", "forget") /\ ev.type = "disconnect"
              \/ Walk("effect", "load") /\ ev.type = "answer" /\ OperationOf(ev.proc) = "Read"
              \/ Walk("load", "copy") \/ Walk("copy", "loadLength") \/ Walk("loadLength", "store")
              \/ hpc = "retry" /\ hpc' = "retest"
                   /\ \E proc \in Procs : ev' = [ev EXCEPT !.proc = proc]
              \/ Walk("retest", "resend") \/ Walk("forget", "ended") \/ Walk("ended", "outcome")
              \/ Walk("check", "set") \/ Walk("set", "withdraw") \/ Walk("withdraw", "give")
              \/ hpc = "effect" /\ ev.type = "answer" /\ hpc' = "check"
                   /\ ev' = [ev EXCEPT !.ok = FALSE, !.again = TRUE]
              \/ ~Completing /\ Ignore
              \/ /\ hpc # "idle" /\ ~Completing
                 /\ \E ok \in BOOLEAN : /\ Complete(ok)
                                        /\ ok => ev.type \in {"connect", "answer", "disconnect"}
              \/ hpc \in {"check", "give"} /\ AfterComplete
<1> USE DEF TypeInv, HostKeeps, appVars, EventShape, Walk, Completing
<1>0. UNCHANGED <<apc, call, want, nested, client, sessions, ops, writes, overlapped, abandoned>>
  BY DEF Host, Guard, Effect, Recorded, Retry, Resend, Forget, Ended, Load, Copy, StoreLength,
         CompletePending
<1>1. CASE Guard
  BY <1>0, <1>1 DEF Guard
<1>2. CASE Load \/ Copy \/ StoreLength
  BY <1>0, <1>2 DEF Load, Copy, StoreLength, Storing
<1>3. CASE CompletePending
  BY <1>0, <1>3 DEF CompletePending
<1>4. CASE Retry \/ Resend
  <2>1. Proc(IF pending = "Read" THEN want ELSE "write") \in Procs
    BY ProcType DEF TypeOK, Kinds
  <2> QED
    BY <1>0, <1>4, <2>1 DEF Retry, Resend, StartOrFail
<1>5. CASE Recorded
  BY <1>0, <1>5 DEF Recorded
<1>6. CASE Forget \/ Ended
  <2>1. (pending = "Disconnect") \in BOOLEAN
    OBVIOUS
  <2> QED
    BY <1>0, <1>6, <2>1 DEF Forget, ForgetHandle, Ended, Ending
<1>7. CASE Effect
  <2>0. hpc = "effect"
    BY <1>7 DEF Effect
  <2>1. CASE ConnectedEffect
    BY <1>0, <2>0, <2>1 DEF ConnectedEffect
  <2>2. CASE DiscoveryEffect
    BY <1>0, <2>0, <2>2 DEF DiscoveryEffect, StartOrFail
  <2>3. CASE AnswerEffect
    <3>1. ev.proc.kind # "write" => OperationOf(ev.proc) \in {"Read", "Discover"}
      BY DEF OperationOf
    <3> QED
      BY <1>0, <2>0, <2>3, <3>1 DEF AnswerEffect, SecurityEffect
  <2>4. CASE EncryptionEffect
    BY <1>0, <2>0, <2>4 DEF EncryptionEffect
  <2>5. CASE DisconnectedEffect
    BY <1>0, <2>0, <2>5 DEF DisconnectedEffect
  <2>6. CASE ev.type = "refused" /\ Complete(FALSE)
    BY <1>0, <2>0, <2>6
  <2> QED
    BY <1>7, <2>1, <2>2, <2>3, <2>4, <2>5, <2>6 DEF Effect
<1> QED
  BY <1>1, <1>2, <1>3, <1>4, <1>5, <1>6, <1>7 DEF Host

LEMMA ShapeHost == TypeInv /\ Host => ev' \in Events /\ EventShape' /\ CallShape'
<1> SUFFICES ASSUME TypeInv, Host PROVE ev' \in Events /\ EventShape' /\ CallShape'
  OBVIOUS
<1> USE TransportBounds
<1>1. CallShape'
  BY HostMoves DEF TypeInv, CallShape
<1>2. ev \in Events /\ EventShape
  BY DEF TypeInv, TypeOK, Events, EventTypes
<1> USE DEF EventShape, Completing, Storing, Retrying, Ending, Testing
<1>3. CASE ~Completing /\ Ignore
  BY <1>1, <1>2, <1>3, IgnoreFacts
<1>4. ASSUME NEW ok \in BOOLEAN, Complete(ok), hpc # "idle", ~Completing,
             ok => ev.type \in {"connect", "answer", "disconnect"}
      PROVE  ev' \in Events /\ EventShape'
  BY <1>2, <1>4, CompleteFacts
<1>5. CASE hpc \in {"check", "give"} /\ AfterComplete
  BY <1>1, <1>2, <1>5, AfterFacts
<1>6. CASE hpc = "effect" /\ ev.type = "answer" /\ hpc' = "check"
             /\ ev' = [ev EXCEPT !.ok = FALSE, !.again = TRUE]
  BY <1>1, <1>2, <1>6 DEF Events
<1>7. ASSUME NEW proc \in Procs, hpc = "retry", hpc' = "retest", ev' = [ev EXCEPT !.proc = proc]
      PROVE  ev' \in Events /\ EventShape'
  BY <1>2, <1>7 DEF Events
<1>8. CASE \/ Walk("guard", "effect") /\ ev.type # "answer"
                /\ ~(ev.type = "connect" /\ ev.status = "error")
           \/ Walk("guard", "accept") /\ ev.type = "answer"
           \/ Walk("accept", "effect")
           \/ Walk("effect", "recorded") /\ ev.type = "connect"
           \/ Walk("effect", "retry") /\ ev.type = "encryption"
           \/ Walk("effect", "forget") /\ ev.type = "disconnect"
           \/ Walk("effect", "load") /\ ev.type = "answer" /\ OperationOf(ev.proc) = "Read"
  BY <1>1, <1>2, <1>8 DEF Walk
<1>9. CASE \/ Walk("load", "copy") \/ Walk("copy", "loadLength") \/ Walk("loadLength", "store")
           \/ Walk("retest", "resend") \/ Walk("forget", "ended") \/ Walk("ended", "outcome")
           \/ Walk("check", "set") \/ Walk("set", "withdraw") \/ Walk("withdraw", "give")
  BY <1>1, <1>2, <1>9 DEF Walk
<1> QED
  BY <1>1, <1>3, <1>4, <1>5, <1>6, <1>7, <1>8, <1>9, HostMoves, Zenon

LEMMA AppendType ==
    ASSUME procs \in Seq(Procs), NEW proc \in Procs, procs' = Append(procs, proc)
    PROVE  procs' \in Seq(Procs)
OBVIOUS

(* Types of what a callback writes. *)
LEMMA TypeHost == TypeInv /\ Host => TypeInv'
<1> SUFFICES ASSUME TypeInv, Host PROVE TypeInv'
  OBVIOUS
<1> USE TransportBounds DEF TypeInv
<1>1. /\ hpc' \in {"idle", "guard", "accept", "effect", "recorded", "retry", "retest", "resend",
                   "forget", "ended", "outcome", "load", "copy", "loadLength", "store", "check",
                   "set", "withdraw", "give"}
      /\ UNCHANGED <<apc, call, want, nested, client, sessions, ops, writes, overlapped, abandoned>>
  BY HostMoves, IgnoreFacts, AfterFacts DEF TypeOK, Complete, Events, EventTypes, Walk
<1>2. /\ pending' \in Operations \union {"None"} /\ success' \in BOOLEAN /\ token' \in BOOLEAN
      /\ got' \in Procs /\ {buffer, held}' \subseteq Buffers
      /\ link' \in {"down", "connecting", "up", "terminating", "breaking"}
      /\ {connected, discovered, handle, secTried, securing}' \subseteq BOOLEAN
  <2> USE DEF TypeOK, semVars, flagVars, ioVars, worldVars
  <2>1. CASE Guard
    BY <2>1 DEF Guard, TerminateUnwanted
  <2>2. CASE Load \/ Copy \/ StoreLength
    BY <2>2, BufferType DEF Load, Copy, StoreLength
  <2>3. CASE CompletePending
    BY <2>3 DEF CompletePending
  <2>4. CASE Effect
    BY <2>4 DEF Effect, ConnectedEffect, DiscoveryEffect, AnswerEffect, SecurityEffect,
                EncryptionEffect, DisconnectedEffect
  <2>5. CASE Recorded \/ Retry \/ Resend \/ Forget \/ Ended
    BY <2>5 DEF Recorded, Retry, Resend, Forget, ForgetHandle, Ended
  <2> QED
    BY <2>1, <2>2, <2>3, <2>4, <2>5 DEF Host
<1>3. procs' \in Seq(Procs)
  <2>1. CASE UNCHANGED procs
    BY <2>1 DEF TypeOK
  <2>2. CASE Effect /\ DiscoveryEffect /\ procs' # procs
    <3>1. PICK i \in 1 .. Len(Queries) - 1 : StartOrFail(Proc(Queries[i + 1]))
      BY <2>2 DEF DiscoveryEffect
    <3>2. Proc(Queries[i + 1]) \in Procs
      BY ProcType DEF Queries, Kinds
    <3> QED
      BY <3>1, <3>2, AppendType DEF StartOrFail, TypeOK
  <2>3. CASE Resend
    <3>1. procs' = Append(procs, Proc(ev.proc.kind)) \/ UNCHANGED procs
      BY <2>3 DEF Resend, StartOrFail
    <3>2. ev.proc.kind \in Kinds
      BY DEF TypeOK, Procs, Kinds
    <3> QED
      BY <3>1, <3>2, ProcType, AppendType DEF TypeOK
  <2> QED
    BY <2>1, <2>2, <2>3
    DEF Host, Guard, Effect, Recorded, Retry, Forget, Ended, Load, Copy, StoreLength,
        CompletePending, ConnectedEffect, AnswerEffect, EncryptionEffect, DisconnectedEffect, worldVars
<1> QED
  BY <1>1, <1>2, <1>3, ShapeHost DEF TypeOK, Events, EventTypes

(* Types of what happens to the link. *)
LEMMA TypeWorld == TypeInv /\ World => TypeInv'
<1> SUFFICES ASSUME TypeInv, World PROVE TypeInv'
  OBVIOUS
<1> USE TransportBounds DEF TypeInv
<1>1. NoAnswer \in Procs
  BY DEF NoAnswer, Procs
<1>2. procs # <<>> => Head(procs) \in Procs /\ Tail(procs) \in Seq(Procs)
  BY DEF TypeOK
<1>3. /\ UNCHANGED <<appVars, semVars, flagVars, ioVars, histVars, held>>
      /\ procs' \in Seq(Procs) /\ securing' \in BOOLEAN
      /\ link' \in {"down", "connecting", "up", "terminating", "breaking"}
  BY <1>2 DEF World, ConnectResult, Answer, EncryptionChange, PairingRefused, SecurityRequest,
              LinkBreaks, Disconnected, EventKeeps, Deliver, hostVars, worldVars, TypeOK
<1>4. hpc' \in {hpc, "guard"} /\ ev' \in Events /\ EventShape'
  <2>1. CASE UNCHANGED <<hpc, ev>>
    BY <2>1 DEF TypeOK, EventShape, Events, EventTypes, Completing, Storing, Retrying, Ending, Testing
  <2>2. ASSUME NEW type \in EventTypes \ {"none"}, NEW status \in {"ok", "error", "secure"},
               NEW proc \in Procs, Deliver(Event(type, status, proc)),
               type = "connect" => status # "secure"
        PROVE  hpc' = "guard" /\ ev' \in Events /\ EventShape'
    BY <2>2, DeliverFacts DEF EventShape, Completing, Storing, Retrying, Ending, Testing
  <2> QED
    BY <1>1, <1>2, <2>1, <2>2
       DEF World, ConnectResult, Answer, EncryptionChange, PairingRefused, SecurityRequest,
           LinkBreaks, Disconnected, hostVars, EventTypes
<1>5. CallShape'
  BY <1>3 DEF CallShape, appVars
<1> QED
  BY <1>3, <1>4, <1>5
     DEF TypeOK, Events, EventTypes, appVars, semVars, flagVars, ioVars, histVars

LEMMA TypeInit == Init => TypeInv
<1> SUFFICES ASSUME Init PROVE TypeInv
  OBVIOUS
<1> USE TransportBounds DEF Init
<1>1. NoAnswer \in Procs /\ {buffer, held} \subseteq Buffers
  BY DEF NoAnswer, Procs, NoBuffer, Buffers
<1>2. ev \in Events /\ ev.type = "none" /\ ~ev.ok /\ ~ev.again
  BY <1>1 DEF NoEvent, Event, Events, EventTypes
<1>3. /\ {connected, discovered, handle, secTried, securing} \subseteq BOOLEAN
      /\ nested \in BOOLEAN /\ success \in BOOLEAN /\ token \in BOOLEAN
      /\ overlapped \in BOOLEAN /\ abandoned \in BOOLEAN
  BY Zenon
<1>4. /\ sessions \in 0 .. MaxSessions /\ ops \in 0 .. MaxOps /\ writes \in 0 .. MaxOps
      /\ writes <= ops /\ procs \in Seq(Procs) /\ got \in Procs
  BY <1>1 DEF TransportBounds
<1>5. /\ apc = "idle" /\ call \in Operations /\ want \in Characteristics /\ client = "out"
      /\ pending = "None" /\ hpc = "idle" /\ link = "down"
  BY DEF Operations, Characteristics
<1>6. TypeOK
  BY <1>1, <1>2, <1>3, <1>4, <1>5 DEF TypeOK, Events, EventTypes
<1> QED
  BY <1>2, <1>4, <1>6
     DEF TypeInv, EventShape, CallShape, Completing, Storing, Retrying, Ending, Testing

LEMMA TypeStep == TypeInv /\ [Next]_vars => TypeInv'
<1> SUFFICES ASSUME TypeInv, [Next]_vars PROVE TypeInv'
  OBVIOUS
<1>1. CASE UNCHANGED vars
  BY <1>1 DEF TypeInv, TypeOK, EventShape, CallShape, vars, appVars, semVars, flagVars, ioVars,
              hostVars, worldVars, histVars, Completing, Storing, Retrying, Ending, Testing
<1> QED
  BY <1>1, TypeClient, TypeApp, TypeHost, TypeWorld DEF Next

(* Every variable keeps its type, whatever the two tasks and the link do.    *)
THEOREM TypeCorrect == Spec => []TypeOK
<1>1. TypeInv => TypeOK
  BY DEF TypeInv
<1> QED
  BY <1>1, TypeInit, TypeStep, PTL DEF Spec

-----------------------------------------------------------------------------
(* Whose request is pending, as long as no call is given up over a callback  *)
(* that has passed its tests.                                                *)

(* The call has posted its operation and not withdrawn it. *)
Posted == apc \in {"prepareStart", "start", "notConnected", "refused", "wait", "expired"}

(* The operation an event can complete. *)
EventOp ==
    CASE ev.type = "connect" -> "Connect"
      [] ev.type = "answer"  -> OperationOf(ev.proc)
      [] OTHER               -> "Disconnect"

(* The callback has passed its tests; it reports success. *)
Accepted   == ev.type \in {"connect", "answer"} /\ (hpc \in {"effect", "recorded"} \/ Storing)
Succeeding == hpc \in {"check", "set", "withdraw"} /\ ev.ok

(* What is pending is the present call's, and a callback that has passed its *)
(* tests is handling an event of that call.                                  *)
PendingInv ==
    /\ pending # "None" => pending = call /\ Posted
    /\ token => pending = "None"
    /\ apc \in {"clear", "post"} => ~token
    /\ hpc \in {"set", "withdraw"} => pending # "None"
    /\ hpc = "give" => pending = "None" /\ Posted /\ ~token
    /\ Accepted \/ Succeeding => pending = EventOp
    /\ hpc = "give" /\ ev.ok => call = EventOp
    /\ Retrying => pending \in {"Read", "Write"}
    /\ hpc \in {"retest", "resend"} => ev.proc.kind = IF call = "Read" THEN want ELSE "write"

(* The members hold the present call's data, and so does what the callback   *)
(* has loaded.                                                               *)
BufferInv ==
    /\ call \in {"Read", "Write"} /\ (Posted \/ apc \in {"begin", "clear", "post", "woken", "done", "failed"})
          => buffer = Owner
    /\ hpc \in {"copy", "store"} => held = Owner

RequestInv == ~overlapped => PendingInv /\ BufferInv

(* Once a call is given up over such a callback, it stays recorded. *)
LEMMA OverlapStays ==
    ASSUME TypeInv, ~overlapped', [Next]_vars
    PROVE  ~overlapped /\ (GiveUp => hpc \in {"idle", "guard", "accept"})
<1>1. overlapped' = overlapped \/ GiveUp
  <2>1. CASE Client \/ Host \/ World
    BY <2>1, HostMoves
    DEF Client, Request, World, ConnectResult, Answer, EncryptionChange, PairingRefused,
        SecurityRequest, LinkBreaks, Disconnected, EventKeeps, histVars
  <2>2. CASE App \/ Expire
    BY <2>2, Zenon
    DEF App, EnterConnect, TestConnected, TestHandle, TestReleased, TestReuse, EnterGatt,
        PrepareIO, PrepareStart, EnterDisconnect, NotConnected, reset_connection_state,
        ResetFlags, ResetHandle, ResetPending, ResetBuffer, Begin, BeginClear, BeginPost,
        Start, Refused, Wake, Woken, Expire, Expired, ReportConnected, ClearIO,
        AppKeeps, CallKeeps, histVars
  <2>3. CASE UNCHANGED vars
    BY <2>3 DEF vars, histVars
  <2> QED
    BY <2>1, <2>2, <2>3 DEF Next
<1>2. ASSUME GiveUp PROVE ~overlapped /\ hpc \in {"idle", "guard", "accept"}
  <2>1. overlapped' = (overlapped \/ hpc \notin {"idle", "guard", "accept"})
    BY <1>2 DEF GiveUp
  <2>2. ~(overlapped \/ hpc \notin {"idle", "guard", "accept"})
    BY <2>1
  <2> QED
    BY <2>2
<1> QED
  BY <1>1, <1>2

(* What a step of a call does to what the two tasks share. *)
LEMMA AppRequests ==
    ASSUME TypeInv, App \/ Expire
    PROVE  /\ UNCHANGED <<hpc, ev, held>>
           /\ \/ UNCHANGED pending
              \/ GiveUp
              \/ apc = "resetPending" /\ pending' = "None"
              \/ apc = "post" /\ pending' = call /\ UNCHANGED call /\ Posted'
           /\ \/ UNCHANGED token
              \/ pending = "None" /\ token' = FALSE /\ apc = "begin"
              \/ token /\ token' = FALSE /\ apc = "wait"
           /\ \/ UNCHANGED <<call, want, sessions, ops>>
              \/ apc' \in {"idle", "reconnect", "disconnect"}
           /\ \/ UNCHANGED buffer
              \/ apc = "prepare"
              \/ apc \in {"resetBuffer", "done", "failed"}
           /\ apc = "prepare" => buffer' = Owner
<1> USE DEF AppKeeps, CallKeeps, hostVars, semVars, ioVars, Goto, Posted
<1>1. CASE EnterConnect
  BY <1>1 DEF EnterConnect, TestConnected, TestHandle, TestReleased, TestReuse, Return
<1>2. CASE EnterGatt
  BY <1>2 DEF EnterGatt, Return
<1>3. CASE PrepareIO \/ PrepareStart \/ EnterDisconnect \/ NotConnected
  BY <1>3 DEF PrepareIO, PrepareStart, EnterDisconnect, NotConnected, GiveUp
<1>4. CASE reset_connection_state
  BY <1>4 DEF reset_connection_state, ResetFlags, ResetHandle, ResetPending, ResetBuffer, Return
<1>5. CASE Begin \/ BeginClear \/ BeginPost
  BY <1>5 DEF Begin, BeginClear, BeginPost, Return
<1>6. CASE Start \/ Refused
  BY <1>6 DEF Start, Refused, GiveUp, Return
<1>7. CASE Wake \/ Expire
  BY <1>7 DEF Wake, Expire
<1>8. CASE Expired
  BY <1>8 DEF Expired, GiveUp, Return
<1>9. CASE Woken \/ ReportConnected \/ ClearIO
  BY <1>9 DEF Woken, ReportConnected, ClearIO, Return
<1> QED
  BY <1>1, <1>2, <1>3, <1>4, <1>5, <1>6, <1>7, <1>8, <1>9 DEF App

(* How a step of a call enters and leaves the steps that hold a request. *)
LEMMA AppPosted ==
    ASSUME TypeInv, App \/ Expire
    PROVE  /\ Posted /\ ~Posted' => GiveUp \/ (apc = "wait" /\ token /\ apc' = "woken" /\ UNCHANGED pending)
           /\ Posted' /\ ~Posted => apc = "post" /\ UNCHANGED <<call, want>> /\ (token' <=> token)
           /\ Posted /\ Posted' => UNCHANGED <<call, want, sessions, ops>> /\ (token' <=> token) /\ (UNCHANGED pending \/ GiveUp)
           /\ apc' \in {"clear", "post"} =>
                 (apc = "begin" /\ ~token') \/ (apc = "clear" /\ (token' <=> token))
           /\ apc' \in {"begin", "clear", "post", "woken", "done", "failed"} /\ call' \in {"Read", "Write"} =>
                 \/ apc = "prepare"
                 \/ apc \in {"begin", "clear", "post", "woken"} \/ Posted
<1> USE DEF AppKeeps, CallKeeps, hostVars, semVars, ioVars, Goto, Posted, TypeInv, CallShape
<1>1. CASE EnterConnect
  BY <1>1 DEF EnterConnect, TestConnected, TestHandle, TestReleased, TestReuse, Return
<1>2. CASE EnterGatt
  BY <1>2 DEF EnterGatt, Return, StepsOf, ResetSteps
<1>3. CASE PrepareIO \/ PrepareStart \/ EnterDisconnect \/ NotConnected
  BY <1>3 DEF PrepareIO, PrepareStart, EnterDisconnect, NotConnected, GiveUp, StepsOf, ResetSteps
<1>4. CASE reset_connection_state
  BY <1>4 DEF reset_connection_state, ResetFlags, ResetHandle, ResetPending, ResetBuffer, Return
<1>5. CASE Begin \/ BeginClear \/ BeginPost
  <2>1. Begin => apc = "begin" /\ (apc' \in {"idle", "reconnect"} \/ (apc' = "clear" /\ ~token'))
    BY DEF Begin, Return
  <2>2. BeginClear => apc = "clear" /\ apc' = "post" /\ (token' <=> token)
    BY DEF BeginClear
  <2>3. BeginPost => /\ apc = "post" /\ apc' \in {"prepareStart", "start"}
                     /\ UNCHANGED <<call, want>> /\ (token' <=> token)
    BY DEF BeginPost
  <2> QED
    BY <1>5, <2>1, <2>2, <2>3
<1>6. CASE Start \/ Refused
  BY <1>6 DEF Start, Refused, GiveUp, Return
<1>7. CASE Wake \/ Expire
  BY <1>7 DEF Wake, Expire
<1>8. CASE Expired
  BY <1>8 DEF Expired, GiveUp, Return
<1>9. CASE Woken \/ ReportConnected \/ ClearIO
  BY <1>9 DEF Woken, ReportConnected, ClearIO, Return
<1> QED
  BY <1>1, <1>2, <1>3, <1>4, <1>5, <1>6, <1>7, <1>8, <1>9 DEF App

LEMMA EventOpNotNone == EventOp # "None"
BY OperationType DEF EventOp

(* A request of the controller finds nothing pending. *)
LEMMA RequestClient ==
    ASSUME TypeInv, PendingInv, BufferInv, Client
    PROVE  PendingInv' /\ BufferInv'
<1>1. /\ UNCHANGED <<pending, token, hpc, ev, held>>
      /\ apc = "idle" /\ apc' \in {"connect", "enter", "disconnect"}
  BY DEF Client, Request, semVars, hostVars
<1>2. EventOp' = EventOp
  BY <1>1 DEF EventOp, OperationOf
<1>3. pending = "None" /\ ~Accepted /\ ~Succeeding /\ hpc # "give" /\ ~Retrying
  BY <1>1, EventOpNotNone DEF PendingInv, Posted
<1>4. ~Accepted' /\ ~Succeeding' /\ ~Retrying'
  BY <1>1, <1>3 DEF Accepted, Succeeding, Retrying, Storing
<1>5. ~(hpc \in {"copy", "store"})
  BY <1>3 DEF Accepted, Storing, TypeInv, EventShape
<1> QED
  BY <1>1, <1>2, <1>3, <1>4, <1>5 DEF PendingInv, BufferInv, Posted, Retrying

(* The application posts an operation only when none is pending, and a       *)
(* callback that has passed its tests keeps it from being withdrawn.         *)
LEMMA RequestApp ==
    ASSUME TypeInv, PendingInv, BufferInv, App \/ Expire,
           GiveUp => hpc \in {"idle", "guard", "accept"}
    PROVE  PendingInv' /\ BufferInv'
<1>1. UNCHANGED <<hpc, ev, held>>
  BY AppRequests
<1>2. /\ EventOp' = EventOp /\ (Accepted' <=> Accepted) /\ (Succeeding' <=> Succeeding)
      /\ (Retrying' <=> Retrying)
  BY <1>1 DEF EventOp, OperationOf, Accepted, Succeeding, Retrying, Storing
<1>3. ASSUME hpc \notin {"idle", "guard", "accept"}, pending # "None" \/ hpc = "give"
      PROVE  Posted /\ Posted' /\ UNCHANGED <<pending, call, want, sessions, ops>> /\ (token' <=> token)
  <2>1. Posted /\ ~GiveUp /\ (token => pending = "None") /\ (hpc = "give" => ~token)
    BY <1>3 DEF PendingInv
  <2>2. Posted'
    BY <1>3, <2>1, AppPosted
  <2>3. UNCHANGED <<call, want, sessions, ops>> /\ UNCHANGED pending /\ (token' <=> token)
    BY <2>1, <2>2, AppPosted
  <2> QED
    BY <2>1, <2>2, <2>3
<1>4. pending' # "None" => pending' = call' /\ Posted'
  <2>1. CASE pending # "None"
    <3>1. pending = call /\ Posted /\ ~token
      BY <2>1 DEF PendingInv
    <3>2. pending' # "None" => ~GiveUp
      BY DEF GiveUp
    <3> QED
      BY <3>1, <3>2, AppPosted
  <2>2. CASE pending = "None"
    BY <2>2, AppRequests DEF GiveUp
  <2> QED
    BY <2>1, <2>2
<1>5. token' => pending' = "None"
  <2>1. CASE ~token
    BY <2>1, AppRequests
  <2>2. CASE token
    <3>1. pending = "None" /\ apc # "post"
      BY <2>2 DEF PendingInv
    <3> QED
      BY <3>1, AppRequests DEF GiveUp
  <2> QED
    BY <2>1, <2>2
<1>6. apc' \in {"clear", "post"} => ~token'
  BY AppPosted DEF PendingInv
<1>7. PendingInv'
  <2>1. /\ (hpc \in {"set", "withdraw"} => pending # "None")'
        /\ (hpc = "give" => pending = "None" /\ Posted /\ ~token)'
        /\ (hpc = "give" /\ ev.ok => call = EventOp)'
    BY <1>1, <1>2, <1>3 DEF PendingInv
  <2>2. (Accepted \/ Succeeding => pending = EventOp)'
    <3>1. Accepted \/ Succeeding => hpc \notin {"idle", "guard", "accept"} /\ pending = EventOp
      BY DEF Accepted, Succeeding, Storing, PendingInv
    <3> QED
      BY <1>1, <1>2, <1>3, <3>1, EventOpNotNone
  <2>3. (Retrying => pending \in {"Read", "Write"})'
    BY <1>1, <1>2, <1>3 DEF PendingInv, Retrying
  <2>4. (hpc \in {"retest", "resend"} => ev.proc.kind = IF call = "Read" THEN want ELSE "write")'
    BY <1>1, <1>3 DEF PendingInv, Retrying
  <2> QED
    BY <1>4, <1>5, <1>6, <2>1, <2>2, <2>3, <2>4 DEF PendingInv
<1>8. BufferInv'
  <2>1. (call \in {"Read", "Write"} /\ (Posted \/ apc \in {"begin", "clear", "post", "woken", "done", "failed"})
          => buffer = Owner)'
    <3> SUFFICES ASSUME call' \in {"Read", "Write"},
                        Posted' \/ apc' \in {"begin", "clear", "post", "woken", "done", "failed"}
                 PROVE  buffer' = Owner'
      OBVIOUS
    <3>1. UNCHANGED <<call, sessions, ops>>
      BY AppRequests DEF Posted
    <3>2. apc = "prepare" \/ apc \in {"begin", "clear", "post", "woken"} \/ Posted
      BY AppPosted
    <3>3. Owner' = Owner
      BY <3>1 DEF Owner
    <3>4. CASE apc = "prepare"
      BY <3>3, <3>4, AppRequests
    <3>5. CASE apc # "prepare"
      <4>1. UNCHANGED buffer
        BY <3>2, <3>5, AppRequests DEF Posted
      <4> QED
        BY <3>1, <3>2, <3>3, <3>5, <4>1 DEF BufferInv
    <3> QED
      BY <3>4, <3>5
  <2>2. (hpc \in {"copy", "store"} => held = Owner)'
    <3> SUFFICES ASSUME hpc \in {"copy", "store"} PROVE held' = Owner'
      BY <1>1
    <3>1. Accepted
      BY DEF Accepted, Storing, TypeInv, EventShape
    <3>2. UNCHANGED <<call, sessions, ops>>
      BY <1>3, <3>1, EventOpNotNone DEF PendingInv
    <3> QED
      BY <1>1, <3>2 DEF BufferInv, Owner
  <2> QED
    BY <2>1, <2>2 DEF BufferInv
<1> QED
  BY <1>7, <1>8

(* complete_operation withdraws what it found, and gives the semaphore of    *)
(* the call that posted it.                                                  *)
LEMMA RequestComplete ==
    ASSUME TypeInv, PendingInv, CompletePending PROVE PendingInv'
<1>0. UNCHANGED <<apc, call, want>>
  BY DEF CompletePending, HostKeeps, appVars
<1>1. ev \in Events
  BY DEF TypeInv, TypeOK, Events, EventTypes
<1> USE DEF PendingInv, Posted, Accepted, Succeeding, Storing, Retrying, semVars
<1>2. CASE AfterComplete
  <2>1. (hpc' = "check" /\ ~ev'.ok) \/ hpc' = "idle"
    BY <1>1, <1>2, AfterFacts, TransportBounds DEF TypeInv, EventShape
  <2>2. CASE hpc = "check" /\ UNCHANGED semVars
    BY <1>0, <2>1, <2>2
  <2>3. CASE hpc = "give" /\ token' = TRUE /\ UNCHANGED <<pending, success>>
    BY <1>0, <2>1, <2>3
  <2> QED
    BY <1>2, <2>2, <2>3 DEF CompletePending, AfterComplete, Ignore
<1>3. CASE hpc = "check" /\ pending # "None" /\ hpc' = "set" /\ UNCHANGED <<ev, semVars>>
  BY <1>0, <1>3 DEF EventOp, OperationOf
<1>4. CASE hpc = "set" /\ hpc' = "withdraw" /\ UNCHANGED <<ev, pending, token>>
  BY <1>0, <1>4 DEF EventOp, OperationOf
<1>5. CASE hpc = "withdraw" /\ pending' = "None" /\ hpc' = "give" /\ UNCHANGED <<ev, success, token>>
  <2>1. pending = call /\ Posted /\ ~token
    BY <1>5
  <2>2. EventOp' = EventOp
    BY <1>5 DEF EventOp, OperationOf
  <2>3. ~Accepted' /\ ~Succeeding' /\ ~Retrying'
    BY <1>5
  <2>4. ev'.ok => call' = EventOp'
    BY <1>0, <1>5, <2>1, <2>2
  <2>5. Posted' /\ ~token'
    BY <1>0, <1>5, <2>1
  <2> QED
    BY <1>5, <2>3, <2>4, <2>5
<1> QED
  BY <1>2, <1>3, <1>4, <1>5 DEF CompletePending

(* A callback passes its tests, and goes on, with the call's operation       *)
(* pending.                                                                  *)
LEMMA RequestCallback ==
    ASSUME TypeInv, PendingInv, Host, ~CompletePending PROVE PendingInv'
<1>0. UNCHANGED <<apc, call, want, pending, token>>
  BY HostMoves DEF Host, Guard, Effect, Recorded, Retry, Resend, Forget, Ended, Load, Copy,
                   StoreLength, semVars
<1>1. ev \in Events /\ EventShape /\ ~Completing
  <2>1. ev \in Events /\ EventShape
    BY DEF TypeInv, TypeOK, Events, EventTypes
  <2>2. ~Completing
    BY DEF Host, Guard, Effect, Recorded, Retry, Resend, Forget, ForgetHandle, Ended, Load, Copy,
           StoreLength, Completing
  <2> QED
    BY <2>1, <2>2
<1>2. /\ hpc' \notin {"set", "withdraw", "give"}
      /\ hpc' = "check" /\ ev'.ok => pending = EventOp'
  <2>1. ASSUME NEW ok \in BOOLEAN, Complete(ok), ok => pending = EventOp
        PROVE  hpc' = "check" /\ (ev'.ok => pending = EventOp')
    BY <1>1, <2>1, CompleteFacts DEF EventOp
  <2>2. CASE Guard
    BY <2>1, <2>2 DEF Guard, Ignore
  <2>3. CASE Recorded
    BY <1>1, <2>1, <2>3 DEF Recorded, PendingInv, Accepted, EventShape
  <2>4. CASE Retry \/ Resend
    BY <2>1, <2>4 DEF Retry, Resend, StartOrFail, Ignore
  <2>5. CASE Forget \/ Ended
    <3>1. (pending = "Disconnect") \in BOOLEAN /\ (pending = "Disconnect" => pending = EventOp)
      BY <1>1, <2>5 DEF Forget, ForgetHandle, Ended, EventOp, EventShape, Ending
    <3> QED
      BY <2>1, <2>5, <3>1 DEF Forget, Ended, Ignore
  <2>6. CASE Load \/ Copy \/ StoreLength
    <3>1. hpc = "store" => pending = EventOp
      BY <1>1 DEF PendingInv, Accepted, Storing, EventShape
    <3> QED
      BY <2>1, <2>6, <3>1 DEF Load, Copy, StoreLength
  <2>7. CASE Effect
    <3>0. hpc = "effect"
      BY <2>7 DEF Effect
    <3>1. CASE ConnectedEffect \/ DisconnectedEffect
      BY <3>1 DEF ConnectedEffect, DisconnectedEffect
    <3>2. CASE DiscoveryEffect
      <4>1. pending = EventOp
        BY <3>0, <3>2 DEF DiscoveryEffect, PendingInv, Accepted
      <4> QED
        BY <2>1, <3>2, <4>1 DEF DiscoveryEffect, StartOrFail, Ignore
    <3>3. CASE AnswerEffect
      <4>1. pending = EventOp
        BY <3>0, <3>3 DEF AnswerEffect, PendingInv, Accepted
      <4>2. CASE hpc' = "check" /\ ev' = [ev EXCEPT !.ok = FALSE, !.again = TRUE]
        BY <1>1, <4>2 DEF Events
      <4> QED
        BY <2>1, <3>3, <4>1, <4>2 DEF AnswerEffect, SecurityEffect, Ignore
    <3>4. CASE EncryptionEffect
      BY <2>1, <3>4 DEF EncryptionEffect, Ignore
    <3>5. CASE Complete(FALSE)
      BY <2>1, <3>5
    <3> QED
      BY <2>7, <3>1, <3>2, <3>3, <3>4, <3>5 DEF Effect
  <2> QED
    BY <2>2, <2>3, <2>4, <2>5, <2>6, <2>7 DEF Host
<1>3. Accepted' => pending = EventOp'
  <2>1. CASE Guard
    BY <1>1, <2>1 DEF Guard, Accepts, Accepted, Storing, EventOp, EventShape, Ignore, Complete
  <2>2. CASE ~Guard
    <3>0. hpc \notin {"guard", "accept"}
      BY <2>2 DEF Host, Guard, Effect, Recorded, Retry, Resend, Forget, ForgetHandle, Ended, Load,
                  Copy, StoreLength
    <3>1. Accepted' => Accepted /\ UNCHANGED ev
      BY <1>1, <3>0, HostMoves, IgnoreFacts, TransportBounds
      DEF Walk, Accepted, Storing, Complete, EventShape, Completing, Ignore
    <3>2. UNCHANGED ev => EventOp' = EventOp
      BY DEF EventOp, OperationOf
    <3> QED
      BY <3>1, <3>2 DEF PendingInv
  <2> QED
    BY <2>1, <2>2
<1>4. /\ Retrying' => pending \in {"Read", "Write"}
      /\ hpc' \in {"retest", "resend"} => ev'.proc.kind = IF call = "Read" THEN want ELSE "write"
  <2>1. CASE Guard \/ Recorded \/ Resend \/ Forget \/ Ended \/ Load \/ Copy \/ StoreLength
    BY <2>1 DEF Guard, Recorded, Resend, Forget, Ended, Load, Copy, StoreLength, Retrying,
                Complete, Ignore, StartOrFail
  <2>2. CASE Effect
    BY <2>2 DEF Effect, ConnectedEffect, DiscoveryEffect, AnswerEffect, SecurityEffect,
                EncryptionEffect, DisconnectedEffect, Retrying, Complete, Ignore, StartOrFail
  <2>3. CASE Retry
    <3>1. pending = call /\ pending \in {"Read", "Write"}
      BY <2>3 DEF Retry, PendingInv, Retrying
    <3>2. CASE hpc = "retry"
      <4>1. ev' = [ev EXCEPT !.proc = Proc(IF pending = "Read" THEN want ELSE "write")]
        BY <2>3, <3>2 DEF Retry
      <4>2. ev'.proc.kind = IF pending = "Read" THEN want ELSE "write"
        BY <1>1, <4>1 DEF Events, Proc
      <4> QED
        BY <3>1, <4>2
    <3>3. CASE hpc = "retest"
      BY <2>3, <3>1, <3>3 DEF Retry, PendingInv, Complete, Retrying
    <3> QED
      BY <2>3, <3>2, <3>3 DEF Retry
  <2> QED
    BY <2>1, <2>2, <2>3 DEF Host
<1>5. UNCHANGED <<apc, call, want>> /\ UNCHANGED pending /\ (token' <=> token)
  BY <1>0
<1>6. Posted' <=> Posted
  BY <1>0 DEF Posted
<1> QED
  BY <1>2, <1>3, <1>4, <1>5, <1>6 DEF PendingInv, Succeeding, Retrying

LEMMA RequestHost ==
    ASSUME TypeInv, PendingInv, BufferInv, Host PROVE PendingInv' /\ BufferInv'
<1>1. PendingInv'
  BY RequestComplete, RequestCallback
<1>2. UNCHANGED <<apc, call, sessions, ops>> /\ UNCHANGED buffer /\ Owner' = Owner
  BY HostMoves DEF Owner, Host, Guard, Effect, Recorded, Retry, Resend, Forget, Ended, Load,
                   Copy, StoreLength, CompletePending, ioVars
<1>3. hpc' \in {"copy", "store"} => held' = Owner'
  <2>1. CASE Load
    <3>1. pending = "Read"
      BY <2>1 DEF Load, PendingInv, Accepted, Storing, EventOp, TypeInv, EventShape
    <3>2. buffer = Owner
      BY <3>1 DEF PendingInv, BufferInv
    <3> QED
      BY <1>2, <2>1, <3>2 DEF Load
  <2>2. CASE ~Load
    <3>1. hpc' \notin {"copy", "store"}
      <4>1. CASE Guard \/ Recorded \/ Retry \/ Resend \/ Forget \/ Ended \/ Copy \/ StoreLength
        BY <4>1 DEF Guard, Recorded, Retry, Resend, Forget, Ended, Copy, StoreLength,
                    Complete, Ignore, StartOrFail
      <4>2. CASE Effect
        BY <4>2 DEF Effect, ConnectedEffect, DiscoveryEffect, AnswerEffect, SecurityEffect,
                    EncryptionEffect, DisconnectedEffect, Complete, Ignore, StartOrFail
      <4>3. CASE CompletePending
        BY <4>3 DEF CompletePending, AfterComplete, Ignore
      <4> QED
        BY <2>2, <4>1, <4>2, <4>3 DEF Host
    <3> QED
      BY <3>1
  <2> QED
    BY <2>1, <2>2
<1>4. Posted' <=> Posted
  BY <1>2 DEF Posted
<1> QED
  BY <1>1, <1>2, <1>3, <1>4 DEF BufferInv

(* A new event has not passed its tests. *)
LEMMA RequestWorld ==
    ASSUME TypeInv, PendingInv, BufferInv, World PROVE PendingInv' /\ BufferInv'
<1>1. /\ UNCHANGED <<apc, call, want, sessions, ops, pending, buffer, held>>
      /\ (token' <=> token)
  BY DEF World, ConnectResult, Answer, EncryptionChange, PairingRefused, SecurityRequest,
         LinkBreaks, Disconnected, EventKeeps, Deliver, hostVars, appVars, semVars, ioVars
<1>2. UNCHANGED <<hpc, ev>> \/ (hpc = "idle" /\ hpc' = "guard")
  BY DEF World, ConnectResult, Answer, EncryptionChange, PairingRefused, SecurityRequest,
         LinkBreaks, Disconnected, Deliver, hostVars
<1>3. (Posted' <=> Posted) /\ Owner' = Owner
  BY <1>1 DEF Posted, Owner
<1>4. CASE UNCHANGED <<hpc, ev>>
  BY <1>1, <1>3, <1>4
  DEF PendingInv, BufferInv, Accepted, Succeeding, Storing, Retrying, EventOp, OperationOf
<1>5. CASE hpc' = "guard"
  BY <1>1, <1>3, <1>5 DEF PendingInv, BufferInv, Accepted, Succeeding, Storing, Retrying
<1> QED
  BY <1>2, <1>4, <1>5

LEMMA RequestStep == TypeInv /\ RequestInv /\ [Next]_vars => RequestInv'
<1> SUFFICES ASSUME TypeInv, RequestInv, [Next]_vars, ~overlapped' PROVE PendingInv' /\ BufferInv'
  BY DEF RequestInv
<1>1. PendingInv /\ BufferInv /\ (GiveUp => hpc \in {"idle", "guard", "accept"})
  BY OverlapStays DEF RequestInv
<1>2. CASE UNCHANGED vars
  BY <1>1, <1>2
  DEF PendingInv, BufferInv, Accepted, Succeeding, Storing, Retrying, EventOp, OperationOf, Posted,
      Owner, vars, appVars, semVars, ioVars, hostVars
<1> QED
  BY <1>1, <1>2, RequestClient, RequestApp, RequestHost, RequestWorld DEF Next

LEMMA RequestInit == Init => RequestInv
BY DEF Init, RequestInv, PendingInv, BufferInv, Accepted, Succeeding, Storing, Retrying, Posted

(* As long as no call is given up over a running callback, an answer and its *)
(* length are stored through the pointers of the read() that is being        *)
(* executed.                                                                 *)
THEOREM BufferHasOwner == Spec => []BufferOwned
<1>1. TypeInv /\ RequestInv => BufferOwned
  <2> SUFFICES ASSUME TypeInv, RequestInv, ~overlapped, hpc \in {"copy", "store"}
               PROVE  /\ held = Owner /\ buffer = Owner
                      /\ call = "Read" /\ apc \in {"prepareStart", "start", "refused", "wait", "woken", "expired"}
    BY DEF BufferOwned
  <2>1. PendingInv /\ BufferInv
    BY DEF RequestInv
  <2>2. pending = "Read"
    BY <2>1 DEF PendingInv, Accepted, Storing, EventOp, TypeInv, EventShape
  <2>3. call = "Read" /\ Posted
    BY <2>1, <2>2 DEF PendingInv
  <2>4. apc # "notConnected"
    BY <2>3 DEF TypeInv, CallShape, StepsOf
  <2> QED
    BY <2>1, <2>3, <2>4 DEF BufferInv, Posted
<1> QED
  BY <1>1, TypeInit, TypeStep, RequestInit, RequestStep, PTL DEF Spec

-----------------------------------------------------------------------------
(* The handle and the link, as long as no call is given up over a callback   *)
(* that has passed its tests.                                                *)

(* A new connection, or the end of the link, is being reported. *)
ConnectionReported == ev.type = "connect" /\ ev.status = "ok" /\ hpc \in {"guard", "effect"}
EndReported        == ev.type = "disconnect" /\ hpc \in {"guard", "effect", "forget"}

(* What the handle says of the link, and what the events under way do. *)
LinkInv ==
    /\ connected => handle
    /\ handle => link \in {"up", "terminating", "breaking"} \/ EndReported
    /\ EndReported => link \in {"down", "connecting"}
    /\ ConnectionReported => link = "up" /\ ~handle
    /\ ev.type = "connect" /\ ev.status = "error" /\ hpc = "guard" => link \in {"down", "connecting"}
    /\ hpc = "recorded" => link = "up"
    /\ ev.type = "connect" /\ (hpc = "recorded" \/ (ev.ok /\ Completing)) => handle
    /\ ev.type = "disconnect" /\ (hpc \in {"ended", "outcome"} \/ Completing) => ~handle
    /\ connected => link \in {"up", "breaking"} \/ (ev.type = "disconnect" /\ hpc \in {"guard", "effect"})
    /\ link = "up" => handle \/ (ev.type = "connect" /\ hpc \in {"guard", "effect"})

(* What the calls have found when they clear the flag or the handle. *)
ClosingInv ==
    /\ call = "Disconnect" /\ (nested \/ apc # "disconnect") => ~connected
    /\ apc \in {"handle", "reset", "resetHandle"} => ~connected
    /\ call = "Connect" /\ apc \in {"test", "reset", "resetHandle"} /\ handle => connected \/ hpc = "forget"
    /\ call = "Disconnect" /\ apc \in ResetSteps \union {"notConnected"} => ~handle \/ link = "down"
    /\ call = "Disconnect" /\ success /\ (Posted \/ apc \in {"post", "woken"}) => ~handle

HandleInv == ~overlapped => LinkInv /\ ClosingInv

(* What a step of a call does to the flag, the handle and the link. *)
LEMMA AppLink ==
    ASSUME TypeInv, Client \/ App \/ Expire
    PROVE  /\ UNCHANGED <<hpc, ev>>
           /\ \/ connected' <=> connected
              \/ ~connected' /\ (apc = "reset" \/ (apc = "disconnect" /\ handle))
           /\ (handle' <=> handle) \/ (~handle' /\ apc = "resetHandle")
           /\ \/ UNCHANGED link
              \/ apc = "start" /\ call = "Connect" /\ link = "down" /\ link' = "connecting"
              \/ apc = "start" /\ call = "Disconnect" /\ handle /\ link = "up" /\ link' = "terminating"
<1> USE DEF AppKeeps, CallKeeps, hostVars, flagVars, worldVars, Goto, Return
<1>1. CASE Client \/ EnterConnect \/ EnterGatt
  BY <1>1 DEF Client, Request, EnterConnect, TestConnected, TestHandle, TestReleased, TestReuse, EnterGatt
<1>2. CASE PrepareIO \/ PrepareStart \/ EnterDisconnect \/ NotConnected
  BY <1>2 DEF PrepareIO, PrepareStart, EnterDisconnect, NotConnected, GiveUp
<1>3. CASE reset_connection_state
  BY <1>3 DEF reset_connection_state, ResetFlags, ResetHandle, ResetPending, ResetBuffer
<1>4. CASE Begin \/ BeginClear \/ BeginPost
  BY <1>4 DEF Begin, BeginClear, BeginPost
<1>5. CASE Start \/ Refused
  BY <1>5 DEF Start, Refused, GiveUp
<1>6. CASE Wake \/ Expire \/ Expired
  BY <1>6 DEF Wake, Expire, Expired, GiveUp
<1>7. CASE Woken \/ ReportConnected \/ ClearIO
  BY <1>7 DEF Woken, ReportConnected, ClearIO
<1> QED
  BY <1>1, <1>2, <1>3, <1>4, <1>5, <1>6, <1>7 DEF App

(* Where the steps that close a link are entered from. *)
LEMMA AppClosing ==
    ASSUME TypeInv, Client \/ App \/ Expire
    PROVE  /\ apc' = "handle" => apc = "connect" /\ ~connected /\ (connected' <=> connected)
           /\ apc' = "test" => \/ apc = "connect" /\ connected /\ (connected' <=> connected)
                               \/ ~handle /\ (handle' <=> handle)
           /\ apc' = "reset" =>
                 \/ apc = "test" /\ ~connected /\ UNCHANGED call /\ call = "Connect"
                 \/ apc = "disconnect" /\ ~handle /\ call = "Disconnect" /\ UNCHANGED call
                 \/ apc = "notConnected" /\ call = "Disconnect" /\ UNCHANGED call
                 \/ apc = "woken" /\ success /\ call = "Disconnect" /\ UNCHANGED call
           /\ apc' = "resetHandle" => apc = "reset" /\ UNCHANGED call
           /\ apc' = "resetPending" => apc = "resetHandle" /\ UNCHANGED call /\ ~handle'
           /\ apc' = "resetBuffer" => apc = "resetPending" /\ UNCHANGED call
           /\ apc' = "notConnected" => apc = "start" /\ UNCHANGED <<call, link>> /\ (~handle \/ link = "down")
           /\ Posted' \/ apc' \in {"post", "woken"} =>
                 \/ apc = "clear" /\ ~success'
                 \/ (Posted \/ apc = "post") /\ (success' <=> success) /\ UNCHANGED call
           /\ call' = "Disconnect" =>
                 \/ call = "Disconnect" /\ apc # "disconnect" /\ (apc # "idle" \/ apc' = "disconnect")
                 \/ call = "Disconnect" /\ apc = "disconnect" /\ (~connected' \/ ~handle)
                 \/ apc = "handle" /\ (connected' <=> connected)
                 \/ apc' = "disconnect" /\ ~nested'
<1> USE DEF AppKeeps, CallKeeps, semVars, flagVars, worldVars, Goto, Posted, TypeInv, CallShape
<1>1. CASE Client
  BY <1>1 DEF Client, Request
<1>2. CASE EnterConnect
  BY <1>2 DEF EnterConnect, TestConnected, TestHandle, TestReleased, TestReuse, Return,
              StepsOf, ResetSteps, TypeOK, Operations
<1>3. CASE EnterGatt \/ PrepareIO \/ PrepareStart
  BY <1>3 DEF EnterGatt, PrepareIO, PrepareStart, Return
<1>4. CASE EnterDisconnect
  BY <1>4 DEF EnterDisconnect, StepsOf, ResetSteps, TypeOK, Operations
<1>5. CASE NotConnected
  BY <1>5 DEF NotConnected, GiveUp, StepsOf, ResetSteps, TypeOK, Operations
<1>6. CASE reset_connection_state
  BY <1>6 DEF reset_connection_state, ResetFlags, ResetHandle, ResetPending, ResetBuffer, Return
<1>7. CASE Begin \/ BeginClear \/ BeginPost
  BY <1>7 DEF Begin, BeginClear, BeginPost, Return
<1>8. CASE Start \/ Refused
  BY <1>8 DEF Start, Refused, GiveUp, Return
<1>9. CASE Wake \/ Expire \/ Expired
  BY <1>9 DEF Wake, Expire, Expired, GiveUp, Return
<1>10. CASE Woken \/ ReportConnected \/ ClearIO
  BY <1>10 DEF Woken, Terminated, ReportConnected, ClearIO, Return
<1> QED
  BY <1>1, <1>2, <1>3, <1>4, <1>5, <1>6, <1>7, <1>8, <1>9, <1>10 DEF App

(* A callback that has accepted a connection, or reports it, belongs to the  *)
(* connect() that is being executed.                                         *)
LEMMA ConnectionIsConnects ==
    ASSUME TypeInv, PendingInv, ev.type = "connect",
           hpc \in {"effect", "recorded"} \/ (ev.ok /\ Completing)
    PROVE  call = "Connect" /\ Posted
<1>1. EventOp = "Connect"
  BY DEF EventOp
<1> QED
  BY <1>1 DEF PendingInv, Accepted, Succeeding, Completing

(* The application clears the flag and the handle of a link that has ended   *)
(* or that it has asked to terminate.                                        *)
LEMMA HandleApp ==
    ASSUME TypeInv, PendingInv, LinkInv, ClosingInv, Client \/ App \/ Expire
    PROVE  LinkInv' /\ ClosingInv'
<1>1. UNCHANGED <<hpc, ev>>
  BY AppLink
<1>2. (connected' => connected) /\ (handle' => handle)
  BY AppLink
<1>3. apc \in ResetSteps => call \in {"Connect", "Disconnect"}
  BY DEF TypeInv, CallShape, StepsOf, ResetSteps, TypeOK, Operations
<1>4. LinkInv'
  <2> USE DEF ConnectionReported, EndReported, Completing
  <2>1. (connected => handle)'
    BY <1>2, AppLink DEF LinkInv, ClosingInv
  <2>2. /\ (handle => link \in {"up", "terminating", "breaking"} \/ EndReported)'
        /\ (EndReported => link \in {"down", "connecting"})'
        /\ (ConnectionReported => link = "up" /\ ~handle)'
        /\ (ev.type = "connect" /\ ev.status = "error" /\ hpc = "guard" => link \in {"down", "connecting"})'
    BY <1>1, <1>2, AppLink DEF LinkInv
  <2>3. (hpc = "recorded" => link = "up")'
    <3>1. hpc = "recorded" => call = "Connect"
      BY ConnectionIsConnects DEF TypeInv, EventShape
    <3> QED
      BY <1>1, <3>1, AppLink DEF LinkInv
  <2>4. (ev.type = "connect" /\ (hpc = "recorded" \/ (ev.ok /\ Completing)) => handle)'
    <3>1. ev.type = "connect" /\ (hpc = "recorded" \/ (ev.ok /\ Completing)) => apc # "resetHandle"
      BY ConnectionIsConnects DEF Posted
    <3> QED
      BY <1>1, <3>1, AppLink DEF LinkInv
  <2>5. (ev.type = "disconnect" /\ (hpc \in {"ended", "outcome"} \/ Completing) => ~handle)'
    BY <1>1, <1>2 DEF LinkInv
  <2>6. (connected => link \in {"up", "breaking"} \/ (ev.type = "disconnect" /\ hpc \in {"guard", "effect"}))'
    BY <1>1, <1>2, AppLink DEF LinkInv, ClosingInv
  <2>7. (link = "up" => handle \/ (ev.type = "connect" /\ hpc \in {"guard", "effect"}))'
    <3>1. link' = "up" => link = "up"
      BY AppLink
    <3>2. link = "up" /\ handle /\ apc = "resetHandle" => FALSE
      BY <1>3 DEF LinkInv, ClosingInv, ResetSteps, TypeInv, EventShape, Ending
    <3> QED
      BY <1>1, <3>1, <3>2, AppLink DEF LinkInv
  <2> QED
    BY <2>1, <2>2, <2>3, <2>4, <2>5, <2>6, <2>7 DEF LinkInv
<1>5. ClosingInv'
  <2>1. (call = "Disconnect" /\ (nested \/ apc # "disconnect") => ~connected)'
    BY <1>2, AppClosing DEF ClosingInv, LinkInv, TypeInv, CallShape
  <2>2. (apc \in {"handle", "reset", "resetHandle"} => ~connected)'
    BY <1>2, AppClosing DEF ClosingInv, LinkInv
  <2>3. (call = "Connect" /\ apc \in {"test", "reset", "resetHandle"} /\ handle => connected \/ hpc = "forget")'
    BY <1>1, <1>2, AppClosing DEF ClosingInv
  <2>4. (call = "Disconnect" /\ apc \in ResetSteps \union {"notConnected"} => ~handle \/ link = "down")'
    <3>1. link = "down" /\ call = "Disconnect" => link' = "down"
      BY AppLink
    <3> QED
      BY <1>2, <3>1, AppClosing DEF ClosingInv, ResetSteps
  <2>5. (call = "Disconnect" /\ success /\ (Posted \/ apc \in {"post", "woken"}) => ~handle)'
    BY <1>2, AppClosing DEF ClosingInv
  <2> QED
    BY <2>1, <2>2, <2>3, <2>4, <2>5 DEF ClosingInv
<1> QED
  BY <1>4, <1>5

(* What a callback does to the flag, the handle and the link. *)
LEMMA HostLink ==
    ASSUME TypeInv, Host
    PROVE  /\ UNCHANGED <<apc, call, nested>>
           /\ \/ connected' <=> connected
              \/ hpc = "recorded" /\ connected' /\ Complete(TRUE)
              \/ hpc = "effect" /\ ev.type = "disconnect" /\ ~connected' /\ Walk("effect", "forget")
           /\ \/ handle' <=> handle
              \/ handle' /\ Walk("effect", "recorded") /\ ev.type = "connect"
              \/ ~handle' /\ hpc = "forget"
           /\ \/ UNCHANGED link
              \/ ConnectionReported /\ hpc = "guard" /\ link = "up" /\ link' = "terminating" /\ Ignore
           /\ (success' <=> success) \/ (hpc = "set" /\ (success' <=> ev.ok))
<1> USE DEF HostKeeps, appVars, semVars, flagVars, worldVars, Walk, Complete
<1>1. CASE Guard
  BY <1>1 DEF Guard, TerminateUnwanted, ConnectionReported, TypeInv, EventShape, Testing
<1>2. CASE Recorded \/ Retry \/ Resend
  BY <1>2 DEF Recorded, Retry, Resend
<1>3. CASE Forget \/ Ended
  BY <1>3 DEF Forget, ForgetHandle, Ended
<1>4. CASE Load \/ Copy \/ StoreLength
  BY <1>4 DEF Load, Copy, StoreLength
<1>5. CASE CompletePending
  BY <1>5 DEF CompletePending
<1>6. CASE Effect
  BY <1>6 DEF Effect, ConnectedEffect, DiscoveryEffect, AnswerEffect, EncryptionEffect, DisconnectedEffect
<1> QED
  BY <1>1, <1>2, <1>3, <1>4, <1>5, <1>6 DEF Host

(* How the events of a connection and of its end go on. *)
LEMMA HostEvents ==
    ASSUME TypeInv, Host
    PROVE  /\ ev.type = "connect" /\ ev.status = "ok" /\ hpc = "guard" =>
                 Walk("guard", "effect") \/ (link = "up" => link' = "terminating")
           /\ ev.type = "connect" /\ hpc = "effect" => Walk("effect", "recorded") /\ handle'
           /\ ev.type = "disconnect" /\ hpc = "guard" =>
                 (handle /\ Walk("guard", "effect")) \/ (~handle /\ Ignore)
           /\ ev.type = "disconnect" /\ hpc = "effect" => Walk("effect", "forget") /\ ~connected'
           /\ hpc = "forget" => Walk("forget", "ended") /\ ~handle'
           /\ hpc = "recorded" => hpc' = "check"
           /\ hpc = "ended" => Walk("ended", "outcome") \/ Ignore
           /\ hpc # "outcome" /\ ~Completing /\ ev.type = "disconnect" => ~Completing'
           /\ hpc # "recorded" /\ ~Completing /\ ev.type = "connect" /\ Completing' => ~ev'.ok
<1> USE DEF Walk, Complete, Completing
<1>1. EventShape /\ ev \in Events
  BY DEF TypeInv, TypeOK, Events, EventTypes
<1>2. CASE Guard
  BY <1>1, <1>2 DEF Guard, Accepts, TerminateUnwanted, Events, Ignore, EventShape, Testing
<1>3. CASE Effect
  <2>0. hpc = "effect"
    BY <1>3 DEF Effect
  <2>1. CASE ConnectedEffect
    BY <2>0, <2>1 DEF ConnectedEffect
  <2>2. CASE DisconnectedEffect
    BY <2>0, <2>2 DEF DisconnectedEffect
  <2>3. CASE DiscoveryEffect \/ AnswerEffect
    BY <2>0, <2>3 DEF DiscoveryEffect, AnswerEffect
  <2>4. CASE EncryptionEffect
    BY <2>0, <2>4 DEF EncryptionEffect
  <2>5. CASE ev.type = "refused"
    BY <2>0, <2>5
  <2> QED
    BY <1>3, <2>1, <2>2, <2>3, <2>4, <2>5 DEF Effect
<1>4. CASE Recorded
  BY <1>1, <1>4 DEF Recorded, EventShape
<1>5. CASE Retry \/ Resend
  BY <1>1, <1>5 DEF Retry, Resend, EventShape, Retrying
<1>6. CASE Forget
  BY <1>1, <1>6 DEF Forget, ForgetHandle, EventShape, Ending
<1>7. CASE Ended
  BY <1>1, <1>7 DEF Ended, EventShape, Ending, Ignore
<1>8. CASE Load \/ Copy \/ StoreLength
  BY <1>1, <1>8 DEF Load, Copy, StoreLength, EventShape, Storing
<1>9. CASE CompletePending
  BY <1>1, <1>9 DEF CompletePending, AfterComplete
<1> QED
  BY <1>2, <1>3, <1>4, <1>5, <1>6, <1>7, <1>8, <1>9 DEF Host

(* The host stores the handle of a link that is up, and forgets it when the  *)
(* link has ended.                                                           *)
LEMMA HandleHost ==
    ASSUME TypeInv, PendingInv, LinkInv, ClosingInv, Host
    PROVE  LinkInv' /\ ClosingInv'
<1>0. ev \in Events /\ EventShape
  BY DEF TypeInv, TypeOK, Events, EventTypes
<1>1. ev.type = "connect" /\ hpc \in {"effect", "recorded"} => call = "Connect" /\ Posted
  BY ConnectionIsConnects
<1>2. hpc = "recorded" => ev.type = "connect"
  BY <1>0 DEF EventShape
<1>3. hpc = "forget" => ~connected /\ link \in {"down", "connecting"}
  BY <1>0 DEF LinkInv, EndReported, EventShape, Ending
<1>4. UNCHANGED <<apc, call, nested>>
  BY HostLink
<1>5. ClosingInv'
  <2>1. connected' => connected \/ hpc = "recorded"
    BY HostLink
  <2>2. handle' => handle \/ (ev.type = "connect" /\ hpc = "effect")
    BY HostLink DEF Walk
  <2>3. (call = "Disconnect" /\ (nested \/ apc # "disconnect") => ~connected)'
    BY <1>1, <1>2, <1>4, <2>1 DEF ClosingInv
  <2>4. (apc \in {"handle", "reset", "resetHandle"} => ~connected)'
    BY <1>1, <1>2, <1>4, <2>1 DEF ClosingInv, Posted
  <2>5. (call = "Connect" /\ apc \in {"test", "reset", "resetHandle"} /\ handle => connected \/ hpc = "forget")'
    <3> SUFFICES ASSUME call = "Connect", apc \in {"test", "reset", "resetHandle"}, handle'
                 PROVE  connected' \/ hpc' = "forget"
      BY <1>4
    <3>1. handle
      BY <1>1, <2>2 DEF Posted
    <3>2. hpc # "forget"
      BY HostEvents
    <3>3. connected
      BY <3>1, <3>2 DEF ClosingInv
    <3> QED
      BY <3>3, HostLink DEF Walk
  <2>6. (call = "Disconnect" /\ apc \in ResetSteps \union {"notConnected"} => ~handle \/ link = "down")'
    <3>1. link = "down" => link' = "down"
      BY HostLink
    <3> QED
      BY <1>1, <1>4, <2>2, <3>1 DEF ClosingInv
  <2>7. (call = "Disconnect" /\ success /\ (Posted \/ apc \in {"post", "woken"}) => ~handle)'
    <3> SUFFICES ASSUME call = "Disconnect", success', Posted \/ apc \in {"post", "woken"}
                 PROVE  ~handle'
      BY <1>4 DEF Posted
    <3>1. CASE success
      BY <1>1, <2>2, <3>1 DEF ClosingInv
    <3>2. CASE hpc = "set" /\ ev.ok
      <4>1. EventOp = "Disconnect"
        BY <3>2 DEF PendingInv, Succeeding
      <4>2. ev.type = "disconnect"
        BY <1>0, <3>2, <4>1, OperationType DEF EventOp, EventShape, Events, EventTypes
      <4> QED
        BY <2>2, <3>2, <4>2 DEF LinkInv, Completing
    <3> QED
      BY <3>1, <3>2, HostLink
  <2> QED
    BY <2>3, <2>4, <2>5, <2>6, <2>7 DEF ClosingInv
<1>6. LinkInv'
  <2>0. /\ ConnectionReported => hpc # "forget"
        /\ (hpc = "guard" \/ hpc = "effect") /\ ev.type = "connect" => hpc # "recorded"
    BY DEF ConnectionReported
  <2>1. EndReported' => EndReported /\ UNCHANGED link
    <3>1. EndReported' => EndReported
      BY <1>0, HostMoves, IgnoreFacts, AfterFacts, TransportBounds
      DEF EndReported, Walk, Complete, Completing, EventShape
    <3> QED
      BY <3>1, HostLink DEF EndReported, ConnectionReported
  <2>2. ConnectionReported' => /\ ConnectionReported /\ UNCHANGED link /\ (handle' <=> handle)
    <3>1. ConnectionReported' => ConnectionReported /\ hpc = "guard" /\ hpc' = "effect"
      BY <1>0, HostMoves, IgnoreFacts, AfterFacts, TransportBounds
      DEF ConnectionReported, Walk, Complete, Completing, EventShape
    <3> QED
      BY <3>1, HostLink, IgnoreFacts, TransportBounds DEF ConnectionReported, Walk
  <2>3. (connected => handle)'
    BY <1>2, <1>3, HostLink DEF LinkInv, Walk
  <2>4. (handle => link \in {"up", "terminating", "breaking"} \/ EndReported)'
    <3>1. CASE handle
      <4>1. CASE EndReported /\ handle'
        <5>1. EndReported'
          BY <3>1, <4>1, HostEvents DEF EndReported, Walk
        <5> QED
          BY <5>1
      <4>2. CASE link \in {"up", "terminating", "breaking"}
        BY <4>2, HostLink
      <4> QED
        BY <3>1, <4>1, <4>2 DEF LinkInv
    <3>2. CASE ~handle /\ handle'
      BY <1>0, <3>2, HostLink DEF LinkInv, ConnectionReported, EventShape, Walk
    <3> QED
      BY <3>1, <3>2
  <2>5. (EndReported => link \in {"down", "connecting"})' /\ (ConnectionReported => link = "up" /\ ~handle)'
    BY <2>1, <2>2 DEF LinkInv
  <2>6. (ev.type = "connect" /\ ev.status = "error" /\ hpc = "guard" => link \in {"down", "connecting"})'
    <3>1. hpc' # "guard"
      BY <1>0, HostMoves, IgnoreFacts, AfterFacts, TransportBounds DEF Walk, Complete
    <3> QED
      BY <3>1
  <2>7. (hpc = "recorded" => link = "up")'
    <3>1. hpc' = "recorded" => ConnectionReported /\ hpc = "effect"
      BY <1>0, HostMoves, IgnoreFacts, AfterFacts, TransportBounds
      DEF ConnectionReported, Walk, Complete, EventShape
    <3> QED
      BY <3>1, HostLink DEF LinkInv
  <2>8. (ev.type = "connect" /\ (hpc = "recorded" \/ (ev.ok /\ Completing)) => handle)'
    <3>1. hpc' = "recorded" => ev.type = "connect" /\ hpc = "effect"
      BY <1>0, HostMoves, IgnoreFacts, AfterFacts, TransportBounds DEF Walk, Complete
    <3>2. ASSUME ev'.type = "connect", ev'.ok, Completing'
          PROVE  ev.type = "connect" /\ (hpc = "recorded" \/ (ev.ok /\ Completing))
      <4>1. CASE Completing
        BY <1>0, <3>2, <4>1, HostMoves, IgnoreFacts, AfterFacts, TransportBounds
        DEF Walk, Completing, EventShape
      <4>2. CASE ~Completing
        <5>1. ev.type = "connect"
          BY <1>0, <3>2, <4>2, HostMoves, IgnoreFacts, CompleteFacts, TransportBounds
          DEF Walk, Completing, Events
        <5> QED
          BY <3>2, <4>2, <5>1, HostEvents
      <4> QED
        BY <4>1, <4>2
    <3>3. handle /\ hpc # "forget" => handle'
      BY HostLink
    <3> QED
      BY <3>1, <3>2, <3>3, HostEvents DEF LinkInv, Completing
  <2>9. (ev.type = "disconnect" /\ (hpc \in {"ended", "outcome"} \/ Completing) => ~handle)'
    <3> SUFFICES ASSUME ev'.type = "disconnect", hpc' \in {"ended", "outcome"} \/ Completing'
                 PROVE  ~handle'
      OBVIOUS
    <3>1. ev.type = "disconnect" /\ hpc \in {"forget", "ended", "outcome", "check", "set", "withdraw", "give"}
      <4>1. ev.type = "disconnect" /\ hpc # "idle"
        BY <1>0, HostMoves, IgnoreFacts, CompleteFacts, AfterFacts, TransportBounds
        DEF Walk, Events, EventShape
      <4>2. CASE Completing'
        BY <4>1, <4>2, HostEvents DEF Completing
      <4>3. CASE hpc' \in {"ended", "outcome"}
        BY <1>0, <4>1, <4>3, HostMoves, IgnoreFacts, AfterFacts, TransportBounds DEF Walk, Complete
      <4> QED
        BY <4>2, <4>3
    <3>2. CASE hpc = "forget"
      BY <3>2, HostEvents
    <3>3. CASE hpc # "forget"
      BY <3>1, <3>3, HostLink DEF LinkInv, Completing, Walk
    <3> QED
      BY <3>2, <3>3
  <2>10. (connected => link \in {"up", "breaking"} \/ (ev.type = "disconnect" /\ hpc \in {"guard", "effect"}))'
    <3> SUFFICES ASSUME connected'
                 PROVE  link' \in {"up", "breaking"} \/ (ev'.type = "disconnect" /\ hpc' \in {"guard", "effect"})
      OBVIOUS
    <3>1. CASE hpc = "recorded"
      BY <3>1, HostLink DEF LinkInv, ConnectionReported
    <3>2. CASE hpc # "recorded"
      <4>1. connected /\ handle
        BY <3>2, HostLink DEF LinkInv
      <4>2. UNCHANGED link
        BY <4>1, HostLink DEF LinkInv
      <4> QED
        BY <4>1, <4>2, HostEvents DEF LinkInv, Walk
    <3> QED
      BY <3>1, <3>2
  <2>11. (link = "up" => handle \/ (ev.type = "connect" /\ hpc \in {"guard", "effect"}))'
    <3> SUFFICES ASSUME link' = "up"
                 PROVE  handle' \/ (ev'.type = "connect" /\ hpc' \in {"guard", "effect"})
      OBVIOUS
    <3>1. link = "up"
      BY HostLink
    <3>2. CASE handle
      BY <1>3, <3>1, <3>2, HostLink
    <3>3. CASE ev.type = "connect" /\ hpc = "effect"
      BY <3>3, HostEvents
    <3>4. CASE ev.type = "connect" /\ hpc = "guard"
      <4>1. ev.status = "ok"
        BY <1>0, <3>1, <3>4 DEF LinkInv, EventShape, Testing, Events
      <4> QED
        BY <3>1, <3>4, <4>1, HostEvents DEF Walk
    <3> QED
      BY <3>1, <3>2, <3>3, <3>4 DEF LinkInv
  <2> QED
    BY <2>3, <2>4, <2>5, <2>6, <2>7, <2>8, <2>9, <2>10, <2>11 DEF LinkInv
<1> QED
  BY <1>5, <1>6

(* A link that is up goes down only between two callbacks. *)
LEMMA HandleWorld ==
    ASSUME TypeInv, PendingInv, LinkInv, ClosingInv, World
    PROVE  LinkInv' /\ ClosingInv'
<1>1. /\ UNCHANGED <<apc, call, nested>>
      /\ (connected' <=> connected) /\ (handle' <=> handle) /\ (success' <=> success)
      /\ Posted' <=> Posted
  BY DEF World, ConnectResult, Answer, EncryptionChange, PairingRefused, SecurityRequest,
         LinkBreaks, Disconnected, EventKeeps, appVars, semVars, flagVars, Posted
<1>2. link' = "down" \/ UNCHANGED link \/ (hpc = "idle" /\ link # "down")
  BY DEF World, ConnectResult, Answer, EncryptionChange, PairingRefused, SecurityRequest,
         LinkBreaks, Disconnected, Deliver, worldVars
<1>3. ClosingInv'
  <2>1. handle /\ hpc = "idle" => link # "connecting"
    BY DEF LinkInv, EndReported
  <2>2. hpc = "forget" => hpc' = "forget"
    BY DEF World, ConnectResult, Answer, EncryptionChange, PairingRefused, SecurityRequest,
           LinkBreaks, Disconnected, Deliver, hostVars
  <2>3. link = "down" => link' = "down"
    BY <1>2
  <2> QED
    BY <1>1, <2>2, <2>3 DEF ClosingInv
<1>4. LinkInv'
  <2> USE DEF ConnectionReported, EndReported, Completing
  <2>1. CASE UNCHANGED <<hpc, ev, link>>
    BY <1>1, <2>1 DEF LinkInv
  <2>2. ASSUME hpc = "idle", NEW type \in {"answer", "encryption", "refused"},
               hpc' = "guard", ev'.type = type, UNCHANGED link
        PROVE  LinkInv'
    BY <1>1, <2>2 DEF LinkInv, TypeInv, EventShape
  <2>3. CASE ConnectResult
    <3>1. /\ hpc = "idle" /\ hpc' = "guard" /\ ev'.type = "connect" /\ link = "connecting" /\ ev.type = "none"
          /\ (link' = "up" /\ ev'.status = "ok") \/ (link' = "down" /\ ev'.status = "error")
      BY <2>3 DEF ConnectResult, Deliver, Event, TypeInv, EventShape
    <3> QED
      BY <1>1, <3>1 DEF LinkInv
  <2>4. CASE Answer \/ EncryptionChange \/ PairingRefused
    BY <2>2, <2>4 DEF Answer, EncryptionChange, PairingRefused, Deliver, Event, worldVars
  <2>5. CASE SecurityRequest
    BY <2>1, <2>5 DEF SecurityRequest, hostVars
  <2>6. CASE LinkBreaks
    <3>1. UNCHANGED <<hpc, ev>> /\ hpc = "idle" /\ link \in {"up", "terminating"} /\ link' = "breaking" /\ ev.type = "none"
      BY <2>6 DEF LinkBreaks, hostVars, TypeInv, EventShape
    <3> QED
      BY <1>1, <3>1 DEF LinkInv
  <2>7. CASE Disconnected
    <3>1. hpc = "idle" /\ hpc' = "guard" /\ ev'.type = "disconnect" /\ link = "breaking" /\ link' = "down"
      BY <2>7 DEF Disconnected, Deliver, Event
    <3> QED
      BY <1>1, <3>1 DEF LinkInv
  <2> QED
    BY <2>3, <2>4, <2>5, <2>6, <2>7 DEF World
<1> QED
  BY <1>3, <1>4

LEMMA HandleStep == TypeInv /\ RequestInv /\ HandleInv /\ [Next]_vars => HandleInv'
<1> SUFFICES ASSUME TypeInv, RequestInv, HandleInv, [Next]_vars, ~overlapped'
             PROVE  LinkInv' /\ ClosingInv'
  BY DEF HandleInv
<1>1. PendingInv /\ LinkInv /\ ClosingInv
  BY OverlapStays DEF RequestInv, HandleInv
<1>2. CASE UNCHANGED vars
  BY <1>1, <1>2
  DEF LinkInv, ClosingInv, ConnectionReported, EndReported, Completing, Posted,
      vars, appVars, semVars, flagVars, hostVars, worldVars
<1> QED
  BY <1>1, <1>2, HandleApp, HandleHost, HandleWorld DEF Next

LEMMA HandleInit == Init => HandleInv
BY DEF Init, HandleInv, LinkInv, ClosingInv, ConnectionReported, EndReported, Completing, Posted,
       ResetSteps, NoEvent, Event

(* As long as no call is given up over a running callback, no link is left   *)
(* open that nothing can close.                                              *)
THEOREM NoSessionOrphaned == Spec => []NoOrphanLink
<1>1. HandleInv => NoOrphanLink
  BY DEF HandleInv, LinkInv, NoOrphanLink
<1> QED
  BY <1>1, TypeInit, TypeStep, RequestInit, RequestStep, HandleInit, HandleStep, PTL DEF Spec

(* As long as no call is given up over a running callback, a session that    *)
(* connect() may use again is not one whose termination has been asked for.  *)
THEOREM NoSessionReused == Spec => []NeverReused
<1>1. HandleInv => NeverReused
  BY DEF HandleInv, LinkInv, NeverReused
<1> QED
  BY <1>1, TypeInit, TypeStep, RequestInit, RequestStep, HandleInit, HandleStep, PTL DEF Spec

-----------------------------------------------------------------------------
(* A connection is asked for when the previous link is gone, as long as,     *)
(* moreover, no connect() fails over a connection that is still being made.  *)

Waiting == call = "Connect" /\ apc \in {"wait", "woken", "expired"}

AttemptInv ==
    /\ link # "down" => handle \/ Waiting
    /\ link = "connecting" => Waiting
    /\ ev.type = "connect" => Waiting
    /\ Waiting /\ success /\ link # "down" => handle /\ link # "connecting"
    /\ call = "Connect" /\ apc \in {"post", "start"} => ~success
    /\ success /\ ev.type = "connect" => hpc \in {"withdraw", "give"}
    /\ call = "Connect" /\ apc \in {"resetPending", "resetBuffer", "begin", "clear", "post", "start"} => ~handle

CoreInv == ~overlapped /\ ~abandoned => AttemptInv

(* Once a connect() is given up over its connection, it stays recorded. *)
LEMMA AbandonStays ==
    ASSUME TypeInv, ~abandoned', [Next]_vars
    PROVE  ~abandoned /\ (Abandons => ~(call = "Connect" /\ (link # "down" \/ ev.type = "connect")))
<1>1. abandoned' = abandoned \/ Abandons
  <2>1. CASE Client \/ Host \/ World
    BY <2>1, HostMoves
    DEF Client, Request, World, ConnectResult, Answer, EncryptionChange, PairingRefused,
        SecurityRequest, LinkBreaks, Disconnected, EventKeeps, histVars
  <2>2. CASE App \/ Expire
    BY <2>2, Zenon
    DEF App, EnterConnect, TestConnected, TestHandle, TestReleased, TestReuse, EnterGatt,
        PrepareIO, PrepareStart, EnterDisconnect, NotConnected, reset_connection_state,
        ResetFlags, ResetHandle, ResetPending, ResetBuffer, Begin, BeginClear, BeginPost, GiveUp,
        Start, Refused, Wake, Woken, Expire, Expired, ReportConnected, ClearIO,
        AppKeeps, CallKeeps, histVars
  <2>3. CASE UNCHANGED vars
    BY <2>3 DEF vars, histVars
  <2> QED
    BY <2>1, <2>2, <2>3 DEF Next
<1>2. ASSUME Abandons PROVE ~abandoned /\ ~(call = "Connect" /\ (link # "down" \/ ev.type = "connect"))
  <2>1. abandoned' = (abandoned \/ (call = "Connect" /\ (link # "down" \/ ev.type = "connect")))
    BY <1>2 DEF Abandons
  <2>2. ~(abandoned \/ (call = "Connect" /\ (link # "down" \/ ev.type = "connect")))
    BY <2>1
  <2> QED
    BY <2>2
<1> QED
  BY <1>1, <1>2

(* How a call enters and leaves the wait of connect(). *)
LEMMA AppAttempt ==
    ASSUME TypeInv, Client \/ App \/ Expire
    PROVE  /\ Waiting /\ ~Waiting' => (apc = "woken" /\ success) \/ Abandons
           /\ Waiting' /\ ~Waiting => apc = "start" /\ call = "Connect" /\ (success' <=> success)
           /\ success' => success
           /\ link' = "connecting" /\ link # "connecting" => Waiting'
           /\ call' = "Connect" /\ apc' \in {"post", "start"} =>
                 (apc = "clear" /\ ~success') \/ (apc = "post" /\ call = "Connect")
           /\ call' = "Connect" /\ apc' \in {"resetPending", "resetBuffer", "begin", "clear", "post", "start"} =>
                 \/ ~handle'
                 \/ call = "Connect" /\ apc \in {"resetPending", "resetBuffer", "begin", "clear", "post"}
<1> USE DEF AppKeeps, CallKeeps, semVars, flagVars, worldVars, Goto, Waiting, TypeInv, CallShape
<1>1. CASE Client
  BY <1>1 DEF Client, Request
<1>2. CASE EnterConnect
  BY <1>2 DEF EnterConnect, TestConnected, TestHandle, TestReleased, TestReuse, Return
<1>3. CASE EnterGatt \/ PrepareIO \/ PrepareStart
  BY <1>3 DEF EnterGatt, PrepareIO, PrepareStart, Return, StepsOf, ResetSteps
<1>4. CASE EnterDisconnect
  BY <1>4 DEF EnterDisconnect, StepsOf, ResetSteps
<1>5. CASE NotConnected
  BY <1>5 DEF NotConnected, GiveUp
<1>6. CASE reset_connection_state
  BY <1>6 DEF reset_connection_state, ResetFlags, ResetHandle, ResetPending, ResetBuffer, Return
<1>7. CASE Begin \/ BeginClear \/ BeginPost
  BY <1>7 DEF Begin, BeginClear, BeginPost, Return
<1>8. CASE Start
  BY <1>8 DEF Start
<1>9. CASE Refused \/ Wake \/ Expire \/ Expired
  BY <1>9 DEF Refused, Wake, Expire, Expired, GiveUp, Return
<1>10. CASE Woken
  BY <1>10 DEF Woken, Terminated, Return
<1>11. CASE ReportConnected \/ ClearIO
  BY <1>11 DEF ReportConnected, ClearIO, Return
<1> QED
  BY <1>1, <1>2, <1>3, <1>4, <1>5, <1>6, <1>7, <1>8, <1>9, <1>10, <1>11 DEF App

(* connect() leaves its wait when its connection is recorded or will never   *)
(* be made.                                                                  *)
LEMMA AttemptApp ==
    ASSUME TypeInv, PendingInv, LinkInv, ClosingInv, AttemptInv, Client \/ App \/ Expire,
           Abandons => ~(call = "Connect" /\ (link # "down" \/ ev.type = "connect"))
    PROVE  AttemptInv'
<1>1. UNCHANGED <<hpc, ev>> /\ (handle' => handle)
  BY AppLink
<1>2. Waiting /\ ~Waiting' => /\ ev.type # "connect" /\ (link = "down" \/ (handle /\ link # "connecting"))
                              /\ UNCHANGED link
  <2> SUFFICES ASSUME Waiting, ~Waiting'
               PROVE  /\ ev.type # "connect" /\ (link = "down" \/ (handle /\ link # "connecting"))
                      /\ UNCHANGED link
    OBVIOUS
  <2>1. UNCHANGED link
    BY AppLink DEF Waiting
  <2>2. CASE apc = "woken" /\ success
    BY <2>1, <2>2 DEF AttemptInv, PendingInv, Posted
  <2>3. CASE Abandons
    BY <2>1, <2>3 DEF Waiting
  <2> QED
    BY <2>2, <2>3, AppAttempt
<1>3. (link # "down" => handle \/ Waiting)'
  <2>1. link # "down" /\ handle /\ apc = "resetHandle" => FALSE
    <3>1. apc = "resetHandle" => call \in {"Connect", "Disconnect"} /\ ~Waiting
      BY DEF TypeInv, TypeOK, Operations, CallShape, StepsOf, ResetSteps, Waiting
    <3>2. hpc = "forget" => link \in {"down", "connecting"}
      BY DEF LinkInv, EndReported, TypeInv, EventShape, Ending
    <3> QED
      BY <3>1, <3>2 DEF AttemptInv, ClosingInv, ResetSteps
  <2>2. handle' \/ ~handle \/ apc = "resetHandle"
    BY AppLink
  <2>3. link' # "down" => \/ link # "down" /\ (UNCHANGED link \/ handle)
                          \/ Waiting'
    BY AppLink, AppAttempt
  <2> QED
    BY <1>2, <2>1, <2>2, <2>3 DEF AttemptInv
<1>4. (link = "connecting" => Waiting)'
  BY <1>2, AppLink, AppAttempt DEF AttemptInv
<1>5. (ev.type = "connect" => Waiting)'
  BY <1>1, <1>2 DEF AttemptInv
<1>6. (Waiting /\ success /\ link # "down" => handle /\ link # "connecting")'
  <2> SUFFICES ASSUME Waiting', success', link' # "down" PROVE handle' /\ link' # "connecting"
    OBVIOUS
  <2>1. success /\ Waiting
    BY AppAttempt DEF AttemptInv
  <2> QED
    BY <2>1, AppLink DEF Waiting, AttemptInv
<1>7. (call = "Connect" /\ apc \in {"post", "start"} => ~success)'
  BY AppAttempt DEF AttemptInv
<1>8. (success /\ ev.type = "connect" => hpc \in {"withdraw", "give"})'
  BY <1>1, AppAttempt DEF AttemptInv
<1>9. (call = "Connect" /\ apc \in {"resetPending", "resetBuffer", "begin", "clear", "post", "start"} => ~handle)'
  BY <1>1, AppAttempt DEF AttemptInv
<1> QED
  BY <1>3, <1>4, <1>5, <1>6, <1>7, <1>8, <1>9 DEF AttemptInv

LEMMA AttemptHost ==
    ASSUME TypeInv, PendingInv, LinkInv, ClosingInv, AttemptInv, Host
    PROVE  AttemptInv'
<1>0. ev \in Events /\ EventShape
  BY DEF TypeInv, TypeOK, Events, EventTypes
<1>1. UNCHANGED <<apc, call>> /\ (Waiting' <=> Waiting)
  BY HostLink DEF Waiting
<1>2. hpc = "forget" => link \in {"down", "connecting"}
  BY <1>0 DEF LinkInv, EndReported, EventShape, Ending
<1>3. handle' => handle \/ (ev.type = "connect" /\ hpc = "effect")
  BY HostLink DEF Walk
<1>4. ev'.type = "connect" => ev.type = "connect"
  BY <1>0, HostMoves, IgnoreFacts, CompleteFacts, AfterFacts, TransportBounds DEF Walk, Events
<1>5. hpc = "set" /\ ev.ok /\ call = "Connect" => ev.type = "connect" /\ handle
  <2> SUFFICES ASSUME hpc = "set", ev.ok, call = "Connect" PROVE ev.type = "connect" /\ handle
    OBVIOUS
  <2>1. EventOp = "Connect"
    BY DEF PendingInv, Succeeding
  <2>2. ev.type = "connect"
    BY <2>1, OperationType DEF EventOp
  <2> QED
    BY <2>2 DEF LinkInv, Completing
<1>6. (link # "down" => handle \/ Waiting)' /\ (link = "connecting" => Waiting)'
  BY <1>1, <1>2, HostLink DEF AttemptInv, LinkInv
<1>7. (ev.type = "connect" => Waiting)'
  BY <1>1, <1>4 DEF AttemptInv
<1>8. (Waiting /\ success /\ link # "down" => handle /\ link # "connecting")'
  <2> SUFFICES ASSUME Waiting, success', link' # "down" PROVE handle' /\ link' # "connecting"
    BY <1>1
  <2>1. link # "down"
    BY HostLink
  <2>2. CASE success
    BY <1>2, <2>1, <2>2, HostLink DEF AttemptInv
  <2>3. CASE hpc = "set" /\ ev.ok
    <3>1. handle /\ link # "connecting"
      BY <1>5, <2>3 DEF Waiting, LinkInv, EndReported
    <3> QED
      BY <2>3, <3>1, HostLink
  <2> QED
    BY <2>2, <2>3, HostLink
<1>9. (call = "Connect" /\ apc \in {"post", "start"} => ~success)'
  <2> SUFFICES ASSUME call = "Connect", apc \in {"post", "start"} PROVE ~success'
    BY <1>1
  <2>1. ~success /\ ev.type # "connect"
    BY DEF AttemptInv, Waiting
  <2> QED
    BY <1>5, <2>1, HostLink
<1>10. (success /\ ev.type = "connect" => hpc \in {"withdraw", "give"})'
  <2> SUFFICES ASSUME success', ev'.type = "connect" PROVE hpc' \in {"withdraw", "give"}
    OBVIOUS
  <2>1. CASE hpc = "set"
    BY <2>1, HostMoves DEF Walk, Completing
  <2>2. CASE hpc # "set"
    <3>1. success /\ ev.type = "connect" /\ hpc \in {"withdraw", "give"}
      BY <1>4, <2>2, HostLink DEF AttemptInv
    <3> QED
      BY <1>0, <3>1, HostMoves, AfterFacts, TransportBounds DEF Walk, Completing, EventShape
  <2> QED
    BY <2>1, <2>2
<1>11. (call = "Connect" /\ apc \in {"resetPending", "resetBuffer", "begin", "clear", "post", "start"} => ~handle)'
  BY <1>1, <1>3 DEF AttemptInv, Waiting
<1> QED
  BY <1>6, <1>7, <1>8, <1>9, <1>10, <1>11 DEF AttemptInv

LEMMA AttemptWorld ==
    ASSUME TypeInv, PendingInv, LinkInv, ClosingInv, AttemptInv, World
    PROVE  AttemptInv'
<1>1. /\ UNCHANGED <<apc, call>> /\ (handle' <=> handle) /\ (success' <=> success)
      /\ Waiting' <=> Waiting
  BY DEF World, ConnectResult, Answer, EncryptionChange, PairingRefused, SecurityRequest,
         LinkBreaks, Disconnected, EventKeeps, appVars, semVars, flagVars, Waiting
<1>2. CASE ConnectResult
  <2>1. link = "connecting" /\ link' \in {"up", "down"}
    BY <1>2 DEF ConnectResult
  <2>2. Waiting /\ ~success
    BY <2>1 DEF AttemptInv
  <2> QED
    BY <1>1, <2>1, <2>2 DEF AttemptInv, Waiting
<1>3. CASE ~ConnectResult
  <2>1. /\ link' # "down" => link # "down"
        /\ link' = "connecting" => link = "connecting"
        /\ ev'.type = "connect" => UNCHANGED <<hpc, ev>>
    BY <1>3 DEF World, Answer, EncryptionChange, PairingRefused, SecurityRequest,
                LinkBreaks, Disconnected, Deliver, Event, hostVars, worldVars
  <2> QED
    BY <1>1, <2>1 DEF AttemptInv
<1> QED
  BY <1>2, <1>3

LEMMA CoreStep == TypeInv /\ RequestInv /\ HandleInv /\ CoreInv /\ [Next]_vars => CoreInv'
<1> SUFFICES ASSUME TypeInv, RequestInv, HandleInv, CoreInv, [Next]_vars, ~overlapped', ~abandoned'
             PROVE  AttemptInv'
  BY DEF CoreInv
<1>1. PendingInv /\ LinkInv /\ ClosingInv /\ AttemptInv
  BY OverlapStays, AbandonStays DEF RequestInv, HandleInv, CoreInv
<1>2. CASE UNCHANGED vars
  BY <1>1, <1>2
  DEF AttemptInv, Waiting, vars, appVars, semVars, flagVars, hostVars, worldVars
<1> QED
  BY <1>1, <1>2, AbandonStays, AttemptApp, AttemptHost, AttemptWorld DEF Next

LEMMA CoreInit == Init => CoreInv
BY DEF Init, CoreInv, AttemptInv, Waiting, NoEvent, Event

(* As long as no call is given up over a running callback, and no connect()  *)
(* over a connection that is being made, a connection is asked for only when *)
(* the previous link is gone.                                                *)
THEOREM ConnectAfterTermination == Spec => []TerminatedBeforeConnect
<1>1. TypeInv /\ CoreInv => TerminatedBeforeConnect
  BY DEF CoreInv, AttemptInv, Waiting, TerminatedBeforeConnect
<1> QED
  BY <1>1, TypeInit, TypeStep, RequestInit, RequestStep, HandleInit, HandleStep,
     CoreInit, CoreStep, PTL DEF Spec

-----------------------------------------------------------------------------
(* Whose answer was stored.                                                  *)

Asking    == call \in {"Read", "Write"}
InSession == client \in {"connected", "ready"} /\ call # "Disconnect"

(* The procedures of reads and writes; those of the present call, of an      *)
(* operation of the other kind, and the answer the callback is handling.     *)
Asked(proc) == proc.kind \in Characteristics \union {"write"}
Mine(proc)  == IF call = "Write" THEN proc.kind = "write" ELSE proc.kind \in Characteristics
Other(proc) == Asked(proc) /\ ~Mine(proc)
InHand      == ev.type = "answer" /\ (hpc \in {"guard", "accept", "effect"} \/ Storing)

(* The answer stored is to a request of the present call's kind, made after  *)
(* every write that came before it.                                          *)
GotMine == Mine(got) /\ got.stamp = writes

NoneAsked == \A i \in 1 .. Len(procs) : ~Asked(procs[i])
NoneOther == \A i \in 1 .. Len(procs) : ~Other(procs[i])
MineLast  == \A i \in 1 .. Len(procs) : Mine(procs[i]) =>
                 /\ procs[i].stamp = writes
                 /\ \A j \in i + 1 .. Len(procs) : ~Other(procs[j])

(* Procedures are answered in order: those of the present call were asked    *)
(* for after every write, and none of another call comes after them.         *)
OrderInv ==
    /\ link \in {"down", "connecting"} \/ ConnectionReported => procs = <<>>
    /\ client = "out" /\ connected => procs = <<>> /\ ~InHand
    /\ hpc = "recorded" => procs = <<>>
    /\ InHand => link \in {"up", "terminating", "breaking"}
    /\ InSession /\ ~Asking => NoneAsked /\ (InHand => ~Asked(ev.proc))
    /\ client = "ready" /\ Asking =>
         /\ MineLast
         /\ InHand /\ Mine(ev.proc) => ev.proc.stamp = writes /\ NoneOther
         /\ GotMine => NoneOther /\ (InHand => ~Other(ev.proc))

(* Success is reported only once the answer of the present call is stored.   *)
SuccessInv ==
    /\ hpc \in {"loadLength", "store"} => GotMine
    /\ Asking /\ success /\ (Posted \/ apc \in {"post", "woken"}) => GotMine
    /\ Asking /\ ev.ok /\ hpc \in {"check", "set"} => GotMine
    /\ apc = "done" \/ (client = "ready" /\ Asking /\ apc = "idle") => GotMine

AskInv == ~overlapped => OrderInv /\ SuccessInv

(* What is known of the outstanding procedures survives a step that leaves   *)
(* them, one that starts a procedure and one that ends the oldest.           *)
LEMMA KeepOrder ==
    ASSUME UNCHANGED <<procs, call, writes>>
    PROVE  (NoneAsked' <=> NoneAsked) /\ (NoneOther' <=> NoneOther) /\ (MineLast' <=> MineLast)
BY DEF NoneAsked, NoneOther, MineLast, Mine, Other, Asked

LEMMA AppendOrder ==
    ASSUME procs \in Seq(Procs), NEW proc \in Procs, procs' = Append(procs, proc),
           UNCHANGED <<call, writes>>, ~Other(proc), Mine(proc) => proc.stamp = writes
    PROVE  /\ NoneAsked /\ ~Asked(proc) => NoneAsked'
           /\ NoneOther => NoneOther'
           /\ MineLast => MineLast'
<1>1. /\ Len(procs') = Len(procs) + 1 /\ Len(procs) \in Nat
      /\ \A i \in 1 .. Len(procs) : procs'[i] = procs[i]
      /\ procs'[Len(procs) + 1] = proc
  OBVIOUS
<1>3. \A i \in 1 .. Len(procs') : i \in 1 .. Len(procs) \/ i = Len(procs) + 1
  BY <1>1
<1>4. NoneAsked /\ ~Asked(proc) => NoneAsked'
  BY <1>1, <1>3 DEF NoneAsked, Asked
<1>5. NoneOther => NoneOther'
  BY <1>1, <1>3 DEF NoneOther, Other, Mine, Asked
<1>6. MineLast => MineLast'
  <2> SUFFICES ASSUME MineLast, NEW i \in 1 .. Len(procs'), Mine(procs'[i])
               PROVE  /\ procs'[i].stamp = writes
                      /\ \A j \in i + 1 .. Len(procs') : ~Other(procs'[j])
    BY DEF MineLast, Mine, Other, Asked
  <2>1. CASE i \in 1 .. Len(procs)
    <3>1. procs[i].stamp = writes /\ \A j \in i + 1 .. Len(procs) : ~Other(procs[j])
      BY <2>1, <1>1 DEF MineLast
    <3>2. \A j \in i + 1 .. Len(procs') : j \in i + 1 .. Len(procs) \/ j = Len(procs) + 1
      BY <1>1
    <3>3. \A j \in i + 1 .. Len(procs) : procs'[j] = procs[j]
      BY <1>1, <2>1
    <3> QED
      BY <1>1, <2>1, <3>1, <3>2, <3>3
  <2>2. CASE i = Len(procs) + 1
    BY <2>2, <1>1
  <2> QED
    BY <2>1, <2>2, <1>3
<1> QED
  BY <1>4, <1>5, <1>6

LEMMA TailOrder ==
    ASSUME procs \in Seq(Procs), procs # <<>>, procs' = Tail(procs), UNCHANGED <<call, writes>>
    PROVE  /\ NoneAsked => NoneAsked' /\ ~Asked(Head(procs))
           /\ NoneOther => NoneOther' /\ ~Other(Head(procs))
           /\ MineLast => /\ MineLast'
                          /\ Mine(Head(procs)) => Head(procs).stamp = writes /\ NoneOther'
<1>1. /\ Len(procs') = Len(procs) - 1 /\ Len(procs) \in Nat \ {0}
      /\ \A i \in 1 .. Len(procs') : procs'[i] = procs[i + 1]
      /\ Head(procs) = procs[1]
  OBVIOUS
<1>2. \A i \in 1 .. Len(procs') : i + 1 \in 1 .. Len(procs)
  BY <1>1
<1>3. NoneAsked => NoneAsked' /\ ~Asked(Head(procs))
  BY <1>1, <1>2 DEF NoneAsked, Asked
<1>4. NoneOther => NoneOther' /\ ~Other(Head(procs))
  BY <1>1, <1>2 DEF NoneOther, Other, Mine, Asked
<1>5. MineLast => /\ MineLast'
                  /\ Mine(Head(procs)) => Head(procs).stamp = writes /\ NoneOther'
  <2> SUFFICES ASSUME MineLast
               PROVE  /\ MineLast'
                      /\ Mine(Head(procs)) => Head(procs).stamp = writes /\ NoneOther'
    OBVIOUS
  <2>1. ASSUME NEW i \in 1 .. Len(procs'), Mine(procs'[i])
        PROVE  /\ procs'[i].stamp = writes
               /\ \A j \in i + 1 .. Len(procs') : ~Other(procs'[j])
    <3>1. /\ procs[i + 1].stamp = writes
          /\ \A j \in (i + 1) + 1 .. Len(procs) : ~Other(procs[j])
      BY <1>1, <1>2, <2>1 DEF MineLast
    <3>2. \A j \in i + 1 .. Len(procs') : j + 1 \in (i + 1) + 1 .. Len(procs)
                                           /\ procs'[j] = procs[j + 1]
      BY <1>1
    <3> QED
      BY <1>1, <3>1, <3>2
  <2>2. MineLast'
    BY <2>1 DEF MineLast, Mine, Other, Asked
  <2>3. ASSUME Mine(Head(procs)) PROVE Head(procs).stamp = writes /\ NoneOther'
    <3>1. procs[1].stamp = writes /\ \A j \in 2 .. Len(procs) : ~Other(procs[j])
      BY <1>1, <2>3 DEF MineLast
    <3>2. \A j \in 1 .. Len(procs') : j + 1 \in 2 .. Len(procs)
      BY <1>1
    <3> QED
      BY <1>1, <3>1, <3>2 DEF NoneOther, Other, Mine, Asked
  <2> QED
    BY <2>2, <2>3
<1> QED
  BY <1>3, <1>4, <1>5

(* A new request finds no procedure that could be taken for its own. *)
LEMMA AskClient ==
    ASSUME TypeInv, PendingInv, OrderInv, SuccessInv, Client
    PROVE  OrderInv' /\ SuccessInv'
<1>0. /\ UNCHANGED <<semVars, flagVars, ioVars, hostVars, worldVars>> /\ client' = client
      /\ apc = "idle" /\ apc' \in {"connect", "enter", "disconnect"}
  BY DEF Client, Request
<1>1. UNCHANGED <<hpc, ev, link, procs>> /\ (connected' <=> connected)
  BY <1>0 DEF hostVars, worldVars, flagVars
<1>2. ~Accepted /\ ~Succeeding /\ hpc \notin {"loadLength", "store", "set"} /\ ~Posted
  BY <1>0, EventOpNotNone DEF PendingInv, Posted, Accepted, Storing, TypeInv, EventShape
<1>3. (ConnectionReported' <=> ConnectionReported) /\ (InHand' <=> InHand)
  BY <1>1 DEF ConnectionReported, InHand, Storing
<1>4. SuccessInv'
  <2>1. ~(ev.ok /\ hpc \in {"check", "set"})
    BY <1>2 DEF Succeeding
  <2> QED
    BY <1>0, <1>1, <1>2, <2>1 DEF SuccessInv, Posted
<1>5. OrderInv'
  <2>1. CASE call' \in {"Connect", "Disconnect"}
    BY <1>1, <1>3, <2>1, <1>0 DEF OrderInv, InSession, Asking, Client, Request, TypeInv, CallShape
  <2>2. CASE call' = "Discover"
    <3>1. client = "connected" /\ call = "Connect"
      BY <1>0, <2>2 DEF Client, Request, TypeInv, CallShape
    <3>2. NoneAsked' /\ (InHand' => ~Asked(ev'.proc))
      BY <1>1, <1>3, <3>1 DEF OrderInv, InSession, Asking, NoneAsked, Asked
    <3> QED
      BY <1>0, <1>1, <1>3, <2>2, <3>1, <3>2 DEF OrderInv, InSession, Asking
  <2>3. CASE call' \in {"Read", "Write"}
    <3>0. client = "ready" /\ got' = NoAnswer
      BY <2>3 DEF Client, Request
    <3>1. ~GotMine'
      BY <3>0 DEF GotMine, Mine, NoAnswer, Characteristics
    <3>2. CASE call = "Discover"
      <4>1. NoneAsked /\ (InHand => ~Asked(ev.proc))
        BY <3>0, <3>2 DEF OrderInv, InSession, Asking
      <4>2. MineLast' /\ (InHand' => ~Mine(ev.proc)')
        BY <1>1, <1>3, <2>3, <4>1 DEF NoneAsked, MineLast, Mine, Asked, Other
      <4> QED
        BY <1>0, <1>1, <1>3, <2>3, <3>0, <3>1, <4>2 DEF OrderInv, InSession, Asking
    <3>3. CASE Asking
      <4>1. MineLast /\ NoneOther /\ (InHand => ~Other(ev.proc))
            /\ (InHand /\ Mine(ev.proc) => ev.proc.stamp = writes)
        BY <1>0, <3>0, <3>3 DEF OrderInv, SuccessInv
      <4>2. CASE call' = call
        <5>1. call = "Read" /\ writes' = writes
          BY <2>3, <3>3, <4>2 DEF Client, Request, Asking
        <5>2. MineLast' /\ NoneOther'
          BY <1>1, <4>1, <4>2, <5>1, KeepOrder
        <5>3. InHand' /\ Mine(ev.proc)' => (ev.proc.stamp = writes)'
          BY <1>1, <1>3, <4>1, <4>2, <5>1 DEF Mine
        <5> QED
          BY <1>0, <1>1, <1>3, <2>3, <3>0, <3>1, <5>2, <5>3 DEF OrderInv, InSession, Asking
      <4>3. CASE call' # call
        <5>1. MineLast' /\ (InHand' => ~Mine(ev.proc)')
          BY <1>1, <1>3, <2>3, <3>3, <4>1, <4>3
          DEF Asking, NoneOther, MineLast, Mine, Asked, Other, Characteristics
        <5> QED
          BY <1>0, <1>1, <1>3, <2>3, <3>0, <3>1, <5>1 DEF OrderInv, InSession, Asking
      <4> QED
        BY <4>2, <4>3
    <3> QED
      BY <1>0, <3>0, <3>2, <3>3 DEF TypeInv, CallShape, Asking
  <2> QED
    BY <2>1, <2>2, <2>3 DEF Client, Request
<1> QED
  BY <1>4, <1>5

(* What a step of a call does to the session and to the procedures. *)
LEMMA AppAsk ==
    ASSUME TypeInv, App \/ Expire
    PROVE  /\ UNCHANGED <<hpc, ev, held, got, writes>>
           /\ client' = "out" => client = "out" \/ (call = "Disconnect" /\ apc # "disconnect")
           /\ client' = "connected" => \/ client = "connected" /\ UNCHANGED call
                                       \/ client = "out" /\ connected
           /\ client' = "ready" => client = "ready" \/ (client = "connected" /\ call = "Discover" /\ UNCHANGED call)
           /\ call' = call \/ call' \in {"Connect", "Disconnect"}
           /\ client # "out" => UNCHANGED call
           /\ apc' = "done" => apc = "woken" /\ success /\ Asking /\ UNCHANGED call
           /\ apc' = "idle" /\ client' = "ready" /\ call' \in {"Read", "Write"} => apc = "done"
<1> USE DEF Goto, Return, TypeInv, CallShape, Asking
<1>0. UNCHANGED <<hpc, ev, held, got, writes>>
  BY AppMoves DEF hostVars
<1>1. CASE EnterConnect
  BY <1>0, <1>1 DEF EnterConnect, TestConnected, TestHandle, TestReleased, TestReuse, StepsOf, ResetSteps, TypeOK, Operations
<1>2. CASE PrepareIO \/ PrepareStart
  BY <1>0, <1>2 DEF PrepareIO, PrepareStart, StepsOf, TypeOK, Operations
<1>3. CASE EnterDisconnect \/ NotConnected
  BY <1>0, <1>3 DEF EnterDisconnect, NotConnected
<1>4. CASE reset_connection_state
  BY <1>0, <1>4 DEF reset_connection_state, ResetFlags, ResetHandle, ResetPending, ResetBuffer
<1>5. CASE Begin \/ BeginClear \/ BeginPost
  BY <1>0, <1>5 DEF Begin, BeginClear, BeginPost, TypeOK, Operations
<1>6. CASE Start \/ Refused
  BY <1>0, <1>6 DEF Start, Refused, TypeOK, Operations
<1>7. CASE Wake \/ Expire \/ Expired
  BY <1>0, <1>7 DEF Wake, Expire, Expired, TypeOK, Operations
<1>8. CASE Woken
  BY <1>0, <1>8 DEF Woken, Terminated, TypeOK, Operations
<1>9. CASE ReportConnected
  BY <1>0, <1>9 DEF ReportConnected, StepsOf, ResetSteps, TypeOK, Operations
<1>10. CASE ClearIO
  BY <1>0, <1>10 DEF ClearIO, StepsOf, ResetSteps, TypeOK, Operations
<1>11. CASE EnterGatt
  <2>1. /\ ~nested /\ call \in {"Discover", "Read", "Write"} /\ apc \in {"enter", "discovered"}
        /\ apc = "discovered" => call = "Discover"
    BY <1>11 DEF EnterGatt, StepsOf, ResetSteps, TypeOK, Operations
  <2> QED
    BY <1>0, <1>11, <2>1 DEF EnterGatt
<1> QED
  BY <1>1, <1>2, <1>3, <1>4, <1>5, <1>6, <1>7, <1>8, <1>9, <1>10, <1>11 DEF App

LEMMA AppProcs ==
    ASSUME TypeInv, App \/ Expire
    PROVE  \/ UNCHANGED procs
           \/ /\ handle /\ link \in {"up", "terminating"} /\ UNCHANGED <<link, call, client>>
              /\ client \in {"connected", "ready"}
              /\ \E proc \in Procs : /\ procs' = Append(procs, proc)
                                     /\ ~Other(proc) /\ (Mine(proc) => proc.stamp = writes)
                                     /\ ~Asking => ~Asked(proc)
<1>1. CASE Start /\ ~(UNCHANGED procs)
  <2> DEFINE proc == IF call = "Discover" THEN Proc(Queries[1]) ELSE PendingIO
  <2>1. /\ apc = "start" /\ call \in {"Discover", "Read", "Write"} /\ handle /\ link \in {"up", "terminating"}
        /\ procs' = Append(procs, proc) /\ UNCHANGED <<link, call, client>>
    BY <1>1 DEF Start, Goto
  <2>2. client \in {"connected", "ready"}
    BY <2>1 DEF TypeInv, CallShape
  <2>3. proc \in Procs
    BY PendingIOType, ProcType DEF TypeInv, Queries, Kinds
  <2>4. /\ proc.stamp = writes
        /\ call = "Discover" => proc.kind = "services"
        /\ call = "Read" => proc.kind = want
        /\ call = "Write" => proc.kind = "write"
    BY <2>1 DEF PendingIO, Proc, Queries
  <2>5. ~Other(proc) /\ (~Asking => ~Asked(proc))
    BY <2>1, <2>4 DEF Other, Mine, Asked, Asking, TypeInv, TypeOK, Characteristics
  <2> HIDE DEF proc
  <2> QED
    BY <2>1, <2>2, <2>3, <2>4, <2>5
<1>2. CASE ~Start
  BY <1>2 DEF App, EnterConnect, TestConnected, TestHandle, TestReleased, TestReuse, EnterGatt,
       PrepareIO, PrepareStart, EnterDisconnect, NotConnected, reset_connection_state,
       ResetFlags, ResetHandle, ResetPending, ResetBuffer, Begin, BeginClear, BeginPost,
       Refused, GiveUp, Wake, Woken, Expire, Expired, ReportConnected, ClearIO,
       AppKeeps, CallKeeps, worldVars
<1> QED
  BY <1>1, <1>2

(* A call starts its own procedure last, and reports success when an answer  *)
(* of its own was stored.                                                    *)
LEMMA AskApp ==
    ASSUME TypeInv, PendingInv, LinkInv, ClosingInv, OrderInv, SuccessInv, App \/ Expire
    PROVE  OrderInv' /\ SuccessInv'
<1>1. UNCHANGED <<hpc, ev, got, writes>>
  BY AppAsk
<1>2. (ConnectionReported' <=> ConnectionReported) /\ (InHand' <=> InHand)
  BY <1>1 DEF ConnectionReported, InHand, Storing
<1>3. call' = call => (GotMine' <=> GotMine) /\ (Mine(ev.proc)' <=> Mine(ev.proc)) /\ (Other(ev.proc)' <=> Other(ev.proc))
  BY <1>1 DEF GotMine, Mine, Other, Asked
<1>4. SuccessInv'
  <2>1. (hpc \in {"loadLength", "store"} => GotMine)'
    <3> SUFFICES ASSUME hpc \in {"loadLength", "store"} PROVE GotMine'
      BY <1>1
    <3>1. GotMine /\ call \in {"Read", "Write"}
      BY OperationType DEF SuccessInv, PendingInv, Accepted, Storing, EventOp, TypeInv, EventShape
    <3>2. Posted
      BY EventOpNotNone DEF PendingInv, Accepted, Storing, TypeInv, EventShape
    <3>3. UNCHANGED call
      BY <3>1, <3>2, AppAsk DEF Posted, TypeInv, CallShape
    <3> QED
      BY <1>3, <3>1, <3>3
  <2>2. (Asking /\ success /\ (Posted \/ apc \in {"post", "woken"}) => GotMine)'
    BY <1>3, AppClosing DEF SuccessInv, Asking
  <2>3. (Asking /\ ev.ok /\ hpc \in {"check", "set"} => GotMine)'
    BY <1>1, <1>3, AppAsk DEF SuccessInv, Asking
  <2>4. (apc = "done" \/ (client = "ready" /\ Asking /\ apc = "idle") => GotMine)'
    <3>1. apc = "done" => UNCHANGED call \/ ~Asking'
      BY AppAsk DEF Asking
    <3> QED
      BY <1>3, <3>1, AppAsk DEF SuccessInv, Asking
  <2> QED
    BY <2>1, <2>2, <2>3, <2>4 DEF SuccessInv
<1>5. /\ (link \in {"down", "connecting"} \/ ConnectionReported => procs = <<>>)'
      /\ (client = "out" /\ connected => procs = <<>> /\ ~InHand)'
      /\ (hpc = "recorded" => procs = <<>>)'
      /\ (InHand => link \in {"up", "terminating", "breaking"})'
  <2>1. client' = "out" /\ connected' => client = "out" /\ connected
    BY AppAsk, AppLink DEF ClosingInv
  <2>2. hpc = "recorded" => client = "out"
    BY ConnectionIsConnects DEF TypeInv, EventShape, CallShape, Posted
  <2>3. client' = "out" /\ connected' => UNCHANGED procs
    BY <2>1, AppProcs
  <2>4. CASE UNCHANGED procs
    BY <1>1, <1>2, <2>1, <2>4, AppLink DEF OrderInv
  <2>5. CASE ~(UNCHANGED procs)
    <3>1. link \in {"up", "terminating"} /\ UNCHANGED link /\ ~ConnectionReported /\ client # "out"
      BY <2>5, AppProcs DEF LinkInv
    <3> QED
      BY <1>1, <1>2, <2>1, <2>2, <3>1 DEF OrderInv
  <2> QED
    BY <2>4, <2>5
<1>6. (InSession /\ ~Asking => NoneAsked /\ (InHand => ~Asked(ev.proc)))'
  <2> SUFFICES ASSUME InSession', ~Asking' PROVE NoneAsked' /\ (InHand => ~Asked(ev.proc))
    BY <1>1, <1>2 DEF Asked
  <2>1. CASE client = "out"
    <3>1. connected /\ UNCHANGED procs
      BY <2>1, AppAsk, AppProcs DEF InSession
    <3> QED
      BY <2>1, <3>1 DEF OrderInv, NoneAsked
  <2>2. CASE client # "out"
    <3>1. InSession /\ ~Asking /\ UNCHANGED call
      BY <2>2, AppAsk DEF InSession, Asking
    <3>2. NoneAsked /\ (InHand => ~Asked(ev.proc))
      BY <3>1 DEF OrderInv
    <3>3. CASE UNCHANGED procs
      BY <3>2, <3>3 DEF NoneAsked, Asked
    <3>4. CASE ~(UNCHANGED procs)
      <4>1. PICK proc \in Procs : procs' = Append(procs, proc) /\ ~Other(proc)
                                  /\ (Mine(proc) => proc.stamp = writes) /\ ~Asked(proc)
        BY <3>1, <3>4, AppProcs
      <4> QED
        BY <1>1, <3>1, <3>2, <4>1, AppendOrder DEF TypeInv, TypeOK
    <3> QED
      BY <3>2, <3>3, <3>4
  <2> QED
    BY <2>1, <2>2
<1>7. (client = "ready" /\ Asking =>
         /\ MineLast
         /\ InHand /\ Mine(ev.proc) => ev.proc.stamp = writes /\ NoneOther
         /\ GotMine => NoneOther /\ (InHand => ~Other(ev.proc)))'
  <2> SUFFICES ASSUME client' = "ready", Asking'
               PROVE  /\ MineLast'
                      /\ InHand' /\ Mine(ev.proc)' => ev.proc.stamp = writes /\ NoneOther'
                      /\ GotMine' => NoneOther' /\ (InHand' => ~Other(ev.proc)')
    BY <1>1
  <2>1. client = "ready" /\ Asking /\ UNCHANGED call
    BY AppAsk DEF Asking
  <2>2. (MineLast => MineLast') /\ (NoneOther => NoneOther')
    <3>1. CASE UNCHANGED procs
      BY <1>1, <2>1, <3>1, KeepOrder
    <3>2. CASE ~(UNCHANGED procs)
      <4>1. PICK proc \in Procs : procs' = Append(procs, proc) /\ ~Other(proc)
                                  /\ (Mine(proc) => proc.stamp = writes)
        BY <3>2, AppProcs
      <4> QED
        BY <1>1, <2>1, <4>1, AppendOrder DEF TypeInv, TypeOK
    <3> QED
      BY <3>1, <3>2
  <2> QED
    BY <1>2, <1>3, <2>1, <2>2 DEF OrderInv
<1> QED
  BY <1>4, <1>5, <1>6, <1>7 DEF OrderInv

(* What a callback does to the procedures: the next query of discover(), or  *)
(* the pending read or write sent again.                                     *)
LEMMA HostProcs ==
    ASSUME TypeInv, PendingInv, Host
    PROVE  \/ UNCHANGED procs
           \/ /\ handle /\ link \in {"up", "terminating"} /\ UNCHANGED link /\ Ignore
              /\ client # "out" \/ InHand
              /\ \E proc \in Procs : /\ procs' = Append(procs, proc)
                                     /\ ~Other(proc) /\ (Mine(proc) => proc.stamp = writes)
                                     /\ ~Asking => ~Asked(proc)
<1>1. CASE Effect /\ DiscoveryEffect /\ ~(UNCHANGED procs)
  <2>1. PICK i \in 1 .. Len(Queries) - 1 : StartOrFail(Proc(Queries[i + 1]))
    BY <1>1 DEF DiscoveryEffect
  <2>2. Queries[i + 1] \in {"commandChr", "targetChr", "fanChr"}
    BY DEF Queries
  <2>3. Proc(Queries[i + 1]) \in Procs
    BY <2>2, ProcType DEF Kinds, TypeInv
  <2>4. ~Asked(Proc(Queries[i + 1]))
    BY <2>2 DEF Asked, Proc, Characteristics
  <2>5. InHand
    BY <1>1 DEF Effect, DiscoveryEffect, InHand
  <2>6. ~Mine(Proc(Queries[i + 1]))
    BY <2>4 DEF Mine, Asked
  <2> QED
    BY <1>1, <2>1, <2>3, <2>4, <2>5, <2>6 DEF StartOrFail, Effect, Other
<1>2. CASE Resend /\ ~(UNCHANGED procs)
  <2>1. /\ hpc = "resend" /\ handle /\ link \in {"up", "terminating"} /\ UNCHANGED link /\ Ignore
        /\ procs' = Append(procs, Proc(ev.proc.kind))
    BY <1>2 DEF Resend, StartOrFail
  <2>2. call \in {"Read", "Write"} /\ Posted
    BY <2>1 DEF PendingInv, Retrying
  <2>3. ev.proc.kind = (IF call = "Read" THEN want ELSE "write")
    BY <2>1 DEF PendingInv
  <2>4. Proc(ev.proc.kind) \in Procs
    BY <2>2, <2>3, ProcType DEF Kinds, TypeInv, TypeOK
  <2>5. ~Other(Proc(ev.proc.kind)) /\ Proc(ev.proc.kind).stamp = writes
    BY <2>2, <2>3 DEF Other, Mine, Asked, Proc, TypeInv, TypeOK
  <2>6. client # "out" /\ Asking
    BY <2>2 DEF TypeInv, CallShape, Posted, Asking
  <2> QED
    BY <2>1, <2>4, <2>5, <2>6
<1>3. CASE ~Resend /\ ~(Effect /\ DiscoveryEffect)
  BY <1>3
  DEF Host, Guard, Effect, Recorded, Retry, Forget, Ended, Load, Copy, StoreLength,
      CompletePending, ConnectedEffect, AnswerEffect, EncryptionEffect, DisconnectedEffect, worldVars
<1> QED
  BY <1>1, <1>2, <1>3

(* What a callback stores is the answer of the present call. *)
LEMMA HostStores ==
    ASSUME TypeInv, PendingInv, BufferInv, Host
    PROVE  /\ \/ UNCHANGED got
              \/ /\ got' = ev.proc /\ InHand /\ Mine(ev.proc) /\ Asking /\ client = "ready"
           /\ hpc' = "loadLength" => got' = ev.proc /\ InHand /\ Mine(ev.proc) /\ Asking /\ client = "ready"
           /\ hpc' = "store" => hpc = "loadLength" /\ UNCHANGED got
<1>1. CASE Effect /\ AnswerEffect
  <2>1. hpc = "effect" /\ ev.type = "answer" /\ hpc' \notin {"loadLength", "store"}
    BY <1>1 DEF Effect, AnswerEffect, SecurityEffect, Complete, Ignore
  <2>2. CASE UNCHANGED got
    BY <2>1, <2>2
  <2>3. CASE got' = ev.proc /\ ev.proc.kind = "write"
    <3>1. pending = "Write"
      BY <2>1, <2>3 DEF PendingInv, Accepted, EventOp, OperationOf, Characteristics
    <3> QED
      BY <2>1, <2>3, <3>1 DEF PendingInv, InHand, Mine, Asking, Posted, TypeInv, CallShape
  <2> QED
    BY <1>1, <2>2, <2>3 DEF AnswerEffect
<1>2. CASE Copy
  <2>1. hpc = "copy" /\ ev.type = "answer" /\ OperationOf(ev.proc) = "Read" /\ held = Owner
    BY <1>2 DEF Copy, TypeInv, EventShape, Storing, BufferInv
  <2>2. pending = "Read"
    BY <2>1 DEF PendingInv, Accepted, EventOp, Storing
  <2>3. InHand /\ Mine(ev.proc) /\ Asking /\ client = "ready"
    BY <2>1, <2>2 DEF PendingInv, InHand, Storing, Mine, Asking, Posted, TypeInv, CallShape,
                      OperationOf
  <2> QED
    BY <1>2, <2>1, <2>3 DEF Copy, Complete
<1>3. CASE Load
  BY <1>3 DEF Load
<1>4. CASE ~Copy /\ ~Load /\ ~(Effect /\ AnswerEffect)
  <2>1. UNCHANGED got
    BY <1>4
    DEF Host, Guard, Effect, Recorded, Retry, Resend, Forget, Ended, StoreLength, CompletePending,
        ConnectedEffect, DiscoveryEffect, EncryptionEffect, DisconnectedEffect
  <2>2. hpc' \notin {"loadLength", "store"}
    BY <1>4
    DEF Host, Guard, Effect, Recorded, Retry, Resend, Forget, Ended, StoreLength, CompletePending,
        ConnectedEffect, DiscoveryEffect, EncryptionEffect, DisconnectedEffect, StartOrFail,
        Complete, Ignore, AfterComplete
  <2> QED
    BY <2>1, <2>2
<1> QED
  BY <1>1, <1>2, <1>3, <1>4

(* A callback reports success to a read or a write only with its answer. *)
LEMMA HostSucceeds ==
    ASSUME TypeInv, PendingInv, BufferInv, Host, Asking, ev'.ok, hpc' \in {"check", "set"}
    PROVE  \/ hpc \in {"check", "set"} /\ ev.ok
           \/ hpc = "store"
           \/ got' = ev.proc /\ InHand /\ Mine(ev.proc) /\ client = "ready"
<1>0. ev \in Events /\ EventShape
  BY DEF TypeInv, TypeOK, Events, EventTypes
<1>1. CASE Completing
  BY <1>0, <1>1, HostMoves, AfterFacts, IgnoreFacts, TransportBounds DEF Walk, Completing, EventShape
<1>2. CASE Recorded
  BY <1>0, <1>2, ConnectionIsConnects DEF Recorded, EventShape, Asking
<1>3. CASE Effect
  <2>0. hpc = "effect"
    BY <1>3 DEF Effect
  <2>1. CASE AnswerEffect
    <3>1. CASE ev.proc.kind = "write" /\ got' = ev.proc
      <4>1. pending = "Write"
        BY <2>0, <2>1, <3>1 DEF AnswerEffect, PendingInv, Accepted, EventOp, OperationOf, Characteristics
      <4> QED
        BY <2>0, <2>1, <3>1, <4>1 DEF AnswerEffect, PendingInv, InHand, Mine, Posted, TypeInv, CallShape
    <3>2. CASE hpc' = "check" /\ ev' = [ev EXCEPT !.ok = FALSE, !.again = TRUE]
      BY <1>0, <3>2 DEF Events
    <3>3. CASE Complete(FALSE)
      BY <1>0, <3>3, CompleteFacts
    <3> QED
      BY <2>1, <3>1, <3>2, <3>3 DEF AnswerEffect, SecurityEffect, Ignore
  <2>2. CASE DiscoveryEffect
    <3>1. pending = "Discover"
      BY <2>0, <2>2 DEF DiscoveryEffect, PendingInv, Accepted, EventOp
    <3> QED
      BY <3>1 DEF PendingInv, Asking
  <2>3. CASE EncryptionEffect \/ Complete(FALSE)
    BY <1>0, <2>3, CompleteFacts, IgnoreFacts, TransportBounds DEF EncryptionEffect
  <2>4. CASE ConnectedEffect \/ DisconnectedEffect
    BY <2>4 DEF ConnectedEffect, DisconnectedEffect
  <2> QED
    BY <1>3, <2>1, <2>2, <2>3, <2>4 DEF Effect
<1>4. CASE Ended
  <2>1. CASE hpc = "outcome"
    <3>1. pending # "Disconnect"
      BY DEF PendingInv, Asking
    <3> QED
      BY <1>0, <1>4, <2>1, <3>1, CompleteFacts DEF Ended
  <2>2. CASE hpc # "outcome"
    BY <1>4, <2>2 DEF Ended, Ignore
  <2> QED
    BY <2>1, <2>2
<1>5. CASE StoreLength
  BY <1>5 DEF StoreLength
<1>6. CASE Guard \/ Retry \/ Resend \/ Forget \/ Load \/ Copy
  BY <1>0, <1>6, CompleteFacts DEF Guard, Retry, Resend, Forget, Load, Copy, StartOrFail, Ignore
<1> QED
  BY <1>1, <1>2, <1>3, <1>4, <1>5, <1>6 DEF Host, CompletePending, Completing

(* A callback stores the answer of the present call, and nothing of another  *)
(* call is outstanding then.                                                 *)
LEMMA AskHost ==
    ASSUME TypeInv, PendingInv, BufferInv, OrderInv, SuccessInv, Host
    PROVE  OrderInv' /\ SuccessInv'
<1>0. ev \in Events /\ EventShape
  BY DEF TypeInv, TypeOK, Events, EventTypes
<1>1. UNCHANGED <<apc, call, client, writes>>
  BY HostMoves
<1>2. InHand' => InHand /\ ev'.proc = ev.proc
  BY <1>0, HostMoves, IgnoreFacts, CompleteFacts, AfterFacts, TransportBounds
  DEF InHand, Storing, Walk, Completing, EventShape
<1>3. hpc' = "recorded" => ConnectionReported
  BY <1>0, HostMoves, IgnoreFacts, CompleteFacts, AfterFacts, TransportBounds
  DEF ConnectionReported, Walk, Completing, EventShape, Testing
<1>4. ConnectionReported' => ConnectionReported
  BY <1>0, HostMoves, IgnoreFacts, AfterFacts, TransportBounds
  DEF ConnectionReported, Walk, Complete, Completing, EventShape
<1>5. Ignore => ~InHand' /\ ~ConnectionReported' /\ hpc' = "idle"
  BY IgnoreFacts, TransportBounds DEF InHand, ConnectionReported, Storing
<1>6. /\ Posted' <=> Posted
      /\ Asking' <=> Asking
      /\ InSession' <=> InSession
  BY <1>1 DEF Posted, Asking, InSession
<1>7. InHand' => (Mine(ev.proc)' <=> Mine(ev.proc)) /\ (Other(ev.proc)' <=> Other(ev.proc))
                 /\ (Asked(ev.proc)' <=> Asked(ev.proc))
  BY <1>1, <1>2 DEF Mine, Other, Asked
<1>8. ~(UNCHANGED got) => got' = ev.proc /\ InHand /\ Mine(ev.proc) /\ Asking /\ client = "ready"
  BY HostStores
<1>9. InHand /\ Mine(ev.proc) /\ Asking /\ client = "ready" => ev.proc.stamp = writes /\ NoneOther
  BY DEF OrderInv
<1>10. \/ UNCHANGED got /\ (GotMine' <=> GotMine)
       \/ GotMine' /\ NoneOther /\ ~Other(ev.proc)
  BY <1>1, <1>8, <1>9 DEF GotMine, Mine, Other, Asked
<1>11. /\ NoneOther => NoneOther'
       /\ MineLast => MineLast'
       /\ NoneAsked /\ ~Asking => NoneAsked'
  <2>1. CASE UNCHANGED procs
    BY <1>1, <2>1, KeepOrder
  <2>2. CASE ~(UNCHANGED procs)
    <3>1. PICK proc \in Procs : /\ procs' = Append(procs, proc)
                                /\ ~Other(proc) /\ (Mine(proc) => proc.stamp = writes)
                                /\ ~Asking => ~Asked(proc)
      BY <2>2, HostProcs
    <3> QED
      BY <1>1, <3>1, AppendOrder DEF TypeInv, TypeOK
  <2> QED
    BY <2>1, <2>2
<1>12. SuccessInv'
  <2>1. (hpc \in {"loadLength", "store"} => GotMine)'
    <3>1. CASE hpc' = "loadLength"
      BY <1>1, <1>9, <3>1, HostStores DEF GotMine, Mine
    <3>2. CASE hpc' = "store"
      BY <1>1, <3>2, HostStores DEF SuccessInv, GotMine, Mine
    <3> QED
      BY <3>1, <3>2
  <2>2. (Asking /\ success /\ (Posted \/ apc \in {"post", "woken"}) => GotMine)'
    <3>1. success' => success \/ (hpc = "set" /\ ev.ok)
      BY HostLink
    <3> QED
      BY <1>1, <1>6, <1>10, <3>1 DEF SuccessInv
  <2>3. (Asking /\ ev.ok /\ hpc \in {"check", "set"} => GotMine)'
    <3> SUFFICES ASSUME Asking, ev'.ok, hpc' \in {"check", "set"} PROVE GotMine'
      BY <1>6
    <3>1. CASE (hpc \in {"check", "set"} /\ ev.ok) \/ hpc = "store"
      BY <1>10, <3>1 DEF SuccessInv
    <3>2. CASE got' = ev.proc /\ InHand /\ Mine(ev.proc) /\ client = "ready"
      BY <1>1, <1>9, <3>2 DEF GotMine, Mine
    <3> QED
      BY <3>1, <3>2, HostSucceeds
  <2>4. (apc = "done" \/ (client = "ready" /\ Asking /\ apc = "idle") => GotMine)'
    BY <1>1, <1>6, <1>10 DEF SuccessInv
  <2> QED
    BY <2>1, <2>2, <2>3, <2>4 DEF SuccessInv
<1>13. OrderInv'
  <2>1. /\ ~(UNCHANGED procs) => Ignore /\ link \in {"up", "terminating"} /\ UNCHANGED link
        /\ ~(UNCHANGED procs) => client # "out" \/ InHand
    BY HostProcs
  <2>2. UNCHANGED link \/ (Ignore /\ link = "up" /\ link' = "terminating")
    BY HostLink
  <2>3. (link \in {"down", "connecting"} \/ ConnectionReported => procs = <<>>)'
    BY <1>4, <1>5, <2>1, <2>2 DEF OrderInv
  <2>4. (client = "out" /\ connected => procs = <<>> /\ ~InHand)'
    <3> SUFFICES ASSUME client = "out", connected' PROVE procs' = <<>> /\ ~InHand'
      BY <1>1
    <3>1. CASE connected
      BY <1>2, <2>1, <3>1 DEF OrderInv
    <3>2. CASE hpc = "recorded" /\ Complete(TRUE)
      BY <1>2, <1>5, <2>1, <3>2, CompleteFacts, <1>0 DEF OrderInv, InHand, Storing
    <3> QED
      BY <3>1, <3>2, HostLink
  <2>5. (hpc = "recorded" => procs = <<>>)'
    BY <1>3, <1>5, <2>1 DEF OrderInv
  <2>6. (InHand => link \in {"up", "terminating", "breaking"})'
    BY <1>2, <2>2 DEF OrderInv
  <2>7. (InSession /\ ~Asking => NoneAsked /\ (InHand => ~Asked(ev.proc)))'
    BY <1>2, <1>6, <1>7, <1>11 DEF OrderInv
  <2>8. (client = "ready" /\ Asking =>
           /\ MineLast
           /\ InHand /\ Mine(ev.proc) => ev.proc.stamp = writes /\ NoneOther
           /\ GotMine => NoneOther /\ (InHand => ~Other(ev.proc)))'
    <3> SUFFICES ASSUME client = "ready", Asking
                 PROVE  /\ MineLast'
                        /\ InHand' /\ Mine(ev.proc)' => ev'.proc.stamp = writes /\ NoneOther'
                        /\ GotMine' => NoneOther' /\ (InHand' => ~Other(ev.proc)')
      BY <1>1, <1>6
    <3>1. /\ MineLast
          /\ InHand /\ Mine(ev.proc) => ev.proc.stamp = writes /\ NoneOther
          /\ GotMine => NoneOther /\ (InHand => ~Other(ev.proc))
      BY DEF OrderInv
    <3> QED
      BY <1>2, <1>7, <1>10, <1>11, <3>1
  <2> QED
    BY <2>3, <2>4, <2>5, <2>6, <2>7, <2>8 DEF OrderInv
<1> QED
  BY <1>12, <1>13

(* The oldest procedure is answered first, and a connection begins and ends  *)
(* with none.                                                                *)
LEMMA AskWorld ==
    ASSUME TypeInv, OrderInv, SuccessInv, World
    PROVE  OrderInv' /\ SuccessInv'
<1>1. /\ UNCHANGED <<apc, call, client, writes, got>>
      /\ (connected' <=> connected) /\ (success' <=> success)
  BY DEF World, ConnectResult, Answer, EncryptionChange, PairingRefused, SecurityRequest,
         LinkBreaks, Disconnected, EventKeeps, appVars, semVars, flagVars, histVars
<1>2. /\ Posted' <=> Posted
      /\ Asking' <=> Asking
      /\ InSession' <=> InSession
      /\ GotMine' <=> GotMine
  BY <1>1 DEF Posted, Asking, InSession, GotMine, Mine
<1>3. UNCHANGED <<hpc, ev>> \/ hpc' = "guard"
  BY DEF World, ConnectResult, Answer, EncryptionChange, PairingRefused, SecurityRequest,
         LinkBreaks, Disconnected, Deliver, hostVars
<1>4. SuccessInv'
  BY <1>1, <1>2, <1>3 DEF SuccessInv
<1>5. OrderInv'
  <2>1. CASE Answer
    <3>1. /\ hpc = "idle" /\ hpc' = "guard" /\ ev'.type = "answer" /\ ev'.proc = Head(procs)
          /\ procs # <<>> /\ procs' = Tail(procs) /\ UNCHANGED link
          /\ link \in {"up", "terminating", "breaking"}
      BY <2>1 DEF Answer, Deliver, Event
    <3>2. /\ ~ConnectionReported' /\ ~(client = "out" /\ connected)
      BY <3>1 DEF ConnectionReported, OrderInv
    <3>3. /\ NoneAsked => NoneAsked' /\ ~Asked(Head(procs))
          /\ NoneOther => NoneOther' /\ ~Other(Head(procs))
          /\ MineLast => /\ MineLast'
                         /\ Mine(Head(procs)) => Head(procs).stamp = writes /\ NoneOther'
      BY <1>1, <3>1, TailOrder DEF TypeInv, TypeOK
    <3>4. /\ Mine(ev.proc)' <=> Mine(Head(procs))
          /\ Other(ev.proc)' <=> Other(Head(procs))
          /\ Asked(ev.proc)' <=> Asked(Head(procs))
      BY <1>1, <3>1 DEF Mine, Other, Asked
    <3>5. (InSession /\ ~Asking => NoneAsked /\ (InHand => ~Asked(ev.proc)))'
      BY <1>2, <3>3, <3>4 DEF OrderInv
    <3>6. (client = "ready" /\ Asking =>
             /\ MineLast
             /\ InHand /\ Mine(ev.proc) => ev.proc.stamp = writes /\ NoneOther
             /\ GotMine => NoneOther /\ (InHand => ~Other(ev.proc)))'
      BY <1>1, <1>2, <3>1, <3>3, <3>4 DEF OrderInv
    <3> QED
      BY <1>1, <3>1, <3>2, <3>5, <3>6 DEF OrderInv
  <2>2. CASE ~Answer
    <3>1. UNCHANGED procs
      BY <2>2 DEF World, ConnectResult, EncryptionChange, PairingRefused, SecurityRequest,
             LinkBreaks, Disconnected, worldVars
    <3>2. /\ (NoneAsked' <=> NoneAsked) /\ (NoneOther' <=> NoneOther) /\ (MineLast' <=> MineLast)
      BY <1>1, <3>1, KeepOrder
    <3>3. \/ UNCHANGED <<hpc, ev, link>>
          \/ UNCHANGED <<hpc, ev>> /\ hpc = "idle" /\ link' = "breaking"
          \/ ~InHand' /\ hpc' = "guard" /\ UNCHANGED link /\ ~ConnectionReported'
          \/ ~InHand' /\ hpc' = "guard" /\ procs = <<>>
      BY <2>2 DEF World, ConnectResult, EncryptionChange, PairingRefused, SecurityRequest,
             LinkBreaks, Disconnected, Deliver, Event, hostVars, worldVars, InHand, Storing,
             ConnectionReported, OrderInv
    <3>4. (UNCHANGED <<hpc, ev>>) => /\ ConnectionReported' <=> ConnectionReported
                                     /\ InHand' <=> InHand
      BY DEF ConnectionReported, InHand, Storing
    <3>5. (UNCHANGED <<hpc, ev>>) => /\ Mine(ev.proc)' <=> Mine(ev.proc)
                                     /\ Other(ev.proc)' <=> Other(ev.proc)
                                     /\ Asked(ev.proc)' <=> Asked(ev.proc)
      BY <1>1 DEF Mine, Other, Asked
    <3>6. /\ (link \in {"down", "connecting"} \/ ConnectionReported => procs = <<>>)'
          /\ (client = "out" /\ connected => procs = <<>> /\ ~InHand)'
          /\ (hpc = "recorded" => procs = <<>>)'
          /\ (InHand => link \in {"up", "terminating", "breaking"})'
      BY <1>1, <3>1, <3>3, <3>4 DEF OrderInv, ConnectionReported, InHand, Storing
    <3>7. (InSession /\ ~Asking => NoneAsked /\ (InHand => ~Asked(ev.proc)))'
      BY <1>2, <3>2, <3>3, <3>4, <3>5 DEF OrderInv
    <3>8. (client = "ready" /\ Asking =>
             /\ MineLast
             /\ InHand /\ Mine(ev.proc) => ev.proc.stamp = writes /\ NoneOther
             /\ GotMine => NoneOther /\ (InHand => ~Other(ev.proc)))'
      <4>1. CASE ~InHand'
        BY <1>1, <1>2, <3>2, <4>1 DEF OrderInv
      <4>2. CASE UNCHANGED <<hpc, ev>>
        BY <1>1, <1>2, <3>2, <3>4, <3>5, <4>2 DEF OrderInv
      <4> QED
        BY <3>3, <4>1, <4>2
    <3> QED
      BY <3>6, <3>7, <3>8 DEF OrderInv
  <2> QED
    BY <2>1, <2>2
<1> QED
  BY <1>4, <1>5

LEMMA AskInit == Init => AskInv
BY DEF Init, AskInv, OrderInv, SuccessInv, InSession, Asking, InHand, ConnectionReported, Storing,
       Posted, NoEvent, Event

LEMMA AskStep == TypeInv /\ RequestInv /\ HandleInv /\ AskInv /\ [Next]_vars => AskInv'
<1> SUFFICES ASSUME TypeInv, RequestInv, HandleInv, AskInv, [Next]_vars, ~overlapped'
             PROVE  OrderInv' /\ SuccessInv'
  BY DEF AskInv
<1>1. PendingInv /\ BufferInv /\ LinkInv /\ ClosingInv /\ OrderInv /\ SuccessInv
  BY OverlapStays DEF RequestInv, HandleInv, AskInv
<1>2. CASE UNCHANGED vars
  BY <1>1, <1>2
  DEF OrderInv, SuccessInv, InSession, Asking, InHand, ConnectionReported, Storing, Posted,
      GotMine, NoneAsked, NoneOther, MineLast, Mine, Other, Asked,
      vars, appVars, semVars, flagVars, hostVars, worldVars, histVars
<1> QED
  BY <1>1, <1>2, AskClient, AskApp, AskHost, AskWorld DEF Next

(* As long as no call is given up over a running callback, a write that      *)
(* succeeds was acknowledged after it was requested, and a read that         *)
(* succeeds stored an answer of either characteristic that was asked for     *)
(* after every write of the session.                                         *)
THEOREM AnswersBelongToCall == Spec => [](~overlapped => AnswersBelong)
<1>1. TypeInv /\ AskInv => (~overlapped => AnswersBelong)
  <2> SUFFICES ASSUME TypeInv, SuccessInv, apc = "done"
               PROVE  /\ call = "Write" => got = [kind |-> "write", stamp |-> writes]
                      /\ call = "Read"  => got.kind \in Characteristics /\ got.stamp = writes
    BY DEF AskInv, AnswersBelong
  <2>1. GotMine /\ got \in Procs
    BY DEF SuccessInv, TypeInv, TypeOK
  <2> QED
    BY <2>1 DEF GotMine, Mine, Procs
<1> QED
  BY <1>1, TypeInit, TypeStep, RequestInit, RequestStep, HandleInit, HandleStep,
     AskInit, AskStep, PTL DEF Spec

=============================================================================
