------------------------- MODULE EcyStatBleTransport -------------------------
(***************************************************************************)
(* EcyStatBleTransport (components/frost_esp32): blocking transport calls  *)
(* on the application task, completed by callbacks on the NimBLE host      *)
(* task.  The ESP32 has two cores and neither task is bound to one, so the *)
(* steps of the two alternate in any way, and accesses to members that both *)
(* use share a step only where nothing the other task does in between      *)
(* could make a difference.  The application calls the transport as        *)
(* EcyStatController does: connect, discover, reads and writes until the   *)
(* first failure, disconnect.                                              *)
(*                                                                         *)
(* The link, the GATT procedures and the pairing are NimBLE's and the      *)
(* thermostat's: external, modelled from what the callbacks are told.      *)
(* NimBLE reuses connection handles, so a handle is here or absent.        *)
(***************************************************************************)
EXTENDS Naturals, Sequences

CONSTANTS
    MaxSessions,   \* bound: connect() calls of the application
    MaxOps,        \* bound: reads and writes in one session
    Expiring,      \* the operations whose wait may reach its time limit
    Unsolicited    \* the thermostat may ask for encryption by itself

Operations == {"Connect", "Discover", "Read", "Write", "Disconnect"}

ASSUME TransportBounds ==
    /\ MaxSessions \in Nat /\ MaxOps \in Nat
    /\ Expiring \subseteq Operations /\ Unsolicited \in BOOLEAN

VARIABLES
    apc,         \* application task: next step of the call ("idle": none)
    call,        \* the operation being executed
    want,        \* the characteristic a read asks for
    nested,      \* disconnect() was called by connect()
    client,      \* "out", "connected", "ready", or "failed": disconnect() is next
    sessions,    \* connect() calls so far
    ops,         \* reads and writes so far in this session
    pending,     \* pending_operation_
    success,     \* operation_success_
    token,       \* completion_ has been given
    connected,   \* connected_
    discovered,  \* discovered_
    handle,      \* conn_handle_ is not BLE_HS_CONN_HANDLE_NONE
    buffer,      \* the call whose data pending_read_output_ and _length_, or
                 \* pending_write_payload_, point at (the others are null)
    secTried,    \* security_attempted_
    hpc,         \* host task: next step of the callback ("idle": none)
    ev,          \* the event the callback is handling
    held,        \* the call whose output the callback has loaded a pointer to
    link,        \* "down", "connecting", "up", "terminating", "breaking"
    procs,       \* outstanding GATT procedures, answered in order
    securing,    \* a pairing or encryption procedure is in progress
    got,         \* history: the last answer stored for the present call
    writes,      \* history: writes requested in this session
    overlapped,  \* history: GiveUp met a callback past its tests
    abandoned    \* history: connect() failed with a connection still to come

appVars   == <<apc, call, want, nested, client, sessions, ops>>
semVars   == <<pending, success, token>>
flagVars  == <<connected, discovered, handle>>
ioVars    == <<buffer, secTried>>
hostVars  == <<hpc, ev, held>>
worldVars == <<link, procs, securing>>
histVars  == <<got, writes, overlapped, abandoned>>
vars == <<appVars, semVars, flagVars, ioVars, hostVars, worldVars, histVars>>

Characteristics == {"target", "fan"}

QueriesBeyondFan == <<"services", "commandChr", "targetChr", "fanChr", "nameChr">>

(* The queries of discover(), in the order the callbacks chain them. *)
Queries == <<"services", "commandChr", "targetChr", "fanChr">>

(* A GATT procedure: what it asks for, and the writes requested before it. *)
Proc(kind) == [kind |-> kind, stamp |-> writes]

(* The present call, and its own arguments. *)
Owner    == [op |-> call, session |-> sessions, number |-> ops]
NoBuffer == [op |-> "None", session |-> 0, number |-> 0]

NoAnswer == [kind |-> "none", stamp |-> 0]

Event(type, status, proc) ==
    [type |-> type, status |-> status, proc |-> proc,
     ok |-> FALSE, again |-> FALSE]

NoEvent == Event("none", "ok", NoAnswer)

-----------------------------------------------------------------------------
(* The application task. *)

AppKeeps == UNCHANGED <<hostVars, worldVars, histVars>>

CallKeeps == AppKeeps /\ UNCHANGED <<semVars, flagVars, ioVars>>

(* The call returns v to the controller; a nested disconnect() returns to    *)
(* connect().                                                                *)
Return(v) ==
    /\ IF nested
       THEN apc' = "reconnect" /\ call' = "Connect" /\ nested' = FALSE /\ UNCHANGED client
       ELSE /\ apc' = "idle" /\ UNCHANGED <<call, nested>>
            /\ client' = CASE call = "Connect"    -> IF v THEN "connected" ELSE "out"
                           [] call = "Disconnect" -> "out"
                           [] call = "Discover"   -> IF v THEN "ready" ELSE "failed"
                           [] OTHER               -> IF v THEN client ELSE "failed"
    /\ UNCHANGED <<want, sessions, ops>>

Goto(step) == apc' = step /\ UNCHANGED <<call, want, nested, client, sessions, ops>>

(* The controller's next call.  verify_current and apply read after every    *)
(* write and disconnect after the first failure; which characteristics they  *)
(* read, and how often, is left open.                                        *)
Request(o, c, step) ==
    /\ apc = "idle"
    /\ apc' = step /\ call' = o /\ want' = c
    /\ UNCHANGED <<nested, client, semVars, flagVars, ioVars, hostVars, worldVars, overlapped, abandoned>>

Client ==
    \/ /\ client = "out" /\ sessions < MaxSessions
       /\ Request("Connect", want, "connect")
       /\ sessions' = sessions + 1 /\ ops' = 0 /\ writes' = 0 /\ got' = NoAnswer
    \/ /\ client = "connected"
       /\ Request("Discover", want, "enter")
       /\ UNCHANGED <<sessions, ops, got, writes>>
    \/ /\ client = "ready" /\ ops < MaxOps
       /\ \/ \E c \in Characteristics : Request("Read", c, "enter") /\ UNCHANGED writes
          \/ call # "Write" /\ Request("Write", "target", "enter") /\ writes' = writes + 1
       /\ ops' = ops + 1 /\ got' = NoAnswer
       /\ UNCHANGED sessions
    \/ /\ client \in {"ready", "failed"}
       /\ Request("Disconnect", "target", "disconnect")
       /\ got' = NoAnswer /\ UNCHANGED <<sessions, ops, writes>>

(* connect(), up to begin_operation: the handle of a session that is not     *)
(* connected is disconnected first, and only a handle that is then gone lets *)
(* connect() go on.                                                          *)
TestConnected ==
    /\ apc = "connect"
    /\ Goto(IF connected THEN "test" ELSE "handle")
    /\ CallKeeps

TestHandle ==
    /\ apc = "handle"
    /\ \/ /\ handle
          /\ apc' = "disconnect" /\ call' = "Disconnect" /\ nested' = TRUE
          /\ UNCHANGED <<want, client, sessions, ops>>
       \/ ~handle /\ Goto("test")
    /\ CallKeeps

TestReleased ==
    /\ apc = "reconnect"
    /\ IF handle THEN Return(FALSE) ELSE Goto("test")
    /\ CallKeeps

TestReuse ==
    /\ apc = "test"
    /\ IF connected THEN Return(TRUE) ELSE Goto("reset")
    /\ CallKeeps

EnterConnect == TestConnected \/ TestHandle \/ TestReleased \/ TestReuse

(* reset_connection_state(), the last part of disconnect() and the first of  *)
(* a new connection, which may still fail for want of a PIN task or address. *)
ResetFlags ==
    /\ apc = "reset"
    /\ connected' = FALSE /\ discovered' = FALSE /\ Goto("resetHandle")
    /\ AppKeeps /\ UNCHANGED <<handle, semVars, ioVars>>

ResetHandle ==
    /\ apc = "resetHandle"
    /\ handle' = FALSE /\ Goto("resetPending")
    /\ AppKeeps /\ UNCHANGED <<connected, discovered, semVars, ioVars>>

ResetPending ==
    /\ apc = "resetPending"
    /\ pending' = "None" /\ Goto("resetBuffer")
    /\ AppKeeps /\ UNCHANGED <<success, token, flagVars, ioVars>>

ResetBuffer ==
    /\ apc = "resetBuffer"
    /\ buffer' = NoBuffer
    /\ \/ call = "Disconnect" /\ Return(TRUE)
       \/ call = "Connect" /\ (Goto("begin") \/ Return(FALSE))
    /\ AppKeeps /\ UNCHANGED <<semVars, flagVars, secTried>>

reset_connection_state == ResetFlags \/ ResetHandle \/ ResetPending \/ ResetBuffer

(* discover(), read() and write_with_response(), up to begin_operation; the  *)
(* last two leave their arguments in the members.                            *)
EnterGatt ==
    /\ \/ apc = "enter" /\ (IF call = "Discover" THEN ~connected ELSE ~discovered) /\ Return(FALSE)
       \/ apc = "enter" /\ call = "Discover" /\ connected /\ Goto("discovered")
       \/ apc = "enter" /\ call # "Discover" /\ discovered /\ Goto("prepare")
       \/ apc = "discovered" /\ discovered /\ Return(TRUE)
       \/ apc = "discovered" /\ ~discovered /\ Goto("begin")
    /\ CallKeeps

PrepareIO ==
    /\ apc = "prepare"
    /\ buffer' = Owner /\ secTried' = FALSE /\ Goto("begin")
    /\ AppKeeps /\ UNCHANGED <<semVars, flagVars>>

(* disconnect(), up to begin_operation. *)
DisconnectStayingConnected ==
    /\ apc = "disconnect"
    /\ IF handle THEN Goto("begin") ELSE Goto("reset")
    /\ CallKeeps

EnterDisconnect ==
    /\ apc = "disconnect"
    /\ \/ ~handle /\ Goto("reset") /\ UNCHANGED connected
       \/ handle /\ Goto("begin") /\ connected' = FALSE
    /\ AppKeeps /\ UNCHANGED <<semVars, discovered, handle, ioVars>>

(* begin_operation: the guard and the emptied semaphore, the result, the     *)
(* operation.  A callback that completes an operation may run between them.  *)
Begin ==
    /\ apc = "begin"
    /\ \/ pending # "None" /\ Return(FALSE) /\ UNCHANGED token
       \/ pending = "None" /\ Goto("clear") /\ token' = FALSE
    /\ AppKeeps /\ UNCHANGED <<pending, success, flagVars, ioVars>>

BeginClear ==
    /\ apc = "clear"
    /\ success' = FALSE /\ Goto("post")
    /\ AppKeeps /\ UNCHANGED <<pending, token, flagVars, ioVars>>

BeginPost ==
    /\ apc = "post"
    /\ pending' = call
    /\ Goto(IF call \in {"Read", "Write"} THEN "prepareStart" ELSE "start")
    /\ AppKeeps /\ UNCHANGED <<success, token, flagVars, ioVars>>

(* start_pending_read and start_pending_write, up to the NimBLE call. *)
PrepareStart ==
    /\ apc = "prepareStart"
    /\ Goto(IF pending = call /\ buffer = Owner THEN "start" ELSE "refused")
    /\ CallKeeps

(* The present read or write as a GATT procedure. *)
PendingIO == Proc(IF call = "Read" THEN want ELSE "write")

(* The NimBLE call that starts the operation; any of them may be refused. *)
Start ==
    /\ apc = "start"
    /\ \/ /\ call = "Connect" /\ link = "down"
          /\ link' = "connecting" /\ Goto("wait") /\ UNCHANGED procs
       \/ /\ call \in {"Discover", "Read", "Write"} /\ handle /\ link \in {"up", "terminating"}
          /\ procs' = Append(procs, IF call = "Discover" THEN Proc(Queries[1]) ELSE PendingIO)
          /\ Goto("wait") /\ UNCHANGED link
       \/ /\ call = "Disconnect" /\ handle /\ link \in {"up", "breaking"}
          /\ link' = IF link = "up" THEN "terminating" ELSE link
          /\ Goto("wait") /\ UNCHANGED procs
       \/ /\ call = "Disconnect" /\ (~handle \/ link = "down")       \* BLE_HS_ENOTCONN
          /\ Goto("notConnected") /\ UNCHANGED <<link, procs>>
       \/ Goto("refused") /\ UNCHANGED <<link, procs>>
    /\ UNCHANGED <<semVars, flagVars, ioVars, hostVars, securing, histVars>>

(* connect() fails, and NimBLE goes on with the connection or has still to   *)
(* tell how it ended.                                                        *)
Abandons == abandoned' = (abandoned \/ (call = "Connect" /\ (link # "down" \/ ev.type = "connect")))

(* A posted operation is withdrawn by the application.  A callback that has  *)
(* passed its tests goes on as if it were still there (overlapped).          *)
GiveUp ==
    /\ pending' = "None" /\ Abandons
    /\ overlapped' = (overlapped \/ hpc \notin {"idle", "guard", "accept"})
    /\ UNCHANGED <<success, token, flagVars, hostVars, worldVars, got, writes>>

(* The link of a disconnect() was gone already. *)
NotConnected == apc = "notConnected" /\ GiveUp /\ Goto("reset") /\ UNCHANGED ioVars

Refused == apc = "refused" /\ GiveUp /\ Return(FALSE) /\ UNCHANGED ioVars

(* wait_for_operation: the semaphore was given, or the wait reached its time *)
(* limit, and only then is the operation withdrawn.  A connect() that fails  *)
(* cancels the attempt; ConnectResult may still report either outcome.       *)
Wake ==
    /\ apc = "wait" /\ token
    /\ token' = FALSE /\ Goto("woken")
    /\ AppKeeps /\ UNCHANGED <<pending, success, flagVars, ioVars>>

Expire ==
    /\ apc = "wait" /\ ~token /\ call \in Expiring
    /\ Goto("expired")
    /\ CallKeeps

Expired ==
    /\ apc = "expired"
    /\ GiveUp /\ UNCHANGED ioVars
    /\ IF call \in {"Read", "Write"} THEN Goto("failed") ELSE Return(FALSE)

TerminationAssumed == call = "Disconnect"

Terminated == call = "Disconnect" /\ success

Woken ==
    /\ apc = "woken"
    /\ \/ Terminated /\ Goto("reset")
       \/ call = "Connect" /\ success /\ Goto("report")
       \/ call \in {"Read", "Write"} /\ Goto(IF success THEN "done" ELSE "failed")
       \/ call = "Discover" /\ Return(success)
       \/ call \in {"Connect", "Disconnect"} /\ ~Terminated /\ ~success /\ Return(FALSE)
    /\ IF success THEN UNCHANGED abandoned ELSE Abandons
    /\ UNCHANGED <<semVars, flagVars, ioVars, hostVars, worldVars, got, writes, overlapped>>

(* connect() ends with the flag; read() and write_with_response() take their *)
(* arguments out of the members again.                                       *)
ReportConnected ==
    /\ apc = "report"
    /\ Return(connected)
    /\ CallKeeps

ClearIO ==
    /\ apc \in {"done", "failed"}
    /\ buffer' = NoBuffer /\ Return(apc = "done")
    /\ AppKeeps /\ UNCHANGED <<semVars, flagVars, secTried>>

App == \/ EnterConnect \/ EnterGatt \/ PrepareIO \/ EnterDisconnect \/ reset_connection_state
       \/ Begin \/ BeginClear \/ BeginPost \/ PrepareStart \/ Start \/ NotConnected \/ Refused
       \/ Wake \/ Woken \/ ReportConnected \/ ClearIO \/ Expired

-----------------------------------------------------------------------------
(* NimBLE, the link and the thermostat: the events the host task is given.   *)

Deliver(e) == hpc = "idle" /\ hpc' = "guard" /\ ev' = e /\ UNCHANGED held

EventKeeps == UNCHANGED <<appVars, semVars, flagVars, ioVars, histVars>>

ConnectResult ==
    /\ link = "connecting"
    /\ \/ link' = "up"   /\ Deliver(Event("connect", "ok", NoAnswer))
       \/ link' = "down" /\ Deliver(Event("connect", "error", NoAnswer))
    /\ EventKeeps /\ UNCHANGED <<procs, securing>>

(* The oldest procedure ends: answered, refused, refused for want of         *)
(* security, or dropped with the link.                                       *)
Answer ==
    /\ procs # <<>>
    /\ \/ \E status \in {"ok", "error", "secure"} :
             link \in {"up", "terminating"} /\ Deliver(Event("answer", status, Head(procs)))
       \/ link = "breaking" /\ ~securing /\ Deliver(Event("answer", "error", Head(procs)))
    /\ procs' = Tail(procs)
    /\ EventKeeps /\ UNCHANGED <<link, securing>>

EncryptionChange ==
    /\ securing
    /\ \/ link \in {"up", "terminating"} /\ Deliver(Event("encryption", "ok", NoAnswer))
       \/ Deliver(Event("encryption", "error", NoAnswer))
    /\ securing' = FALSE
    /\ EventKeeps /\ UNCHANGED <<link, procs>>

(* PASSKEY_ACTION that cannot be answered, and REPEAT_PAIRING. *)
PairingRefused ==
    /\ securing /\ link \in {"up", "terminating"}
    /\ Deliver(Event("refused", "error", NoAnswer))
    /\ EventKeeps /\ UNCHANGED worldVars

(* A security request of the thermostat: the host encrypts unasked.  Bound:  *)
(* while at most one procedure is outstanding.                               *)
SecurityRequest ==
    /\ Unsolicited /\ link = "up" /\ ~securing /\ hpc = "idle" /\ Len(procs) <= 1
    /\ securing' = TRUE
    /\ EventKeeps /\ UNCHANGED <<hostVars, link, procs>>

(* The link ends: the pairing, then the procedures, then the connection are  *)
(* reported.                                                                 *)
LinkBreaks ==
    /\ link \in {"up", "terminating"} /\ hpc = "idle"
    /\ link' = "breaking"
    /\ EventKeeps /\ UNCHANGED <<hostVars, procs, securing>>

Disconnected ==
    /\ link = "breaking" /\ ~securing /\ procs = <<>>
    /\ link' = "down" /\ Deliver(Event("disconnect", "ok", NoAnswer))
    /\ EventKeeps /\ UNCHANGED <<procs, securing>>

World == \/ ConnectResult \/ Answer \/ EncryptionChange \/ PairingRefused
         \/ SecurityRequest \/ LinkBreaks \/ Disconnected

-----------------------------------------------------------------------------
(* The host task: gap_event, service_discovery_callback,                     *)
(* characteristic_discovery_callback, read_callback and write_callback.      *)

HostKeeps == UNCHANGED <<appVars, writes, overlapped, abandoned>>

Ignore == hpc' = "idle" /\ ev' = NoEvent

(* complete_operation(ok) is next. *)
Complete(ok) == hpc' = "check" /\ ev' = [ev EXCEPT !.ok = ok]

(* The operation a procedure belongs to. *)
OperationOf(proc) ==
    CASE proc.kind \in Characteristics -> "Read"
      [] proc.kind = "write"           -> "Write"
      [] OTHER                         -> "Discover"

AcceptsAnyTime ==
    CASE ev.type = "connect" -> pending = "Connect"
      [] ev.type = "refused" -> TRUE
      [] OTHER               -> handle

(* The tests at the head of each handler: conn_handle_ first, then           *)
(* pending_operation_.                                                       *)
Accepts ==
    CASE ev.type = "connect"                   -> pending = "Connect"
      [] ev.type = "answer" /\ hpc = "accept" -> pending = OperationOf(ev.proc)
      [] ev.type = "refused"                   -> TRUE
      [] OTHER                                 -> handle

(* A connection that nobody waits for any more is terminated. *)
KeepUnwanted == UNCHANGED link

TerminateUnwanted == link' = IF link = "up" THEN "terminating" ELSE link

Guard ==
    /\ hpc \in {"guard", "accept"}
    /\ \/ /\ ev.type = "connect" /\ ev.status = "error"
          /\ Complete(FALSE) /\ UNCHANGED link
       \/ /\ ~(ev.type = "connect" /\ ev.status = "error") /\ Accepts
          /\ hpc' = (IF ev.type = "answer" /\ hpc = "guard" THEN "accept" ELSE "effect")
          /\ UNCHANGED <<ev, link>>
       \/ /\ ev.type = "connect" /\ ev.status = "ok" /\ ~Accepts
          /\ TerminateUnwanted /\ Ignore
       \/ /\ ev.type # "connect" /\ ~Accepts
          /\ Ignore /\ UNCHANGED link
    /\ HostKeeps /\ UNCHANGED <<semVars, flagVars, ioVars, held, procs, securing, got>>

(* A procedure started from a callback; the call may be refused. *)
StartOrFail(proc) ==
    \/ /\ handle /\ link \in {"up", "terminating"}
       /\ procs' = Append(procs, proc) /\ Ignore
    \/ UNCHANGED procs /\ Complete(FALSE)

(* The connection succeeded: the handle is stored, then the flag. *)
ConnectedEffect ==
    /\ ev.type = "connect"
    /\ handle' = TRUE /\ hpc' = "recorded"
    /\ UNCHANGED <<connected, discovered, ev, secTried, procs, securing, got>>

Recorded ==
    /\ hpc = "recorded"
    /\ connected' = TRUE /\ Complete(TRUE)
    /\ HostKeeps /\ UNCHANGED <<discovered, handle, semVars, ioVars, held, worldVars, got>>

(* One query of discover() ended: the next one, the end, or a characteristic *)
(* that is missing.                                                          *)
DiscoveryEffect ==
    /\ ev.type = "answer" /\ OperationOf(ev.proc) = "Discover"
    /\ \/ \E i \in 1 .. Len(Queries) - 1 :
            /\ ev.status = "ok" /\ ev.proc.kind = Queries[i]
            /\ StartOrFail(Proc(Queries[i + 1])) /\ UNCHANGED discovered
       \/ /\ ev.status = "ok" /\ ev.proc.kind = Queries[Len(Queries)]
          /\ discovered' = TRUE /\ Complete(TRUE) /\ UNCHANGED procs
       \/ Complete(FALSE) /\ UNCHANGED <<discovered, procs>>
    /\ UNCHANGED <<connected, handle, secTried, securing, got>>

(* begin_security_if_required: TRUE leaves the operation pending until the   *)
(* encryption changes; a refused request completes it here and again in the  *)
(* caller.                                                                   *)
SecurityRefusalLost ==
    /\ secTried' = TRUE /\ Ignore
    /\ IF securing \/ (handle /\ link = "up")
       THEN securing' \in {securing, TRUE} ELSE UNCHANGED securing

SecurityEffect ==
    /\ secTried' = TRUE
    /\ \/ /\ handle /\ (securing \/ link = "up")
          /\ securing' = TRUE /\ Ignore
       \/ /\ ~(handle /\ securing)
          /\ hpc' = "check" /\ ev' = [ev EXCEPT !.ok = FALSE, !.again = TRUE]
          /\ UNCHANGED securing

AnswerEffect ==
    /\ ev.type = "answer" /\ OperationOf(ev.proc) # "Discover"
    /\ \/ /\ ev.status = "ok" /\ ev.proc.kind = "write"
          /\ got' = ev.proc /\ Complete(TRUE) /\ UNCHANGED <<secTried, securing>>
       \/ /\ ev.status = "ok" /\ ev.proc.kind # "write" /\ buffer.op = "Read"
          /\ hpc' = "load" /\ UNCHANGED <<ev, got, secTried, securing>>
       \/ /\ ev.status = "secure" /\ ~secTried
          /\ SecurityEffect /\ UNCHANGED got
       \/ /\ \/ ev.status = "error"
             \/ ev.status = "secure" /\ secTried
             \/ ev.status = "ok" /\ ev.proc.kind # "write" /\ buffer.op # "Read"
          /\ Complete(FALSE) /\ UNCHANGED <<got, secTried, securing>>
    /\ UNCHANGED <<flagVars, procs>>

(* Encryption is on: a read or a write that waits for it is sent again, by   *)
(* retry_pending_io, start_pending_read and start_pending_write.             *)
EncryptionEffect ==
    /\ ev.type = "encryption"
    /\ \/ ev.status = "ok" /\ pending \in {"Read", "Write"} /\ hpc' = "retry" /\ UNCHANGED ev
       \/ ev.status = "ok" /\ pending \notin {"Read", "Write"} /\ Ignore
       \/ ev.status = "error" /\ Complete(FALSE)
    /\ UNCHANGED <<flagVars, secTried, procs, securing, got>>

Retry ==
    /\ \/ /\ hpc = "retry"
          /\ hpc' = "retest"
          /\ ev' = [ev EXCEPT !.proc = Proc(IF pending = "Read" THEN want ELSE "write")]
       \/ /\ hpc = "retest"
          /\ IF pending = OperationOf(ev.proc) /\ buffer.op = OperationOf(ev.proc)
             THEN hpc' = "resend" /\ UNCHANGED ev
             ELSE Complete(FALSE)
    /\ HostKeeps /\ UNCHANGED <<semVars, flagVars, ioVars, held, worldVars, got>>

Resend ==
    /\ hpc = "resend"
    /\ StartOrFail(Proc(ev.proc.kind))
    /\ HostKeeps /\ UNCHANGED <<semVars, flagVars, ioVars, held, link, securing, got>>

(* The end of the link: the flags, the handle, and whether somebody waits;   *)
(* only disconnect() waits for this.                                         *)
DisconnectedEffect ==
    /\ ev.type = "disconnect"
    /\ connected' = FALSE /\ discovered' = FALSE /\ hpc' = "forget"
    /\ UNCHANGED <<handle, ev, secTried, procs, securing, got>>

KeepHandle == hpc = "forget" /\ UNCHANGED handle

ForgetHandle == hpc = "forget" /\ handle' = FALSE

Forget ==
    /\ ForgetHandle /\ hpc' = "ended"
    /\ HostKeeps /\ UNCHANGED <<connected, discovered, ev, semVars, ioVars, held, worldVars, got>>

Ended ==
    /\ \/ hpc = "ended" /\ pending = "None" /\ Ignore
       \/ hpc = "ended" /\ pending # "None" /\ hpc' = "outcome" /\ UNCHANGED ev
       \/ hpc = "outcome" /\ Complete(pending = "Disconnect")
    /\ HostKeeps /\ UNCHANGED <<semVars, flagVars, ioVars, held, worldVars, got>>

Effect ==
    /\ hpc = "effect"
    /\ \/ ConnectedEffect \/ DiscoveryEffect \/ AnswerEffect
       \/ EncryptionEffect \/ DisconnectedEffect
       \/ /\ ev.type = "refused" /\ Complete(FALSE)
          /\ UNCHANGED <<flagVars, secTried, procs, securing, got>>
    /\ HostKeeps /\ UNCHANGED <<semVars, buffer, held, link>>

(* The output was tested; it is loaded again, and written through, and so    *)
(* is the length after it.  A store through a pointer that is not the        *)
(* present call's leaves the present call without its answer.                *)
Load ==
    /\ hpc \in {"load", "loadLength"}
    /\ held' = buffer
    /\ hpc' = IF hpc = "load" THEN "copy" ELSE "store"
    /\ HostKeeps /\ UNCHANGED <<ev, semVars, flagVars, ioVars, worldVars, got>>

Copy ==
    /\ hpc = "copy"
    /\ \/ /\ got' = IF held = Owner THEN ev.proc ELSE got
          /\ hpc' = "loadLength" /\ UNCHANGED ev
       \/ UNCHANGED got /\ Complete(FALSE)
    /\ held' = NoBuffer
    /\ HostKeeps /\ UNCHANGED <<semVars, flagVars, ioVars, worldVars>>

StoreLength ==
    /\ hpc = "store"
    /\ Complete(TRUE) /\ held' = NoBuffer
    /\ HostKeeps /\ UNCHANGED <<semVars, flagVars, ioVars, worldVars, got>>

(* complete_operation, one shared member at a time. *)
AfterComplete ==
    IF ev.again THEN hpc' = "check" /\ ev' = [ev EXCEPT !.again = FALSE] ELSE Ignore

CompletePending ==
    /\ \/ hpc = "check" /\ pending = "None" /\ AfterComplete /\ UNCHANGED semVars
       \/ hpc = "check" /\ pending # "None" /\ hpc' = "set" /\ UNCHANGED <<ev, semVars>>
       \/ hpc = "set" /\ success' = ev.ok /\ hpc' = "withdraw" /\ UNCHANGED <<ev, pending, token>>
       \/ hpc = "withdraw" /\ pending' = "None" /\ hpc' = "give" /\ UNCHANGED <<ev, success, token>>
       \/ hpc = "give" /\ token' = TRUE /\ AfterComplete /\ UNCHANGED <<pending, success>>
    /\ HostKeeps /\ UNCHANGED <<flagVars, ioVars, held, worldVars, got>>

Host == \/ Guard \/ Effect \/ Recorded \/ Retry \/ Resend \/ Forget \/ Ended
        \/ Load \/ Copy \/ StoreLength \/ CompletePending

-----------------------------------------------------------------------------
Init ==
    /\ apc = "idle" /\ call = "Disconnect" /\ want = "target" /\ nested = FALSE
    /\ client = "out" /\ sessions = 0 /\ ops = 0
    /\ pending = "None" /\ success = FALSE /\ token = FALSE
    /\ connected = FALSE /\ discovered = FALSE /\ handle = FALSE
    /\ buffer = NoBuffer /\ secTried = FALSE
    /\ hpc = "idle" /\ ev = NoEvent /\ held = NoBuffer
    /\ link = "down" /\ procs = <<>> /\ securing = FALSE
    /\ got = NoAnswer /\ writes = 0 /\ overlapped = FALSE /\ abandoned = FALSE

Next == Client \/ App \/ Expire \/ Host \/ World

Spec == Init /\ [][Next]_vars

(* Both tasks run, and NimBLE ends what it has begun: connection attempts,   *)
(* procedures, pairings and terminations have time limits in the stack, and  *)
(* its event queue is first in, first out, so none of their ends is passed   *)
(* over for ever (strong fairness).  No wait has to reach its time limit.    *)
EndTermination == link \in {"terminating", "breaking"} /\ (LinkBreaks \/ Disconnected)

FairSpec ==
    /\ Spec
    /\ WF_vars(App) /\ WF_vars(Host)
    /\ SF_vars(ConnectResult) /\ SF_vars(Answer) /\ SF_vars(EncryptionChange)
    /\ SF_vars(EndTermination)

-----------------------------------------------------------------------------
(* Every variable has its type. *)
Procs == [kind : Characteristics \union {"services", "commandChr", "targetChr", "fanChr", "write", "none"},
          stamp : 0 .. MaxOps]

Buffers == [op : {"Read", "Write", "None"}, session : 0 .. MaxSessions, number : 0 .. MaxOps]

TypeOK ==
    /\ apc \in {"idle", "connect", "handle", "reconnect", "test", "reset", "resetHandle",
                "resetPending", "resetBuffer", "enter", "discovered", "prepare", "disconnect", "begin", "clear",
                "post", "prepareStart", "start", "notConnected", "refused", "wait", "woken",
                "report", "done", "failed", "expired"}
    /\ call \in Operations /\ want \in Characteristics /\ nested \in BOOLEAN
    /\ client \in {"out", "connected", "ready", "failed"}
    /\ sessions \in 0 .. MaxSessions /\ ops \in 0 .. MaxOps
    /\ pending \in Operations \union {"None"} /\ success \in BOOLEAN /\ token \in BOOLEAN
    /\ {connected, discovered, handle, secTried, securing} \subseteq BOOLEAN
    /\ {buffer, held} \subseteq Buffers
    /\ hpc \in {"idle", "guard", "accept", "effect", "recorded", "retry", "retest", "resend", "forget", "ended",
                "outcome", "load", "copy", "loadLength", "store", "check", "set", "withdraw", "give"}
    /\ ev \in [type : {"none", "connect", "answer", "encryption", "refused", "disconnect"},
               status : {"ok", "error", "secure"}, proc : Procs,
               ok : BOOLEAN, again : BOOLEAN]
    /\ link \in {"down", "connecting", "up", "terminating", "breaking"}
    /\ procs \in Seq(Procs)
    /\ got \in Procs /\ writes \in 0 .. MaxOps /\ overlapped \in BOOLEAN /\ abandoned \in BOOLEAN

(* A call that reports success got an answer of its own time, whatever the   *)
(* two tasks do: a write was acknowledged after it was requested, and what a *)
(* read stored was asked for after every write of the session.  It may be an *)
(* answer of the other characteristic (a read repeated after an encryption   *)
(* is answered twice); its length then fails the codec's check.              *)
AnswersBelong ==
    apc = "done" =>
        /\ call = "Write" => got = [kind |-> "write", stamp |-> writes]
        /\ call = "Read"  => got.kind \in Characteristics /\ got.stamp = writes

(* "Never reuse a session whose asynchronous termination has not completed": *)
(* unless a call has been given up over a running callback, a session that   *)
(* connect() may hand to the controller again has a link that nobody asked   *)
(* to terminate, and that is up or whose end is being reported.              *)
NeverReused ==
    ~overlapped /\ connected =>
        \/ link \in {"up", "breaking"}
        \/ ev.type = "disconnect" /\ hpc \in {"guard", "effect"}

(* Moreover no connection is asked for before the previous link is gone,     *)
(* unless a call has been given up over a running callback, or a connect()   *)
(* over a connection that was still being made.                              *)
TerminatedBeforeConnect ==
    ~overlapped /\ ~abandoned /\ apc = "start" /\ call = "Connect" =>
        link \notin {"terminating", "breaking"}

(* Unless a call has been given up over a running callback, a callback that  *)
(* stores an answer or its length does it through the pointers of the read() *)
(* that is being executed, and they are still its own.                       *)
BufferOwned ==
    ~overlapped /\ hpc \in {"copy", "store"} =>
        /\ held = Owner /\ buffer = Owner
        /\ call = "Read" /\ apc \in {"prepareStart", "start", "refused", "wait", "woken", "expired"}

(* Unless a call has been given up over a running callback, a link that is   *)
(* up is known to the transport, or a callback is about to record or         *)
(* terminate it: no session is left open that nothing can close.             *)
NoOrphanLink ==
    ~overlapped /\ link = "up" =>
        handle \/ (ev.type = "connect" /\ hpc \in {"guard", "effect"})

(* No wake-up is lost: when NimBLE ends what it began, every call returns    *)
(* without the help of a time limit.                                         *)
EveryCallReturns == apc # "idle" ~> apc = "idle"

(* A link being terminated is gone in the end, and the handle that blocks a  *)
(* new connection with it.                                                   *)
BlockedHandleClears == link = "terminating" ~> ~handle
=============================================================================
