# Frost ECY-STAT: specifications, checks and proofs

TLA+ specifications of the Frost ECY-STAT library and its examples, the TLC
configurations that check them on small instances, and proofs checked by TLAPS
for every value of the constants. Paths are relative to the repository.

## 1. The system

| Component | Source | State it keeps | Operations | Module |
| --- | --- | --- | --- | --- |
| Controller | `components/frost/src/ecy_stat_controller.cpp` | none between calls; inside a call: the result so far, the poll index | `verify_current`, `ensure_applied`, `apply` | `EcyStatController` |
| Codec | `components/frost/src/ecy_stat_codec.cpp` | none | encode two commands, decode two readbacks | its verdicts in `EcyStatController` |
| BLE transport | `components/frost_esp32/src/ecy_stat_ble_transport.cpp` | pending operation, its result, a binary semaphore, connected / discovered flags, connection and value handles, buffers of the pending read or write | `connect`, `discover`, `read`, `write_with_response`, `disconnect`; NimBLE callbacks | `EcyStatBleTransport` |
| PIN input task | same file, lines 52-85 | the connection that asks for a PIN (atomic); digits, invalid, its copy of the connection | reads keys, submits the PIN | `PinInput` |
| BLE session, scan | `components/frost_esp32/src/esp32_session.cpp` | `ready`, scan buffer and semaphore | start, ready, scan | `Commissioning` |
| Selected peer store | same file, lines 72-90 | an NVS blob | load, save | `Commissioning` |
| Commissioning | `examples/commission/main/main.cpp` | none | one linear run: select, pair, read, save | `Commissioning` |
| Schedule runner | `examples/scheduler/main/schedule.cpp` | `valid_`, `applied_`, last applied entry and day | constructor, `tick` | `ScheduleRunner` |
| Schedule applier | `examples/scheduler/main/controller_schedule_applier.hpp` | last result (for the log) | `ensure_applied` | `ScheduledControl` |
| Clock | `examples/scheduler/main/clock.cpp` | `initialized_`, `synchronized_`, time zone set | `initialize`, `read` | `SntpNetworkTimeSource`, `CivilDay`, `ProductionBoot` |
| SNTP backend | `examples/scheduler/main/esp_sntp_backend.cpp` | registration and initialisation flags, callback | five calls, two event handlers | `SntpNetworkTimeSource` |
| Boot clock | `examples/scheduler/main/boot_clock.cpp` | start-up state, start of the time-out | `tick`, readiness marks | `BootClock` |
| Event bridge | `examples/scheduler/main/esp_boot_clock_event_bridge.cpp` | two masks of registered handlers, callback | register, unregister, signals | `EventBridge` |
| Boot loop | `examples/scheduler/main/production_boot.cpp` | two timers, flags of the runtime task | start-up, one loop | `ProductionBoot` |

How they interact. The boot loop, one FreeRTOS task, ticks the boot clock and,
once the clock is trusted, the schedule runner. The runner selects an entry and
calls the applier, which calls `ensure_applied`; that call blocks the task while
the controller makes a sequence of blocking transport calls. Each transport call
starts a NimBLE procedure and waits on a semaphore, with a time limit. The NimBLE
host task runs the callbacks that store the answer and give the semaphore. The
ESP event loop, a third task, delivers Wi-Fi, IP and SNTP events. The thermostat
is a fourth actor: it applies, clamps, delays or ignores commands, drops the
link, asks for encryption, and is turned by hand. The commissioning example has
the setup task, the NimBLE host, the PIN input task and a user at the console.

What is hard in it:

* **Two commands that nothing makes atomic.** The target is written and verified,
  then the fan; the fan takes seconds, and the target may change meanwhile.
  Any call may fail in between.
* **Evidence that grows old.** `ensure_applied` closes one session, decides, and
  opens another one.
* **Two tasks, plain members.** The transport's application side and its
  callbacks share members without a lock; waits expire at the same time as late
  answers arrive; a security procedure repeats requests by itself.
* **Asynchronous termination.** `disconnect` may give up before the link is gone.
* **Time.** Civil days, the last entry of yesterday, clock corrections in both
  directions, time that passes while an application blocks, restarts.
* **Start-up.** Wrapped 32-bit milliseconds, rollback of partly done
  registrations, events of other tasks between two steps of an initialisation.
* **A request for a PIN** that ends, is dropped or is repeated while the user is
  typing; power failures between pairing and the commit of the selection.

What makes each component correct:

* controller: `Verified` is only said of samples taken after the last command;
  no write without evidence; order of commands; honest field reports; every
  session closed; every call returns.
* transport: success of a read or write is never taken from an answer to an older
  request; no lost wake-up. And, as long as no call is given up while a callback
  is in the middle of its work: a link being terminated is neither reused nor
  raced by a new connection, no link is left open that nothing can close, and no
  answer is stored into a buffer that its owner has left.
* runner: the event in force is selected, over midnight of every civil day too;
  it is applied once, and in the end; nothing is recorded that was not verified.
* SNTP source and boot clock: a failed initialisation gives everything back; no
  synchronisation is lost to the other task; the time-out is right across the
  wrap of the counter and does not withhold a late synchronisation.
* event bridge: bridge, adapter and ESP-IDF agree on the registered handlers,
  whatever was refused; the network's readiness is right after the last event.
* boot loop: no untrusted time is used; its two intervals are kept through the
  wrap; loss of the network stops neither the schedule nor reconnection.
* commissioning: a selected identity is that of a peer that was paired with by its
  PIN and read; the handle of a request for a PIN is handed over once, and a user
  who types on gets the PIN in.

## 2. Modules

    ApplyContract             what a caller of the controller may rely on (abstract)
    EcyStatController         the controller; implements ApplyContract
    EcyStatBleTransport       the BLE transport on its two tasks
    CivilDay                  the clock's number of a civil day, and the calendar
    ScheduleRunner            the schedule runner; extends CivilDay
    ScheduledControl          runner, applier, controller, thermostat; implements ScheduleRunner
    TrustedClock              what the boot loop may rely on (abstract)
    SntpNetworkTimeSource     the time source, the SNTP backend, the event loop
    BootClock                 the coordinator over the source; implements TrustedClock
    EventBridge               event bridge and registry adapter, with the Wi-Fi station
    ProductionBoot            the boot loop over TrustedClock
    PinInput                  the PIN input task, its user, and pairing
    Commissioning             setup task, session, scan, store; extends PinInput
    *_proofs                  theorems about the module of that name (and, in
                              ScheduleRunner_proofs, about CivilDay)

The configurations instantiate these modules directly: every constant is a
number, a Boolean, a set of model values or a set of strings, and needs no
module of definitions. Operators that differ from one of the code by a single
slip (`ReachedStrictly`, `ForgetRefused`, `ElapsedUnwrapped`, ...) are the
mutations listed in `PROJECT.json`; no specification uses them.

### EcyStatController

`pc` is the next transport call. There is one action per call, with the code
that runs from its return to the next call: `Connect`, `Discover`, then
`ReadTarget`, `ReadFan` (`verify_current`) or `WriteTarget`, `ConfirmTarget`,
`WriteFan`, `PollFan`, `RecheckTarget` (`apply`), and `Disconnect`, which is the
lambda `finish` and the return. `Call` is the entry of the three methods with
their refusal of states that cannot be encoded; `MustApply` in `Disconnect` is
the decision of `ensure_applied` between its two halves. `phase` tells which half
runs.

Temperatures are members of a set `Temps` of finite floats; equality is the code's
exact comparison. A read gives the thermostat's present value, `Malformed` (the
codec refuses it: wrong length, unknown pattern, not finite) or `Lost` (the
transport failed). The readback values inside the result are left out: no
decision uses them after the comparison that set the status.

The thermostat is external. A target command may be applied, clamped or ignored,
whether or not its response arrives (`SendTargetCommand`); a fan command is taken
up or not (`SendFanCommand`) and shown later (`Converge`); a person may change
either field between any two calls (`ManualChange`).

`sent`, `seen` and `fresh` are history variables: the commands of this call, the
last sample of each field since its own last command, and the fields sampled since
the last command (after a fan command: since the last fan sample). No action
reads them in a guard.

### ApplyContract

The abstract specification: a call begins or is refused, may send Target, then
may send Fan, and returns a status that `Allowed` relates to what was sent: nothing
sent means no partial failure, both sent means `Verified` or `PartialFailure`,
only Target sent means `Failed`. `EcyStatController` implements it with
`busy <- pc # "idle"` and `status` visible once the call has returned.

### EcyStatBleTransport

The application task (`apc`) and the NimBLE host task (`hpc`) each have a program
counter, and their steps alternate in any way: the ESP32 has two cores and both
tasks are created without an affinity. The members they share are read and written
in steps of their own, in the order of the code. `TestConnected`, `TestHandle`,
`TestReleased` and `TestReuse` are the tests of `connect`; `ResetFlags`,
`ResetHandle`, `ResetPending` and `ResetBuffer` are `reset_connection_state`;
`Begin`, `BeginClear` and `BeginPost` are `begin_operation`; `Wake`/`Woken` and
`Expire`/`Expired` are the two ends of `wait_for_operation`. Of a callback,
`Guard` is the tests at its head, one for `conn_handle_` and one for
`pending_operation_`; `Effect` is what follows them; `ConnectedEffect` and
`Recorded` are the two stores of a connection, `DisconnectedEffect`, `Forget` and
`Ended` those of its end; `Load`, `Copy` and `StoreLength` load the output once more
than it was tested, copy through what was loaded, and do the same with the length;
`Retry` and `Resend` repeat a request; `CompletePending` is `complete_operation`.

What shares a step still: `connected_` and `discovered_` where both are cleared (no
test depends on both of them), and the members that describe the data of a read or a
write, which are set together before `begin_operation` and cleared together
(`buffer` names the call they belong to; a callback tests them all before it uses
one, and loads output and length again in steps of their own). A load that only
feeds a NimBLE call shares the step of that call, which may be refused in any case.

Two history variables name what goes wrong when a call is given up. `overlapped`:
an operation was withdrawn by the application (its wait expired, its start was
refused, or the link of a `disconnect` was gone already) while a callback had passed
its tests. The code has no guard against that: the callback goes on as if the
operation were still there. `abandoned`: a `connect` failed while NimBLE went on
with its connection or had still to report how it ended. Four safety properties are
stated relative to these; see What TLC showed for what happens otherwise.

`Client` is the controller as the transport sees it: connect, discover, then
reads and writes in any order the controller could use (never two writes without
a read between them), disconnect after the first failure or at any time.

NimBLE and the air are external: `link` (with `terminating` and `breaking`, for
a termination that was requested and a link that is gone but not yet reported),
`procs` (outstanding GATT procedures, answered first in first out), `securing`.
Handles are here or absent: NimBLE reuses handles, so two connections may carry
the same one and the tests on `conn_handle_` cannot tell them apart.

`got` and `writes` are history, too: which request the answer stored last belonged
to, and how many writes had been requested before it.

### CivilDay, ScheduleRunner

`Ordinal` is the arithmetic of `clock.cpp` on the fields of a `std::tm`: years that
begin in March, the division that truncates, the lengths of months as
`(153 m + 2) / 5`. `NextDay` is the reference: the calendar, told by leap years and
lengths of months alone.

`TickStart` is `tick()` up to the blocking call, `ApplySucceeds` and `ApplyFails`
are its two returns; while `ticking`, minutes pass, the clock is corrected and the
power may fail (`Restart`, a fresh runner on the same schedule). `Select`
translates the loop. `InForce` is the reference it is checked against: the latest
boundary (an entry on a day) that has begun, stated by order on time without the
loop. A tick whose clock is not ready, or that finds the event applied already,
changes nothing and is a stutter.

`verified`, `due` and `done` are history: the state verified last, the boundary
in force when the tick read the clock, and the boundaries verified since the last
restart or backward correction.

### ScheduledControl

`EcyStatController` and `ScheduleRunner` are instantiated on variables of this
module. `StartTick` joins `tick()` with the entry of `ensure_applied`;
`TickReturns` is the way back through the applier (`Success`) into the runner's
record. A restart may fall between any two transport calls and leaves a command
under way applied or not. `verified` is here what the controller actually sampled
from the thermostat, so that `ImplementsRunner` says more than that control flow
matches: an event is recorded only when the thermostat was read in its state.

### SntpNetworkTimeSource, BootClock, TrustedClock

`ipc` walks through `initialize()` and, after a refusal, through its rollback, one
ESP-IDF call per step, each of which may be refused if it is in `Refusable`.
`StoreInitialized` is a step of its own: the answer of a time server may come
before `initialized_` is stored. On the event loop, `Dispatch` takes an event and
tests that handler and callback are there, and `OnSynchronized` or
`OnNetworkReady` is the rest of the handler. ESP-IDF's event loop holds a recursive
mutex while a handler runs, and its register and unregister calls take it: hence
`Unlocked`.

`BootClock` extends this with `tick()`: `TickBegin` up to `initialize()`,
`InitializeReturns`, `CheckSynchronized` and `Measure` (the clock is read after the
flag). Prerequisites change, time passes and events are handled between any two
of these. `waited` is history, the true time since `startedMs`, whereas `nowMs`
wraps at `Word`. `TrustedClock` has only the report and whether a server has
answered in this boot; Ready needs the answer and stays, failure stays, a time-out
does not.

### EventBridge

`Register`, `Add`, `Adopt` are `register_handlers()` with its loop: ESP-IDF accepts,
then adapter and bridge write it down, so that an event may be dispatched between
the two. `BeginUnregister`, `Remove`, `Drop` are `unregister_handlers()`, called as
itself or as the rollback of a failed registration. The masks are sets of signals.
`station` is what the Wi-Fi driver knows and posts; `StartWifi` follows a complete
registration, as in the boot task. `watched` is history: no handler has been
removed since Wi-Fi was started.

### ProductionBoot

`phase` goes through the start-up, each step of which may end the task, and then
through the loop: `BeginPass` reads clock and network once, `Connect`/`Requested`
is the reconnection, `CoordinatorTick` a step of `TrustedClock`,
`ClockRead`/`ClockUnavailable` the reading of the local time and the start of the
BLE session, `RunSchedule`/`SkipSchedule`/`TickReturns` the schedule, `Delay` the
end of a pass. Time passes at every phase; the station, the time server and the
NimBLE host act whenever they like. `connectAge` and `scheduleAge` are history, the
true time since the two timers were set.

### PinInput, Commissioning

The PIN input task is `LoadPending` (its copy of the shared handle; a change of it
resets the line), `Read...` (what a key does) and `Inject`. The shared handle is
taken by `compare_exchange` in `ReadEnter`. `taken` is history: the request whose
handle the task has taken and not yet used, and `own` and `held` count the lines
given to the present request, those typed under its own handle and those that were
held over from an earlier one. The user types the PIN and Enter over and
over, and `WrongKey` is a digit left out, doubled or wrong, another key, or Enter
too early. The value is reduced to whether it begins like the PIN.

`Commissioning` adds one action per call of the setup task, from `LoadPeer` to
`Disconnect`, the scan with its callback, security (`Secure`, `Paired`), the two
halves of `save_selected_peer` (`SetPeer`, `Commit`), and `Reboot`, which may come
anywhere: NVS keeps the keys, and may or may not keep what was set without a
commit. The transport's methods are reduced to what they promise. `bonded` is the
flag of the live link that `paired_identity` reads, `keys` what NimBLE's store has
for each peer: a pairing may end without bonding, and a bond may be made whose key
is not stored (the store is full, or NVS fails), which the link does not show.

## 3. Runs

| Run | Configuration | Question | Distinct states |
| --- | --- | --- | --- |
| `controller` | `EcyStatController.cfg` | safety of the controller, refinement of `ApplyContract`, every call returns | 20,572 |
| `transport_tasks` | `EcyStatBleTransport.cfg` | links and handles over three sessions, the two tasks alternating | 1,711,250 |
| `transport_answers` | `EcyStatBleTransportAnswers.cfg` | whose answer is stored, and where, over two sessions of two operations | 2,128,260 |
| `transport_liveness` | `EcyStatBleTransportLive.cfg` | no lost wake-up, handles are released | 102,242 |
| `schedule` | `ScheduleRunner.cfg` | selection, midnight, once per event, in the end | 29,889 |
| `scheduled_control` | `ScheduledControl.cfg` | runner, applier, controller and thermostat implement the runner | 799,400 |
| `event_bridge` | `EventBridge.cfg` | registration and rollback under refusals, readiness | 75,624 |
| `boot_clock` | `BootClock.cfg` | rollback, synchronisation, time-out, refinement of `TrustedClock` | 69,960 |
| `production_boot` | `ProductionBoot.cfg` | trusted time only, pace, network loss | 193,040 |
| `commissioning` | `Commissioning.cfg` | selection and pairing over power failures, the PIN | 657,035 |
| `sntp_handler` | `BootClockHandlers.cfg` | violated: no address handler outlives the service | |
| `commissioning_replaces` | `CommissioningReplaces.cfg` | violated: a selected peer is never replaced | |

Each property carries a comment in its module that says which behaviour of the
code it is about. `PROJECT.json` lists for each a mutation of the code that breaks
it.

### Bounds

* Controller: two finite temperatures (equal or different is all the code can
  tell) and one that cannot be encoded; both fan modes and a value that is
  neither. Calls follow each other without bound. The proofs remove the bound on
  temperatures.
* Transport: every operation may expire and encryption may come unasked in both
  safety runs. `transport_tasks` has three sessions of one operation, so that a
  late event of the first can meet the nested `disconnect` of the second and the
  `connect` of the third; `transport_answers` two sessions of two operations, so
  that a write can be crossed by the answer of a read before it, and that of a
  session by the answer of the one before. All six invariants of the two runs were
  also checked together at both bounds, and at three sessions of two operations
  (4,800,638 states), two of three (4,393,768) and five of one (5,430,395), in runs
  too long to keep. `SecurityRequest` only while at most one
  procedure is outstanding.
* Transport, liveness: two sessions of one operation, without unsolicited
  encryption.
* Schedule: a day of three minutes and two entries contains every case of the
  loop (before the first entry, on it, between, on the last minute, one entry
  only, none); three days contain the day before the first and the change of day
  twice. `Entries` ranges over all lists, valid or not. `Years` = {1900, 2000}
  holds a century that is no leap year and one that is, and the turn of an era;
  other years are covered by the proof.
* Scheduled control: one finite temperature, so that states differ in the fan,
  two minutes to a day and two days. The clock may be set to any of the four
  minutes between any two transport calls. The controller has its own run for
  temperatures, and the runner its own for schedules.
* Event bridge: three events posted and not yet handled (`MaxQueue`), all three
  kinds at once; every registration and removal may be refused, any number of
  times.
* Boot clock: a counter of five values and a time-out of two: the time-out may
  begin anywhere and lie across the wrap, and leaves room for a reading that is
  late but less than a turn. Two events in the queue, so that one may overtake the
  other's handler. Every ESP-IDF call may be refused.
* Boot loop: five values of the counter, an interval of two, passes of up to two.
  `Interval + MaxPass <= Word` is the assumption that one pass is shorter than
  what is left of a turn of 2^32 ms, 49.7 days.
* Commissioning: two boots, since the second meets what the first left in NVS;
  two peers; PINs of one digit, the least that can be left out, doubled or wrong; one
  wrong key, two requests per boot, so that a line begun or held for one request may
  meet the next. With PINs of two digits the run passes, too, in 1.0 million states.

`CHECK_DEADLOCK FALSE` is set where the program really stops: the transport's
application after `MaxSessions` sessions, and the setup task at its end.

### Fairness

* Controller: weak fairness of `Step`. Each method of `BleTransport` returns (in the
  BLE transport every wait has a limit). Nobody has to call, and the thermostat
  has to do nothing.
* Transport: weak fairness of the two tasks; strong fairness of the ends of
  connection attempts, GATT procedures, pairing and termination: they have time
  limits in NimBLE and its event queue is first in first out. Strong, because
  other events may come first again and again. The application's waits may reach
  their time limits in this run, but `Expire` has no fairness: the wake-up must come
  from the callbacks, also after an earlier call was given up.
* Schedule: strong fairness of `TickStart` and of `ApplySucceeds`: the runtime
  loop ticks for ever, and an application that is attempted again and again, with
  failures and restarts between, succeeds once. Without the second assumption a
  thermostat out of range refutes the property, and no code can help.
* Boot clock: weak fairness of `Tick` and of the event loop; strong fairness of the
  steps of `initialize()`, which wait for a lock that the event loop takes and
  leaves for ever, and of the server's answer, which has to come only for a service
  that is asked.
* Boot loop: weak fairness of the passes and of time; strong fairness of
  `ClockRead`: `setenv` is tried in every pass and succeeds once. The network, the
  server and the NimBLE host have to do nothing; `NetworkLossHarmless` assumes in
  its own text that the BLE host is in sync for good from some time on.
* Commissioning: weak fairness of the input task and strong fairness of the user's
  right keys (the task may find no key any number of times between two). The setup
  task has to do nothing.

### What TLC showed

The ten runs above pass. Two statements of the repository are not what the code
does:

* `sntp_handler`: the stub of `tests/esp_sntp_backend_test.cpp`:67 asserts that no
  IP callback outlives the SNTP configuration. `deinitialize_sntp`
  (`esp_sntp_backend.cpp`:88) ignores a refusal of `esp_event_handler_unregister`
  and goes on to `esp_netif_sntp_deinit`. The handler that stays asks for the time
  of a service that is not there, which ESP-IDF refuses, and changes nothing:
  `RollbackComplete` and the refinement of `TrustedClock` hold with it.
* `commissioning_replaces`: `docs/setup.md`:42 says that commissioning stops
  instead of replacing a selected peer. `load_selected_peer`
  (`esp32_session.cpp`:74) returns the same `false` for a peer that cannot be read
  as for none, and the setup goes on to replace it.

Four properties of the transport except what follows once a call has been given up
over a running callback (`overlapped`), one of them also what follows an abandoned
`connect` (`abandoned`). The exceptions are needed: without them TLC finds the
following, all within the code as it is (lines of `ecy_stat_ble_transport.cpp`).

* `NeverReused`. The wait of `connect` expires (45 s) while the callback is past its
  test at 574. The callback stores `conn_handle_` (578); the next `connect` or the
  controller's `disconnect` sees a handle, clears `connected_` (310) and terminates
  the link; then the callback stores `connected_ = true` (579). The transport is
  connected with a link that is being terminated.
* `NoOrphanLink`. After the same expiry the next `connect` finds no handle and no
  connection (151, 157), the callback records the link, and the reset (136) clears
  its handle: the link stays up and nothing names it.
* `TerminatedBeforeConnect`. The wait of a read expires while its completion is
  between 121 and 125; `disconnect` posts its own operation, and the late completion
  withdraws that one with success. `disconnect` takes the link for gone, and the
  next `connect` starts while it is terminating. Without any expiry, a `disconnect`
  that NimBLE answers with `BLE_HS_ENOTCONN` (322) while the callback for the end of
  the link is past its tests leaves that callback to complete a later operation.
* `TerminatedBeforeConnect`, `abandoned`. A `connect` gives up on an attempt whose
  success is reported afterwards: the callback terminates the link (575) as the
  next `connect` begins. Or the callback for the end of an old link has cleared the
  handle (660) when a `disconnect` finds nothing to do and a new `connect` resets,
  posts its operation and starts its attempt; the callback then fails that operation
  (661-663), and the attempt stays behind. NimBLE ends an attempt after 30 s
  (`kConnectDurationMs`) and the application waits 45 s (`kConnectWait`), so that
  the first takes a host task held up for 15 s.
* `BufferOwned`. A wait expires after the callback has loaded `pending_read_output_`
  (521), `read` clears the members and returns, and the callback writes through
  what it has loaded; or it loads a null pointer (521, 525) after both were tested.
  Without any expiry: NimBLE refuses to start a read (292) while the callback of an
  encryption change has already started it for the same operation; `read` returns
  with its pointers left in the members, and the answer is stored into its frame.

In all of these `AnswersBelong` holds: whatever is stored late or in the wrong place,
no write and no read takes it for the answer to a request of an earlier time.

Other observations, stated because a reader may expect otherwise:

* `AnswersBelong` exempts an answer of the other characteristic: of a read that
  reports success it says that some read of this session was answered, which was
  asked for after every write, not that it was this read's own request: an encryption change
  nobody waited for repeats the pending request, and the duplicate's answer may
  complete the next read. The codec then refuses it, for the two readbacks have
  different lengths and the fan's length is tested exactly.
* `FieldReportsHonest` speaks of the last sample of a field. A target found
  `Verified` in a call that later fails on the fan is reported `Verified`
  although it was not sampled after the fan command.
* `OncePerEvent` holds while the clock is not set back, as
  `docs/validation.md`:43 says.
* `TimeoutIsReal` and `PacedExactly` allow one lateness: who is not asked for a whole
  turn of the counter may find the time-out or the interval beginning anew. No
  pass of the boot loop takes 49 days.
* The pace of the boot loop is measured from the beginning of a pass to the
  beginning of a pass. An application longer than the interval is followed by the
  next one at once.
* `CleanupFailed` leaves handlers in place on purpose; `unregister_handlers()` can be
  called again and removes the rest (`MasksAgree` and `ResultsHonest` hold on the way).
* A `nvs_commit` that reports failure may have written. The example then logs that
  no identity was saved, and the next boot may find it selected; it was paired with
  and read (`SelectedWasPaired`).
* A selected peer may have no stored key: `paired_identity` asks for the link's
  `bonded` flag, and NimBLE sets it whether or not the key could be stored. The next
  session then has to pair again, which the scheduler, without PIN input, cannot.
* A request for a PIN may be given two lines. The task takes the handle of one
  request (line 77), the request ends and is followed by another one before
  `ble_sm_inject_io` (79), and the line in hand goes to the new request, whose own
  handle is still there for a second line. `OneSubmissionPerRequest` says that this
  is all: one line under its own handle and one that was held over. NimBLE takes
  the first and refuses the second.
* When a request is dropped and another one arrives while the input task waits for a
  key, the handle may be the same and the digits typed for the first stay in the
  line. Enter then submits such a line, or finds it too long and starts over.
  `TypedPinIsSubmitted` says that a request does not stand for ever; that no second
  line is needed is not claimed.

## 4. Proofs

Every theorem below holds for all values of the constants that satisfy the
`ASSUME` of its module. Each inductive invariant was checked by TLC on the
instance of the runs before it was proved.

| Module | Theorem | States |
| --- | --- | --- |
| `EcyStatController_proofs` | `TypeCorrect` | `[]TypeOK` |
| | `VerifiedIsConfirmed` | `[]VerifiedConfirmed` |
| | `SessionsClose` | `[]SessionClosed` |
| | `WritesAreAuthorized` | `WritesAuthorized` |
| | `FanFollowsTarget` | `FanAfterTarget` |
| | `ReportsAreHonest` | `[]FieldReportsHonest` |
| | `ControllerImplementsContract` | `ImplementsContract` |
| `EcyStatBleTransport_proofs` | `TypeCorrect` | `[]TypeOK` |
| | `BufferHasOwner` | `[]BufferOwned` |
| | `NoSessionOrphaned` | `[]NoOrphanLink` |
| | `NoSessionReused` | `[]NeverReused` |
| | `ConnectAfterTermination` | `[]TerminatedBeforeConnect` |
| | `AnswersBelongToCall` | `[](~overlapped => AnswersBelong)` |
| `ScheduleRunner_proofs` | `NextDayFollows` | the day after has the next number, in every year |
| | `TypeCorrect` | `[]TypeOK` |
| | `SelectionInForce` | `[]SelectsEventInForce` |
| | `RecordsAreVerified` | `[]RecordedWasVerified` |
| | `AppliedOnce` | `OncePerEvent` |
| | `MidnightKeepsEvent` | `[]SameEventAfterMidnight` |
| `ScheduledControl_proofs` | `ControlImplementsRunner` | `ImplementsRunner` |
| `EventBridge_proofs` | `TypeCorrect` | `[]TypeOK` |
| | `MasksStayEqual` | `[]MasksAgree` |
| | `ResultsAreHonest` | `[]ResultsHonest` |
| | `CallsAreSafe` | `[]NoNullCall` |
| | `ReadinessIsRight` | `[]ReadinessTracksStation` |
| `BootClock_proofs` | `TypeCorrect` | `[]TypeOK` |
| | `RollbackIsComplete` | `[]RollbackComplete` |
| | `SyncCallsAreSafe` | `[]SyncCallbackThere` |
| | `SynchronisationIsKept` | `[]NoSynchronisationLost` |
| | `TimeoutIsRight` | `TimeoutIsReal` |
| | `ReportsAreTrusted` | `ImplementsTrustedClock` |
| `ProductionBoot_proofs` | `TimeIsTrusted` | `[]TrustedTimeOnly` |
| | `PaceIsExact` | `PacedExactly` |
| `Commissioning_proofs` | `SelectionWasPaired` | `[]SelectedWasPaired` |
| | `PinIsSubmittedOnce` | `[]OneSubmissionPerRequest` |

**EcyStatController.** From `SamplesDistinct` alone (model values differ from each
other and from real values), for every set of temperatures. None of the properties
is inductive: each speaks of the moment a call returns, or of one kind of step.
`IInv` says for every `pc` what the earlier steps have established: `TypeInv`
(types, and a call in progress has an encodable state, so that a sample equal to
it is neither `Malformed` nor `Lost`); `CallInv` (the phase of each `pc`);
`SentInv` (the commands sent at each `pc`); `EvidenceInv` (on the way from the
decision of `ensure_applied` to its first write, the samples still show a
difference); `SampleInv` (what `readFan`, `writeFan` and `recheckTarget` rely
on); `ResultInv` (a settled `Verified` is backed by fresh samples, and a settled
status is one `ApplyContract` allows); and `SessionClosed`. `SafetyStep` has one
case per action; the reads go through `ReadFacts`, which says once what a sample
does to the history and what the verdict says about it. `ReportInv` is a second
invariant, relative to the first, for the reports of the fields. The refinement
uses `IInv` to show that the status returned is allowed and that each step maps to
one step of the contract or to a stutter.

**EcyStatBleTransport.** For any number of sessions, reads and writes, for any set of
operations whose wait may expire, with and without unsolicited encryption, in every
interleaving of the two tasks and the link. Only `TypeCorrect` is unconditional; the
others speak of the states where no call has been given up over a running callback.
Both history variables stay set once they are (`OverlapStays`, `AbandonStays`), so an
invariant relative to them is preserved if it is by the steps that leave them
unset. The invariant is built in layers, each one relative to those before it.

* `TypeInv`: types, `EventShape` (what an event is at each step of its callback;
  only a connection, an answer or a disconnection can report success) and
  `CallShape` (which operation the application is in, and which may follow).
* `RequestInv`, of `PendingInv` and `BufferInv`: the pending operation is the
  running call's and has been posted; a token means that it was withdrawn; a
  callback past its tests serves that operation; what the callback has loaded for a
  store is the running read's. Each is what giving up over a callback destroys.
  `BufferOwned` follows.
* `HandleInv`, of `LinkInv` and `ClosingInv`. `NoOrphanLink` and `NeverReused` are
  conjuncts of `LinkInv`, and not inductive alone: it also says which links the
  handle and the events under way stand for. `ClosingInv` is what the calls have
  found out when they clear a flag or the handle, several steps after their test:
  `connect` resets a handle only while `connected_` still stands for it or its end is
  being handled, and `disconnect` succeeds only on an end that was reported.
* `CoreInv`, also relative to `abandoned`: `AttemptInv` says that a link without
  handle, an attempt and a connection event belong to a `connect` that waits for
  them. `TerminatedBeforeConnect` follows.
* `AskInv`, of `OrderInv` and `SuccessInv`, ties an answer to its request: success is
  set, or about to be, only once the present call's answer is stored (`GotMine`);
  the procedures of the present call were asked for after every write, and none of
  another call comes behind them. The last one the code cannot see. It rests on
  ATT answering first in first out: an encryption that nobody waited for may leave
  two equal requests outstanding, and the late answer of a write is kept from the
  next write only because the read between the two is answered after it.
  `AppendOrder` and `TailOrder` say what starting and ending a procedure does to it.

That `AnswersBelong` holds also when a call was given up over a running callback is
checked by TLC only. The proof of an earlier form found one flaw of the model: two
arms of the `CASE` in `Return` overlapped, where TLC takes the first and TLA+ leaves
the choice open. They are disjoint now.

**CivilDay.** `NextDayFollows` is arithmetic: lengths of years and months follow from
the quotients (`YearLength`, `MonthLength`), eras round down also for years before
zero (`EraRoundsDown`), and the day after is one of three cases.

**ScheduleRunner.** From `ScheduleAssumption`, for a day and a schedule of any length
and any number of days. The loop of `tick()` takes the greatest reached index and
`Current` the boundary in force; that there is a greatest index (`GreatestElement`)
follows from the well-foundedness of the naturals. `EntriesInOrder` extends the
constructor's comparison of neighbours to all pairs, `SelectInForce` shows that
the selected entry is in force, `InForceUnique` that there is only one, and so that
`Current` is what `Select` gives. `IInv` is `TypeInv`, `RecordedWasVerified`,
`DueInv` (during a tick, the chosen boundary is the one that was due, and it has
begun) and `DoneInv` (what was verified since the last restart or backward
correction has begun and is not later than the record): from these, a boundary
in `done` that is in force is the recorded one, and `tick()` does not start.
`MidnightKeepsEvent` joins this with `NextDayFollows`.

**ScheduledControl.** From `ControlAssumption`, which implies the assumptions of
both components (`ComponentAssumptions`). The runner's `ApplySucceeds` records the
state of the entry it chose; here `TickReturns` records what the controller read.
That the two are the same needs `IInv`: `SampleInv`, the part of the controller's
invariant that says what has been sampled when it ends with `Verified`; `AskedInv`,
the call in progress is for the chosen entry; `ScheduleInv`, that entry exists and
is valid, since only a valid schedule is ticked. `TransportKeeps` has one case per
transport call, `RunnerStep` one per step: `StartTick` and `TickReturns` are steps of
the runner, transport calls and the thermostat are stutters. So the safety that is
proved of `ScheduleRunner` holds of runner, applier and controller together, whatever
the transport returns, however often power fails and whoever turns the knob.

**EventBridge.** For every bound on the queue, with or without refusals. `MaskInv`:
both masks are equal at every step, and ESP-IDF differs from them only between its
answer and the bookkeeping; `LoopInv`: which signals the loops have dealt with, and
that `failed` says whether one was left; `RunningInv`: the handler that runs is
registered; `WatchInv` and `LastInv`: the last event posted agrees with the station.

**BootClock.** For every width of the counter, every time-out below it, every queue and
every set of refusals. `SntpInv` says for every step of `initialize()` and of its
rollback which handlers, callback and service are there, that a synchronisation has
its origin in an answer, and that every answer is on its way or has arrived;
`TaskInv` and `ReportInv` relate the coordinator's flags, state and report; `TimeInv`
relates counter and true time: until a whole turn has passed, their difference is
`startedMs` modulo `Word`. The refinement needs all of them.

**ProductionBoot.** From `LoopBounds`. `TrustInv` says that the phases that need the
time come after an answer; `PaceInv` that a timer which has not run for a whole
turn shows the true time, up to the last reading within a pass and up to now
between two.

**Commissioning.** For any set of peers and any number of boots, requests and mistakes.
`PairInv`: an authenticated bond, be it the live link's flag, a stored key or the
selection, goes back to a pairing with the right PIN, and so does the peer on its
way from `paired_identity` to the commit; `PeerInv` and `DecodedInv` say who the
transport's peer is and what has been decoded by then. `PinInv`: while a request's
handle is there it has been given no line of its own and the task holds none for
it; while the task holds a line, the request that will get it has been given none
of that kind.

Only model-checked: liveness (`EveryCallReturns` of controller and transport,
`BlockedHandleClears`, `EventApplied`, `LateSynchronisationNoticed`,
`NetworkLossHarmless`, `KeepsReconnecting`, `TypedPinIsSubmitted`), which TLAPS cannot
prove under fairness; and `AnswersBelong` without the condition of its theorem. Every
other safety invariant, action property and refinement that a passing run checks is
also the statement of a theorem.

## 5. Not modelled

* Byte layouts of the codec: pure conversions with protocol vectors in the host
  tests. Its verdicts (encodable, decodable) are in `EcyStatController`.
* Logging, and values that only go to the log (readbacks in the result,
  `last_result_` of the applier, the result of `esp_wifi_connect`).
* Configuration, and the calls of the Wi-Fi driver inside `start_wifi`, one step that
  succeeds or fails.
* The destructor of the transport: it has static lifetime in both examples.
* The capacity of 16 candidates of a scan and the parsing of advertisements; a scan
  whose wait has expired and that completes later (there is one scan per boot, so
  nothing is left for it to mislead).
* Refusals that the only caller cannot meet: a second `initialize()` and an empty
  server name (`AlreadyInitialized`, `InvalidConfiguration`), which change nothing.
* ESP-IDF's event queue dropping an event when it is full: the posts that the modules
  of the boot clock and the event bridge stand for always arrive, up to the bound of
  the queue.
* Hour and minute of `read()`, taken from `localtime_r`: any time of day is an input of
  `ScheduleRunner`.
* The host tests, read as statements of intent.

What could come next: the controller's view of a transport (each call returns once,
success only for its own request) as an abstract specification that
`EcyStatBleTransport` implements.
