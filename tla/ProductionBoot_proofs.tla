------------------------- MODULE ProductionBoot_proofs -------------------------
(***************************************************************************)
(* Proofs about ProductionBoot for every width of the millisecond counter, *)
(* every interval and every length of a pass that fits in it: no radio     *)
(* session and no schedule before the time is trusted, and both intervals  *)
(* are kept through the wrap of the counter.                               *)
(***************************************************************************)
EXTENDS ProductionBoot, TLAPS

-----------------------------------------------------------------------------
(* Milliseconds: an unsigned counter of any width. *)

(* The next reading: the counter starts again at zero. *)
LEMMA CounterSuccessor ==
    ASSUME NEW width \in Nat, width > 0, NEW a \in 0 .. width - 1
    PROVE  (a + 1) % width = IF a + 1 = width THEN 0 ELSE a + 1
BY SMT

(* The unsigned difference of two readings: the way from b up to a, through  *)
(* the wrap when a is below b.                                               *)
LEMMA CounterDifference ==
    ASSUME NEW width \in Nat, width > 0, NEW a \in 0 .. width - 1, NEW b \in 0 .. width - 1
    PROVE  (a - b) % width = IF a >= b THEN a - b ELSE a - b + width
BY SMT

(* From reading b to reading a of the counter. *)
Since(a, b) == IF a >= b THEN a - b ELSE a - b + Word

-----------------------------------------------------------------------------
(* Where the start-up steps lead. *)

Starts == {"configuration", "nvs", "netif", "eventLoop", "handlers", "wifi", "peer", "schedule"}

LEMMA StartUpFacts ==
    /\ Len(StartUp) = 9
    /\ \A i \in 1 .. 8 : StartUp[i] \in Starts /\ StartUp[i + 1] \in Starts \union {"enter"}
<1>1. Len(StartUp) = 9
  BY DEF StartUp
<1>2. ASSUME NEW i \in 1 .. 8
      PROVE  StartUp[i] \in Starts /\ StartUp[i + 1] \in Starts \union {"enter"}
  <2>1. i = 1 \/ i = 2 \/ i = 3 \/ i = 4 \/ i = 5 \/ i = 6 \/ i = 7 \/ i = 8
    OBVIOUS
  <2> QED
    BY <2>1 DEF StartUp, Starts
<1> QED
  BY <1>1, <1>2

LEMMA StartUpPhases ==
    StartUpStep => phase \in Starts /\ phase' \in Starts \union {"enter", "stopped"}
BY StartUpFacts DEF StartUpStep, Goto

-----------------------------------------------------------------------------
(* The invariant. *)

(* The time was trusted before the phases that need it were reached. *)
TrustInv ==
    /\ report = "Ready" => answered
    /\ phase \in {"run", "applying"} \/ bleStarted => answered

CounterTypes ==
    /\ nowMs \in 0 .. Word - 1 /\ passed \in 0 .. MaxPass
    /\ phase \in Loop => lastConnect \in 0 .. Word - 1 /\ lastSchedule \in 0 .. Word - 1
    /\ phase \in Loop \ {"pass"} => now \in 0 .. Word - 1
    /\ connectAge \in 0 .. Word /\ scheduleAge \in 0 .. Word

(* A timer that has not run for a whole turn says the true time: up to the   *)
(* last reading within a pass, up to now between two passes.                 *)
IsTrue(last, age) ==
    /\ phase = "pass" /\ age + passed < Word => Since(nowMs, last) = age + passed
    /\ phase \in Loop \ {"pass"} /\ age < Word => Since(now, last) = age

PaceInv ==
    /\ phase \in Loop \ {"pass"} => Since(nowMs, now) = passed
    /\ IsTrue(lastConnect, connectAge)
    /\ IsTrue(lastSchedule, scheduleAge)

IInv == TrustInv /\ CounterTypes /\ PaceInv

LEMMA Bounds ==
    /\ Word \in Nat /\ Interval \in Nat /\ MaxPass \in Nat
    /\ Interval >= 1 /\ MaxPass >= 1 /\ Interval + MaxPass <= Word
BY LoopBounds

LEMMA InitInv == Init => IInv
BY Bounds DEF Init, IInv, TrustInv, CounterTypes, PaceInv, IsTrue, Loop, Coordinator!Init

LEMMA TrustStep == TrustInv /\ [Next]_vars => TrustInv'
<1> SUFFICES ASSUME TrustInv, [Next]_vars PROVE TrustInv'
  OBVIOUS
<1> USE DEF TrustInv, Goto, readings, lasts, ble, world, clock, ages
<1>1. CASE StartUpStep
  BY <1>1, StartUpPhases DEF StartUpStep, Starts
<1>2. CASE EnterLoop \/ BeginPass \/ Connect \/ Requested \/ Delay
  BY <1>2 DEF EnterLoop, BeginPass, Connect, Requested, Delay
<1>3. CASE CoordinatorTick
  BY <1>3 DEF CoordinatorTick, Coordinator!Tick
<1>4. CASE ClockRead \/ ClockUnavailable
  BY <1>4 DEF ClockRead, ClockUnavailable, Trusted
<1>5. CASE RunSchedule \/ SkipSchedule \/ TickReturns
  BY <1>5 DEF RunSchedule, SkipSchedule, TickReturns
<1>6. CASE TimePasses \/ NetworkChanges \/ HostReports
  BY <1>6 DEF TimePasses, NetworkChanges, HostReports
<1>7. CASE ServerAnswers
  BY <1>7 DEF ServerAnswers, Coordinator!Answered
<1>8. CASE UNCHANGED vars
  BY <1>8 DEF vars
<1> QED
  BY <1>1, <1>2, <1>3, <1>4, <1>5, <1>6, <1>7, <1>8 DEF Next, Starting, Pass, Others

-----------------------------------------------------------------------------
(* Steps that only lead from one phase of a pass to another. *)

Counters == <<nowMs, passed, now, lastConnect, lastSchedule, connectAge, scheduleAge>>

LEMMA SamePass ==
    ASSUME CounterTypes, PaceInv, UNCHANGED Counters,
           phase' \notin Loop \/ phase' = phase \/ {phase, phase'} \subseteq Loop \ {"pass"}
    PROVE  CounterTypes' /\ PaceInv'
<1>1. /\ nowMs' = nowMs /\ passed' = passed /\ now' = now /\ connectAge' = connectAge
      /\ lastConnect' = lastConnect /\ lastSchedule' = lastSchedule /\ scheduleAge' = scheduleAge
  BY DEF Counters
<1>2. CounterTypes'
  BY <1>1 DEF CounterTypes
<1>3. PaceInv'
  <2>1. CASE phase' \notin Loop
    BY <2>1 DEF PaceInv, IsTrue, Loop
  <2>2. CASE phase' = phase
    BY <1>1, <2>2 DEF PaceInv, IsTrue, Since
  <2>3. CASE phase \in Loop \ {"pass"} /\ phase' \in Loop \ {"pass"}
    BY <1>1, <2>3 DEF PaceInv, IsTrue, Since
  <2> QED
    BY <2>1, <2>2, <2>3
<1> QED
  BY <1>2, <1>3

(* The time of a pass is added to the ages at its end. *)
LEMMA AgeFacts ==
    ASSUME NEW a \in 0 .. Word, NEW b \in 0 .. MaxPass
    PROVE  Sum(a, b) \in 0 .. Word /\ (Sum(a, b) < Word => Sum(a, b) = a + b)
BY Bounds DEF Sum

(* A tick of the counter. *)
LEMMA OneLater ==
    ASSUME NEW a \in 0 .. Word - 1, NEW b \in 0 .. Word - 1
    PROVE  LET c == IF a + 1 = Word THEN 0 ELSE a + 1 IN
           Since(a, b) + 1 < Word => Since(c, b) = Since(a, b) + 1
BY Bounds DEF Since

LEMMA PaceStep == CounterTypes /\ PaceInv /\ [Next]_vars => CounterTypes' /\ PaceInv'
<1> SUFFICES ASSUME CounterTypes, PaceInv, [Next]_vars PROVE CounterTypes' /\ PaceInv'
  OBVIOUS
<1> USE DEF Goto, readings, lasts, ble, world, clock, ages
<1>1. CASE StartUpStep
  BY <1>1, StartUpPhases, SamePass DEF StartUpStep, Starts, Loop, Counters
<1>2. CASE EnterLoop
  <2>1. lastConnect' = Since(nowMs, Interval) /\ lastSchedule' = Since(nowMs, Interval)
    BY <1>2, Bounds, CounterDifference DEF EnterLoop, CounterTypes, Since
  <2> QED
    BY <1>2, <2>1, Bounds DEF EnterLoop, CounterTypes, PaceInv, IsTrue, Since, Loop
<1>3. CASE BeginPass
  <2>1. /\ connectAge' \in 0 .. Word /\ (connectAge' < Word => connectAge' = connectAge + passed)
        /\ scheduleAge' \in 0 .. Word /\ (scheduleAge' < Word => scheduleAge' = scheduleAge + passed)
    BY <1>3, AgeFacts DEF BeginPass, CounterTypes
  <2> QED
    BY <1>3, <2>1, Bounds DEF BeginPass, CounterTypes, PaceInv, IsTrue, Since, Loop
<1>4. CASE Connect
  <2>1. CASE lastConnect' = now /\ connectAge' = 0 /\ Goto("requesting")
    BY <1>4, <2>1, Bounds DEF Connect, CounterTypes, PaceInv, IsTrue, Since, Loop
  <2>2. CASE KeepTimer /\ UNCHANGED connectAge /\ Goto("tick")
    BY <1>4, <2>2, SamePass DEF Connect, KeepTimer, Loop, Counters
  <2> QED
    BY <1>4, <2>1, <2>2 DEF Connect
<1>5. CASE Requested \/ CoordinatorTick \/ ClockRead \/ ClockUnavailable \/ SkipSchedule \/ TickReturns
  BY <1>5, SamePass DEF Requested, CoordinatorTick, ClockRead, ClockUnavailable, SkipSchedule,
     TickReturns, Loop, Counters
<1>6. CASE RunSchedule
  BY <1>6, Bounds DEF RunSchedule, CounterTypes, PaceInv, IsTrue, Since, Loop
<1>7. CASE Delay
  BY <1>7, Bounds DEF Delay, CounterTypes, PaceInv, IsTrue, Since, Loop
<1>8. CASE TimePasses
  <2>1. nowMs' = IF nowMs + 1 = Word THEN 0 ELSE nowMs + 1
    BY <1>8, Bounds, CounterSuccessor DEF TimePasses, CounterTypes
  <2>2. CounterTypes'
    BY <1>8, <2>1, Bounds DEF TimePasses, CounterTypes
  <2>3. CASE phase \notin Loop
    BY <1>8, <2>2, <2>3 DEF TimePasses, PaceInv, IsTrue, Loop
  <2>4. CASE phase = "pass"
    <3>1. /\ phase' = "pass" /\ passed' = passed + 1 /\ UNCHANGED <<lasts, ages>>
          /\ nowMs \in 0 .. Word - 1 /\ passed \in 0 .. MaxPass
      BY <1>8, <2>4 DEF TimePasses, CounterTypes, Loop
    <3>2. ASSUME NEW b \in 0 .. Word - 1, NEW age \in 0 .. Word,
                 age + passed < Word => Since(nowMs, b) = age + passed
          PROVE  age + (passed + 1) < Word => Since(nowMs', b) = age + (passed + 1)
      BY <2>1, <3>1, <3>2, OneLater, Bounds
    <3>3. /\ lastConnect \in 0 .. Word - 1 /\ lastSchedule \in 0 .. Word - 1
          /\ connectAge \in 0 .. Word /\ scheduleAge \in 0 .. Word
      BY <2>4 DEF CounterTypes, Loop
    <3>4. /\ connectAge + passed < Word => Since(nowMs, lastConnect) = connectAge + passed
          /\ scheduleAge + passed < Word => Since(nowMs, lastSchedule) = scheduleAge + passed
      BY <2>4 DEF PaceInv, IsTrue
    <3>5. /\ connectAge + (passed + 1) < Word => Since(nowMs', lastConnect) = connectAge + (passed + 1)
          /\ scheduleAge + (passed + 1) < Word => Since(nowMs', lastSchedule) = scheduleAge + (passed + 1)
      BY <3>2, <3>3, <3>4
    <3> QED
      BY <2>2, <3>1, <3>5 DEF PaceInv, IsTrue, Loop, Since
  <2>5. CASE phase \in Loop \ {"pass"}
    BY <1>8, <2>1, <2>2, <2>5, Bounds DEF TimePasses, CounterTypes, PaceInv, IsTrue, Since, Loop
  <2> QED
    BY <2>3, <2>4, <2>5
<1>9. CASE NetworkChanges \/ HostReports \/ ServerAnswers
  BY <1>9, SamePass DEF NetworkChanges, HostReports, ServerAnswers, Counters
<1>10. CASE UNCHANGED vars
  BY <1>10, SamePass DEF vars, Counters
<1> QED
  BY <1>1, <1>2, <1>3, <1>4, <1>5, <1>6, <1>7, <1>8, <1>9, <1>10 DEF Next, Starting, Pass, Others

LEMMA Invariance == Spec => []IInv
<1>1. IInv /\ [Next]_vars => IInv'
  BY TrustStep, PaceStep DEF IInv
<1> QED
  BY <1>1, InitInv, PTL DEF Spec

-----------------------------------------------------------------------------
(* The theorems. *)

(* The BLE session is started and the schedule is run only after a time      *)
(* server has answered in this boot.                                         *)
THEOREM TimeIsTrusted == Spec => []TrustedTimeOnly
<1>1. IInv => TrustedTimeOnly
  BY DEF IInv, TrustInv, TrustedTimeOnly
<1> QED
  BY <1>1, Invariance, PTL

(* A timer within its pass: due exactly when its true age says so. *)
LEMMA DueWhenOld ==
    ASSUME IInv, phase \in Loop \ {"pass"}
    PROVE  /\ Elapsed(lastConnect) >= Interval => connectAge >= Interval
           /\ connectAge \in Interval .. (Word - 1) => Elapsed(lastConnect) >= Interval
           /\ Elapsed(lastSchedule) >= Interval => scheduleAge >= Interval
           /\ scheduleAge \in Interval .. (Word - 1) => Elapsed(lastSchedule) >= Interval
           /\ Elapsed(lastConnect) \in Int /\ Elapsed(lastSchedule) \in Int
<1>1. /\ now \in 0 .. Word - 1 /\ lastConnect \in 0 .. Word - 1 /\ lastSchedule \in 0 .. Word - 1
      /\ connectAge \in 0 .. Word /\ scheduleAge \in 0 .. Word
  BY DEF IInv, CounterTypes
<1>2. Elapsed(lastConnect) = Since(now, lastConnect) /\ Elapsed(lastSchedule) = Since(now, lastSchedule)
  BY <1>1, Bounds, CounterDifference DEF Elapsed, Since
<1>4. Since(now, lastConnect) \in Int /\ Since(now, lastSchedule) \in Int
  BY <1>1, Bounds DEF Since
<1>3. /\ connectAge < Word => Since(now, lastConnect) = connectAge
      /\ scheduleAge < Word => Since(now, lastSchedule) = scheduleAge
  BY DEF IInv, PaceInv, IsTrue
<1> QED
  BY <1>1, <1>2, <1>3, <1>4, Bounds

(* Requests to connect and runs of the schedule are one interval of true     *)
(* time apart, never less, and not late while the counter has not turned.    *)
THEOREM PaceIsExact == Spec => PacedExactly
<1> DEFINE Paced == /\ phase = "connect" /\ ~networkReady => IsPaced(connectAge, phase' = "requesting")
                    /\ phase = "run" /\ bleReady => IsPaced(scheduleAge, phase' = "applying")
<1>1. IInv /\ [Next]_vars => [Paced]_phase
  <2> SUFFICES ASSUME IInv, [Next]_vars, phase' # phase PROVE Paced
    OBVIOUS
  <2>1. ASSUME phase = "connect", ~networkReady PROVE IsPaced(connectAge, phase' = "requesting")
    <3>1. Connect
      BY <2>1, StartUpPhases
      DEF Next, Starting, Pass, Others, EnterLoop, BeginPass, Requested, CoordinatorTick, ClockRead,
          ClockUnavailable, RunSchedule, SkipSchedule, TickReturns, Delay, TimePasses,
          NetworkChanges, HostReports, ServerAnswers, vars, Starts
    <3>2. phase' = "requesting" <=> Elapsed(lastConnect) >= Interval
      BY <2>1, <3>1, DueWhenOld, Bounds DEF Connect, Goto, Loop
    <3> QED
      BY <2>1, <3>2, DueWhenOld DEF IsPaced, Loop
  <2>2. ASSUME phase = "run", bleReady PROVE IsPaced(scheduleAge, phase' = "applying")
    <3>1. RunSchedule \/ SkipSchedule
      BY <2>2, StartUpPhases
      DEF Next, Starting, Pass, Others, EnterLoop, BeginPass, Connect, Requested, CoordinatorTick,
          ClockRead, ClockUnavailable, TickReturns, Delay, TimePasses, NetworkChanges, HostReports,
          ServerAnswers, vars, Starts
    <3>2. phase' = "applying" <=> Elapsed(lastSchedule) >= Interval
      BY <2>2, <3>1, DueWhenOld, Bounds DEF RunSchedule, SkipSchedule, Goto, Loop
    <3> QED
      BY <2>2, <3>2, DueWhenOld DEF IsPaced, Loop
  <2> QED
    BY <2>1, <2>2
<1> QED
  BY <1>1, Invariance, PTL DEF Spec, PacedExactly
=============================================================================
