---------------------------- MODULE ScheduleRunner ----------------------------
(***************************************************************************)
(* ScheduleRunner (examples/scheduler): a daily list of desired states,    *)
(* applied to the thermostat by tick() through ScheduleApplier.  Applying  *)
(* takes minutes when the radio is bad; time goes on, the clock may be     *)
(* corrected and the power may fail meanwhile.  ScheduledControl puts the  *)
(* controller and the thermostat below it.                                 *)
(*                                                                         *)
(* A boundary is the start of an entry on a civil day: the event that the  *)
(* source identifies by last_index_ and last_day_.  Days are numbered as   *)
(* CivilDay does, from some day on.                                        *)
(***************************************************************************)
EXTENDS CivilDay, Sequences

CONSTANTS
    DayLength,    \* minutes in a day (1440 in the code)
    MaxEntries,   \* bound: entries of the schedule
    MaxDay,       \* bound: civil days numbered 0 .. MaxDay
    States,       \* desired states that can be encoded
    BadState      \* one that cannot: not finite, or no fan mode

ASSUME ScheduleAssumption ==
    /\ DayLength \in Nat \ {0} /\ MaxEntries \in Nat /\ MaxDay \in Nat
    /\ BadState \notin States

VARIABLES
    entries,    \* the schedule: kSchedule, fixed at build time
    valid,      \* valid_
    applied,    \* applied_
    last,       \* <last_day_, last_index_>
    ticking,    \* tick() is inside ensure_applied
    chosen,     \* <day, selected> of that tick
    wall,       \* the local clock: [day, minute]
    verified,   \* history: the last state a controller call verified
    due,        \* history: the boundary in force when the tick read the clock,
                \* forgotten when the clock is set back meanwhile
    done        \* history: boundaries verified since the last restart or
                \* backward clock correction

runner == <<entries, valid, applied, last, ticking, chosen>>
history == <<verified, due, done>>
vars == <<runner, wall, history>>

Entries == [at : 0 .. DayLength, state : States \union {BadState}]
Times   == [day : 0 .. MaxDay, minute : 0 .. DayLength - 1]
NoBoundary == <<0, 0>>

-----------------------------------------------------------------------------
(* The constructor: times within the day, strictly increasing, states valid. *)
ValidSchedule(s) ==
    /\ s # <<>>
    /\ \A i \in 1 .. Len(s) :
         /\ s[i].at < DayLength /\ s[i].state # BadState
         /\ i > 1 => s[i].at > s[i - 1].at

ReachedStrictly(s, minute) == {i \in 1 .. Len(s) : \A j \in 1 .. i : s[j].at < minute}

(* The loop of tick(): the last entry before the first one that is still to  *)
(* come; before the first entry, the last entry of the day before.           *)
Reached(s, minute) == {i \in 1 .. Len(s) : \A j \in 1 .. i : s[j].at <= minute}

LastReached(s, minute) ==
    CHOOSE i \in Reached(s, minute) : \A j \in Reached(s, minute) : j <= i

SelectWithinDay(s, day, minute) ==
    <<day, IF Reached(s, minute) = {} THEN Len(s) ELSE LastReached(s, minute)>>

SelectTwoDaysBack(s, day, minute) ==
    IF Reached(s, minute) = {} THEN <<day - 2, Len(s)>> ELSE <<day, LastReached(s, minute)>>

Select(s, day, minute) ==
    IF Reached(s, minute) = {} THEN <<day - 1, Len(s)>> ELSE <<day, LastReached(s, minute)>>

-----------------------------------------------------------------------------
(* The reference: boundaries in the order of time, told by their minutes.    *)

IsBoundary(s, b) == b[1] \in Int /\ b[2] \in 1 .. Len(s)

Before(d, m, e, n) == d < e \/ (d = e /\ m <= n)

(* Boundary b of s has begun by minute m of day d, and no later one has. *)
InForce(s, b, d, m) ==
    /\ IsBoundary(s, b)
    /\ Before(b[1], s[b[2]].at, d, m)
    /\ \A c \in ((d - 2) .. (d + 1)) \X (1 .. Len(s)) :
         Before(c[1], s[c[2]].at, d, m) => Before(c[1], s[c[2]].at, b[1], s[b[2]].at)

Current == CHOOSE b \in ((wall.day - 1) .. wall.day) \X (1 .. Len(entries)) :
             InForce(entries, b, wall.day, wall.minute)

IsCurrent(b) == valid /\ InForce(entries, b, wall.day, wall.minute)

-----------------------------------------------------------------------------
AlreadyAppliedAnyDay(b) == applied /\ b[2] = last[2]

AlreadyApplied(b) == applied /\ b = last

(* tick() up to the blocking call.  A clock that is not ready, or an invalid *)
(* time, ends it at once and changes nothing, and so does an event applied   *)
(* before.                                                                   *)
TickStart ==
    /\ ~ticking /\ valid
    /\ LET b == Select(entries, wall.day, wall.minute) IN
         /\ ~AlreadyApplied(b)
         /\ chosen' = b
    /\ ticking' = TRUE /\ due' = Current
    /\ UNCHANGED <<entries, valid, applied, last, wall, verified, done>>

(* ensure_applied returned true: the thermostat was read in the chosen state. *)
ApplySucceeds ==
    /\ ticking
    /\ applied' = TRUE /\ last' = chosen
    /\ verified' = entries[chosen[2]].state
    /\ done' = done \union ({due} \ {NoBoundary})
    /\ ticking' = FALSE
    /\ UNCHANGED <<entries, valid, chosen, wall, due>>

RecordChosen == applied' = TRUE /\ last' = chosen

KeepRecord == UNCHANGED <<applied, last>>

(* It returned false: the record stays. *)
ApplyFails ==
    /\ ticking
    /\ KeepRecord /\ ticking' = FALSE
    /\ UNCHANGED <<entries, valid, chosen, wall, history>>

(* Power failure: the runner starts anew from the same schedule. *)
Restart ==
    /\ valid' = ValidSchedule(entries)
    /\ applied' = FALSE /\ last' = NoBoundary
    /\ ticking' = FALSE /\ done' = {}
    /\ UNCHANGED <<entries, chosen, wall, verified, due>>

-----------------------------------------------------------------------------
(* The clock. *)

Later(t) == Before(wall.day, wall.minute, t.day, t.minute)

MinutePasses ==
    /\ wall' \in Times
    /\ \/ wall' = [wall EXCEPT !.minute = @ + 1]
       \/ wall.minute = DayLength - 1 /\ wall' = [day |-> wall.day + 1, minute |-> 0]
    /\ UNCHANGED <<runner, history>>

(* SNTP, or the end of daylight saving time, sets the clock. *)
ClockCorrection ==
    /\ wall' \in Times
    /\ IF Later(wall') THEN UNCHANGED history
       ELSE done' = {} /\ due' = NoBoundary /\ UNCHANGED verified
    /\ UNCHANGED runner

-----------------------------------------------------------------------------
Init ==
    /\ entries \in UNION {[1 .. n -> Entries] : n \in 0 .. MaxEntries}
    /\ valid = ValidSchedule(entries)
    /\ applied = FALSE /\ last = NoBoundary
    /\ ticking = FALSE /\ chosen = NoBoundary
    /\ wall \in Times
    /\ verified = BadState /\ due = NoBoundary /\ done = {}

Tick == TickStart \/ ApplySucceeds \/ ApplyFails

Next == Tick \/ Restart \/ MinutePasses \/ ClockCorrection

Spec == Init /\ [][Next]_vars

(* The runtime task ticks for ever and the clock is ready again and again;   *)
(* a thermostat that can be reached at times is reached in the end, although *)
(* calls fail and the power does too (strong fairness).                      *)
FairSpec == Spec /\ SF_vars(TickStart) /\ SF_vars(ApplySucceeds)

-----------------------------------------------------------------------------
(* Every variable has its type. *)
Boundaries == (-1 .. MaxDay) \X (0 .. MaxEntries)

TypeOK ==
    /\ entries \in Seq(Entries) /\ valid = ValidSchedule(entries)
    /\ applied \in BOOLEAN /\ ticking \in BOOLEAN
    /\ last \in Boundaries /\ chosen \in Boundaries /\ due \in Boundaries
    /\ wall \in Times
    /\ verified \in States \union {BadState}
    /\ done \subseteq Boundaries

(* tick() selects the event in force: the latest boundary of the daily list  *)
(* that has begun, also before the first entry of a day.                     *)
SelectsEventInForce ==
    valid => InForce(entries, Select(entries, wall.day, wall.minute), wall.day, wall.minute)

(* Before the first entry of a day, tick() selects the very event that the   *)
(* last minute of the day before did, over every month's end, leap day and   *)
(* century: the clock numbers civil days without a gap, and the day - 1 of   *)
(* the runner is the number the clock gave.  Otherwise the event in force    *)
(* would be applied again at midnight.                                       *)
SameEventAfterMidnight ==
    valid /\ Reached(entries, wall.minute) = {} =>
        \A y \in Years, m \in 1 .. 12 : \A d \in 1 .. DaysIn(y, m) :
            Select(entries, NextDay(y, m, d), wall.minute)
              = Select(entries, Ordinal(y, m, d), DayLength - 1)

(* "After a successful application, a manual change remains until the next   *)
(* event or restart": while the clock is not set back, no event is applied   *)
(* again once it was verified, however long the call took and however the    *)
(* thermostat was changed since.                                             *)
OncePerEvent == [][~ticking /\ ticking' => due' \notin done]_vars

(* The event recorded as applied is one whose state was verified last: a     *)
(* failed or interrupted call is never taken for an applied event.           *)
RecordedWasVerified == applied => verified = entries[last[2]].state

(* Each event is applied in the end, unless the next one comes first.        *)
EventApplied ==
    \A b \in Boundaries :
        IsCurrent(b) ~> (applied /\ last = b) \/ ~IsCurrent(b)
=============================================================================
