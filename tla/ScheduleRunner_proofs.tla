------------------------- MODULE ScheduleRunner_proofs -------------------------
(***************************************************************************)
(* Proofs about ScheduleRunner for every day length, every schedule and    *)
(* every set of states: the selected event is the one in force, it is      *)
(* applied once, and what is recorded was verified.                        *)
(***************************************************************************)
EXTENDS ScheduleRunner, WellFoundedInduction, TLAPS

-----------------------------------------------------------------------------
(* The day numbers of all civil dates are consecutive. *)

(* The truncating division with its correction for years before zero is the  *)
(* division that rounds down, so the year of the era is in 0 .. 399.         *)
LEMMA EraRoundsDown ==
    ASSUME NEW y \in Int
    PROVE  Era(y) = y \div 400
<1>1. CASE y >= 0
  BY <1>1, SMT DEF Era, Quotient
<1>2. CASE y < 0
  BY <1>2, SMT DEF Era, Quotient
<1> QED
  BY <1>1, <1>2

(* A year's length: the year after begins that many days later, 366 after a  *)
(* leap day.                                                                 *)
LEMMA YearLength ==
    ASSUME NEW y \in Int
    PROVE  DayNumber(y, 0) = DayNumber(y - 1, 0) + (IF IsLeap(y) THEN 366 ELSE 365)
<1>1. /\ Era(y) = y \div 400 /\ Era(y - 1) = (y - 1) \div 400
  BY EraRoundsDown
<1> QED
  BY <1>1, SMT DEF DayNumber, YearsBefore, IsLeap

(* DayNumber adds the day of the year. *)
LEMMA DayOffset ==
    ASSUME NEW y \in Int, NEW doy \in Int
    PROVE  DayNumber(y, 0) \in Int /\ DayNumber(y, doy) = DayNumber(y, 0) + doy
<1>1. Era(y) = y \div 400
  BY EraRoundsDown
<1> QED
  BY <1>1, SMT DEF DayNumber, YearsBefore

(* The polynomial for the months gives each month its length: March to       *)
(* December, January, and February up to its leap day.                       *)
LEMMA MonthLength ==
    ASSUME NEW y \in Int, NEW m \in 1 .. 12, m # 2
    PROVE  DayOfYear(IF m = 12 THEN 1 ELSE m + 1, 1) = DayOfYear(m, 1) + DaysIn(y, m)
<1>1. m \in {1, 3, 4, 5, 6, 7, 8, 9, 10, 11, 12}
  BY SMT
<1> QED
  BY <1>1, SMT DEF DayOfYear, ShiftedMonth, DaysIn

LEMMA OrdinalType ==
    ASSUME NEW y \in Int, NEW m \in 1 .. 12, NEW d \in 1 .. DaysIn(y, m)
    PROVE  Ordinal(y, m, d) \in Int
<1> DEFINE year == ShiftedYear(y, m)
           doy == DayOfYear(m, d)
<1>1. year \in Int /\ d \in Int
  BY SMT DEF ShiftedYear, DaysIn
<1>2. doy \in Int
  BY <1>1, SMT DEF DayOfYear, ShiftedMonth
<1>3. DayNumber(year, doy) \in Int
  <2> HIDE DEF year, doy
  <2>1. DayNumber(year, 0) \in Int /\ DayNumber(year, doy) = DayNumber(year, 0) + doy
    BY <1>1, <1>2, DayOffset
  <2> QED
    BY <1>2, <2>1
<1> QED
  BY <1>3 DEF Ordinal

(* Whatever the date, the next day has the next number: over every month's    *)
(* end, leap day and century, before and after year zero (clock.cpp).        *)
THEOREM NextDayFollows ==
    ASSUME NEW y \in Int, NEW m \in 1 .. 12, NEW d \in 1 .. DaysIn(y, m)
    PROVE  NextDay(y, m, d) = Ordinal(y, m, d) + 1
<1> DEFINE year == ShiftedYear(y, m)
<1>1. DaysIn(y, m) \in 28 .. 31 /\ year \in Int /\ d \in Int
  BY SMT DEF DaysIn, ShiftedYear
<1>2. CASE d < DaysIn(y, m)
  <2>1. NextDay(y, m, d) = DayNumber(year, DayOfYear(m, d + 1))
    BY <1>2 DEF NextDay, Ordinal
  <2>2. DayOfYear(m, d + 1) = DayOfYear(m, d) + 1 /\ DayOfYear(m, d) \in Int
    BY <1>1, SMT DEF DayOfYear, ShiftedMonth
  <2>3. DayNumber(year, DayOfYear(m, d) + 1) = DayNumber(year, DayOfYear(m, d)) + 1
    <3> HIDE DEF year
    <3>1. /\ DayNumber(year, 0) \in Int
          /\ DayNumber(year, DayOfYear(m, d)) = DayNumber(year, 0) + DayOfYear(m, d)
      BY <1>1, <2>2, DayOffset
    <3>2. DayNumber(year, DayOfYear(m, d) + 1) = DayNumber(year, 0) + (DayOfYear(m, d) + 1)
      BY <1>1, <2>2, DayOffset
    <3> QED
      BY <2>2, <3>1, <3>2, SMT
  <2> QED
    BY <2>1, <2>2, <2>3 DEF Ordinal
<1>3. CASE d = DaysIn(y, m) /\ m # 2
  <2> DEFINE next == IF m = 12 THEN 1 ELSE m + 1
  <2>1. NextDay(y, m, d) = DayNumber(year, DayOfYear(next, 1))
    BY <1>3, SMT DEF NextDay, Ordinal, ShiftedYear
  <2>2. DayOfYear(next, 1) = DayOfYear(m, 1) + d
    BY <1>3, MonthLength
  <2>3. DayOfYear(m, d) = DayOfYear(m, 1) + d - 1 /\ DayOfYear(m, 1) \in Int
    BY <1>1, SMT DEF DayOfYear, ShiftedMonth
  <2>4. /\ DayNumber(year, DayOfYear(next, 1)) = DayNumber(year, 0) + DayOfYear(next, 1)
        /\ DayNumber(year, DayOfYear(m, d)) = DayNumber(year, 0) + DayOfYear(m, d)
        /\ DayNumber(year, 0) \in Int
    <3> HIDE DEF year, next
    <3>1. DayOfYear(next, 1) \in Int /\ DayOfYear(m, d) \in Int
      BY <1>1, <2>2, <2>3, SMT
    <3> QED
      BY <1>1, <3>1, DayOffset
  <2> QED
    BY <1>1, <2>1, <2>2, <2>3, <2>4, SMT DEF Ordinal
<1>4. CASE d = DaysIn(y, m) /\ m = 2
  <2>1. NextDay(y, m, d) = DayNumber(y, 0) /\ Ordinal(y, m, d) = DayNumber(y - 1, 336 + d)
    BY <1>1, <1>4, SMT DEF NextDay, Ordinal, ShiftedYear, DayOfYear, ShiftedMonth
  <2>2. DayNumber(y - 1, 336 + d) = DayNumber(y - 1, 0) + 336 + d /\ DayNumber(y - 1, 0) \in Int
    <3> DEFINE before == y - 1
               doy == 336 + d
    <3>1. before \in Int /\ doy \in Int
      BY <1>1, SMT
    <3>2. DayNumber(before, 0) \in Int /\ DayNumber(before, doy) = DayNumber(before, 0) + doy
      <4> HIDE DEF before, doy
      <4> QED
        BY <3>1, DayOffset
    <3>3. DayNumber(before, 0) + doy = DayNumber(before, 0) + 336 + d
      <4> HIDE DEF before
      <4> QED
        BY <1>1, <3>2, SMT
    <3> QED
      BY <3>2, <3>3
  <2>3. d = IF IsLeap(y) THEN 29 ELSE 28
    BY <1>4 DEF DaysIn
  <2> QED
    BY <1>1, <2>1, <2>2, <2>3, YearLength, SMT
<1> QED
  BY <1>1, <1>2, <1>3, <1>4, SMT

-----------------------------------------------------------------------------
(* Sets of naturals have a least element, bounded ones a greatest: the       *)
(* inductions of this module.                                                *)
LEMMA LeastElement ==
    ASSUME NEW T \in SUBSET Nat, T # {}
    PROVE  \E n \in T : \A m \in T : n <= m
<1>1. PICK n \in T : \A m \in T : ~(<<m, n>> \in OpToRel(<, Nat))
  BY NatLessThanWellFounded, WFMin
<1>2. \A m \in T : ~(m < n)
  BY <1>1 DEF OpToRel
<1> QED
  BY <1>2

LEMMA GreatestElement ==
    ASSUME NEW N \in Nat, NEW T \in SUBSET (0 .. N), T # {}
    PROVE  \E n \in T : \A m \in T : m <= n
<1> DEFINE U == {k \in Nat : N - k \in T}
<1>1. U # {}
  <2>1. PICK t \in T : TRUE
    OBVIOUS
  <2>2. N - t \in Nat /\ N - (N - t) = t
    BY <2>1
  <2> QED
    BY <2>1, <2>2
<1>2. PICK k \in U : \A j \in U : k <= j
  <2> HIDE DEF U
  <2>1. U \in SUBSET Nat
    BY DEF U
  <2> QED
    BY <1>1, <2>1, LeastElement
<1>3. ASSUME NEW m \in T PROVE m <= N - k
  <2>1. N - m \in Nat /\ N - (N - m) = m
    BY <1>3
  <2>2. k <= N - m
    BY <1>2, <1>3, <2>1
  <2> QED
    BY <1>2, <1>3, <2>2
<1> QED
  BY <1>2, <1>3

-----------------------------------------------------------------------------
(* Schedules. *)

LEMMA EntryTypes ==
    ASSUME NEW s \in Seq(Entries), NEW i \in 1 .. Len(s)
    PROVE  s[i].at \in 0 .. DayLength /\ s[i].state \in States \union {BadState}
<1>1. s[i] \in Entries
  OBVIOUS
<1> QED
  BY <1>1 DEF Entries

(* Neighbouring entries in order put all entries in order. *)
LEMMA EntriesInOrder ==
    ASSUME NEW s \in Seq(Entries), ValidSchedule(s),
           NEW i \in 1 .. Len(s), NEW j \in 1 .. Len(s), i < j
    PROVE  s[i].at < s[j].at
<1> DEFINE T == {k \in Nat : k \in 1 .. Len(s) /\ i < k /\ ~(s[i].at < s[k].at)}
<1>1. SUFFICES ASSUME j \in T PROVE FALSE
  OBVIOUS
<1>2. PICK k \in T : \A m \in T : k <= m
  <2> HIDE DEF T
  <2>1. T \in SUBSET Nat
    BY DEF T
  <2> QED
    BY <1>1, <2>1, LeastElement
<1>3. k - 1 \in 1 .. Len(s) /\ k - 1 \in Nat /\ Len(s) \in Nat
  BY <1>2
<1>4. \A m \in 1 .. Len(s) : s[m].at \in Int
  BY EntryTypes, ScheduleAssumption
<1>5. s[k - 1].at < s[k].at
  BY <1>2, <1>3 DEF ValidSchedule
<1>6. k - 1 \notin T
  BY <1>2, <1>3
<1>7. k - 1 = i \/ s[i].at < s[k - 1].at
  BY <1>2, <1>3, <1>6
<1> QED
  BY <1>2, <1>3, <1>4, <1>5, <1>7

LEMMA ScheduleFacts ==
    ASSUME NEW s \in Seq(Entries), ValidSchedule(s)
    PROVE  /\ Len(s) \in Nat \ {0}
           /\ \A i \in 1 .. Len(s) : /\ s[i].at \in 0 .. (DayLength - 1)
                                     /\ s[i].state \in States
           /\ \A i, j \in 1 .. Len(s) : i < j => s[i].at < s[j].at
           /\ \A i, j \in 1 .. Len(s) : i <= j => s[i].at <= s[j].at
<1>1. Len(s) \in Nat \ {0}
  BY DEF ValidSchedule
<1>2. \A i \in 1 .. Len(s) : s[i].at \in 0 .. (DayLength - 1) /\ s[i].state \in States
  BY EntryTypes, ScheduleAssumption DEF ValidSchedule
<1>3. \A i, j \in 1 .. Len(s) : i < j => s[i].at < s[j].at
  BY EntriesInOrder
<1>4. \A i, j \in 1 .. Len(s) : i <= j => s[i].at <= s[j].at
  BY <1>1, <1>2, <1>3, ScheduleAssumption
<1> QED
  BY <1>1, <1>2, <1>3, <1>4

(* What the loop of tick() finds. *)
LEMMA ReachedFacts ==
    ASSUME NEW s \in Seq(Entries), ValidSchedule(s), NEW minute \in Int
    PROVE  /\ \A i \in 1 .. Len(s) : i \in Reached(s, minute) <=> s[i].at <= minute
           /\ Reached(s, minute) # {} =>
                /\ LastReached(s, minute) \in Reached(s, minute)
                /\ \A j \in Reached(s, minute) : j <= LastReached(s, minute)
<1>1. \A i \in 1 .. Len(s) : i \in Reached(s, minute) <=> s[i].at <= minute
  BY ScheduleFacts, ScheduleAssumption DEF Reached
<1>2. ASSUME Reached(s, minute) # {}
      PROVE  \E n \in Reached(s, minute) : \A m \in Reached(s, minute) : m <= n
  <2>1. Reached(s, minute) \in SUBSET (0 .. Len(s))
    BY DEF Reached
  <2> QED
    BY <1>2, <2>1, GreatestElement, ScheduleFacts
<1> QED
  BY <1>1, <1>2 DEF LastReached

(* The first entry is reached before any other. *)
LEMMA NoneReached ==
    ASSUME NEW s \in Seq(Entries), ValidSchedule(s), NEW minute \in Int,
           Reached(s, minute) = {}, NEW i \in 1 .. Len(s)
    PROVE  minute < s[i].at
BY ReachedFacts, ScheduleFacts

(* The result of tick()'s loop is a boundary that has begun, and that no     *)
(* other one that has begun comes after.                                     *)
LEMMA SelectInForce ==
    ASSUME NEW s \in Seq(Entries), ValidSchedule(s), NEW day \in Int, NEW minute \in Int
    PROVE  /\ Select(s, day, minute) \in ((day - 1) .. day) \X (1 .. Len(s))
           /\ InForce(s, Select(s, day, minute), day, minute)
<1> DEFINE b == Select(s, day, minute)
<1>1. /\ Len(s) \in Nat \ {0}
      /\ \A i \in 1 .. Len(s) : s[i].at \in Int
      /\ \A i, j \in 1 .. Len(s) : i <= j => s[i].at <= s[j].at
  BY ScheduleFacts, ScheduleAssumption
<1>2. CASE Reached(s, minute) = {}
  <2>1. b = <<day - 1, Len(s)>>
    BY <1>2 DEF Select
  <2>2. b \in ((day - 1) .. day) \X (1 .. Len(s)) /\ IsBoundary(s, b)
    BY <1>1, <2>1 DEF IsBoundary
  <2>3. Before(b[1], s[b[2]].at, day, minute)
    BY <2>1 DEF Before
  <2>4. ASSUME NEW c \in ((day - 2) .. (day + 1)) \X (1 .. Len(s)),
               Before(c[1], s[c[2]].at, day, minute)
        PROVE  Before(c[1], s[c[2]].at, b[1], s[b[2]].at)
    <3>1. c[1] \in Int /\ c[2] \in 1 .. Len(s) /\ minute < s[c[2]].at
      BY <1>2, <2>4, NoneReached
    <3>2. c[1] < day - 1 \/ c[1] = day - 1
      BY <1>1, <2>4, <3>1 DEF Before
    <3>3. s[c[2]].at <= s[Len(s)].at
      BY <1>1, <3>1
    <3> QED
      BY <2>1, <3>2, <3>3 DEF Before
  <2> QED
    BY <2>2, <2>3, <2>4 DEF InForce
<1>3. CASE Reached(s, minute) # {}
  <2> DEFINE r == LastReached(s, minute)
  <2>1. b = <<day, r>>
    BY <1>3 DEF Select
  <2>2. /\ r \in 1 .. Len(s) /\ s[r].at <= minute
        /\ \A j \in 1 .. Len(s) : s[j].at <= minute => j <= r
    BY <1>3, ReachedFacts DEF Reached
  <2> HIDE DEF r
  <2>3. b \in ((day - 1) .. day) \X (1 .. Len(s)) /\ IsBoundary(s, b)
    BY <1>1, <2>1, <2>2 DEF IsBoundary
  <2>4. Before(b[1], s[b[2]].at, day, minute)
    BY <2>1, <2>2 DEF Before
  <2>5. ASSUME NEW c \in ((day - 2) .. (day + 1)) \X (1 .. Len(s)),
               Before(c[1], s[c[2]].at, day, minute)
        PROVE  Before(c[1], s[c[2]].at, b[1], s[b[2]].at)
    <3>1. c[1] \in Int /\ c[2] \in 1 .. Len(s)
      BY <2>5
    <3>2. c[1] < day \/ (c[1] = day /\ s[c[2]].at <= s[r].at)
      BY <1>1, <2>2, <2>5, <3>1 DEF Before
    <3> QED
      BY <2>1, <3>2 DEF Before
  <2> QED
    BY <2>3, <2>4, <2>5 DEF InForce
<1> QED
  BY <1>2, <1>3

(* Two boundaries in force are the same: no two entries share a minute. *)
LEMMA InForceUnique ==
    ASSUME NEW s \in Seq(Entries), ValidSchedule(s), NEW day \in Int, NEW minute \in Int,
           NEW b \in ((day - 1) .. day) \X (1 .. Len(s)), InForce(s, b, day, minute),
           NEW c \in ((day - 1) .. day) \X (1 .. Len(s)), InForce(s, c, day, minute)
    PROVE  b = c
<1>1. /\ b[1] \in Int /\ c[1] \in Int /\ b[2] \in 1 .. Len(s) /\ c[2] \in 1 .. Len(s)
      /\ b \in ((day - 2) .. (day + 1)) \X (1 .. Len(s))
      /\ c \in ((day - 2) .. (day + 1)) \X (1 .. Len(s))
  OBVIOUS
<1>2. /\ Before(b[1], s[b[2]].at, c[1], s[c[2]].at)
      /\ Before(c[1], s[c[2]].at, b[1], s[b[2]].at)
  BY <1>1 DEF InForce
<1>3. /\ s[b[2]].at \in Int /\ s[c[2]].at \in Int
      /\ b[2] < c[2] => s[b[2]].at < s[c[2]].at
      /\ c[2] < b[2] => s[c[2]].at < s[b[2]].at
  BY <1>1, ScheduleFacts, ScheduleAssumption
<1>4. b[1] = c[1] /\ s[b[2]].at = s[c[2]].at
  BY <1>1, <1>2, <1>3 DEF Before
<1>5. b[2] = c[2]
  BY <1>1, <1>3, <1>4, ScheduleFacts
<1> QED
  BY <1>1, <1>4, <1>5

(* Whatever has begun, however long ago, does not come after the boundary in *)
(* force.                                                                    *)
LEMMA InForceLatest ==
    ASSUME NEW s \in Seq(Entries), ValidSchedule(s), NEW day \in Int, NEW minute \in Int,
           NEW b \in ((day - 1) .. day) \X (1 .. Len(s)), InForce(s, b, day, minute),
           NEW c \in Int \X (1 .. Len(s)), Before(c[1], s[c[2]].at, day, minute)
    PROVE  Before(c[1], s[c[2]].at, b[1], s[b[2]].at)
<1>1. b[1] \in (day - 1) .. day /\ c[1] \in Int /\ c[1] <= day
  BY DEF Before
<1>2. CASE c[1] < day - 1
  BY <1>1, <1>2 DEF Before
<1>3. CASE c[1] >= day - 1
  <2>1. c \in ((day - 2) .. (day + 1)) \X (1 .. Len(s))
    BY <1>1, <1>3
  <2> QED
    BY <2>1 DEF InForce
<1> QED
  BY <1>1, <1>2, <1>3

(* The boundary that the history remembers is the one tick() selected. *)
LEMMA CurrentIsSelected ==
    ASSUME entries \in Seq(Entries), ValidSchedule(entries), wall \in Times
    PROVE  /\ Current = Select(entries, wall.day, wall.minute)
           /\ Current \in ((wall.day - 1) .. wall.day) \X (1 .. Len(entries))
           /\ InForce(entries, Current, wall.day, wall.minute)
<1> DEFINE day == wall.day
           minute == wall.minute
           window == ((day - 1) .. day) \X (1 .. Len(entries))
           selected == Select(entries, day, minute)
<1>1. day \in Int /\ minute \in Int
  BY ScheduleAssumption DEF Times
<1>2. selected \in window /\ InForce(entries, selected, day, minute)
  BY <1>1, SelectInForce
<1>3. Current \in window /\ InForce(entries, Current, day, minute)
  BY <1>2 DEF Current
<1>4. Current = selected
  BY <1>1, <1>2, <1>3, InForceUnique
<1> QED
  BY <1>3, <1>4

-----------------------------------------------------------------------------
(* The invariant. *)

Begun(b) == Before(b[1], entries[b[2]].at, wall.day, wall.minute)

NotAfter(b, c) == Before(b[1], entries[b[2]].at, c[1], entries[c[2]].at)

TypeInv == TypeOK /\ Len(entries) <= MaxEntries

(* Inside a call, the boundary remembered is the one chosen, and everything  *)
(* done so far comes before it, unless the clock was set back meanwhile.     *)
DueInv ==
    ticking =>
        /\ valid /\ IsBoundary(entries, chosen)
        /\ IF due = NoBoundary THEN done = {}
           ELSE due = chosen /\ Begun(due) /\ \A b \in done : NotAfter(b, due)

(* What was done since the clock was set back is not later than the record,  *)
(* and the record is not later than the clock.                               *)
DoneInv ==
    done # {} =>
        /\ applied /\ valid /\ IsBoundary(entries, last) /\ Begun(last)
        /\ \A b \in done : IsBoundary(entries, b) /\ NotAfter(b, last)

IInv == TypeInv /\ RecordedWasVerified /\ DueInv /\ DoneInv

LEMMA InitInv == Init => IInv
<1> SUFFICES ASSUME Init PROVE IInv
  OBVIOUS
<1>1. PICK n \in 0 .. MaxEntries : entries \in [1 .. n -> Entries]
  BY DEF Init
<1>2. entries \in Seq(Entries) /\ Len(entries) <= MaxEntries
  BY <1>1, ScheduleAssumption
<1>3. NoBoundary \in Boundaries
  BY ScheduleAssumption DEF NoBoundary, Boundaries
<1>4. TypeInv
  BY <1>2, <1>3 DEF Init, TypeInv, TypeOK
<1> QED
  BY <1>4 DEF Init, IInv, RecordedWasVerified, DueInv, DoneInv

(* What TickStart finds when the invariant holds: an event that is in force  *)
(* and not among those done.                                                 *)
LEMMA TickStartFacts ==
    ASSUME IInv, TickStart
    PROVE  /\ chosen' = due' /\ due' \in Boundaries /\ IsBoundary(entries, due')
           /\ Begun(due') /\ due' # NoBoundary /\ due' \notin done
           /\ \A b \in done : NotAfter(b, due')
<1> DEFINE cur == Current
<1>1. /\ entries \in Seq(Entries) /\ ValidSchedule(entries) /\ wall \in Times
      /\ Len(entries) <= MaxEntries
  BY DEF IInv, TypeInv, TypeOK, TickStart
<1>2. /\ cur = Select(entries, wall.day, wall.minute)
      /\ cur \in ((wall.day - 1) .. wall.day) \X (1 .. Len(entries))
      /\ InForce(entries, cur, wall.day, wall.minute)
  BY <1>1, CurrentIsSelected
<1>3. chosen' = cur /\ due' = cur
  BY <1>2 DEF TickStart
<1> HIDE DEF cur
<1>4. wall.day \in 0 .. MaxDay /\ wall.minute \in Int /\ Len(entries) \in Nat
  BY <1>1, ScheduleAssumption DEF Times
<1>5. cur \in Boundaries /\ IsBoundary(entries, cur) /\ cur # NoBoundary
  BY <1>1, <1>2, <1>4, ScheduleAssumption DEF Boundaries, IsBoundary, NoBoundary
<1>6. Begun(cur)
  BY <1>2 DEF InForce, Begun
<1>7. \A i \in 1 .. Len(entries) : entries[i].at \in Int
  BY <1>1, ScheduleFacts, ScheduleAssumption
<1>8. ASSUME NEW b \in Boundaries, IsBoundary(entries, b), Begun(b) PROVE NotAfter(b, cur)
  <2>1. b \in Int \X (1 .. Len(entries))
    BY <1>8 DEF IsBoundary, Boundaries
  <2> QED
    BY <1>1, <1>2, <1>4, <1>8, <2>1, InForceLatest DEF Begun, NotAfter
<1>9. ASSUME done # {} PROVE last \in Boundaries /\ IsBoundary(entries, last) /\ Begun(last)
  BY <1>9 DEF IInv, DoneInv, TypeInv, TypeOK
<1>10. ASSUME NEW b \in done PROVE NotAfter(b, cur)
  <2>1. NotAfter(b, last) /\ IsBoundary(entries, b) /\ NotAfter(last, cur)
    BY <1>8, <1>9, <1>10 DEF IInv, DoneInv
  <2> QED
    BY <1>5, <1>7, <1>9, <2>1 DEF NotAfter, Before, IsBoundary
<1>11. ASSUME cur \in done PROVE FALSE
  <2>1. NotAfter(cur, last) /\ NotAfter(last, cur) /\ IsBoundary(entries, last) /\ applied
    BY <1>8, <1>9, <1>11 DEF IInv, DoneInv
  <2>2. cur[1] = last[1] /\ entries[cur[2]].at = entries[last[2]].at
    BY <1>5, <1>7, <2>1 DEF NotAfter, Before, IsBoundary
  <2>3. cur[2] = last[2]
    BY <1>1, <1>5, <2>1, <2>2, ScheduleFacts DEF IsBoundary
  <2>4. cur = last
    BY <1>5, <1>9, <1>11, <2>2, <2>3 DEF Boundaries
  <2> QED
    BY <1>2, <2>1, <2>4 DEF TickStart, AlreadyApplied
<1> QED
  BY <1>3, <1>5, <1>6, <1>10, <1>11

LEMMA TypeStep == IInv /\ [Next]_vars => TypeInv'
<1> SUFFICES ASSUME IInv, [Next]_vars PROVE TypeInv'
  OBVIOUS
<1> USE DEF IInv, TypeInv, TypeOK
<1>1. NoBoundary \in Boundaries
  BY ScheduleAssumption DEF NoBoundary, Boundaries
<1>2. CASE TickStart
  BY <1>2, TickStartFacts DEF TickStart
<1>3. CASE ApplySucceeds
  <2>1. chosen[2] \in 1 .. Len(entries)
    BY <1>3 DEF ApplySucceeds, DueInv, IsBoundary
  <2>2. entries[chosen[2]].state \in States \union {BadState}
    BY <2>1, EntryTypes
  <2> QED
    BY <1>3, <2>2 DEF ApplySucceeds
<1>4. CASE ApplyFails
  BY <1>4 DEF ApplyFails, KeepRecord, history
<1>5. CASE Restart
  BY <1>1, <1>5 DEF Restart
<1>6. CASE MinutePasses
  BY <1>6 DEF MinutePasses, runner, history
<1>7. CASE ClockCorrection
  BY <1>1, <1>7 DEF ClockCorrection, runner, history
<1>8. CASE UNCHANGED vars
  BY <1>8 DEF vars, runner, history
<1> QED
  BY <1>2, <1>3, <1>4, <1>5, <1>6, <1>7, <1>8 DEF Next, Tick

(* Time that goes forwards keeps what has begun. *)
LEMMA BegunStays ==
    ASSUME IInv, wall' \in Times, Later(wall'), entries' = entries,
           NEW b, IsBoundary(entries, b), Begun(b)
    PROVE  Begun(b)'
<1>1. /\ wall.day \in Int /\ wall.minute \in Int /\ wall'.day \in Int /\ wall'.minute \in Int
      /\ b[1] \in Int
  BY ScheduleAssumption DEF IInv, TypeInv, TypeOK, Times, IsBoundary
<1>2. entries[b[2]].at \in Int
  BY EntryTypes, ScheduleAssumption DEF IInv, TypeInv, TypeOK, IsBoundary
<1> QED
  BY <1>1, <1>2 DEF Begun, Later, Before

LEMMA DueStep == IInv /\ [Next]_vars => DueInv'
<1> SUFFICES ASSUME IInv, [Next]_vars, ticking' PROVE DueInv'
  BY DEF DueInv
<1> USE DEF DueInv, IsBoundary, NotAfter
<1>1. CASE TickStart
  BY <1>1, TickStartFacts DEF TickStart, Begun
<1>2. CASE ApplySucceeds \/ ApplyFails \/ Restart
  BY <1>2 DEF ApplySucceeds, ApplyFails, Restart
<1>3. ASSUME wall' \in Times, Later(wall'), UNCHANGED <<runner, history>> PROVE DueInv'
  <2>1. CASE due = NoBoundary
    BY <1>3, <2>1 DEF runner, history, IInv
  <2>2. CASE due # NoBoundary
    <3>1. IsBoundary(entries, due) /\ Begun(due)
      BY <1>3, <2>2 DEF runner, history, IInv
    <3>2. Begun(due)'
      <4>1. PICK b : b = due
        OBVIOUS
      <4>2. Begun(b)'
        BY <1>3, <3>1, <4>1, BegunStays DEF runner
      <4> QED
        BY <1>3, <4>1, <4>2 DEF history, Begun
    <3> QED
      BY <1>3, <2>2, <3>2 DEF runner, history, IInv
  <2> QED
    BY <2>1, <2>2
<1>4. CASE MinutePasses
  <2>1. Later(wall')
    BY <1>4, ScheduleAssumption DEF MinutePasses, Later, Before, IInv, TypeInv, TypeOK, Times
  <2> QED
    BY <1>3, <1>4, <2>1 DEF MinutePasses
<1>5. CASE ClockCorrection
  <2>1. CASE Later(wall')
    BY <1>3, <1>5, <2>1 DEF ClockCorrection
  <2>2. CASE ~Later(wall')
    BY <1>5, <2>2 DEF ClockCorrection, runner, IInv
  <2> QED
    BY <2>1, <2>2
<1>6. CASE UNCHANGED vars
  BY <1>6 DEF vars, runner, history, IInv, Begun
<1> QED
  BY <1>1, <1>2, <1>4, <1>5, <1>6 DEF Next, Tick

LEMMA DoneStep == IInv /\ [Next]_vars => DoneInv'
<1> SUFFICES ASSUME IInv, [Next]_vars, done' # {} PROVE DoneInv'
  BY DEF DoneInv
<1> USE DEF DoneInv, IsBoundary, NotAfter
<1>1. CASE TickStart \/ ApplyFails \/ UNCHANGED vars
  BY <1>1 DEF TickStart, ApplyFails, KeepRecord, vars, runner, history, IInv, Begun
<1>2. CASE ApplySucceeds
  <2>1. CASE due = NoBoundary
    BY <1>2, <2>1 DEF ApplySucceeds, IInv, DueInv
  <2>2. CASE due # NoBoundary
    <3>1. /\ valid /\ IsBoundary(entries, due) /\ Begun(due) /\ last' = due /\ applied'
          /\ done' = done \union {due} /\ UNCHANGED <<entries, wall, valid>>
          /\ \A b \in done : NotAfter(b, due) /\ IsBoundary(entries, b)
      BY <1>2, <2>2 DEF ApplySucceeds, IInv, DueInv
    <3>2. NotAfter(due, due)
      <4>1. entries[due[2]].at \in Int
        BY <3>1, EntryTypes, ScheduleAssumption DEF IInv, TypeInv, TypeOK
      <4> QED
        BY <3>1, <4>1 DEF Before
    <3> QED
      BY <3>1, <3>2 DEF Begun
  <2> QED
    BY <2>1, <2>2
<1>3. CASE Restart
  BY <1>3 DEF Restart
<1>4. ASSUME wall' \in Times, Later(wall'), UNCHANGED <<runner, history>> PROVE DoneInv'
  <2>1. PICK b : b = last
    OBVIOUS
  <2>2. IsBoundary(entries, b) /\ Begun(b)
    BY <1>4, <2>1 DEF history, IInv
  <2>3. Begun(b)'
    BY <1>4, <2>2, BegunStays DEF runner
  <2> QED
    BY <1>4, <2>1, <2>3 DEF runner, history, IInv, Begun
<1>5. CASE MinutePasses
  <2>1. Later(wall')
    BY <1>5, ScheduleAssumption DEF MinutePasses, Later, Before, IInv, TypeInv, TypeOK, Times
  <2> QED
    BY <1>4, <1>5, <2>1 DEF MinutePasses
<1>6. CASE ClockCorrection
  <2>1. Later(wall')
    BY <1>6 DEF ClockCorrection
  <2> QED
    BY <1>4, <1>6, <2>1 DEF ClockCorrection
<1> QED
  BY <1>1, <1>2, <1>3, <1>5, <1>6 DEF Next, Tick

LEMMA RecordStep == IInv /\ [Next]_vars => RecordedWasVerified'
BY DEF IInv, RecordedWasVerified, Next, Tick, TickStart, ApplySucceeds, ApplyFails, KeepRecord,
   Restart, MinutePasses, ClockCorrection, vars, runner, history

LEMMA Invariance == Spec => []IInv
<1>1. IInv /\ [Next]_vars => IInv'
  BY TypeStep, DueStep, DoneStep, RecordStep DEF IInv
<1> QED
  BY <1>1, InitInv, PTL DEF Spec

-----------------------------------------------------------------------------
(* The theorems. *)

(* Types; with them, that tick() never selects an index outside the list or  *)
(* a day before the day before the first.                                    *)
THEOREM TypeCorrect == Spec => []TypeOK
<1>1. IInv => TypeOK
  BY DEF IInv, TypeInv
<1> QED
  BY <1>1, Invariance, PTL

(* tick() selects the event in force, for every valid list and every minute. *)
THEOREM SelectionInForce == Spec => []SelectsEventInForce
<1>1. ASSUME IInv PROVE SelectsEventInForce
  <2>1. SUFFICES ASSUME valid
                 PROVE  InForce(entries, Select(entries, wall.day, wall.minute),
                                wall.day, wall.minute)
    BY DEF SelectsEventInForce
  <2>2. /\ entries \in Seq(Entries) /\ ValidSchedule(entries)
        /\ wall.day \in Int /\ wall.minute \in Int
    BY <1>1, <2>1, ScheduleAssumption DEF IInv, TypeInv, TypeOK, Times
  <2> QED
    BY <2>2, SelectInForce
<1> QED
  BY <1>1, Invariance, PTL

(* A failed or interrupted call is never taken for an applied event. *)
THEOREM RecordsAreVerified == Spec => []RecordedWasVerified
<1>1. IInv => RecordedWasVerified
  BY DEF IInv
<1> QED
  BY <1>1, Invariance, PTL

(* An event that was verified is not applied again before the next one, as   *)
(* long as the clock is not set back: however long calls take, and over      *)
(* midnight.                                                                 *)
THEOREM AppliedOnce == Spec => OncePerEvent
<1>1. ASSUME IInv, [Next]_vars PROVE ~ticking /\ ticking' => due' \notin done
  <2>1. ASSUME ~ticking, ticking' PROVE TickStart
    BY <1>1, <2>1 DEF Next, Tick, TickStart, ApplySucceeds, ApplyFails, Restart, MinutePasses,
       ClockCorrection, vars, runner
  <2> QED
    BY <1>1, <2>1, TickStartFacts
<1> QED
  BY <1>1, Invariance, PTL DEF Spec, OncePerEvent

(* The event of the last minute of a day is still the same at midnight, for  *)
(* any set of years: by NextDayFollows, about the clock's day numbers, and   *)
(* since every entry begins before the day's last minute.                    *)
THEOREM MidnightKeepsEvent == Spec => []SameEventAfterMidnight
<1>1. ASSUME IInv PROVE SameEventAfterMidnight
  <2>1. SUFFICES ASSUME valid, Reached(entries, wall.minute) = {},
                        NEW y \in Years, NEW m \in 1 .. 12, NEW d \in 1 .. DaysIn(y, m)
                 PROVE  Select(entries, NextDay(y, m, d), wall.minute)
                          = Select(entries, Ordinal(y, m, d), DayLength - 1)
    BY DEF SameEventAfterMidnight
  <2>2. NextDay(y, m, d) = Ordinal(y, m, d) + 1 /\ Ordinal(y, m, d) \in Int
    <3>1. y \in Int
      BY YearsAssumption
    <3> QED
      BY <3>1, NextDayFollows, OrdinalType
  <2>3. entries \in Seq(Entries) /\ ValidSchedule(entries) /\ DayLength - 1 \in Int
    BY <1>1, <2>1, ScheduleAssumption DEF IInv, TypeInv, TypeOK
  <2>4. Len(entries) \in Nat \ {0} /\ \A i \in 1 .. Len(entries) : entries[i].at <= DayLength - 1
    BY <2>3, ScheduleFacts
  <2>5. /\ Len(entries) \in Reached(entries, DayLength - 1)
        /\ Reached(entries, DayLength - 1) \subseteq 1 .. Len(entries)
    BY <2>3, <2>4, ReachedFacts DEF Reached
  <2>6. LastReached(entries, DayLength - 1) = Len(entries)
    BY <2>3, <2>4, <2>5, ReachedFacts
  <2>7. Select(entries, Ordinal(y, m, d), DayLength - 1) = <<Ordinal(y, m, d), Len(entries)>>
    BY <2>5, <2>6 DEF Select
  <2>8. Select(entries, NextDay(y, m, d), wall.minute) = <<NextDay(y, m, d) - 1, Len(entries)>>
    BY <2>1 DEF Select
  <2> HIDE DEF SameEventAfterMidnight
  <2> QED
    BY <2>2, <2>7, <2>8
<1> QED
  BY <1>1, Invariance, PTL
=============================================================================
