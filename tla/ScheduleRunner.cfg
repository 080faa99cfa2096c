SPECIFICATION FairSpec
CONSTANTS
    DayLength = 3
    MaxEntries = 2
    MaxDay = 2
    States = {s1, s2}
    BadState = BadState
    Years = {1900, 2000}
INVARIANTS
    TypeOK
    SelectsEventInForce
    RecordedWasVerified
    SameEventAfterMidnight
PROPERTIES
    OncePerEvent
    EventApplied
