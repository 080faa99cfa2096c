SPECIFICATION Spec
CONSTANTS
    Temps = {warm}
    NotFinite = NotFinite
    Malformed = Malformed
    Lost = Lost
    NotRead = NotRead
    DayLength = 2
    MaxEntries = 2
    MaxDay = 1
    Years = {2000}
PROPERTY
    ImplementsRunner
