SPECIFICATION Spec
CONSTANTS
    MaxQueue = 3
    MayRefuse = TRUE
INVARIANTS
    MasksAgree
    ResultsHonest
    NoNullCall
    ReadinessTracksStation
