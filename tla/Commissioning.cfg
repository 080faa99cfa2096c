SPECIFICATION FairSpec
CONSTANTS
    PinLength = 1
    MaxMistakes = 1
    Peers = {p1, p2}
    Nothing = Nothing
    MaxBoots = 2
    MaxAsked = 2
INVARIANTS
    SelectedWasPaired
    OneSubmissionPerRequest
PROPERTY
    TypedPinIsSubmitted
CHECK_DEADLOCK FALSE
