SPECIFICATION Spec
CONSTANTS
    PinLength = 1
    MaxMistakes = 0
    Peers = {p1, p2}
    Nothing = Nothing
    MaxBoots = 2
    MaxAsked = 1
PROPERTY
    SelectionKept
CHECK_DEADLOCK FALSE
