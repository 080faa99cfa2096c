SPECIFICATION FairSpec
CONSTANTS
    Word = 5
    Interval = 2
    MaxPass = 2
INVARIANT
    TrustedTimeOnly
PROPERTIES
    PacedExactly
    NetworkLossHarmless
    KeepsReconnecting
