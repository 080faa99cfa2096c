SPECIFICATION Spec
CONSTANTS
    MaxSessions = 2
    MaxOps = 2
    Expiring = {"Connect", "Discover", "Read", "Write", "Disconnect"}
    Unsolicited = TRUE
INVARIANTS
    TypeOK
    AnswersBelong
    BufferOwned
CHECK_DEADLOCK FALSE
