SPECIFICATION FairSpec
CONSTANTS
    MaxSessions = 2
    MaxOps = 1
    Expiring = {"Connect", "Discover", "Read", "Write", "Disconnect"}
    Unsolicited = FALSE
PROPERTIES
    EveryCallReturns
    BlockedHandleClears
CHECK_DEADLOCK FALSE
