SPECIFICATION Spec
CONSTANTS
    MaxSessions = 3
    MaxOps = 1
    Expiring = {"Connect", "Discover", "Read", "Write", "Disconnect"}
    Unsolicited = TRUE
INVARIANTS
    NeverReused
    
    TerminatedBeforeConnect
CHECK_DEADLOCK FALSE
