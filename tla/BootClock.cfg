SPECIFICATION FairSpec
CONSTANTS
    MaxQueue = 2
    Refusable = {"registerSync", "initSntp", "registerIp", "start", "unregisterIp", "unregisterSync"}
    Word = 5
    Timeout = 2
INVARIANTS
    RollbackComplete
    SyncCallbackThere
    NoSynchronisationLost
PROPERTIES
    TimeoutIsReal
    LateSynchronisationNoticed
    ImplementsTrustedClock
