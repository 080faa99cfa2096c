SPECIFICATION Spec
CONSTANTS
    MaxQueue = 1
    Refusable = {"start", "unregisterIp"}
    Word = 3
    Timeout = 1
INVARIANT
    NoHandlerOutlivesService
