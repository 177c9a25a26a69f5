SPECIFICATION FairSpec
CONSTANTS
    Event <- MCEvent
    Concurrency = 3
    Backpressure = 2
    InferPending = 2
    InferPermits = 1
    CpuWorkers = 1
    CacheTtl = 2
    MaxCacheSize = 1
    MaxClock = 2
    MaxStops = 1
CHECK_DEADLOCK FALSE
INVARIANTS TypeOK NoEventLost IntelIsFresh
PROPERTIES EveryEventHandled
