CONSTANTS
    Jobs = {b1, b2}
    Workers = {w1, w2}
    None = None
    Orphan = Orphan
    MaxFaults = 2
SPECIFICATION FairSpec
INVARIANTS
    TypeOK
    InflightIsPresent
    OneWorkerPerJob
PROPERTIES
    ImplementsJobQueue
    QueuedIsProcessed
CHECK_DEADLOCK FALSE
