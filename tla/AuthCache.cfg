SPECIFICATION FairSpec
CONSTANTS
    i1 = i1
    i2 = i2
    r1 = r1
    r2 = r2
    None = None
    Instances = {i1, i2}
    Requests = {r1, r2}
    Home <- MCHome
    MaxChanges = 1
    FaultKinds = {"redis", "db", "crash", "slowWorker", "lostMessage", "lostSecond", "slowFill", "slowPromotion"}
    MaxFaults = 1
INVARIANTS
    TypeOK
    StaleL2IsPending
    StaleL1IsPending
PROPERTIES
    EventuallyFresh
CHECK_DEADLOCK FALSE
