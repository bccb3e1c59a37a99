CONSTANTS
    u1 = u1
    None = None
    Jobs = {b1}
    Workers = {w1, w2}
    Users <- MCUsers
    Owner <- MCOwner
    Hold <- MCHold
    Balances <- MCScarce
    MaxRetries = 2
    CancelJobs = {}
    ResubmitJobs = {b1}
    FaultKinds = {"db", "bill", "provider", "workerCrash"}
    MaxFaults = 3
SPECIFICATION FairSpec
INVARIANTS
    OpenHoldHasOwner
PROPERTIES
    HoldIsResolved
CHECK_DEADLOCK FALSE
