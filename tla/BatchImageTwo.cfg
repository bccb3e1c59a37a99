CONSTANTS
    u1 = u1
    None = None
    Jobs = {b1, b2}
    Workers = {w1}
    Users <- MCUsers
    Owner <- MCOwner
    Hold <- MCHold
    Balances <- MCScarce
    MaxRetries = 1
    CancelJobs = {b1}
    ResubmitJobs = {b1}
    FaultKinds = {"db", "bill", "commit", "queue", "provider", "submitCrash", "workerCrash", "stall"}
    MaxFaults = 1
SPECIFICATION Spec
INVARIANTS
    TypeOK
    LiveJobIsFunded
    CompletedIsCharged
    MoneyOnlyFromOwnHold
PROPERTIES
    TerminalIsFinal
CHECK_DEADLOCK FALSE
