SPECIFICATION Spec
CONSTANTS
    Handlers = {h1}
    Amounts = {1}
    OrderAmount = 1
    Deposit = 2
    FaultKinds = {"rollback"}
    MaxFaults = 1
INVARIANTS
    DeductedOnce
CHECK_DEADLOCK FALSE
