SPECIFICATION Spec
CONSTANTS
    Handlers = {h1, h2}
    Amounts = {1, 2}
    OrderAmount = 2
    Deposit = 2
    FaultKinds = {"db", "deduct", "crash", "gateway", "query", "lost", "rollback", "audit", "staleQuery"}
    MaxFaults = 2
INVARIANTS
    TypeOK
    DeductedForRefund
    RefundedMeansReturned
    ReturnedIsRemembered
PROPERTIES
    RefundedIsFinal
SYMMETRY MCSymmetry
CHECK_DEADLOCK FALSE
