SPECIFICATION FairSpec
CONSTANTS
    None = None
    Handlers = {h1, h2}
    FaultKinds = {"db", "commit", "provider", "crash", "stall", "lostRead", "slowReload"}
    MaxFaults = 2
INVARIANTS
    TypeOK
    AcknowledgedIsSettled
PROPERTIES
    ImplementsPurchase
    OnlyOwnerFinishes
    PaidIsSettled
CHECK_DEADLOCK FALSE
