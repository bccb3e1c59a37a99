SPECIFICATION Spec
CONSTANTS
    update = update
    k1 = k1
    GlobalLock = lock
    None = None
    Scopes = {k1, lock}
    Operations = {update, o1, o2}
    Fingerprints = {update, o1, o2}
    Handlers = {h1, h2}
    KeyOf <- MCKeyOf
    Ttl = 3
    Backoff = 1
    Timeout = 2
    Horizon = 2
    FaultKinds = {"db", "lost", "crash", "overtaken", "stall"}
    MaxFaults = 0
INVARIANTS
    OneOperation
SYMMETRY MCSymmetry
CHECK_DEADLOCK FALSE
