SPECIFICATION Spec
CONSTANTS
    None = None
    Handlers = {h1}
    FaultKinds = {"lostRead"}
    MaxFaults = 1
INVARIANTS
    NoFailureAcknowledged
CHECK_DEADLOCK FALSE
