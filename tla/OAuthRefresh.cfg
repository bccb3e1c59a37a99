SPECIFICATION FairSpec
CONSTANTS
    b1 = b1
    b2 = b2
    r1 = r1
    a1 = a1
    p1 = p1
    p2 = p2
    None = None
    Requests = {r1}
    Background = {b1, b2}
    Administrators = {a1}
    Processes = {p1, p2}
    ProcessOf <- MCProcessOf
    Platforms = {"anthropic", "grok"}
    MaxTokens = 3
    FaultKinds = {"error", "unlocked", "rotated", "crash", "unread", "denied", "edit", "manual", "reauth"}
    MaxFaults = 1
INVARIANTS
    TypeOK
    NoReuse
    ErrorMeansDead
    StaleTokenIsDue
PROPERTIES
    StoredNeverRegresses
    DueIsServed
CHECK_DEADLOCK FALSE
