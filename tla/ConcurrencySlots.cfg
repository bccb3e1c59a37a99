SPECIFICATION FairSpec
CONSTANTS
    r1 = r1
    r2 = r2
    c1 = c1
    c2 = c2
    p1 = p1
    p2 = p2
    u1 = u1
    a1 = a1
    NoAccount = NoAccount
    Requests = {r1, r2, c1, c2}
    Calls = {c1, c2}
    Processes = {p1, p2}
    ProcessOf <- MCProcessOf
    Users = {u1}
    UserOf <- MCUserOf
    Accounts = {a1}
    Limit <- MCLimit
    WaitLimits <- MCWaitLimits
    FaultKinds = {"redis", "failOpen", "crash", "outlive", "stall"}
    MaxFaults = 1
INVARIANTS
    LimitKept
    WaitersBounded
    NothingLeaks
PROPERTIES
    UnmeteredEnds
CHECK_DEADLOCK FALSE
