SPECIFICATION FairSpec
CONSTANTS
    n1 = n1
    n2 = n2
    Nodes = {n1, n2}
    Tokens = {1, 2, 3, 4}
    NoToken = 0
    ETag = TRUE
    TTL = 2
    LockFloor = 3
    LockCeil = 5
    Timely = TRUE
    MaxCall = 1
    FaultKinds = {"read", "claim", "lost", "publish", "release", "upstream", "crash"}
    MaxFaults = 2
    MaxChanges = 1
INVARIANTS TypeOK
PROPERTIES RefinesMirror RefreshOnlyWhenStale CurrentReturns
