SPECIFICATION Spec
CONSTANTS
    n1 = n1
    n2 = n2
    n3 = n3
    Nodes = {n1, n2, n3}
    Tokens = {1, 2, 3, 4, 5, 6}
    NoToken = 0
    ETag = FALSE
    TTL = 2
    LockFloor = 3
    LockCeil = 5
    Timely = TRUE
    MaxCall = 1
    FaultKinds = {"upstream"}
    MaxFaults = 1
    MaxChanges = 1
INVARIANTS OneRefresher
PROPERTIES ReadsNeverGoBack
