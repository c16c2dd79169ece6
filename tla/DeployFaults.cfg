SPECIFICATION Spec
CONSTANTS
    n1 = n1
    k1 = k1
    k2 = k2
    k3 = k3
    Nodes = {n1}
    Keys = {k1, k2, k3}
    Slotted = {k1, k2}
    Server = TRUE
    Cloud = TRUE
    SameSecond = FALSE
    FaultKinds = {"registry", "read", "list", "download", "write", "stage", "extract", "link", "start", "signal", "run", "stat", "prune", "crash", "torn"}
    Keep = 2
    MaxReleases = 5
    MaxPublish = 2
    MaxFaults = 2
INVARIANTS TypeOK LinkWhole
PROPERTIES LiveReleaseUntouched
CHECK_DEADLOCK FALSE
