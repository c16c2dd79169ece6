SPECIFICATION FairSpec
CONSTANTS
    n1 = n1
    k1 = k1
    k2 = k2
    k3 = k3
    Nodes = {n1}
    Keys = {k1, k2, k3}
    Slotted = {k1, k2}
    Server = TRUE
    Cloud = FALSE
    SameSecond = FALSE
    FaultKinds = {"registry", "list", "download", "write", "start", "run", "crash"}
    Keep = 2
    MaxReleases = 7
    MaxPublish = 2
    MaxFaults = 2
INVARIANTS PrunedAfterOk
PROPERTIES Converges
