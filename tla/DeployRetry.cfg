SPECIFICATION FairSpec
CONSTANTS
    n1 = n1
    k1 = k1
    k2 = k2
    k3 = k3
    Nodes = {n1}
    Keys = {k1, k2, k3}
    Slotted = {k1, k2}
    Server = TRUE
    Cloud = FALSE
    SameSecond = FALSE
    FaultKinds = {"extract"}
    Keep = 2
    MaxReleases = 6
    MaxPublish = 2
    MaxFaults = 1
PROPERTY Converges
