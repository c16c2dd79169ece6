SPECIFICATION TrafficSpec
CONSTANTS
    p0 = p0
    p1 = p1
    p2 = p2
    p3 = p3
    p4 = p4
    p5 = p5
    p6 = p6
    Images = {1, 2}
    Backwards = TRUE
    Slotted = {1, 2}
    Containers = {1, 2, 3, 4, 5, 6, 7}
    Ports = {p1, p2, p3, p4, p5, p6}
    NoPort = p0
    NoContainer = 0
    Replicas = 2
    Conns = {1}
    Wrap = 4
    HealthCheck = TRUE
    Podman = FALSE
    AutoDetect = TRUE
    SinglePort = {1, 2}
    KeepImages = 1
    FaultKinds = {"run", "health", "stop", "crash"}
    MaxFaults = 2
    MaxPublish = 2
SYMMETRY PortSymmetry
INVARIANTS TrafficTypeOK NoOutage OnlyNewServed RollbackRestores CapacityKept
PROPERTIES FailsOnlyIfRemoved RefinesUpdate
