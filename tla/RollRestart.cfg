SPECIFICATION FairSpec
CONSTANTS
    p0 = p0
    p1 = p1
    p2 = p2
    p3 = p3
    Images = {1, 2}
    Backwards = TRUE
    Slotted = {1, 2}
    Containers = {1, 2, 3, 4}
    Ports = {p1, p2, p3}
    NoPort = p0
    NoContainer = 0
    Replicas = 1
    HealthCheck = TRUE
    Podman = FALSE
    AutoDetect = TRUE
    SinglePort = {1, 2}
    KeepImages = 1
    FaultKinds = {"crash"}
    MaxFaults = 1
    MaxPublish = 0
PROPERTIES Converges
