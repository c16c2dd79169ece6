SPECIFICATION UndisturbedSpec
CONSTANTS
    p0 = p0
    p1 = p1
    p2 = p2
    p3 = p3
    Images = {1, 2, 3}
    Backwards = TRUE
    Slotted = {1, 2}
    Containers = {1, 2, 3, 4}
    Ports = {p1, p2, p3}
    NoPort = p0
    NoContainer = 0
    Replicas = 1
    HealthCheck = TRUE
    Podman = FALSE
    AutoDetect = FALSE
    SinglePort = {1, 2, 3}
    KeepImages = 1
    FaultKinds = {"registry", "runtime", "check", "pull", "expose", "prune", "list", "run", "health", "remove", "reap"}
    MaxFaults = 1
    MaxPublish = 2
PROPERTIES Converges
