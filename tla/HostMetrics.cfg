SPECIFICATION HostSpec
CONSTANTS
    p0 = p0
    p1 = p1
    p2 = p2
    Images = {1, 2}
    Backwards = FALSE
    Slotted = {1, 2}
    Containers = {1, 2, 3, 4}
    Ports = {p1, p2}
    NoPort = p0
    NoContainer = 0
    Replicas = 1
    HealthCheck = FALSE
    Podman = TRUE
    AutoDetect = TRUE
    SinglePort = {1, 2}
    KeepImages = 1
    FaultKinds = {"expose", "port", "list", "stop", "remove", "die", "crash", "signal"}
    MaxFaults = 2
    MaxPublish = 1
    Scrapers = {s1, s2}
    TTL = 1
SYMMETRY HostSymmetry
INVARIANTS HostTypeOK ReportExact ShutdownStopsAll
