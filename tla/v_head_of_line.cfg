CONSTANTS
    d1 = d1
    d2 = d2
    p1 = p1
    p2 = p2
    w1 = w1
    w2 = w2
    NoDep = NoDep
    Deployments = {d1, d2}
    Projects = {p1, p2}
    ProjectOf <- ProjectEach
    Slots = {w1}
    TickLimit = 1
    NeedsSidecar = {}
    MaxUploads = 1
    MaxFaults = 0
    Deletable = {}
    HealthOn = FALSE
SPECIFICATION PatientSpec
CHECK_DEADLOCK FALSE
PROPERTIES
    PushingIsHandled
