CONSTANTS
    d1 = d1
    d2 = d2
    p1 = p1
    p2 = p2
    w1 = w1
    w2 = w2
    NoDep = NoDep
    Deployments = {d1}
    Projects = {p1}
    ProjectOf <- OneProject
    Slots = {w1, w2}
    TickLimit = 8
    NeedsSidecar = {d1}
    MaxUploads = 2
    MaxFaults = 2
    Deletable = {p1}
    HealthOn = FALSE
SPECIFICATION Spec
CHECK_DEADLOCK FALSE
INVARIANTS
    TombstoneClean
    BuildingHasWorker
PROPERTIES
    FollowsLifecycle
