CONSTANTS
    d1 = d1
    d2 = d2
    p1 = p1
    p2 = p2
    w1 = w1
    w2 = w2
    NoDep = NoDep
    Deployments = {d1, d2}
    Projects = {p1}
    ProjectOf <- OneProject
    Slots = {w1, w2}
    TickLimit = 8
    NeedsSidecar = {}
    MaxUploads = 1
    MaxFaults = 2
    Deletable = {}
    HealthOn = FALSE
SPECIFICATION Spec
CHECK_DEADLOCK FALSE
INVARIANTS
    TypeOK
    BuildingHasWorker
    RunningUnique
    RunningWasApplied
    SingleOwner
    ImageRecorded
PROPERTIES
    FollowsLifecycle
