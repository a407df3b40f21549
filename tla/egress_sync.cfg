CONSTANTS
    None = None
    Absent = Absent
    p1 = p1
    p2 = p2
    r1 = r1
    r2 = r2
    d1 = d1
    any = any
    e1 = e1
    Tick = Tick
    Sweep = Sweep
    Projects = {p1, p2}
    Deployed = {p1}
    Requests = {r1}
    Ports = {1, 2}
    Domains = {any}
    AnyPort = {any}
    Endpoints = {}
    MaxOps = 2
    MaxFaults = 1
SPECIFICATION Spec
CHECK_DEADLOCK FALSE
INVARIANTS
    TypeOK
    ListenersDisjoint
    ListenerIsOwn
    OpensOnlyBlind
PROPERTIES
    SoloConverges
