CONSTANTS
    None = None
    Absent = Absent
    p1 = p1
    p2 = p2
    r1 = r1
    r2 = r2
    d1 = d1
    any = any
    e1 = e1
    Tick = Tick
    Sweep = Sweep
    Projects = {p1, p2}
    Deployed = {p1}
    Requests = {r1, r2}
    Ports = {1, 2}
    Domains = {any}
    AnyPort = {any}
    Endpoints = {}
    MaxOps = 3
    MaxFaults = 0
SPECIFICATION Spec
CHECK_DEADLOCK FALSE
INVARIANTS
    NeverInherits
