CONSTANTS
    None = None
    k1 = k1
    k2 = k2
    k3 = k3
    m0 = m0
    m1 = m1
    r1 = r1
    r2 = r2
    Tick = Tick
    Rekey = Rekey
    Keys = {k1, k2}
    Creds = {k1, k2}
    Marker = k1
    Legacy = {}
    Manifests = {m0, m1}
    Needy = {m1}
    Created = m0
    Requests = {}
    MaxOps = 2
    MaxFaults = 1
SPECIFICATION Spec
CHECK_DEADLOCK FALSE
INVARIANTS
    CredentialsAlways
