CONSTANTS
    None = None
    u1 = u1
    u2 = u2
    u3 = u3
    i1 = i1
    i2 = i2
    r1 = r1
    r2 = r2
    Users = {u1, u2}
    FirstAdmins = {u1, u2}
    Requests = {r1, r2}
    Issuers = {i1, i2}
    EnvIssuer = i1
    MaxOps = 3
    MaxKeys = 1
    MaxFaults = 1
SPECIFICATION Spec
CHECK_DEADLOCK FALSE
INVARIANTS
    TypeOK
    AdminRemains
    ValidTokenAccepted
PROPERTIES
    SettingsInForce
