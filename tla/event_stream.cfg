CONSTANTS
    tick = tick
    request = request
    build = build
    Ticks = {tick}
    Requests = {}
    Builders = {build}
    Cap = 1
    Events <- TwoTicks
    MaxConns = 2
SPECIFICATION Spec
CHECK_DEADLOCK FALSE
INVARIANTS
    TypeOK
    InOrder
    NoGaps
    NoLostWakeup
PROPERTIES
    FollowsFeed
