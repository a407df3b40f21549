CONSTANTS
    tick = tick
    request = request
    build = build
    Ticks = {tick}
    Requests = {}
    Builders = {build}
    Cap = 16
    Events <- OneEach
    MaxConns = 1
SPECIFICATION Spec
CHECK_DEADLOCK FALSE
INVARIANTS
    PublishNeverPanics
