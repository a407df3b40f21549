CONSTANTS
    tick = tick
    request = request
    build = build
    Ticks = {tick}
    Requests = {}
    Builders = {build}
    Cap = 1
    Events <- OneEach
    MaxConns = 2
SPECIFICATION FairSpec
CHECK_DEADLOCK FALSE
PROPERTIES
    EventuallyDelivered
    StreamsEnd
