SPECIFICATION LimiterSpec
CONSTANTS
    Processes = {p1}
    Shared = redis
    Keys = {k1}
    Limit = 2
    Window = 2
    MaxEntries = 1
INVARIANT FallbackIsStricter
