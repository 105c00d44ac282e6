SPECIFICATION MCSpec
CONSTANTS
    Readers = {r1, r2}
    Writers = {w1, w2}
    Ttl = 2
    MaxDelay = 1
    MaxWrites = 3
    Processes = {p1}
    Shared = redis
    Keys = {k1, k2}
    Limit = 1
    Window = 3
    MaxEntries = 1
INVARIANTS
    TypeOK
    StalenessBound
    StaleHasCause
    AgesAgree
    LimiterTypeOK
    LimiterBound
    WindowsAgree
PROPERTIES
    EventuallyConsistent
    NobodyIsLockedOut
