\* One endpoint that an operator may switch off.
SPECIFICATION Spec
CONSTANTS
    e1 = e1
    v1 = v1
    v2 = v2
    ping = ping
    w1 = w1
    w2 = w2
    web = web
    m1 = m1
    m2 = m2
    None = None
    Endpoints = {e1}
    Events = {v1, v2}
    PingEvents = {}
    Subscribed <- MCSubscribed
    Workers = {w1, w2}
    Pingers = {}
    Emitters = {m1}
    MaxAttempts = 2
    Backoff <- MCBackoff
    ClaimTicks = 2
    SoftTicks = 1
    BudgetTicks = 0
    Chunk = 1
    SweepLimit = 2
    MaxQueue = 1
    MaxFaults = 1
SYMMETRY MCSymmetry
PROPERTY OffStaysOff
CHECK_DEADLOCK FALSE
