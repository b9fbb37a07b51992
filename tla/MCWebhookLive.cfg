\* Liveness: one worker, in two scenes.
SPECIFICATION MCSpec
CONSTANTS
    e1 = e1
    e2 = e2
    v1 = v1
    v2 = v2
    ping = ping
    w1 = w1
    web = web
    m1 = m1
    None = None
    Endpoints = {e1, e2}
    Events = {v1, v2}
    PingEvents = {ping}
    Subscribed <- MCSubscribed
    Workers = {w1}
    Pingers = {web}
    Emitters = {m1}
    MaxAttempts = 2
    Backoff <- MCBackoff
    ClaimTicks = 2
    SoftTicks = 1
    BudgetTicks = 0
    Chunk = 2
    SweepLimit = 2
    MaxQueue = 1
    MaxFaults = 2
PROPERTY Settles
CHECK_DEADLOCK FALSE
