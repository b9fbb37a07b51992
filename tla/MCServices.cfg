SPECIFICATION MCSpec
CONSTANTS
    e1 = e1
    e2 = e2
    Logins = {l1}
    Modes = {"pause", "notify"}
    Limit = 1
    Evaluators = {e1, e2}
    Admins = {a1}
    MaxPaused = 1
    MaxOutages = 1
    s1 = s1
    s2 = s2
    Scanners = {s1, s2}
    Batch = 1
    MaxMail = 2
    MaxBoxes = 2
    MaxFailures = 1
    c1 = c1
    c2 = c2
    Counters = {c1, c2}
    Batches <- MCBatches
    MinMessages = 2
    BounceLimit = 50
    Day = 2
    MaxTicks = 2
    MaxBatches = 2
    MaxMissed = 1
    Users = {u1, u2}
    Superusers = {u1}
    Consoles = {b1, b2}
INVARIANTS
    Forgiven NothingPassed AnnouncedOnce
    PausedForItsResults NoneEscapes AdministratorLeft
PROPERTIES
    Followed ContainedInPause CaughtUp
CHECK_DEADLOCK FALSE
