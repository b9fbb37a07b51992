SPECIFICATION MCSpec
CONSTANTS
    Campaigns = {c1}
    Addresses = {1, 2, 3, 4, 5}
    Unfilled <- MCLastUnfilled
    Runners = {p1}
    Pace = 1
    Ceiling = 4
    Streak = 2
    LockTicks = 2
    SoftTicks = 1
    HardTicks = 2
    StaleTicks = 3
    Results <- Everything
    Decliners = {1, 2, 3, 4, 5}
    Blockable = {c1}
    MaxFaults = 2
    None = None
INVARIANTS
    StopsItself
    StopsSoon
PROPERTY Ends
