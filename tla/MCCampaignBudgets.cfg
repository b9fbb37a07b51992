SPECIFICATION Spec
CONSTANTS
    Campaigns = {c1, c2}
    Addresses = {1, 2}
    Unfilled <- MCNoRows
    Runners = {p1}
    Pace = 3
    Ceiling = 4
    Streak = 2
    LockTicks = 1
    SoftTicks = 0
    HardTicks = 1
    StaleTicks = 2
    Results <- AcceptsOrFails
    Decliners = {1}
    Blockable = {}
    MaxFaults = 1
    None = None
SYMMETRY Symmetry
INVARIANTS
    BudgetsHold
