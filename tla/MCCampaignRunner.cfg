SPECIFICATION Spec
CONSTANTS
    Campaigns = {c1}
    Addresses = {1, 2}
    Unfilled <- MCNoRows
    Runners = {p1, p2}
    Pace = 2
    Ceiling = 2
    Streak = 2
    LockTicks = 2
    SoftTicks = 1
    HardTicks = 2
    StaleTicks = 3
    Results <- AcceptsOrLoses
    Decliners = {}
    Blockable = {c1}
    MaxFaults = 1
    None = None
SYMMETRY Symmetry
INVARIANTS
    MailedOnce
    InDoubt
    CompletedIsDone
    IInv
PROPERTY ImplementsContract
