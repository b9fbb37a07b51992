SPECIFICATION MCSpec
CONSTANTS
    LogLength = 4
    Cleanup <- MCCleanup
    MaxRead = 3
    FlushEvery = 2
    s1 = s1
    s2 = s2
    Scanners = {s1, s2}
    Scenes = {"alone", "overlap"}
    MaxStops = 2
    MaxFaults = 1
    MaxRotations = 1
    None = None
INVARIANTS
    NothingSkipped
    CountedTwice
PROPERTY CatchesUp
CHECK_DEADLOCK FALSE
