SPECIFICATION MCSpec
CONSTANTS
    LogLength = 4
    Cleanup <- MCCleanup
    MaxRead = 3
    FlushEvery = 2
    s1 = s1
    s2 = s2
    Scanners = {s1, s2}
    Scenes = {"alone"}
    MaxStops = 1
    MaxFaults = 0
    MaxRotations = 0
    None = None
INVARIANT StoppingLosesNothing
CHECK_DEADLOCK FALSE
