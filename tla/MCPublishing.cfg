SPECIFICATION MCSpec
CONSTANTS
    p1 = p1
    p2 = p2
    r1 = r1
    r2 = r2
    k = k
    None = None
    Plugins = {p1, p2}
    Settings = {c}
    Claims <- MCClaims
    Defaults = {p1}
    Requests = {r1, r2}
    Jobs = {j1}
    MaxOps = 3
    MaxFaults = 1
    a = a
    b = b
    x = x
    Publishers = {a, b}
    Contents = {x, y}
    Nothing = Nothing
    MaxNow = 2
    MaxEdits = 2
    Nets = {n1}
    People = {w1}
    Beat = beat
    u1 = u1
    Uploads = {u1, u2}
    MaxAsks = 2
    Provisioners = {a, b}
    MaxLives = 2
    MaxKeys = 3
INVARIANTS
    NoClash RemovedForGood StaysServed
PROPERTIES
    StaysSettled NoLostSetting Converges ServedInNaming RulesFollow KeysAgree
CHECK_DEADLOCK FALSE
