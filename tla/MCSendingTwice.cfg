SPECIFICATION Spec
CONSTANTS
    r1 = r1
    r2 = r2
    r3 = r3
    a1 = a1
    a2 = a2
    x1 = x1
    m1 = m1
    m2 = m2
    t1 = t1
    None = None
    Requests = {r1, r2}
    Approvers = {}
    Rejecters = {}
    Message <- MCMessage
    Token <- MCToken
    Quotas = 2
    Amount <- MCAmount
    Limit <- MCLimit
    MaxFaults = 0
INVARIANT OncePerKey
CHECK_DEADLOCK FALSE
