SPECIFICATION MCSpec
CONSTANTS
    Ids = {u1, u2}
    Names = {n1, n2}
    Passwords = {p1, p2}
    Sessions = {s1, s2}
    MaxCreds = 3
    MaxSets = 1
    Requests = {r1, r2}
    NoId = nobody
    NoPw = nopw
    NoName = noname
    Kick = TRUE
    Threshold = 2
    Window = 2
    MinRetry = 1
    IdleTtl = 3
    AbsTtl = 5
    Extend = 1
    Latency = 1
    Calls = {c1, c2}
    MaxTime = 8
INVARIANT AccountsSafe
PROPERTY LimitsSafe
SYMMETRY MCSymmetry
CHECK_DEADLOCK FALSE
