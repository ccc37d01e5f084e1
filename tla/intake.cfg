SPECIFICATION MCSpec
CONSTANTS
    Keys = {k1, k2, k3, k4, k5}
    RetryKeys = {k4, k5}
    Users = {o, u}
    Owner = o
    NoUser = nobody
    Repos = {p}
    AutoRepos = {p}
    MaxItems <- MCCaps
    PerUser = FALSE
    MaxActive = 2
    MaxManual = 1
    Requests = {r1, r2}
    Ops = {"settle", "reopen", "delete", "retry"}
INVARIANT PollerRowsBounded
INVARIANT ManualOverrunBounded
PROPERTY OrphansOnlyShrink
SYMMETRY MCSymmetry
