SPECIFICATION MCSpec
CONSTANTS
    Keys = {k1, k2}
    Users = {o, u}
    Owner = o
    NoUser = nobody
    Repos = {p, q}
    AutoRepos = {p, q}
    MaxItems <- MCCaps
    PerUser = FALSE
    MaxActive = 3
    MaxManual = 1
    Requests = {}
    Ops = {"settle", "delete"}
    Preps = {p1}
    Flows = {f1}
    TreeOps = {"add", "start", "retry", "delete"}
    FApps = {1, 2}
    FSpares <- MCSpares
    MaxOpens = 1
    MaxListens = 2
    MaxLags = 1
    Providers = {"claude", "cursor"}
    Streams = {TRUE}
    Timeout = 2
    IdleNudge = 1
    MaxRepeats = 2
    CursorMaxNudges = 1
    MaxLines = 1
    Writers = {w1, w2}
    LogTasks = {driver, relay}
    BatchSize = 2
    Retention = 1
    MaxSends = 1
    MaxClock = 1
    LkTasks = {t1, t2, t3}
    LkJobs = {"list", "transition"}
    PrKeys = {"a", "b"}
    Prs = {1, 2}
    PrUnreadable = {2}
    MaxWorks = 2
    MaxPrFaults = 0
PROPERTIES PollerKeepsRepoCap AttemptsEnd LocksGranted NewsArrives
CHECK_DEADLOCK FALSE
