SPECIFICATION MCSpec
CONSTANTS
    Secrets = {t1, t2}
    Sites = {s1, s2}
    Nothing = nothing
    Pasted = pasted
    Posts = {r1, r2}
    Builds = {b1}
    App = TRUE
    MaxKey = 3
    MaxWrites = 3
    Life = 6
    Margin = 2
    PollEvery = 2
    FetchMax = 2
    Callers = {c1, c2}
    FileWriter = writer
    MaxClock = 20
    CfReqs = {c3, c4}
    CfPatches <- MCPatches
    CfEdits <- MCEdits
    SkipWindow = 1
    MaxTick = 1
    MaxCrashes = 1
INVARIANTS CredentialsSafe ConfigSafe
PROPERTIES AppTokenFresh
SYMMETRY MCSymmetry
CHECK_DEADLOCK FALSE
