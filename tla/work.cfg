SPECIFICATION MCSpec
CONSTANTS
    Preps = {p1}
    Flows = {f1, f2}
    MaxRuns = 2
    Ops = {"add", "start", "retry", "delete"}
    Providers = {"claude", "codex", "cursor", "opencode"}
    Streams = {TRUE, FALSE}
    Timeout = 2
    IdleNudge = 1
    MaxRepeats = 2
    CursorMaxNudges = 1
    MaxLines = 2
    Files = {1, 2, 3}
    FileKinds = {"agent", "commands", "badstep"}
    MaxDeps = 2
    UsReqs = {v1, v2}
    Defaults <- DefaultFlowList
    ValidLists <- AcceptedLists
    CommandBodies <- AcceptedCommands
    PollingBodies <- AcceptedPolling
    UsNames = {"-", "A", "a", "B"}
    MaxFlows = 2
    MaxCommands = 2
    DbUsers = {a}
    MaxSchema = 2
    MaxBoots = 2
    JtDocs <- MCDocs
    MaxSaves = 2
    ClProviders = {"claude", "cursor"}
    ClUsers = {u1}
    ClReqs = {r1}
    MaxRelease = 2
    MaxClBoots = 2
    MaxClChanges = 1
    Writers = {w1, w2}
    LogTasks = {driver, relay}
    BatchSize = 2
    Retention = 1
    MaxSends = 2
    MaxClock = 1
    PrKeys = {"a", "b"}
    Prs = {1, 2}
    PrUnreadable = {2}
    MaxWorks = 2
    MaxPrFaults = 1
    LkTasks = {t1, t2}
    LkJobs <- AllJobs
INVARIANTS SetupTreeComplete BootstrapSparesAgents AgentSessionSafe FlowsSafe ClientsSafe ServerSafe
PROPERTIES ImportSafe TextSettles
CHECK_DEADLOCK FALSE
