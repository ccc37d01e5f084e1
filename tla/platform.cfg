SPECIFICATION MCSpec
CONSTANTS
    RpReqs = {q1, q2}
    RpUsers = {u1, u2}
    RpUrls <- MCUrls
    MaxSuffix = 2
    MaxRows = 2
    MaxRpCrashes = 1
    BdUsers = {b1, b2}
    FlowLen <- MCLen
    Trackers = {"none", "jira"}
    MaxItems = 1
    MaxSteps = 2
    MaxEdits = 1
    JbKeys = {9}
    JbType <- MCType
    JbTypes = {"Task", "Bug"}
    JbLinks <- MCLinks
    JbUsers = {j1}
    JbFlow <- MCFlow
    JbCategory <- MCCategory
    JbShown <- MCShown
    JbDone = "Done"
    JbTasks = {k1, k2}
    ListLimit = 2
    MaxJbFaults = 1
    PxTickets = {x1, x2}
    PxUsers = {x1, x2}
    PxOwner <- MCOwner
    PxPorts = {p1, p2}
    PxReqs = {r1}
    MaxBackends = 2
    MaxTokens = 2
    MaxSeen = 1
    MaxAsks = 3
PROPERTIES RepositoriesSafe BoardSafe TicketsFollow ProxySafe
SYMMETRY MCSymmetry
CHECK_DEADLOCK FALSE
