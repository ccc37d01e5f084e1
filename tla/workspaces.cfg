SPECIFICATION MCSpec
CONSTANTS
    WTickets = {t1, t2}
    WReqs = {r1, r2}
    MaxPort = 65535
    WPorts = {1, 2, 3, 4}
    DynamicPorts = 1
    NoReq = NoReq
    MaxWRequests = 3
    MaxWFaults = 2
    FApps = {1}
    FSpares <- MCSpares
    MaxOpens = 2
    MaxListens = 2
    MaxLags = 1
INVARIANTS  ForwardsSafe
SYMMETRY MCSymmetry
CHECK_DEADLOCK FALSE
