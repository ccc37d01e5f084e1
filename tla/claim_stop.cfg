\* Two flows of one ticket, then stop.
CONSTANTS
    d1 = d1
    d2 = d2
    NoDef = NoDef
    Tickets = {t1}
    Defs = {d1, d2}
    DependsOn <- Independent
    TomlDefs = {d1, d2}
    Drivers = {v1, v2}
    Reqs = {r1}
    Permits = 1
    NumSteps = 1
    ShellTasks = 0
    BootStates <- NoJira
    Ops = {"add", "stop"}
SPECIFICATION Spec
SYMMETRY SlotSymmetry
CHECK_DEADLOCK FALSE
PROPERTIES StopReachesEveryDriver
