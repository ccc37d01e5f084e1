\* Two independent flows of one ticket, the operations that start and interrupt them.
CONSTANTS
    d1 = d1
    d2 = d2
    NoDef = NoDef
    Tickets = {t1}
    Defs = {d1, d2}
    DependsOn <- Independent
    TomlDefs = {d1, d2}
    Drivers = {v1, v2}
    Reqs = {r1}
    Permits = 1
    NumSteps = 1
    ShellTasks = 0
    BootStates <- NoJira
    Ops = {"add", "start", "retryDef", "pause", "resume", "stop", "resumeFromError"}
SPECIFICATION Spec
SYMMETRY SlotSymmetry
CHECK_DEADLOCK FALSE
INVARIANTS PermitAccounting ActiveHasDriver
