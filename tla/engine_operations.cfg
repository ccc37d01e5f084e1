\* One flow of one step, every operation, one request at a time, whose client may hang up.
\* The operator may do nothing, so the system may stop.
CONSTANTS
    d1 = d1
    d2 = d2
    NoDef = NoDef
    Tickets = {t1}
    Defs = {d1}
    DependsOn <- Independent
    TomlDefs = {d1}
    Drivers = {v1, v2}
    Reqs = {r1}
    Permits = 1
    NumSteps = 1
    ShellTasks = 0
    BootStates <- NoJira
    Ops = {"add", "start", "pause", "resume", "stop", "retry", "delete", "markDone", "interrupt"}
SPECIFICATION Spec
SYMMETRY SlotSymmetry
CHECK_DEADLOCK FALSE
INVARIANTS TypeOK
PROPERTIES TerminalWins ImplementsAgentSlots
