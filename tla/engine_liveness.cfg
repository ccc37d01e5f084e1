\* Drivers of one flow of a shell task and a step that compete for one permit while the operator pauses, resumes,
\* stops and resumes from an error; a command without a timeout may never return.
CONSTANTS
    d1 = d1
    d2 = d2
    NoDef = NoDef
    Tickets = {t1}
    Defs = {d1}
    DependsOn <- Independent
    TomlDefs = {d1}
    Drivers = {v1, v2}
    Reqs = {r1}
    Permits = 1
    NumSteps = 1
    ShellTasks = 1
    BootStates <- NoJira
    Ops = {"add", "addToDashboard", "pause", "resume", "stop", "resumeFromError"}
SPECIFICATION FairSpec
CHECK_DEADLOCK FALSE
PROPERTIES NoDriverStuck ActiveSettles
