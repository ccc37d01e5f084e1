SPECIFICATION MCSpec
CONSTANTS
    MaxRuns = 2
    Drivers = {d1}
    Requests = {r1, r2}
    MaxEvents = 4
    SnSpaces = {"a", "b"}
    SnDefault = "a"
    SnTasks = {t1, t2}
    MaxVersion = 2
    MaxSnFaults = 1
INVARIANTS Recoverable StatesAreTheRunsOwn
PROPERTIES DeletionIsFinal RestoredIsDriven SnapshotsSafe
SYMMETRY MCSymmetry
CHECK_DEADLOCK FALSE
