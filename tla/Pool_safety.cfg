\* A restart, and Scales within and beyond the capacity of p.workers.
SPECIFICATION Spec
CONSTANTS
    MaxWorkers = 2
    Targets = {3, 5}
    Growth <- Doubling
    MaxStarts = 2
    MaxSpawned = 6
INVARIANTS
    Tracked
    HonoursTarget
    KeepsOne
PROPERTY RestartIsolated
CHECK_DEADLOCK FALSE
