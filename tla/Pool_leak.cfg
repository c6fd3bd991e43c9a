\* Two Scales of a pool of two, Pause and Resume.
SPECIFICATION Spec
CONSTANTS
    MaxWorkers = 2
    Targets = {}
    Growth <- Doubling
    MaxStarts = 1
    MaxSpawned = 3
INVARIANT NoneLost
CHECK_DEADLOCK FALSE
