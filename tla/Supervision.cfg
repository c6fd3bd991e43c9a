\* A queue of one or two workers and one of a single worker.
SPECIFICATION FairSpec
CONSTANTS
    q1 = q1
    q2 = q2
    Queues = {q1, q2}
    MinWorkers <- One
    MaxWorkers <- OneOrTwo
    Counts = {2}
    Backlogs <- Jobs
    MaxChanges = 1
    MaxStarts = 2
    MaxRequests = 1
INVARIANTS
    NoOrphans
    Served
    PanicsOnRestartOnly
PROPERTY Converges
CHECK_DEADLOCK FALSE
