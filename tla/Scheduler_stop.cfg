\* Stop(context.Background()).
SPECIFICATION FairSpec
CONSTANTS
    Jobs = {good}
    BadJobs = {}
    Runs = {r1}
    Listeners = {l1}
    StopDeadline = FALSE
    MaxStarts = 1
CHECK_DEADLOCK FALSE
PROPERTY StopReturns
