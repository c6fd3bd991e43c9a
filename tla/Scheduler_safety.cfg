\* Two runs in flight, two listeners, two Starts; the context given to Stop has
\* a deadline.  A scheduler may be left alone for ever.
SPECIFICATION FairSpec
CONSTANTS
    Jobs = {good, bad}
    BadJobs = {bad}
    Runs = {r1, r2}
    Listeners = {l1, l2}
    StopDeadline = TRUE
    MaxStarts = 2
INVARIANT ContextsCancelled
PROPERTIES
    EnqueuesWhileRunning
    EveryRunTold
    RunsEnd
    StopReturns
CHECK_DEADLOCK FALSE
