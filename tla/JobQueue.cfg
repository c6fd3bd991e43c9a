\* Two nodes with a worker each, one of which may fail; executions of j1 may outlast
\* RequeueTimeout, those of j2 do not; a job may be dispatched with no attempts at all.
SPECIFICATION FairSpec
CONSTANTS
    n1 = n1
    n2 = n2
    w1 = w1
    w2 = w2
    j1 = j1
    j2 = j2
    Nodes = {n1, n2}
    NoNode = NoNode
    Jobs = {j1, j2}
    NoJob = NoJob
    Workers = {w1, w2}
    NodeOf <- TwoNodes
    FaultyNodes = {n2}
    MaxAttemptsChoices = {0, 2}
    Priorities = {0}
    SlowJobs = {j1}
    MaxInterventions = 1
INVARIANTS
    TypeOK
    MutualExclusion
    ClaimOwned
    ErrorHistory
    RowConsistent
    AttemptBudget
PROPERTIES
    FinalIsFinal
    DeadLetterOnce
    ImplementsLifecycle
    EventuallyResolved
