--------------------------- MODULE JobQueueProofs ---------------------------
(***************************************************************************)
(* Theorems of JobQueue for every set of jobs, nodes and workers.          *)
(***************************************************************************)
EXTENDS JobQueue, TLAPS

(* The row operators of JobTable keep a row a row. *)
LEMMA RowTypes ==
    ASSUME NEW row \in Row
    PROVE  /\ \A n \in Nodes : ClaimRow(row, n) \in Row
           /\ CompleteRow(row) \in Row
           /\ FailRow(row) \in Row
           /\ ScheduleRetryRow(row) \in Row
           /\ RetryRow(row) \in Row
           /\ CancelRow(row) \in Row
           /\ RequeueRow(row) \in Row
           /\ ChainedRow(row) \in Row
           /\ [row EXCEPT !.scheduled_at = "due"] \in Row
           /\ [row EXCEPT !.attempted_at = "stale"] \in Row
<1>0. row.attempt + 1 \in Nat
    BY DEF Row
<1>1. \A n \in Nodes : ClaimRow(row, n) \in Row
    BY <1>0 DEF ClaimRow, Row, RowStates, States
<1>2. CompleteRow(row) \in Row /\ CancelRow(row) \in Row /\ RequeueRow(row) \in Row
    BY DEF CompleteRow, CancelRow, RequeueRow, Row, RowStates, States
<1>3. Append(row.errors, row.attempt) \in Seq(Nat) /\ <<>> \in Seq(Nat)
    BY DEF Row
<1>4. FailRow(row) \in Row /\ ScheduleRetryRow(row) \in Row
    BY <1>3 DEF FailRow, ScheduleRetryRow, Row, RowStates, States
<1>5. RetryRow(row) \in Row
    BY <1>3 DEF RetryRow, Row, RowStates, States
<1>6. ChainedRow(row) \in Row
    BY DEF ChainedRow, Row, RowStates, States
<1>7. [row EXCEPT !.scheduled_at = "due"] \in Row /\ [row EXCEPT !.attempted_at = "stale"] \in Row
    BY DEF Row
<1> QED BY <1>1, <1>2, <1>4, <1>5, <1>6, <1>7

(* The rows no row operator makes: never inserted, pruned, freshly built. *)
LEMMA NewRowTypes ==
    /\ NoRow \in Row /\ PrunedRow \in Row
    /\ \A row \in JobRows : row \in Row
<1>1. NoRow \in Row
    BY DEF NoRow, Row, RowStates, States
<1>2. PrunedRow \in Row
    BY <1>1 DEF PrunedRow, Row, RowStates
<1>3. ASSUME NEW row \in JobRows PROVE row \in Row
    <2>1. PICK m \in MaxAttemptsChoices, t \in {"future", "due"}, p \in Priorities :
              row = JobRow(m, t, p)
        BY <1>3 DEF JobRows
    <2>2. m \in Int /\ p \in Int
        BY TableAssumption
    <2> QED BY <1>1, <2>1, <2>2 DEF JobRow, Row, RowStates, States
<1> QED BY <1>1, <1>2, <1>3

LEMMA IdleWorkers ==
    /\ \A pc \in PCs : At(pc) \in Worker
    /\ \A pc : At(pc).pc = pc
BY DEF At, Worker, Results

-----------------------------------------------------------------------------
(* The actions of Next, one disjunct each, so that the proofs below have one *)
(* step per action.                                                          *)
LEMMA NextActions ==
    ASSUME Next
    PROVE  \/ \E j \in Jobs, row \in JobRows : Dispatch(j, row)
           \/ \E ids \in SUBSET Jobs : \E rows \in [ids -> Row] :
                 /\ DispatchBatch(rows)
                 /\ \A j \in ids : \E row \in JobRows : rows[j] \in {row, ChainedRow(row)}
           \/ \E ids \in SUBSET Jobs : RetryBatch(ids) \/ CancelBatch(ids)
           \/ Prune
           \/ \E w \in Workers : WorkerStep(w)
           \/ \E n \in Nodes : NodeStep(n)
           \/ \E j \in Jobs : Tick(j)
<1>1. ASSUME NEW ids \in SUBSET Jobs, NEW rows \in [ids -> JobRows], DispatchBatch(rows)
      PROVE  \E rs \in [ids -> Row] :
                 /\ DispatchBatch(rs)
                 /\ \A j \in ids : \E row \in JobRows : rs[j] \in {row, ChainedRow(row)}
    <2>1. rows \in [ids -> Row]
        BY NewRowTypes
    <2> QED BY <1>1, <2>1
<1>2. ASSUME NEW ids \in SUBSET Jobs, NEW rows \in [ids -> JobRows], NEW head \in ids,
             Chain(rows, head)
      PROVE  \E rs \in [ids -> Row] :
                 /\ DispatchBatch(rs)
                 /\ \A j \in ids : \E row \in JobRows : rs[j] \in {row, ChainedRow(row)}
    <2> DEFINE rs == [j \in DOMAIN rows |-> IF j = head THEN rows[j] ELSE ChainedRow(rows[j])]
    <2>1. DispatchBatch(rs)
        BY <1>2 DEF Chain
    <2>2. \A j \in ids : rows[j] \in JobRows /\ rows[j] \in Row
        BY NewRowTypes
    <2>3. \A row \in Row : ChainedRow(row) \in Row
        BY DEF ChainedRow, Row, RowStates, States
    <2>4. rs \in [ids -> Row]
        BY <2>2, <2>3
    <2>5. \A j \in ids : rs[j] \in {rows[j], ChainedRow(rows[j])}
        OBVIOUS
    <2> HIDE DEF rs
    <2> QED BY <2>1, <2>2, <2>4, <2>5
<1> QED BY <1>1, <1>2 DEF Next, Client, Dashboard

-----------------------------------------------------------------------------
(* Type correctness. *)

(* A settle rewrites its job's row with one of three row operators or not   *)
(* at all.                                                                  *)
LEMMA SettledRows ==
    ASSUME NEW row, NEW result
    PROVE  SettledRow(row, result) \in {row, CompleteRow(row), ScheduleRetryRow(row), FailRow(row)}
BY DEF SettledRow

LEMMA TypeStep ==
    ASSUME TypeOK, [Next]_vars
    PROVE  TypeOK'
<1> USE QueueAssumption
<1>0. CASE UNCHANGED vars
    BY <1>0 DEF TypeOK, vars, Holding
<1>1. ASSUME NEW j \in Jobs, NEW row \in JobRows, Dispatch(j, row) PROVE TypeOK'
    BY <1>1, NewRowTypes DEF Dispatch, TypeOK, Holding
<1>2. ASSUME NEW ids \in SUBSET Jobs, NEW rows \in [ids -> Row], DispatchBatch(rows)
      PROVE  TypeOK'
    BY <1>2 DEF DispatchBatch, TypeOK, Holding
<1>3. ASSUME NEW ids \in SUBSET Jobs, RetryBatch(ids) PROVE TypeOK'
    <2>1. jobs' \in [Jobs -> Row]
        BY <1>3, RowTypes DEF RetryBatch, TypeOK
    <2> QED BY <1>3, <2>1 DEF RetryBatch, Intervene, TypeOK, Holding
<1>4. ASSUME NEW ids \in SUBSET Jobs, CancelBatch(ids) PROVE TypeOK'
    <2>1. jobs' \in [Jobs -> Row]
        BY <1>4, RowTypes DEF CancelBatch, TypeOK
    <2> QED BY <1>4, <2>1 DEF CancelBatch, TypeOK, Holding
<1>5. ASSUME NEW w \in Workers, WorkerStep(w) PROVE TypeOK'
    <2>1. CASE Poll(w)
        BY <2>1, IdleWorkers DEF Poll, TypeOK, Holding, PCs
    <2>2. CASE Claim(w)
        <3>1. PICK j \in Jobs :
                /\ jobs' = [jobs EXCEPT ![j] = ClaimRow(@, NodeOf[w])]
                /\ worker' = [worker EXCEPT ![w] =
                                [pc |-> "exec", job |-> j, attempt |-> jobs[j].attempt + 1,
                                 max_attempts |-> jobs[j].max_attempts, result |-> "none"]]
                /\ runs' = [runs EXCEPT ![j] = @ + 1]
            BY <2>2 DEF Claim
        <3>2. jobs[j] \in Row
            BY DEF TypeOK
        <3>3. ClaimRow(jobs[j], NodeOf[w]) \in Row
            BY <3>2, RowTypes
        <3>4. [pc |-> "exec", job |-> j, attempt |-> jobs[j].attempt + 1,
               max_attempts |-> jobs[j].max_attempts, result |-> "none"] \in Worker
            BY <3>2 DEF Row, Worker, PCs, Results
        <3> QED BY <2>2, <3>1, <3>3, <3>4 DEF Claim, TypeOK, Holding
    <2>3. CASE ClaimNothing(w)
        BY <2>3, IdleWorkers DEF ClaimNothing, TypeOK, Holding, PCs
    <2>4. CASE ClaimError(w)
        BY <2>4, IdleWorkers DEF ClaimError, Intervene, TypeOK, Holding, PCs
    <2>5. CASE ClaimAnswerLost(w)
        <3>1. PICK j \in Jobs : jobs' = [jobs EXCEPT ![j] = ClaimRow(@, NodeOf[w])]
            BY <2>5 DEF ClaimAnswerLost
        <3>2. jobs[j] \in Row
            BY DEF TypeOK
        <3>3. ClaimRow(jobs[j], NodeOf[w]) \in Row
            BY <3>2, RowTypes
        <3> QED BY <2>5, <3>1, <3>3, IdleWorkers DEF ClaimAnswerLost, Intervene, TypeOK, Holding, PCs
    <2>6. CASE Execute(w)
        <3>1. PICK result \in Outcomes(w) :
                worker' = [worker EXCEPT ![w].pc = "settle", ![w].result = result]
            BY <2>6 DEF Execute
        <3>2. result \in Results
            BY DEF Outcomes, ComputeNextState, Results
        <3>3. worker[w] \in Worker /\ worker[w].job \in Jobs
            BY <2>6 DEF Execute, TypeOK, Holding
        <3>4. [worker[w] EXCEPT !.pc = "settle", !.result = result] \in Worker
            BY <3>2, <3>3 DEF Worker, PCs
        <3>5. worker' = [worker EXCEPT ![w] = [@ EXCEPT !.pc = "settle", !.result = result]]
            BY <3>1, <3>3 DEF TypeOK, Worker
        <3>6. worker' \in [Workers -> Worker]
            BY <3>4, <3>5 DEF TypeOK
        <3>7. \A v \in Workers : v # w => worker'[v] = worker[v]
            BY <3>5 DEF TypeOK
        <3>8. worker'[w].job \in Jobs
            BY <3>3, <3>5 DEF TypeOK, Worker
        <3> QED BY <2>6, <3>6, <3>7, <3>8 DEF Execute, TypeOK, Holding
    <2>7. CASE Settle(w)
        <3>1. worker[w].job \in Jobs
            BY <2>7 DEF Settle, TypeOK, Holding
        <3> DEFINE row == jobs[worker[w].job]
        <3>a. row \in Row
            BY <3>1 DEF TypeOK
        <3>b. CompleteRow(row) \in Row /\ ScheduleRetryRow(row) \in Row /\ FailRow(row) \in Row
            BY <3>a, RowTypes
        <3>2. SettledRow(row, worker[w].result) \in Row
            BY <3>a, <3>b, SettledRows
        <3>3. jobs' \in [Jobs -> Row]
            BY <2>7, <3>2 DEF Settle, TypeOK
        <3>4. failed_jobs' \in [Jobs -> Nat]
            BY <2>7, <3>1 DEF Settle, TypeOK
        <3> QED BY <2>7, <3>3, <3>4, IdleWorkers DEF Settle, TypeOK, Holding, PCs
    <2>8. CASE SettleError(w)
        BY <2>8, IdleWorkers DEF SettleError, Intervene, TypeOK, Holding, PCs
    <2> QED BY <1>5, <2>1, <2>2, <2>3, <2>4, <2>5, <2>6, <2>7, <2>8 DEF WorkerStep
<1>8. CASE Prune
    <2>1. jobs' \in [Jobs -> Row]
        BY <1>8, NewRowTypes DEF Prune, TypeOK
    <2> QED BY <1>8, <2>1 DEF Prune, TypeOK, Holding
<1>6. ASSUME NEW n \in Nodes, NodeStep(n) PROVE TypeOK'
    <2>1. CASE RequeueStale(n)
        <3>1. jobs' \in [Jobs -> Row]
            BY <2>1, RowTypes DEF RequeueStale, TypeOK
        <3> QED BY <2>1, <3>1 DEF RequeueStale, TypeOK, Holding
    <2>2. CASE doPrune(n)
        BY <2>2, <1>8 DEF doPrune
    <2>3. CASE SupervisorStop(n)
        BY <2>3 DEF SupervisorStop, Intervene, TypeOK, Holding
    <2>4. CASE Exit(n)
        BY <2>4, IdleWorkers DEF Exit, Die, TypeOK, Holding, PCs
    <2>5. CASE Crash(n)
        BY <2>5, IdleWorkers DEF Crash, Die, Intervene, TypeOK, Holding, PCs
    <2>6. CASE SupervisorStart(n)
        BY <2>6, IdleWorkers DEF SupervisorStart, TypeOK, Holding, PCs
    <2> QED BY <1>6, <2>1, <2>2, <2>3, <2>4, <2>5, <2>6 DEF NodeStep
<1>7. ASSUME NEW j \in Jobs, Tick(j) PROVE TypeOK'
    <2>1. jobs[j] \in Row
        BY DEF TypeOK
    <2>2. [jobs[j] EXCEPT !.scheduled_at = "due"] \in Row
          /\ [jobs[j] EXCEPT !.attempted_at = "stale"] \in Row
        BY <2>1, RowTypes
    <2>3. jobs' \in [Jobs -> Row]
        BY <1>7, <2>2 DEF Tick, BecomeDue, BecomeStale, TypeOK
    <2> QED BY <1>7, <2>3 DEF Tick, BecomeDue, BecomeStale, TypeOK, Holding
<1> QED BY <1>0, <1>1, <1>2, <1>3, <1>4, <1>5, <1>6, <1>7, <1>8, NextActions

(* Every variable of the queue keeps its type: no claim, settle, requeue or *)
(* prune of pool.go, supervisor.go and the SQL driver leaves a row or a     *)
(* worker malformed, and a worker that executes always has a job.           *)
THEOREM TypeCorrect == Spec => []TypeOK
<1>1. Init => TypeOK
    BY NewRowTypes, IdleWorkers, QueueAssumption DEF Init, TypeOK, Holding, PCs
<1>2. TypeOK /\ [Next]_vars => TypeOK'
    BY TypeStep
<1> QED BY <1>1, <1>2, PTL DEF Spec

-----------------------------------------------------------------------------
(* Mutual exclusion of executions, and ownership of claims, when executions *)
(* end within RequeueTimeout.  Neither is inductive alone: that a requeue   *)
(* or a settle does not pull a row from under another worker needs          *)
(* ClaimOwned, and that ClaimOwned survives a settle needs MutualExclusion. *)
ExclusionInv == TypeOK /\ ClaimOwned /\ MutualExclusion

(* What every action but Claim does: those who hold a job that is not slow  *)
(* after the step held it before, with the same row.                        *)
HoldersKept ==
    \A v \in Workers : HoldingSafely(v)' =>
        /\ HoldingSafely(v)
        /\ worker'[v].job = worker[v].job
        /\ worker'[v].attempt = worker[v].attempt
        /\ jobs'[worker[v].job] = jobs[worker[v].job]

LEMMA KeptExclusion ==
    ASSUME ClaimOwned, MutualExclusion, HoldersKept
    PROVE  ClaimOwned' /\ MutualExclusion'
BY DEF ClaimOwned, MutualExclusion, HoldersKept, HoldingSafely

LEMMA ExclusionStep ==
    ASSUME ExclusionInv, [Next]_vars
    PROVE  (ClaimOwned /\ MutualExclusion)'
<1> USE QueueAssumption
<1>a. TypeOK /\ ClaimOwned /\ MutualExclusion
    BY DEF ExclusionInv
<1>b. \A v \in Workers : HoldingSafely(v) =>
        /\ worker[v].job \in Jobs
        /\ jobs[worker[v].job].state = "running"
        /\ jobs[worker[v].job].attempted_at = "fresh"
    BY <1>a DEF ClaimOwned, TypeOK, HoldingSafely
(* Steps that leave the workers and every running row alone. *)
<1>c. ASSUME UNCHANGED worker,
             \A j \in Jobs : jobs[j].state = "running" /\ jobs[j].attempted_at = "fresh"
                               => jobs'[j] = jobs[j]
      PROVE  HoldersKept
    BY <1>b, <1>c DEF HoldersKept, HoldingSafely, Holding
(* Steps that leave the table alone and make no worker a holder. *)
<1>d. ASSUME UNCHANGED jobs,
             \A v \in Workers : worker'[v] = worker[v] \/ worker'[v].pc \notin {"exec", "settle"}
      PROVE  HoldersKept
    BY <1>d DEF HoldersKept, HoldingSafely, Holding
<1>0. CASE UNCHANGED vars
    BY <1>0, <1>a, <1>d, KeptExclusion DEF vars
<1>1. ASSUME NEW j \in Jobs, NEW row \in JobRows, Dispatch(j, row) PROVE HoldersKept
    BY <1>1, <1>a, <1>c DEF Dispatch, TypeOK
<1>2. ASSUME NEW ids \in SUBSET Jobs, NEW rows \in [ids -> Row], DispatchBatch(rows)
      PROVE  HoldersKept
    BY <1>2, <1>c DEF DispatchBatch
<1>3. ASSUME NEW ids \in SUBSET Jobs, RetryBatch(ids) PROVE HoldersKept
    BY <1>3, <1>c DEF RetryBatch, CanRetry
<1>4. ASSUME NEW ids \in SUBSET Jobs, CancelBatch(ids) PROVE HoldersKept
    BY <1>4, <1>c DEF CancelBatch, CanCancel
<1>5. ASSUME NEW w \in Workers, WorkerStep(w) PROVE (ClaimOwned /\ MutualExclusion)'
    <2>1. CASE Poll(w)
        BY <2>1, <1>a, <1>d, IdleWorkers, KeptExclusion DEF Poll, TypeOK, PCs
    <2>2. CASE Claim(w)
        <3>1. PICK j \in Jobs :
                /\ First(j)
                /\ jobs' = [jobs EXCEPT ![j] = ClaimRow(@, NodeOf[w])]
                /\ worker' = [worker EXCEPT ![w] =
                                [pc |-> "exec", job |-> j, attempt |-> jobs[j].attempt + 1,
                                 max_attempts |-> jobs[j].max_attempts, result |-> "none"]]
            BY <2>2 DEF Claim
        <3>2. jobs[j].state # "running"
            BY <3>1 DEF First, Claimable, ClaimStates
        <3>3. \A v \in Workers : v # w => worker'[v] = worker[v] /\ (HoldingSafely(v) => worker[v].job # j)
            BY <3>1, <3>2, <1>a, <1>b DEF TypeOK
        <3>4. /\ worker'[w].pc = "exec" /\ worker'[w].job = j
              /\ worker'[w].attempt = jobs[j].attempt + 1
            BY <3>1, <1>a DEF TypeOK
        <3>5. /\ jobs'[j].state = "running" /\ jobs'[j].node_id = NodeOf[w]
              /\ jobs'[j].attempt = jobs[j].attempt + 1 /\ jobs'[j].attempted_at = "fresh"
            BY <3>1, <1>a DEF ClaimRow, TypeOK, Row
        <3>6. \A k \in Jobs : k # j => jobs'[k] = jobs[k]
            BY <3>1, <1>a DEF TypeOK
        <3>7. ClaimOwned'
            BY <3>3, <3>4, <3>5, <3>6, <1>a, <1>b DEF ClaimOwned, HoldingSafely, Holding
        <3>8. MutualExclusion'
            BY <3>3, <3>4, <1>a DEF MutualExclusion, HoldingSafely, Holding
        <3> QED BY <3>7, <3>8
    <2>3. CASE ClaimNothing(w)
        BY <2>3, <1>a, <1>d, IdleWorkers, KeptExclusion DEF ClaimNothing, TypeOK, PCs
    <2>4. CASE ClaimError(w)
        BY <2>4, <1>a, <1>d, IdleWorkers, KeptExclusion DEF ClaimError, TypeOK, PCs
    <2>5. CASE ClaimAnswerLost(w)
        <3>1. PICK j \in Jobs : First(j) /\ jobs' = [jobs EXCEPT ![j] = ClaimRow(@, NodeOf[w])]
            BY <2>5 DEF ClaimAnswerLost
        <3>2. \A k \in Jobs : jobs[k].state = "running" => jobs'[k] = jobs[k]
            BY <3>1, <1>a DEF First, Claimable, ClaimStates, TypeOK
        <3>3. worker' = [worker EXCEPT ![w] = At("top")] /\ At("top").pc = "top"
            BY <2>5, IdleWorkers DEF ClaimAnswerLost
        <3>4. HoldersKept
            BY <3>2, <3>3, <1>a, <1>b DEF HoldersKept, HoldingSafely, Holding, TypeOK
        <3> QED BY <3>4, <1>a, KeptExclusion
    <2>6. CASE Execute(w)
        <3>1. worker[w].pc = "exec" /\ UNCHANGED jobs
            BY <2>6 DEF Execute
        <3>2. PICK result : worker' = [worker EXCEPT ![w].pc = "settle", ![w].result = result]
            BY <2>6 DEF Execute
        <3>3. worker'[w].job = worker[w].job /\ worker'[w].attempt = worker[w].attempt
            BY <3>2, <1>a DEF TypeOK, Worker
        <3>4. \A v \in Workers : v # w => worker'[v] = worker[v]
            BY <3>2, <1>a DEF TypeOK
        <3>5. HoldersKept
            BY <3>1, <3>3, <3>4 DEF HoldersKept, HoldingSafely, Holding
        <3> QED BY <3>5, <1>a, KeptExclusion
    <2>7. CASE Settle(w)
        <3>1. /\ worker' = [worker EXCEPT ![w] = At("top")] /\ At("top").pc = "top"
              /\ Holding(w)
            BY <2>7, IdleWorkers DEF Settle, Holding
        <3>2. \A k \in Jobs : k # worker[w].job => jobs'[k] = jobs[k]
            BY <2>7, <1>a DEF Settle, TypeOK
        <3>3. \A v \in Workers : v # w /\ HoldingSafely(v) => worker[v].job # worker[w].job
            BY <3>1, <1>a DEF MutualExclusion, HoldingSafely
        <3>4. HoldersKept
            BY <3>1, <3>2, <3>3, <1>a, <1>b DEF HoldersKept, HoldingSafely, Holding, TypeOK
        <3> QED BY <3>4, <1>a, KeptExclusion
    <2>8. CASE SettleError(w)
        BY <2>8, <1>a, <1>d, IdleWorkers, KeptExclusion DEF SettleError, TypeOK, PCs
    <2> QED BY <1>5, <2>1, <2>2, <2>3, <2>4, <2>5, <2>6, <2>7, <2>8 DEF WorkerStep
<1>8. ASSUME Prune PROVE HoldersKept
    BY <1>8, <1>c DEF Prune, CanPrune, Terminal, TerminalStates
<1>6. ASSUME NEW n \in Nodes, NodeStep(n) PROVE HoldersKept
    <2>1. CASE RequeueStale(n)
        BY <2>1, <1>c DEF RequeueStale, Stale
    <2>2. CASE doPrune(n)
        BY <2>2, <1>8 DEF doPrune
    <2>3. CASE SupervisorStop(n)
        BY <2>3, <1>d DEF SupervisorStop
    <2>4. CASE Exit(n) \/ Crash(n)
        BY <2>4, <1>d, IdleWorkers DEF Exit, Crash, Die, PCs
    <2>5. CASE SupervisorStart(n)
        BY <2>5, <1>d, IdleWorkers DEF SupervisorStart, PCs
    <2> QED BY <1>6, <2>1, <2>2, <2>3, <2>4, <2>5 DEF NodeStep
<1>7. ASSUME NEW j \in Jobs, Tick(j) PROVE HoldersKept
    <2>1. CASE BecomeDue(j)
        BY <2>1, <1>a, <1>c DEF BecomeDue, ClaimStates, TypeOK
    <2>2. CASE BecomeStale(j)
        <3>1. UNCHANGED worker /\ \A k \in Jobs : k # j => jobs'[k] = jobs[k]
            BY <2>2, <1>a DEF BecomeStale, TypeOK
        <3>2. \A v \in Workers : HoldingSafely(v) => worker[v].job # j
            BY <2>2 DEF BecomeStale, Holders, HoldingSafely
        <3> QED BY <3>1, <3>2, <1>b DEF HoldersKept, HoldingSafely, Holding
    <2> QED BY <1>7, <2>1, <2>2 DEF Tick
<1> QED BY <1>0, <1>1, <1>2, <1>3, <1>4, <1>5, <1>6, <1>7, <1>8, <1>a, KeptExclusion, NextActions

LEMMA ExclusionInvariant == Spec => []ExclusionInv
<1>1. Init => ExclusionInv
    <2>1. Init => TypeOK
        BY NewRowTypes, IdleWorkers, QueueAssumption DEF Init, TypeOK, Holding, PCs
    <2>2. Init => \A w \in Workers : ~Holding(w)
        BY IdleWorkers DEF Init, Holding
    <2> QED BY <2>1, <2>2 DEF ExclusionInv, ClaimOwned, MutualExclusion, HoldingSafely
<1>2. ExclusionInv /\ [Next]_vars => ExclusionInv'
    <2> SUFFICES ASSUME ExclusionInv, [Next]_vars PROVE ExclusionInv'
        OBVIOUS
    <2>1. TypeOK'
        BY TypeStep DEF ExclusionInv
    <2> QED BY <2>1, ExclusionStep DEF ExclusionInv
<1> QED BY <1>1, <1>2, PTL DEF Spec

(* As long as executions end within RequeueTimeout, no two workers of any    *)
(* number of nodes execute the same job at once, whatever crashes, lost      *)
(* claim answers, failed settles and operator commands come in between.      *)
THEOREM Exclusion == Spec => []MutualExclusion
<1>1. ExclusionInv => MutualExclusion
    BY DEF ExclusionInv
<1> QED BY <1>1, ExclusionInvariant, PTL

(* Under the same assumption the row of a job being executed stays the one   *)
(* its worker claimed, so a settle always meets its own claim.               *)
THEOREM Ownership == Spec => []ClaimOwned
<1>1. ExclusionInv => ClaimOwned
    BY DEF ExclusionInv
<1> QED BY <1>1, ExclusionInvariant, PTL

-----------------------------------------------------------------------------
(* What a step does to one job: if it changes the row at all, it applies    *)
(* one statement of the driver to a row that meets the statement's          *)
(* condition, or time passes for the row.  The statements that runs or      *)
(* failed_jobs also depend on are kept apart from the others.               *)
PlainStep(row, new) ==
    \/ new = row
    \/ row.state = "none" /\ \E r \in JobRows : new \in {r, ChainedRow(r)}
    \/ CanCancel(row) /\ new = CancelRow(row)
    \/ Claimable(row) /\ \E n \in Nodes : new = ClaimRow(row, n)
    \/ CanComplete(row) /\ new = CompleteRow(row)
    \/ CanScheduleRetry(row) /\ new = ScheduleRetryRow(row)
    \/ Stale(row) /\ new = RequeueRow(row)
    \/ CanPrune(row) /\ new = PrunedRow
    \/ row.state \in ClaimStates \cup {"pending"} /\ new = [row EXCEPT !.scheduled_at = "due"]
    \/ row.state = "running" /\ new = [row EXCEPT !.attempted_at = "stale"]

JobStep(k) ==
    \/ /\ PlainStep(jobs[k], jobs'[k])
       /\ runs'[k] = runs[k] /\ failed_jobs'[k] = failed_jobs[k]
    \/ /\ CanRetry(jobs[k]) /\ jobs'[k] = RetryRow(jobs[k])
       /\ runs'[k] = 0 /\ failed_jobs'[k] = failed_jobs[k]
    \/ /\ Claimable(jobs[k]) /\ \E n \in Nodes : jobs'[k] = ClaimRow(jobs[k], n)
       /\ runs'[k] = runs[k] + 1 /\ failed_jobs'[k] = failed_jobs[k]
    \/ /\ CanFail(jobs[k]) /\ jobs'[k] = FailRow(jobs[k])
       /\ \E w \in Workers : Holding(w) /\ worker[w].job = k
       /\ runs'[k] = runs[k] /\ failed_jobs'[k] = failed_jobs[k] + 1

(* Every step of the queue is a JobStep of each job. *)
LEMMA TableStep ==
    ASSUME TypeOK, [Next]_vars, NEW k \in Jobs PROVE JobStep(k)
<1> USE QueueAssumption
<1>a. ASSUME UNCHANGED <<jobs, runs, failed_jobs>> PROVE JobStep(k)
    BY <1>a DEF JobStep, PlainStep
<1>b. jobs \in [Jobs -> Row] /\ runs \in [Jobs -> Nat] /\ failed_jobs \in [Jobs -> Nat]
    BY DEF TypeOK
<1>c. ASSUME UNCHANGED <<runs, failed_jobs>>, PlainStep(jobs[k], jobs'[k]) PROVE JobStep(k)
    BY <1>c DEF JobStep
<1>1. ASSUME NEW j \in Jobs, NEW row \in JobRows, Dispatch(j, row) PROVE JobStep(k)
    BY <1>1, <1>b, <1>c DEF Dispatch, PlainStep
<1>2. ASSUME NEW ids \in SUBSET Jobs, NEW rows \in [ids -> Row], DispatchBatch(rows),
             \A j \in ids : \E row \in JobRows : rows[j] \in {row, ChainedRow(row)}
      PROVE  JobStep(k)
    BY <1>2, <1>c DEF DispatchBatch, PlainStep
<1>3. ASSUME NEW ids \in SUBSET Jobs, RetryBatch(ids) PROVE JobStep(k)
    BY <1>3 DEF RetryBatch, JobStep, PlainStep
<1>4. ASSUME NEW ids \in SUBSET Jobs, CancelBatch(ids) PROVE JobStep(k)
    BY <1>4, <1>c DEF CancelBatch, PlainStep
<1>5. ASSUME Prune PROVE JobStep(k)
    BY <1>5, <1>c DEF Prune, PlainStep
<1>6. ASSUME NEW w \in Workers, WorkerStep(w) PROVE JobStep(k)
    <2>1. CASE Claim(w)
        <3>1. PICK j \in Jobs : /\ Claimable(jobs[j])
                                /\ jobs' = [jobs EXCEPT ![j] = ClaimRow(jobs[j], NodeOf[w])]
                                /\ runs' = [runs EXCEPT ![j] = runs[j] + 1]
                                /\ failed_jobs' = failed_jobs
            BY <2>1 DEF Claim, First
        <3>2. NodeOf[w] \in Nodes
            OBVIOUS
        <3> QED BY <3>1, <3>2, <1>b DEF JobStep, PlainStep
    <2>2. CASE ClaimAnswerLost(w)
        <3>1. PICK j \in Jobs : /\ Claimable(jobs[j])
                                /\ jobs' = [jobs EXCEPT ![j] = ClaimRow(jobs[j], NodeOf[w])]
            BY <2>2 DEF ClaimAnswerLost, First
        <3>2. NodeOf[w] \in Nodes
            OBVIOUS
        <3> QED BY <2>2, <3>1, <3>2, <1>b, <1>c DEF ClaimAnswerLost, PlainStep
    <2>3. CASE Settle(w)
        <3> DEFINE j == worker[w].job
                   result == worker[w].result
        <3>1. /\ Holding(w) /\ j \in Jobs
              /\ jobs' = [jobs EXCEPT ![j] = SettledRow(jobs[j], result)]
              /\ failed_jobs' = IF result = "failed" /\ CanFail(jobs[j])
                                THEN [failed_jobs EXCEPT ![j] = failed_jobs[j] + 1] ELSE failed_jobs
              /\ runs' = runs
            BY <2>3 DEF Settle, Holding, TypeOK
        <3> HIDE DEF j, result
        <3>2. CASE result = "failed" /\ CanFail(jobs[j])
            <4>1. SettledRow(jobs[j], result) = FailRow(jobs[j])
                BY <3>2 DEF SettledRow
            <4>2. CASE k = j
                BY <3>1, <3>2, <4>1, <4>2, <1>b DEF JobStep, j
            <4>3. CASE k # j
                BY <3>1, <3>2, <4>3, <1>a, <1>b DEF JobStep, PlainStep
            <4> QED BY <4>2, <4>3
        <3>3. CASE ~(result = "failed" /\ CanFail(jobs[j]))
            <4>1. PlainStep(jobs[j], SettledRow(jobs[j], result))
                BY <3>3 DEF SettledRow, PlainStep
            <4>2. PlainStep(jobs[k], jobs[k])
                BY DEF PlainStep
            <4> QED BY <3>1, <3>3, <4>1, <4>2, <1>b, <1>c
        <3> QED BY <3>2, <3>3
    <2> QED BY <1>6, <1>a, <2>1, <2>2, <2>3
            DEF WorkerStep, Poll, ClaimNothing, ClaimError, Execute, SettleError
<1>7. ASSUME NEW n \in Nodes, NodeStep(n) PROVE JobStep(k)
    <2>1. CASE RequeueStale(n)
        BY <2>1, <1>c DEF RequeueStale, PlainStep
    <2> QED BY <1>7, <1>a, <1>5, <2>1
            DEF NodeStep, doPrune, SupervisorStop, Exit, Crash, Die, SupervisorStart
<1>8. ASSUME NEW j \in Jobs, Tick(j) PROVE JobStep(k)
    BY <1>8, <1>b, <1>c DEF Tick, BecomeDue, BecomeStale, PlainStep
<1>9. CASE UNCHANGED vars
    BY <1>9, <1>a DEF vars
<1> QED BY <1>1, <1>2, <1>3, <1>4, <1>5, <1>6, <1>7, <1>8, <1>9, NextActions

(* A row that was just dispatched. *)
LEMMA NewRows ==
    ASSUME NEW r \in JobRows, NEW new \in {r, ChainedRow(r)}
    PROVE  /\ new.state \in {"scheduled", "available", "pending"}
           /\ new.node_id = NoNode /\ new.attempt = 0 /\ new.errors = <<>>
           /\ new.finalized_at = "null" /\ new.attempted_at = "null" /\ new.max_attempts \in Int
<1>1. PICK m \in MaxAttemptsChoices, t \in {"future", "due"}, p \in Priorities : r = JobRow(m, t, p)
    BY DEF JobRows
<1>2. /\ r.state \in {"scheduled", "available"} /\ r.node_id = NoNode /\ r.attempt = 0
      /\ r.finalized_at = "null" /\ r.attempted_at = "null" /\ r.errors = <<>>
    BY <1>1 DEF JobRow, NoRow
<1>3. r \in Row
    BY NewRowTypes
<1> QED BY <1>2, <1>3 DEF ChainedRow, Row

-----------------------------------------------------------------------------
(* A row whose columns agree with its state; RowConsistent says it of all.  *)
Consistent(row) ==
    /\ row.node_id # NoNode <=> row.state = "running"
    /\ row.finalized_at = "set" <=> Terminal(row.state)
    /\ row.state = "running" => row.attempted_at # "null"
    /\ row.state \in ClaimStates \cup {"pending"} => row.attempted_at = "null"

(* No statement of the driver makes a consistent row inconsistent.          *)
LEMMA ConsistentStep ==
    ASSUME NEW k \in Jobs, jobs[k] \in Row, Consistent(jobs[k]), JobStep(k)
    PROVE  Consistent(jobs[k])'
<1> DEFINE row == jobs[k]
           new == jobs'[k]
<1> USE TableAssumption DEF Consistent, Row, ClaimStates, Terminal, TerminalStates
<1>1. CASE row.state = "none" /\ \E r \in JobRows : new \in {r, ChainedRow(r)}
    BY <1>1, NewRows
<1>2. CASE CanRetry(row) /\ new = RetryRow(row)
    BY <1>2 DEF RetryRow
<1>3. CASE CanCancel(row) /\ new = CancelRow(row)
    BY <1>3 DEF CancelRow
<1>4. CASE Claimable(row) /\ \E n \in Nodes : new = ClaimRow(row, n)
    BY <1>4 DEF ClaimRow, Claimable
<1>5. CASE CanComplete(row) /\ new = CompleteRow(row)
    BY <1>5 DEF CompleteRow
<1>6. CASE CanScheduleRetry(row) /\ new = ScheduleRetryRow(row)
    BY <1>6 DEF ScheduleRetryRow
<1>7. CASE CanFail(row) /\ new = FailRow(row)
    BY <1>7 DEF FailRow
<1>8. CASE Stale(row) /\ new = RequeueRow(row)
    BY <1>8 DEF RequeueRow, Stale
<1>9. CASE CanPrune(row) /\ new = PrunedRow
    BY <1>9 DEF PrunedRow, NoRow
<1> QED BY <1>1, <1>2, <1>3, <1>4, <1>5, <1>6, <1>7, <1>8, <1>9 DEF JobStep, PlainStep

(* node_id, finalized_at and attempted_at agree with the state in every row  *)
(* that any interleaving of the driver's statements can produce.             *)
THEOREM RowsConsistent == Spec => []RowConsistent
<1> DEFINE Inv == TypeOK /\ RowConsistent
<1>1. Init => Inv
    BY NewRowTypes, IdleWorkers, QueueAssumption
       DEF Init, TypeOK, Holding, PCs, RowConsistent, NoRow, Terminal, TerminalStates, ClaimStates
<1>2. Inv /\ [Next]_vars => Inv'
    <2> SUFFICES ASSUME TypeOK, RowConsistent, [Next]_vars PROVE Inv'
        OBVIOUS
    <2>1. TypeOK'
        BY TypeStep
    <2>2. ASSUME NEW j \in Jobs PROVE Consistent(jobs[j])'
        <3>1. jobs[j] \in Row
            BY DEF TypeOK
        <3>2. Consistent(jobs[j])
            BY DEF RowConsistent, Consistent
        <3> QED BY <3>1, <3>2, TableStep, ConsistentStep
    <2> QED BY <2>1, <2>2 DEF RowConsistent, Consistent
<1> QED BY <1>1, <1>2, PTL DEF Spec

-----------------------------------------------------------------------------
(* The action properties. *)

(* A terminal row meets no condition but those of Retry and Prune.          *)
LEMMA TerminalStep ==
    ASSUME NEW k \in Jobs, JobStep(k), Terminal(jobs[k].state)
    PROVE  jobs'[k] \in {jobs[k], RetryRow(jobs[k]), PrunedRow}
BY DEF JobStep, PlainStep, Terminal, TerminalStates, CanCancel, Claimable, ClaimStates,
       CanComplete, CanScheduleRetry, CanFail, Stale

(* A finished job changes only by Retry or Prune, whichever workers, nodes   *)
(* and operators race for it.                                                *)
THEOREM FinalForGood == Spec => FinalIsFinal
<1>1. ASSUME TypeOK, [Next]_vars
      PROVE  \A j \in Jobs : Terminal(jobs[j].state) =>
                 jobs'[j] \in {jobs[j], RetryRow(jobs[j]), PrunedRow}
    BY <1>1, TableStep, TerminalStep
<1> QED BY <1>1, TypeCorrect, PTL DEF Spec, FinalIsFinal

(* Only FailRow makes a row failed, and it does so once.                    *)
LEMMA FailedStep ==
    ASSUME NEW k \in Jobs, jobs[k] \in Row, failed_jobs[k] \in Nat, JobStep(k)
    PROVE  failed_jobs'[k] - failed_jobs[k] =
               IF jobs[k].state # "failed" /\ jobs'[k].state = "failed" THEN 1 ELSE 0
<1> DEFINE row == jobs[k]
           new == jobs'[k]
<1>1. CASE /\ CanFail(row) /\ new = FailRow(row)
           /\ failed_jobs'[k] = failed_jobs[k] + 1
    <2>1. row.state # "failed" /\ new.state = "failed"
        BY <1>1 DEF CanFail, FailRow, Row
    <2> QED BY <1>1, <2>1
<1>2. CASE PlainStep(row, new) /\ failed_jobs'[k] = failed_jobs[k]
    <2>1. ASSUME row.state = "none", NEW r \in JobRows, new \in {r, ChainedRow(r)}
          PROVE  new.state # "failed"
        BY <2>1, NewRows
    <2>2. new = row \/ new.state # "failed"
        BY <1>2, <2>1 DEF PlainStep, Row, CancelRow, ClaimRow, CompleteRow, ScheduleRetryRow,
                          RequeueRow, PrunedRow, NoRow, ClaimStates
    <2> QED BY <1>2, <2>2
<1>3. CASE /\ failed_jobs'[k] = failed_jobs[k]
           /\ new = RetryRow(row) \/ \E n \in Nodes : new = ClaimRow(row, n)
    <2>1. new.state # "failed"
        BY <1>3 DEF RetryRow, ClaimRow, Row
    <2> QED BY <1>3, <2>1
<1> QED BY <1>1, <1>2, <1>3 DEF JobStep

(* The failed_jobs table counts exactly the times a job failed for good,     *)
(* however many workers report on the same job.                              *)
THEOREM DeadLetters == Spec => DeadLetterOnce
<1>1. ASSUME TypeOK, [Next]_vars
      PROVE  \A j \in Jobs : failed_jobs'[j] - failed_jobs[j] =
                 IF jobs[j].state # "failed" /\ jobs'[j].state = "failed" THEN 1 ELSE 0
    <2>1. \A j \in Jobs : jobs[j] \in Row /\ failed_jobs[j] \in Nat
        BY <1>1 DEF TypeOK
    <2> QED BY <1>1, <2>1, TableStep, FailedStep
<1> QED BY <1>1, TypeCorrect, PTL DEF Spec, DeadLetterOnce

-----------------------------------------------------------------------------
(* The attempt budget.  A job that is not dispatched yet has not run either, *)
(* which AttemptBudget does not say of rows that are not present.            *)
Budget(row, n) ==
    /\ Present(row) => n <= row.attempt
    /\ row.attempt > 0 => row.attempt <= row.max_attempts
    /\ row.state = "none" => n = 0

LEMMA BudgetStep ==
    ASSUME NEW k \in Jobs, jobs[k] \in Row, runs[k] \in Nat, Budget(jobs[k], runs[k]), JobStep(k)
    PROVE  Budget(jobs[k], runs[k])'
<1> DEFINE row == jobs[k]
           new == jobs'[k]
<1>1. CASE PlainStep(row, new) /\ runs'[k] = runs[k]
    <2>1. CASE row.state = "none" /\ \E r \in JobRows : new \in {r, ChainedRow(r)}
        BY <1>1, <2>1, NewRows DEF Budget
    <2>2. CASE Claimable(row) /\ \E n \in Nodes : new = ClaimRow(row, n)
        <3>1. Present(row)
            BY <2>2 DEF Present, States, Claimable, ClaimStates
        <3> QED BY <1>1, <2>2, <3>1 DEF Budget, Row, ClaimRow, Claimable
    <2>3. CASE CanPrune(row) /\ new = PrunedRow
        BY <1>1, <2>3 DEF Budget, PrunedRow, NoRow, Present, States
    <2>4. CASE \/ new = row
               \/ CanCancel(row) /\ new = CancelRow(row)
               \/ CanComplete(row) /\ new = CompleteRow(row)
               \/ CanScheduleRetry(row) /\ new = ScheduleRetryRow(row)
               \/ Stale(row) /\ new = RequeueRow(row)
               \/ row.state \in ClaimStates \cup {"pending"} /\ new = [row EXCEPT !.scheduled_at = "due"]
               \/ row.state = "running" /\ new = [row EXCEPT !.attempted_at = "stale"]
        <3>1. /\ new.attempt = row.attempt /\ new.max_attempts = row.max_attempts
              /\ new = row \/ (Present(row) /\ Present(new))
            BY <2>4 DEF Row, Present, States, CanCancel, CancelRow, CanComplete, CompleteRow,
                        CanScheduleRetry, ScheduleRetryRow, Stale, RequeueRow, ClaimStates
        <3>2. Present(new) => new.state # "none"
            BY DEF Present, States
        <3> QED BY <1>1, <3>1, <3>2 DEF Budget
    <2> QED BY <1>1, <2>1, <2>2, <2>3, <2>4 DEF PlainStep
<1>2. CASE CanRetry(row) /\ new = RetryRow(row) /\ runs'[k] = 0
    BY <1>2 DEF Budget, RetryRow, Row
<1>3. CASE /\ Claimable(row) /\ \E n \in Nodes : new = ClaimRow(row, n)
           /\ runs'[k] = runs[k] + 1
    <2>1. Present(row)
        BY <1>3 DEF Present, States, Claimable, ClaimStates
    <2> QED BY <1>3, <2>1 DEF Budget, Row, ClaimRow, Claimable
<1>4. CASE CanFail(row) /\ new = FailRow(row) /\ runs'[k] = runs[k]
    <2>1. Present(row)
        BY <1>4 DEF Present, States, CanFail
    <2> QED BY <1>4, <2>1 DEF Budget, Row, FailRow
<1> QED BY <1>1, <1>2, <1>3, <1>4 DEF JobStep

(* No job is handed to a worker more often than max_attempts allows between  *)
(* two retries of an operator, requeues and lost answers included.           *)
THEOREM BudgetKept == Spec => []AttemptBudget
<1> DEFINE Inv == TypeOK /\ \A j \in Jobs : Budget(jobs[j], runs[j])
<1>1. Init => Inv
    <2>1. Init => TypeOK
        BY NewRowTypes, IdleWorkers, QueueAssumption DEF Init, TypeOK, Holding, PCs
    <2> QED BY <2>1 DEF Init, Budget, NoRow, Present, States
<1>2. Inv /\ [Next]_vars => Inv'
    <2> SUFFICES ASSUME Inv, [Next]_vars PROVE Inv'
        OBVIOUS
    <2>1. TypeOK'
        BY TypeStep
    <2>2. \A j \in Jobs : jobs[j] \in Row /\ runs[j] \in Nat
        BY DEF TypeOK
    <2>3. ASSUME NEW j \in Jobs PROVE Budget(jobs[j], runs[j])'
        BY <2>2, TableStep, BudgetStep
    <2> QED BY <2>1, <2>3
<1>3. Inv => AttemptBudget
    BY DEF Budget, AttemptBudget
<1> QED BY <1>1, <1>2, <1>3, PTL DEF Spec

-----------------------------------------------------------------------------
(* The history in the errors column. *)
History(row) ==
    /\ \A i, k \in DOMAIN row.errors : i < k => row.errors[i] < row.errors[k]
    /\ \A i \in DOMAIN row.errors :
          row.errors[i] <= row.attempt - (IF row.state = "running" THEN 1 ELSE 0)

(* Recording the error of the attempt that runs extends the history.        *)
LEMMA HistoryExtended ==
    ASSUME NEW row \in Row, History(row), row.state = "running",
           NEW new \in Row, new.errors = Append(row.errors, row.attempt),
           new.attempt = row.attempt, new.state # "running"
    PROVE  History(new)
<1>1. row.errors \in Seq(Nat) /\ row.attempt \in Nat
    BY DEF Row
<1>2. DOMAIN new.errors = DOMAIN row.errors \cup {Len(row.errors) + 1}
    BY <1>1
<1>3. \A i \in DOMAIN row.errors : /\ new.errors[i] = row.errors[i]
                                   /\ i <= Len(row.errors) /\ i \in Nat
                                   /\ row.errors[i] \in Nat /\ row.errors[i] < row.attempt
    BY <1>1 DEF History
<1>4. new.errors[Len(row.errors) + 1] = row.attempt
    BY <1>1
<1> QED BY <1>1, <1>2, <1>3, <1>4 DEF History

(* Only a worker that holds the job appends to its errors, and it holds the  *)
(* running row: that is where the claim's ownership is needed.               *)
LEMMA HistoryStep ==
    ASSUME TypeOK, TypeOK', ClaimOwned, NEW k \in Jobs \ SlowJobs, History(jobs[k]), JobStep(k)
    PROVE  History(jobs[k])'
<1> DEFINE row == jobs[k]
           new == jobs'[k]
<1>a. row \in Row /\ new \in Row
    BY DEF TypeOK
<1>1. CASE row.state = "none" /\ \E r \in JobRows : new \in {r, ChainedRow(r)}
    BY <1>1, NewRows DEF History
<1>2. CASE new \in {RetryRow(row), PrunedRow}
    <2>1. new.errors = <<>>
        BY <1>2, <1>a DEF RetryRow, PrunedRow, NoRow, Row
    <2> QED BY <2>1 DEF History
<1>3. CASE Claimable(row) /\ \E n \in Nodes : new = ClaimRow(row, n)
    <2>1. /\ row.state # "running" /\ new.errors = row.errors
          /\ new.attempt = row.attempt + 1 /\ row.attempt \in Nat
        BY <1>3, <1>a DEF Claimable, ClaimStates, ClaimRow, Row
    <2>2. \A i \in DOMAIN row.errors : row.errors[i] \in Nat
        BY <1>a DEF Row
    <2> QED BY <2>1, <2>2 DEF History
<1>4. CASE CanScheduleRetry(row) /\ new = ScheduleRetryRow(row)
    <2>1. /\ row.state = "running" /\ new.errors = Append(row.errors, row.attempt)
          /\ new.attempt = row.attempt /\ new.state # "running"
        BY <1>4, <1>a DEF CanScheduleRetry, ScheduleRetryRow, Row
    <2> QED BY <1>a, <2>1, HistoryExtended
<1>5. CASE /\ CanFail(row) /\ new = FailRow(row)
           /\ \E w \in Workers : Holding(w) /\ worker[w].job = k
    <2>1. row.state = "running"
        BY <1>5 DEF ClaimOwned, HoldingSafely
    <2>2. /\ new.errors = Append(row.errors, row.attempt)
          /\ new.attempt = row.attempt /\ new.state # "running"
        BY <1>5, <1>a DEF FailRow, Row
    <2> QED BY <1>a, <2>1, <2>2, HistoryExtended
<1>6. CASE \/ new = row
           \/ CanCancel(row) /\ new = CancelRow(row)
           \/ CanComplete(row) /\ new = CompleteRow(row)
           \/ Stale(row) /\ new = RequeueRow(row)
           \/ row.state \in ClaimStates \cup {"pending"} /\ new = [row EXCEPT !.scheduled_at = "due"]
           \/ row.state = "running" /\ new = [row EXCEPT !.attempted_at = "stale"]
    <2>1. /\ new.errors = row.errors /\ new.attempt = row.attempt
          /\ new.state = "running" => row.state = "running"
        BY <1>6, <1>a DEF Row, CancelRow, CompleteRow, RequeueRow
    <2>2. row.attempt \in Nat /\ \A i \in DOMAIN row.errors : row.errors[i] \in Nat
        BY <1>a DEF Row
    <2> QED BY <2>1, <2>2 DEF History
<1> QED BY <1>1, <1>2, <1>3, <1>4, <1>5, <1>6 DEF JobStep, PlainStep

(* The errors of a job whose executions end within RequeueTimeout are the    *)
(* history of its failed attempts, in order and each once.                   *)
THEOREM ErrorsRecorded == Spec => []ErrorHistory
<1> DEFINE Inv == \A j \in Jobs \ SlowJobs : History(jobs[j])
<1>1. Init => Inv
    BY DEF Init, NoRow, History
<1>2. ASSUME Inv, ExclusionInv, [Next]_vars PROVE Inv'
    <2>1. TypeOK /\ TypeOK' /\ ClaimOwned
        BY <1>2, TypeStep DEF ExclusionInv
    <2>2. ASSUME NEW j \in Jobs \ SlowJobs PROVE History(jobs[j])'
        BY <1>2, <2>1, TableStep, HistoryStep
    <2> QED BY <2>2
<1>3. Inv => ErrorHistory
    BY DEF History, ErrorHistory
<1> QED BY <1>1, <1>2, <1>3, ExclusionInvariant, PTL DEF Spec

-----------------------------------------------------------------------------
(* Refinement of JobLifecycle. *)
LEMMA Phases ==
    ASSUME NEW row
    PROVE  /\ row.state = "none" => Phase(row) = "new"
           /\ row.state = "pending" => Phase(row) = "parked"
           /\ row.state = "running" => Phase(row) = "running"
           /\ row.state = "gone" => Phase(row) = "gone"
           /\ row.state \in {"completed", "failed", "cancelled"} => Phase(row) = "done"
           /\ row.state \in {"available", "scheduled", "retryable"} => Phase(row) = "waiting"
BY DEF Phase, Terminal, TerminalStates

LEMMA LifeStep ==
    ASSUME NEW k \in Jobs, jobs[k] \in Row, JobStep(k)
    PROVE  \/ Life(jobs[k])' = Life(jobs[k])
           \/ Lifecycle!Move(Life(jobs[k]), Life(jobs[k])')
<1> DEFINE row == jobs[k]
           new == jobs'[k]
<1>1. CASE row.state = "none" /\ \E r \in JobRows : new \in {r, ChainedRow(r)}
    <2>1. /\ new.state \in {"scheduled", "available", "pending"}
          /\ new.attempt = 0 /\ new.max_attempts \in Int
        BY <1>1, NewRows
    <2>2. Phase(row) = "new" /\ Phase(new) \in {"parked", "waiting"}
        BY <1>1, <2>1, Phases
    <2> QED BY <2>1, <2>2 DEF Life, Lifecycle!Move, Lifecycle!Submit
<1>2. CASE CanRetry(row) /\ new = RetryRow(row)
    <2>1. /\ row.state \in {"failed", "completed", "cancelled", "retryable"} /\ new.state = "available"
          /\ new.attempt = 0 /\ new.max_attempts = row.max_attempts
        BY <1>2 DEF CanRetry, RetryRow, Row
    <2>2. Phase(row) \in {"waiting", "done"} /\ Phase(new) = "waiting"
        BY <2>1, Phases
    <2> QED BY <2>1, <2>2 DEF Life, Lifecycle!Move, Lifecycle!Reset
<1>3. CASE CanCancel(row) /\ new = CancelRow(row)
    <2>1. /\ row.state \in {"available", "pending", "scheduled", "retryable"} /\ new.state = "cancelled"
          /\ new.attempt = row.attempt /\ new.max_attempts = row.max_attempts
        BY <1>3 DEF CanCancel, CancelRow, Row
    <2>2. Phase(row) \in {"parked", "waiting"} /\ Phase(new) = "done"
        BY <2>1, Phases
    <2> QED BY <2>1, <2>2 DEF Life, Lifecycle!Move, Lifecycle!Finish
<1>4. CASE Claimable(row) /\ \E n \in Nodes : new = ClaimRow(row, n)
    <2>1. /\ row.state \in {"available", "scheduled", "retryable"} /\ new.state = "running"
          /\ new.attempt = row.attempt + 1 /\ new.max_attempts = row.max_attempts
          /\ row.attempt < row.max_attempts
        BY <1>4 DEF Claimable, ClaimStates, ClaimRow, Row
    <2>2. Phase(row) = "waiting" /\ Phase(new) = "running"
        BY <2>1, Phases
    <2> QED BY <2>1, <2>2 DEF Life, Lifecycle!Move, Lifecycle!Take
<1>5. CASE CanComplete(row) /\ new = CompleteRow(row)
    <2>1. /\ row.state \in {"running"} /\ new.state = "completed"
          /\ new.attempt = row.attempt /\ new.max_attempts = row.max_attempts
        BY <1>5 DEF CanComplete, CompleteRow, Row
    <2>2. Phase(row) = "running" /\ Phase(new) = "done"
        BY <2>1, Phases
    <2> QED BY <2>1, <2>2 DEF Life, Lifecycle!Move, Lifecycle!Finish
<1>6. CASE CanScheduleRetry(row) /\ new = ScheduleRetryRow(row)
    <2>1. /\ row.state \in {"running"} /\ new.state = "retryable"
          /\ new.attempt = row.attempt /\ new.max_attempts = row.max_attempts
        BY <1>6 DEF CanScheduleRetry, ScheduleRetryRow, Row
    <2>2. Phase(row) = "running" /\ Phase(new) = "waiting"
        BY <2>1, Phases
    <2> QED BY <2>1, <2>2 DEF Life, Lifecycle!Move, Lifecycle!Release
<1>7. CASE CanFail(row) /\ new = FailRow(row)
    <2>1. /\ row.state \in {"running", "retryable"} /\ new.state = "failed"
          /\ new.attempt = row.attempt /\ new.max_attempts = row.max_attempts
        BY <1>7 DEF CanFail, FailRow, Row
    <2>2. Phase(row) \in {"running", "waiting"} /\ Phase(new) = "done"
        BY <2>1, Phases
    <2> QED BY <2>1, <2>2 DEF Life, Lifecycle!Move, Lifecycle!Finish
<1>8. CASE Stale(row) /\ new = RequeueRow(row)
    <2>1. /\ row.state \in {"running"} /\ new.state = "available"
          /\ new.attempt = row.attempt /\ new.max_attempts = row.max_attempts
        BY <1>8 DEF Stale, RequeueRow, Row
    <2>2. Phase(row) = "running" /\ Phase(new) = "waiting"
        BY <2>1, Phases
    <2> QED BY <2>1, <2>2 DEF Life, Lifecycle!Move, Lifecycle!Release
<1>9. CASE CanPrune(row) /\ new = PrunedRow
    <2>1. row.state \in {"completed", "failed", "cancelled"} /\ new.state = "gone"
        BY <1>9 DEF CanPrune, Terminal, TerminalStates, PrunedRow, NoRow
    <2>2. Phase(row) = "done" /\ Phase(new) = "gone"
        BY <2>1, Phases
    <2> QED BY <2>1, <2>2 DEF Life, Lifecycle!Move, Lifecycle!Purge
<1>10. CASE \/ new = row
            \/ new = [row EXCEPT !.scheduled_at = "due"]
            \/ new = [row EXCEPT !.attempted_at = "stale"]
    <2>1. new.state = row.state /\ new.attempt = row.attempt /\ new.max_attempts = row.max_attempts
        BY <1>10 DEF Row
    <2> QED BY <2>1 DEF Life, Phase
<1> QED BY <1>1, <1>2, <1>3, <1>4, <1>5, <1>6, <1>7, <1>8, <1>9, <1>10 DEF JobStep, PlainStep

(* The queue implements the life cycle a driver promises, for any number of  *)
(* jobs, workers and nodes: every step moves each job along one edge of it   *)
(* or leaves it where it is.                                                 *)
THEOREM LifecycleRefinement == Spec => ImplementsLifecycle
<1>1. Init => Lifecycle!Init
    <2>1. Life(NoRow).phase = "new" /\ Life(NoRow).tries = 0
        BY Phases DEF Life, NoRow
    <2> QED BY <2>1 DEF Init, Lifecycle!Init
<1>2. ASSUME TypeOK, [Next]_vars
      PROVE  [Lifecycle!Next]_([j \in Jobs |-> Life(jobs[j])])
    <2>1. \A j \in Jobs : jobs[j] \in Row
        BY <1>2 DEF TypeOK
    <2>2. \A j \in Jobs : \/ Life(jobs[j])' = Life(jobs[j])
                          \/ Lifecycle!Move(Life(jobs[j]), Life(jobs[j])')
        BY <1>2, <2>1, TableStep, LifeStep
    <2> QED BY <2>2 DEF Lifecycle!Next
<1> QED BY <1>1, <1>2, TypeCorrect, PTL DEF Spec, ImplementsLifecycle, Lifecycle!Spec
=============================================================================
