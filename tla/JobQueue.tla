------------------------------ MODULE JobQueue ------------------------------
(***************************************************************************)
(* The job queue at run time: clients that dispatch, retry and cancel jobs, *)
(* worker goroutines that claim, execute and settle them, the supervisor    *)
(* ticks that requeue stale jobs and prune old ones, and nodes that stop,   *)
(* crash and restart, all of them over the one jobs table of JobTable.      *)
(*                                                                          *)
(* Claims of different queues touch disjoint rows, so one queue is modelled. *)
(***************************************************************************)
EXTENDS JobTable

CONSTANTS
    Jobs,            \* job ids, each inserted at most once
    Workers,         \* worker goroutines
    NodeOf,          \* the node whose pool a worker belongs to
    NoJob,           \* a worker that holds no job
    FaultyNodes,     \* the nodes that may stop or crash
    SlowJobs,        \* the jobs whose live executions may outlast RequeueTimeout
    MaxInterventions \* bound on manual retries, stops, crashes and driver errors

ASSUME QueueAssumption ==
    /\ NodeOf \in [Workers -> Nodes]
    /\ NoJob \notin Jobs
    /\ FaultyNodes \subseteq Nodes
    /\ SlowJobs \subseteq Jobs
    /\ MaxInterventions \in Nat

VARIABLES
    jobs,         \* the jobs table: [Jobs -> Row]
    failed_jobs,  \* how many rows the failed_jobs table has for each job
    worker,       \* each worker goroutine
    node,         \* each node: "up", "stopping" (context cancelled) or "down"
    runs,         \* executions handed to a worker since the last dispatch or Retry
    interventions \* how much of MaxInterventions is used up

vars == <<jobs, failed_jobs, worker, node, runs, interventions>>

-----------------------------------------------------------------------------
(* A worker is at the top of its loop, about to call Claim, executing a job, *)
(* about to settle it, has left the loop, or died with its node.  It works   *)
(* from the row Claim returned: attempt and max_attempts are that snapshot.  *)
PCs == {"top", "claim", "exec", "settle", "exited", "dead"}

Results == {"none", "completed", "retryable", "failed"}

Worker == [pc : PCs, job : Jobs \cup {NoJob}, attempt : Nat, max_attempts : Int, result : Results]

At(pc) == [pc |-> pc, job |-> NoJob, attempt |-> 0, max_attempts |-> 0, result |-> "none"]

Holding(w) == worker[w].pc \in {"exec", "settle"}

Holders(j) == {w \in Workers : Holding(w) /\ worker[w].job = j}

TypeOK ==
    /\ jobs \in [Jobs -> Row]
    /\ failed_jobs \in [Jobs -> Nat]
    /\ worker \in [Workers -> Worker]
    /\ \A w \in Workers : Holding(w) => worker[w].job \in Jobs
    /\ node \in [Nodes -> {"up", "stopping", "down"}]
    /\ runs \in [Jobs -> Nat]
    /\ interventions \in 0..MaxInterventions

Init ==
    /\ jobs = [j \in Jobs |-> NoRow]
    /\ failed_jobs = [j \in Jobs |-> 0]
    /\ worker = [w \in Workers |-> At("top")]
    /\ node = [n \in Nodes |-> "up"]
    /\ runs = [j \in Jobs |-> 0]
    /\ interventions = 0

(* What the model bounds: operator retries and failures. *)
Intervene ==
    /\ interventions < MaxInterventions
    /\ interventions' = interventions + 1

-----------------------------------------------------------------------------
(* Clients: Manager.Dispatch, DispatchBatch, Chain, Retry(Batch), Cancel(Batch). *)

(* A batch is one transaction; Dispatch is the batch of one. *)
DispatchBatch(rows) ==
    /\ \A j \in DOMAIN rows : jobs[j].state = "none"
    /\ jobs' = [j \in Jobs |-> IF j \in DOMAIN rows THEN rows[j] ELSE jobs[j]]
    /\ UNCHANGED <<failed_jobs, worker, node, runs, interventions>>

Dispatch(j, row) ==
    /\ jobs[j].state = "none"
    /\ jobs' = [jobs EXCEPT ![j] = row]
    /\ UNCHANGED <<failed_jobs, worker, node, runs, interventions>>

Chain(rows, head) ==
    DispatchBatch([j \in DOMAIN rows |-> IF j = head THEN rows[j] ELSE ChainedRow(rows[j])])

(* Rows of the batch that are in no state Retry accepts are skipped. *)
RetryBatch(ids) ==
    /\ Intervene
    /\ \E j \in ids : CanRetry(jobs[j])
    /\ jobs' = [j \in Jobs |-> IF j \in ids /\ CanRetry(jobs[j]) THEN RetryRow(jobs[j]) ELSE jobs[j]]
    /\ runs' = [j \in Jobs |-> IF j \in ids /\ CanRetry(jobs[j]) THEN 0 ELSE runs[j]]
    /\ UNCHANGED <<failed_jobs, worker, node>>

CancelBatch(ids) ==
    /\ \E j \in ids : CanCancel(jobs[j])
    /\ jobs' = [j \in Jobs |-> IF j \in ids /\ CanCancel(jobs[j]) THEN CancelRow(jobs[j]) ELSE jobs[j]]
    /\ UNCHANGED <<failed_jobs, worker, node, runs, interventions>>

(* Driver.Prune of the final states; which rows are old enough is left open. *)
Prune ==
    /\ \E old \in SUBSET {j \in Jobs : CanPrune(jobs[j])} :
          /\ old # {}
          /\ jobs' = [j \in Jobs |-> IF j \in old THEN PrunedRow ELSE jobs[j]]
    /\ UNCHANGED <<failed_jobs, worker, node, runs, interventions>>

(* The dashboard's requests, which name ids that a page has shown earlier;  *)
(* the command line and the batch helper make some of the same calls.       *)
Dashboard ==
    \/ \E ids \in SUBSET Jobs : RetryBatch(ids) \/ CancelBatch(ids)
    \/ Prune

Client ==
    \/ \E j \in Jobs, row \in JobRows : Dispatch(j, row)
    \/ \E ids \in SUBSET Jobs : Cardinality(ids) > 1 /\ \E rows \in [ids -> JobRows] :
          \/ DispatchBatch(rows)
          \/ \E head \in ids : Chain(rows, head)
    \/ Dashboard

-----------------------------------------------------------------------------
(* The worker loop: worker.run, execute and processJob. *)

(* The select at the top of the loop: go on to Claim, or leave the loop     *)
(* because the context is cancelled.                                        *)
Poll(w) ==
    /\ worker[w].pc = "top"
    /\ worker' = [worker EXCEPT ![w] =
                    IF node[NodeOf[w]] = "up" THEN At("claim") ELSE At("exited")]
    /\ UNCHANGED <<jobs, failed_jobs, node, runs, interventions>>

(* ORDER BY priority DESC; scheduled_at and id break ties, which the model  *)
(* leaves open.                                                             *)
First(j) ==
    /\ Claimable(jobs[j])
    /\ \A k \in Jobs : Claimable(jobs[k]) => jobs[k].priority <= jobs[j].priority

(* Nothing looks at the context again between the select and the query: a   *)
(* stopping node may still claim.                                           *)
Claim(w) ==
    /\ worker[w].pc = "claim"
    /\ \E j \in Jobs :
          /\ First(j)
          /\ jobs' = [jobs EXCEPT ![j] = ClaimRow(@, NodeOf[w])]
          /\ worker' = [worker EXCEPT ![w] =
                          [pc |-> "exec", job |-> j, attempt |-> jobs[j].attempt + 1,
                           max_attempts |-> jobs[j].max_attempts, result |-> "none"]]
          /\ runs' = [runs EXCEPT ![j] = @ + 1]
    /\ UNCHANGED <<failed_jobs, node, interventions>>

ClaimNothing(w) ==
    /\ worker[w].pc = "claim"
    /\ \A j \in Jobs : ~Claimable(jobs[j])
    /\ worker' = [worker EXCEPT ![w] = At("top")]
    /\ UNCHANGED <<jobs, failed_jobs, node, runs, interventions>>

(* Claim returns an error: the context is cancelled or the database failed, *)
(* before the claim or after it was committed and only the answer was lost. *)
ClaimError(w) ==
    /\ worker[w].pc = "claim"
    /\ \/ node[NodeOf[w]] = "stopping" /\ UNCHANGED interventions
       \/ Intervene
    /\ worker' = [worker EXCEPT ![w] = At("top")]
    /\ UNCHANGED <<jobs, failed_jobs, node, runs>>

ClaimAnswerLost(w) ==
    /\ worker[w].pc = "claim"
    /\ Intervene
    /\ \E j \in Jobs : First(j) /\ jobs' = [jobs EXCEPT ![j] = ClaimRow(@, NodeOf[w])]
    /\ worker' = [worker EXCEPT ![w] = At("top")]
    /\ UNCHANGED <<failed_jobs, node, runs>>

(* processJob ends: the handler succeeds; it fails or panics and            *)
(* ComputeNextState decides; or the job is failed whatever its budget (the  *)
(* payload does not decode, RetryUntil has passed, BeforeRetry fails).      *)
Outcomes(w) == {"completed", "failed", ComputeNextState(worker[w].attempt, worker[w].max_attempts)}

Execute(w) ==
    /\ worker[w].pc = "exec"
    /\ \E result \in Outcomes(w) :
          worker' = [worker EXCEPT ![w].pc = "settle", ![w].result = result]
    /\ UNCHANGED <<jobs, failed_jobs, node, runs, interventions>>

(* The row after the driver call execute makes, which changes nothing when  *)
(* the row is not in a state it accepts (ErrJobNotFound).                   *)
SettledRow(row, result) ==
    CASE result = "completed" /\ CanComplete(row)      -> CompleteRow(row)
      [] result = "retryable" /\ CanScheduleRetry(row) -> ScheduleRetryRow(row)
      [] result = "failed"    /\ CanFail(row)          -> FailRow(row)
      [] OTHER -> row

Settle(w) ==
    /\ worker[w].pc = "settle"
    /\ LET j == worker[w].job IN
          /\ jobs' = [jobs EXCEPT ![j] = SettledRow(@, worker[w].result)]
          /\ failed_jobs' = IF worker[w].result = "failed" /\ CanFail(jobs[j])
                            THEN [failed_jobs EXCEPT ![j] = @ + 1] ELSE failed_jobs
    /\ worker' = [worker EXCEPT ![w] = At("top")]
    /\ UNCHANGED <<node, runs, interventions>>

(* The driver call fails: a worker started with the cancelled context, or a *)
(* database error.  execute logs it and the job stays running.              *)
SettleError(w) ==
    /\ worker[w].pc = "settle"
    /\ \/ node[NodeOf[w]] = "stopping" /\ UNCHANGED interventions
       \/ Intervene
    /\ worker' = [worker EXCEPT ![w] = At("top")]
    /\ UNCHANGED <<jobs, failed_jobs, node, runs>>

WorkerStep(w) ==
    \/ Poll(w)    \/ Claim(w)  \/ ClaimNothing(w) \/ ClaimError(w) \/ ClaimAnswerLost(w)
    \/ Execute(w) \/ Settle(w) \/ SettleError(w)

-----------------------------------------------------------------------------
(* The supervisor's ticks, on every node whose loop still runs. *)
RequeueStale(n) ==
    /\ node[n] = "up"
    /\ \E j \in Jobs : Stale(jobs[j])
    /\ jobs' = [j \in Jobs |-> IF Stale(jobs[j]) THEN RequeueRow(jobs[j]) ELSE jobs[j]]
    /\ UNCHANGED <<failed_jobs, worker, node, runs, interventions>>

doPrune(n) == node[n] = "up" /\ Prune

-----------------------------------------------------------------------------
(* Nodes: Supervisor.Stop cancels the workers' context and returns without  *)
(* waiting for executions; then, or in a crash, the process goes away.      *)
SupervisorStop(n) ==
    /\ n \in FaultyNodes
    /\ node[n] = "up"
    /\ Intervene
    /\ node' = [node EXCEPT ![n] = "stopping"]
    /\ UNCHANGED <<jobs, failed_jobs, worker, runs>>

Die(n) ==
    /\ node' = [node EXCEPT ![n] = "down"]
    /\ worker' = [w \in Workers |-> IF NodeOf[w] = n THEN At("dead") ELSE worker[w]]
    /\ UNCHANGED <<jobs, failed_jobs, runs>>

Exit(n) ==
    /\ node[n] = "stopping"
    /\ Die(n)
    /\ UNCHANGED interventions

Crash(n) ==
    /\ n \in FaultyNodes
    /\ node[n] = "up"
    /\ Intervene
    /\ Die(n)

SupervisorStart(n) ==
    /\ node[n] = "down"
    /\ node' = [node EXCEPT ![n] = "up"]
    /\ worker' = [w \in Workers |-> IF NodeOf[w] = n THEN At("top") ELSE worker[w]]
    /\ UNCHANGED <<jobs, failed_jobs, runs, interventions>>

NodeStep(n) ==
    \/ RequeueStale(n)   \/ doPrune(n)
    \/ SupervisorStop(n) \/ Exit(n)  \/ Crash(n) \/ SupervisorStart(n)

-----------------------------------------------------------------------------
(* Time: a schedule or a backoff comes due; a claim outlives RequeueTimeout. *)
BecomeDue(j) ==
    /\ jobs[j].state \in ClaimStates \cup {"pending"}
    /\ jobs[j].scheduled_at = "future"
    /\ jobs' = [jobs EXCEPT ![j].scheduled_at = "due"]
    /\ UNCHANGED <<failed_jobs, worker, node, runs, interventions>>

BecomeStale(j) ==
    /\ jobs[j].state = "running"
    /\ jobs[j].attempted_at = "fresh"
    /\ j \in SlowJobs \/ Holders(j) = {}
    /\ jobs' = [jobs EXCEPT ![j].attempted_at = "stale"]
    /\ UNCHANGED <<failed_jobs, worker, node, runs, interventions>>

Tick(j) == BecomeDue(j) \/ BecomeStale(j)

Next ==
    \/ Client
    \/ \E w \in Workers : WorkerStep(w)
    \/ \E n \in Nodes : NodeStep(n)
    \/ \E j \in Jobs : Tick(j)

Spec == Init /\ [][Next]_vars

(* Go schedules every runnable goroutine, handlers return, every running    *)
(* supervisor's requeue ticker keeps firing, and time passes.               *)
FairSpec ==
    /\ Spec
    /\ \A w \in Workers : WF_vars(WorkerStep(w))
    /\ \A n \in Nodes : WF_vars(RequeueStale(n))
    /\ \A j \in Jobs : WF_vars(Tick(j))

-----------------------------------------------------------------------------
(* Safety *)

(* The columns agree with the state in every reachable row: node_id is set  *)
(* exactly while the job runs, finalized_at exactly when it is terminal,    *)
(* and attempted_at, which RequeueStale depends on, is set in every running *)
(* row and cleared in every waiting one.                                    *)
RowConsistent ==
    \A j \in Jobs : LET row == jobs[j] IN
        /\ row.node_id # NoNode <=> row.state = "running"
        /\ row.finalized_at = "set" <=> Terminal(row.state)
        /\ row.state = "running" => row.attempted_at # "null"
        /\ row.state \in ClaimStates \cup {"pending"} => row.attempted_at = "null"

(* Claim, RequeueStale and ScheduleRetry together never let a job be        *)
(* executed more often than max_attempts says, even when executions are     *)
(* requeued behind their workers' backs; only Retry starts a new budget.    *)
AttemptBudget ==
    \A j \in Jobs :
        /\ Present(jobs[j]) => runs[j] <= jobs[j].attempt
        /\ jobs[j].attempt > 0 => jobs[j].attempt <= jobs[j].max_attempts

(* A worker that executes a job no execution of which outlives              *)
(* RequeueTimeout.                                                          *)
HoldingSafely(w) == Holding(w) /\ worker[w].job \notin SlowJobs

(* No two workers execute the same job at the same time, as long as its     *)
(* executions end within RequeueTimeout, whatever the slow jobs beside it   *)
(* do: Claim hands a row to one worker, and RequeueStale gives it away only *)
(* after that worker is gone.                                               *)
MutualExclusion ==
    \A v, w \in Workers :
        HoldingSafely(v) /\ HoldingSafely(w) /\ worker[v].job = worker[w].job => v = w

(* Under the same assumption the row of a job being executed is still the   *)
(* one its worker claimed: running, by its node, in its attempt, so that    *)
(* Complete, Fail and ScheduleRetry, which check only the state, settle the *)
(* claim they mean to settle.                                               *)
ClaimOwned ==
    \A w \in Workers : HoldingSafely(w) =>
        LET row == jobs[worker[w].job] IN
            /\ row.state = "running"
            /\ row.node_id = NodeOf[w]
            /\ row.attempt = worker[w].attempt
            /\ row.attempted_at = "fresh"

(* Under the same assumption the errors column is a history: one entry per  *)
(* failed attempt, in increasing order, none of an attempt not yet made,    *)
(* and none of the attempt a worker is still making.                        *)
ErrorHistory ==
    \A j \in Jobs \ SlowJobs : LET row == jobs[j] IN
        /\ \A i, k \in DOMAIN row.errors : i < k => row.errors[i] < row.errors[k]
        /\ \A i \in DOMAIN row.errors :
              row.errors[i] <= row.attempt - (IF row.state = "running" THEN 1 ELSE 0)

-----------------------------------------------------------------------------
(* Action properties *)

(* A finished job stays as it is until an operator retries it or it is      *)
(* pruned: no late Complete, Fail or ScheduleRetry of a worker that lost    *)
(* its claim, no Cancel and no RequeueStale touches it.                     *)
FinalIsFinal ==
    [][\A j \in Jobs : Terminal(jobs[j].state) =>
          jobs'[j] \in {jobs[j], RetryRow(jobs[j]), PrunedRow}]_vars

(* failed_jobs gets one row for each time a job fails for good and no row   *)
(* otherwise, however many workers report on the same job.                  *)
DeadLetterOnce ==
    [][\A j \in Jobs :
          failed_jobs'[j] - failed_jobs[j] =
              IF jobs[j].state # "failed" /\ jobs'[j].state = "failed" THEN 1 ELSE 0]_vars

(* The queue implements the driver-independent life cycle of a job. *)
Phase(row) ==
    CASE row.state = "none"    -> "new"
      [] row.state = "pending" -> "parked"
      [] row.state = "running" -> "running"
      [] row.state = "gone"    -> "gone"
      [] Terminal(row.state)   -> "done"
      [] OTHER                 -> "waiting"

Life(row) == [phase |-> Phase(row), tries |-> row.attempt, max |-> row.max_attempts]

Lifecycle == INSTANCE JobLifecycle WITH life <- [j \in Jobs |-> Life(jobs[j])]

ImplementsLifecycle == Lifecycle!Spec

-----------------------------------------------------------------------------
(* Liveness *)

Waiting(row) == row.state \in ClaimStates

(* Attempts used up, yet waiting to be claimed: RequeueStale can leave a    *)
(* row like this, and no operation of a worker or a supervisor touches it.  *)
Exhausted(row) == Waiting(row) /\ row.attempt >= row.max_attempts

(* Every job that may be claimed is in the end completed, failed, cancelled *)
(* or exhausted: crashes, lost answers and failed settles delay it, because *)
(* RequeueStale returns the job, but do not lose it.                        *)
EventuallyResolved ==
    \A j \in Jobs :
        jobs[j].state \in ClaimStates \cup {"running"}
            ~> Terminal(jobs[j].state) \/ jobs[j].state = "gone" \/ Exhausted(jobs[j])
=============================================================================
