# TLA+ models and proofs for tasker

tasker is a Go library for background jobs: an application dispatches jobs into a
store (an SQL database or Redis), worker goroutines on one or more nodes claim,
execute and settle them, supervisors requeue and prune, coordinators elect a leader,
and a scheduler dispatches jobs from cron entries. This directory holds models of those
parts, the configurations under which TLC checks them, and proofs checked by TLAPS.
Paths below are relative to the repository; `sql` is `driver/sqldriver/driver.go` and
`redis` is `driver/redisdriver/driver.go`.

Run `tlc -workers 2 -config X.cfg MCM` for a run and `tlapm MProofs.tla` for a proof.
`PROJECT.json` lists the runs, the source lines behind each definition, one seeded fault
for every property checked (definitions commented "Faulty"), findings and hazards.

## 1. Inventory

| Component | State | Operations | Interacts with |
|---|---|---|---|
| Job state machine (`state_machine.go`, `types.go`) | none | `Terminal`, `ComputeNextState`, `ValidateTransition`, `ComputeBackoff` | the worker loop decides with it; the drivers do not consult the transition table |
| Manager (`tasker.go`, `job.go`) | config, registries | `Dispatch`, `DispatchBatch`, `Chain`, `Retry(Batch)`, `Cancel(Batch)` | one driver call each |
| SQL driver, jobs (`sql`) | tables `jobs`, `failed_jobs` | `Enqueue(Batch)`, `Claim`, `Complete`, `Fail`, `ScheduleRetry`, `Retry`, `Cancel`, `RequeueStale`, `Prune` | shared by every node |
| SQL driver, nodes, leader, locks (`sql`) | tables `nodes`, `leader`, `locks` | `RegisterNode`, `Heartbeat`, `ListNodes`, `LeaderElection`, `IsLeader`, `ResignLeadership`, `AcquireLock`, `ReleaseLock` | coordinators of all nodes, several statements per call |
| Redis driver, jobs (`redis`) | hash `jobs`, `job:uuids`, sorted sets `job:ids`, `job:created`, `job:due:<queue>`, `job:running` | the same as SQL, one Lua script each | shared by every node |
| Redis driver, nodes, leader, locks (`redis`) | keys with a ttl, one set of node ids | the same as SQL | `renewScript`, `ownerDeleteScript` |
| Worker loop (`pool.go`, `worker`) | claimed row, done channel | `run`, `execute`, `processJob` | driver calls, user handlers |
| Worker pools (`pool.go`) | slice of workers, running flag | `Start`, `Stop`, `Scale`, `watch` | goroutines that outlive the mutex |
| Supervisor (`supervisor/supervisor.go`) | pools, tickers | `Start`, `Stop`, `PauseQueue`, `ResumeQueue`, `ScaleQueue`, ticks for requeue, prune, autoscale | drivers and pools |
| Coordinator (`coordinator/coordinator.go`) | running flag | `Start`, `Stop`, heartbeat and leader ticks | node and leader tables |
| Scheduler (`scheduler/scheduler.go`) | jobs, entry ids, listeners, context | `Observe`, `Register`, `Remove`, `Start`, `Stop`, `dispatchJob`, `deliver` | cron goroutines, Manager, listeners |
| Registries and middleware (`registry.go`, `middleware.go`, `job_context.go`) | maps under one lock | `Register`, `Get`, `Use` | read by dispatch and the workers |
| Dashboard (`web/`) | an event stream per browser | retry, cancel, their batches, prune, pause, resume; pages and statistics | Manager, driver and supervisor calls, from HTTP goroutines |
| Batch helper, command line (`batch/`, `cmd/`) | none of their own | wrappers around Manager and driver calls | Manager |

What is hard in this code:

* several nodes act on one table with nothing but row conditions between them, and a
  settle checks neither the node nor the attempt it belongs to;
* `RequeueStale` takes a job away on the strength of a time stamp alone;
* a call to the database may commit and its answer be lost; a process may end between any two calls;
* leases are taken in several statements, all comparing with one early reading of the clock;
* whether a node is up is known only from heartbeats that may be lost or come after the end;
* a retry delay is a product of integers that may overflow, compared with its cap afterwards;
* goroutines started under a mutex work on slices and contexts after it has been released;
* `Scheduler.Stop` waits while it holds the mutex that the things it waits for need.

What makes each part correct: no two workers execute one job while its claim is valid; an
attempt budget that no interleaving exceeds; finished jobs stay finished; an abandoned job
comes back; one owner per lease at a time; a node that runs is listed and one that has
deregistered is not; indexes that agree with documents; pools that know all their workers
and queues that have one; a stopped scheduler that enqueues nothing.

## 2. Modules

| Module | Models | Used by |
|---|---|---|
| `JobStates` | states, terminal states, `ComputeNextState` | `JobTable`, `RedisStore`, `Retries` |
| `JobTable` | one SQL row; the WHERE and SET clause of each statement | `JobQueue` |
| `JobQueue` | clients, dashboard, workers, supervisor ticks, failing nodes over the table | `MCJobQueue`, `JobQueueProofs` |
| `JobLifecycle` | abstract: what either driver promises about a job | refined by `JobQueue`, `RedisStore` |
| `RedisStore` | the job scripts and their indexes | `MCRedisStore`, `RedisStoreProofs` |
| `StoredTimes` | what each store does to a time, and how it counts rows | `LeaseCalls` |
| `Lease` | abstract: what a lock or the leadership promises | refined by `Locks` and `Leadership` |
| `LeaseCalls` | what a call for either lease is, and what both promise | `Locks`, `Leadership` |
| `Locks` | `AcquireLock`, `ReleaseLock` with every driver | `MCLocks`, `LeaseProofs` |
| `Leadership` | coordinators, `LeaderElection`, `IsLeader`, `ResignLeadership` with every driver | `MCLeadership`, `LeaseProofs` |
| `NodeRegistry` | registration, heartbeats, `ListNodes` with either driver | `MCNodeRegistry`, `NodeRegistryProofs` |
| `Retries` | one job's retry decisions, backoff arithmetic with its width | `MCRetries`, `RetriesProofs` |
| `Supervision` | the supervisor and the pools of several queues | `MCSupervision`, `SupervisionProofs` |
| `Pool` | one worker pool with its slices and goroutines | `MCPool`, `PoolProofs` |
| `Scheduler` | the scheduler and the cron library as its environment | `MCScheduler`, `SchedulerProofs` |

### JobStates, JobTable, JobQueue

The state is the jobs table (one row per id; `none` before it is inserted, `gone` after a
prune), a count of `failed_jobs` rows per id, the workers, and the nodes. `runs` and
`interventions` are history: how often a job was handed to a worker in the present budget,
and how much of the bound on failures is used.

A driver statement or transaction is atomic and therefore one step. A worker call is split
where another actor can come between: `Poll` (the select at the top of the loop), `Claim`,
`Execute` (the handler), `Settle` (`Complete`, `Fail` or `ScheduleRetry`). `ClaimError`,
`ClaimAnswerLost` and `SettleError` are the three ways a call goes wrong: nothing happened,
it happened and nobody was told, the job stays running. A node is up, stopping (its context
is cancelled, and `Supervisor.Stop` does not wait for executions) or down; a crash takes
its workers along. `RequeueStale` and `doPrune` belong to any node that is up. `Dashboard`
is what the HTTP handlers may ask for: batches of retries and cancels, and a prune.

Times are abstracted to the comparisons made with them: `scheduled_at` is future or due,
`attempted_at` null, fresh or stale (older than `RequeueTimeout`). `BecomeDue` and
`BecomeStale` move them. The constant `SlowJobs` is the set of jobs whose live executions
may outlast `RequeueTimeout`, which the code neither prevents nor notices; properties that
hold only within the timeout quantify over the other jobs. Which of several equally
prioritised rows is claimed, and which rows are old enough to prune, is left open. Payload,
tags, metadata and output columns and the `Failed` hook are left out. Option merging in
`buildJobRow` is a choice of max attempts, schedule and priority.

### Retries

`JobQueue` leaves open whether a failed handler leads to a retry and when; `Retries` follows
one job, held by one worker at a time, with a clock and the numbers. `HandlerFails` is
`processJob`'s decision (`ComputeNextState`, the backoff, `RetryUntil`), `BeforeRetry` the
hook that may veto it, `Settle` the second reading of the clock in `execute`, from which
`scheduled_at` is counted. Integers are two's complement of the width that `MaxInt` gives:
`Wrap` for sums and products, `Shl` for a shift that may exceed the width. `MaxHook` bounds
how long the hook and the settle may take; `UntilKept` is stated with it.

### RedisStore

One action per script. A document has state, attempt, maximum and priority, and how its
`errors` field reads in JSON, because the encoder writes an empty Lua table as an object.
Scores are abstracted like times above. Any client may call any script at any time, so the
late settles of requeued jobs are included without modelling workers again.

### Lease, StoredTimes, LeaseCalls, Locks, Leadership

`Lease` says: a node is told until when it owns the lease, and until then nobody else is.
`LeaseCalls` has what a call for a lock and a call for the leadership have in common: clock,
owner, each node's statement, the time stamp beside the owner (a lock row's `expires_at`, the
leader row's `last_heartbeat`), `Exclusive`, the refinement, and the invariant, which is one
formula with the time that the stamp is worth as its parameter (nothing for an expiry, the ttl
for a heartbeat). `Locks` and `Leadership` add the statements, `Leadership` the coordinators too.
The variable `lease` is that promise; it is what a caller may
rely on, and the row or the key is what the driver relies on. It is counted from the clock
reading the call was made with, and it is `Slack` shorter than the ttl: MySQL rounds a
TIMESTAMP to the nearest second (`sql:273`), so the stored time can be up to half a second
earlier than the one given. `Resolution` is the number of clock ticks in a second. A store
that cuts off the fraction would lose a whole second; that is the seeded fault of
`Stored`.

The variable `driver` is chosen in `Init` (`sql` for Postgres and SQLite, `mysql`, `redis`)
and does not change, so that every run and every theorem is about each of them. With a SQL
driver there is one action per statement of `AcquireLock` (UPDATE, DELETE, INSERT, SELECT)
and `LeaderElection` (UPDATE, INSERT, SELECT); a node has one call at a time, other nodes'
statements and the clock come in between, any statement may fail, and a true answer may be
lost. With Redis `renewScript` runs some time after the call was made. `CountsMatched` tells
apart databases that count matched rows and MySQL, which counts changed ones, so that a
renewal within one second counts nothing and the call goes on to the later statements.
`Leadership` also has the coordinator's start, stop and ticks: a leader does not renew while
`IsLeader` answers true.

Assumed: the nodes' clocks agree, node ids are distinct, all callers of a key give the same
ttl, and the ttl is at least a second.

### NodeRegistry

Supervisors and coordinators register, send a heartbeat at each tick of their own interval,
deregister and crash; each call may fail before or after it has had its effect. `until` is
when a report is too old: the fixed `NodeLivenessWindow` with SQL, which ignores the ttl it
is given, and the key's expiry with Redis. `ListNodes` of the Redis driver is three kinds of
step (read the set, read key after key, remove the ids without a key), between which nodes
register and expire. `missed` and `worst` (lost heartbeats), `gone` and `unlisted` are
history. A heartbeat of a running process arrives in the tick in which it was sent or is
lost; one that was on its way when its process stopped may arrive at any later time. Each
process has an id of its own, kept over restarts.

### Pool, Supervision

`Pool` is one pool in detail. Go slices are modelled as they are: an array, a length, and
`append` in place while there is room. `Scale` down hands a tail of the slice to a goroutine,
`Stop` sets off `watch` with the slice of its own `Start`; both are "sweeps" that read each
cell when they get there. Nothing keeps `Scale` from putting a new worker in a cell that a
sweep has still to read. The history variables `lost` and `doomed`, which no action reads,
remember the worker that was there, which nothing will stop any more, and the one that took its
cell, which the sweep will stop instead. Workers of `Scale` have a background context, those of `Start` the
caller's. How far `append` grows an array is the runtime's business and a constant, `Growth`,
of which only is assumed that there is room for the new cells; the runs take doubling, which
is what the runtime does for slices this small. The PoolManager's map is abstracted: the pool is found from its `Start`
to its `Stop`. `Stop` is one step: it tells all workers of the slice to end before it can
return, and how long they take to finish a job is not distinguished.

`Supervision` is the supervisor over a pool per queue, with the map of the PoolManager. Its
pools are those of `Pool` with less detail, so that several of them, the loops and the operator
fit in one run. `p.workers` is the first `len` cells of one array. A cell (`Cell`) has the
worker, of which it keeps only whether it runs with Start's context (`bound`), with one of its own
(`free`) or has ended (`dead`), and the number of goroutines that are still to read the cell
and stop the worker they find there (`reads`). `Scale` down adds one to the `reads` of each
cell it removes (`Shrunk`), `Scale` up writes over cells whatever their `reads` (`Grown`), and
`RemovalReads` is one goroutine reading one cell, at any time. A worker that is written over
while it works may run unseen: `orphans` has, for each queue, the kinds of such workers
(`Overwritten`). Two things are coarser than in `Pool`, and allow more than the code: the array
that `append` allocates is not told apart from the old one, so a cell may count as still to be read,
and its worker as lost, where the code has moved on to a new array; and the cells of one
goroutine are read in any order. Properties of the model therefore hold of the code, and the
properties say what may be lost and not what must be.

`ScaleQueue` takes any count (`Counts`), as the code does, and `asked` remembers which.
`resized` counts the Scales that changed a queue's number, up to three, for the properties to
say what it takes to lose a worker. It is not counted any more, and stays at three, after a
StopAll that failed. Both are history variables: no action reads them.

The autoscaling of each `Start` is a loop of its own (`auto`):
a tick, then for each queue the reading of the statistics, the comparison with
`WorkerCount`, and the scaling, with everything else in between. A loop that is in the
middle of a round when its context ends finishes it, possibly on the pools of the next
Start. `StopAll` may give up when its context expires; `aborted` remembers that, and the pool
it failed at stays in the map, stopped, with its `watch` still to read (`StoppedPool`). A pool
that is stopped in time leaves the map; what its goroutines have still to stop, they stop, and
that is not followed any further. `EnableAutoscale` is taken as set and `MinWorkers` as at
least one.

### Scheduler

`stopping` is Stop holding the mutex over its wait; every other operation takes the mutex
and gives it back within its step. A firing is a goroutine that waits for the mutex, reads
context and listeners, dispatches and delivers. Contexts are numbered by the Start that
made them. cron (external) fires entries while it runs, and its stop context is done once
no firing is in flight. Whether the context given to `Stop` ends is a constant.

## 3. Runs

| Run | Instance | Shows |
|---|---|---|
| `queue` | 2 nodes with a worker each, one of which may fail; 2 jobs with 0 or 2 attempts, one of them slow; 1 intervention | `TypeOK`, `MutualExclusion`, `ClaimOwned`, `ErrorHistory`, `RowConsistent`, `AttemptBudget`, `FinalIsFinal`, `DeadLetterOnce`, `ImplementsLifecycle`, `EventuallyResolved` |
| `redis_safety` | 3 jobs, 2 attempts, 2 priorities | `TypeOK`, `IndexesAgree`, `ImplementsLifecycle` |
| `redis_decode` | 1 job | violation of `DocumentsDecode` |
| `locks` | every driver; 3 nodes, ttl 3 ticks, a second of 3 ticks, clock to 5 | `Exclusive`, `LockInv`, `ImplementsLease` |
| `leadership` | every driver; 3 nodes, ttl and window 3 ticks, a second of 3 ticks, clock to 6 | `Exclusive`, `LeaderInv`, `Recognised`, `ImplementsLease` |
| `nodes` | either driver; a supervisor and a coordinator, heartbeats every tick, coordinator ttl 2, window 3, clock to 4 | `Reported`, `NoResurrection`, `Indexed`, `Recovers` |
| `retries` | five-bit integers, every strategy, 0, 1, 2 or 7 attempts, clock to 16 | `AttemptsAgree`, `Spaced`, `UntilKept` |
| `supervision` | a queue of 1 to 2 workers with backlogs 0 and 6, a queue of 1 worker, `ScaleQueue` to 2 for either, 1 change of backlog, 2 starts, 1 request | `NoOrphans`, `Served`, `PanicsOnRestartOnly`, `Converges` |
| `pool_safety` | 2 initial workers, targets 3 and 5, pause and resume, 2 starts, 6 workers in all, Scale at any time | `Tracked`, `HonoursTarget`, `KeepsOne`, `RestartIsolated` |
| `pool_leak` | 2 initial workers, 1 start, paused and resumed | violation of `NoneLost` |
| `scheduler_safety` | 2 runs, 2 listeners, 2 starts, one schedule that parses and one that does not, Stop with a deadline | `ContextsCancelled`, `EnqueuesWhileRunning`, `EveryRunTold`, `RunsEnd`, `StopReturns` |
| `scheduler_stop` | 1 run, Stop without a deadline | violation of `StopReturns` |

The largest runs have 3.5 million states (`retries`, which starts from every configuration
of a job), 2.3 million (`nodes`), 1.6 million (`locks`), 1.0 million (`supervision`) and half a
million (`pool_safety`); `queue`, with its liveness and refinement properties, has 261 thousand.
`queue` and `supervision`, which check liveness, take the longest, about two minutes.

Why these bounds suffice.

* `queue`: two jobs are needed for batches, chains and a claim to have a choice; two attempts
  for a retry with an error before it and a last attempt after it; none at all because
  `ComputeNextState` and the claim read a maximum of zero differently. One job is slow, so
  that executions are requeued under their worker, and one is not, so that the
  properties that depend on the timeout are checked beside it. One intervention is a lost
  answer, a crash, a failed settle or a client's retry; the safety properties are proved for
  any number of interventions, jobs, nodes and workers.
* Leases: three ticks to a second make MySQL round up, down and not at all; the clock runs
  for about two terms; three nodes give an expired owner, a taker and a late third.
* `nodes`: an interval of one tick lets a supervisor lose one heartbeat in its ttl of three
  and a coordinator none in its ttl of two; the clock goes past one expiry and a new
  registration after it.
* `retries`: with five bits the exponential and the fibonacci delay overflow within seven
  attempts, to negative numbers and to zero.
* `supervision`: two queues make the total differ from a queue's own number; two starts give
  a loop of the first that acts on the pools of the second, and a second Stop. The operator's
  request and the rounds of autoscaling are enough Scales of one queue to overwrite a worker of Start
  and one of Scale before it is read, and a count of 2 is above the limit of the second queue.
* `pool_*`: the pool grows within its array, past it, shrinks while an earlier removal is under
  way, writes over cells that are still to be read, and is restarted.

Where a theorem covers a property (section 5) the bounds do not matter to it. Symmetry over
jobs or nodes is used in runs without liveness properties only.

Deadlock is checked except in the scheduler, pool, supervision and retries runs: an
application may leave a scheduler, a pool or a supervisor alone for ever, a panic ends the
process, and a job that is finished stays so when the clock has reached its bound.

## 4. Fairness

* `JobQueue!FairSpec`: weak fairness of each worker's step (the Go scheduler runs every
  runnable goroutine, and handlers return), of each node's `RequeueStale` while it is up (the
  supervisor's ticker fires again and again), and of the passing of time. Nothing is
  assumed of clients, of nodes coming back, or of calls succeeding: a failed call is a step,
  and failures are bounded. One node is outside `FaultyNodes`: without a node that stays
  up nothing would have to happen.
* `Scheduler!FairSpec`: weak fairness of each firing (dispatches and listeners return),
  of Stop noticing that cron has finished, and of the deadline passing if there is one.
  Nothing is assumed of cron or of the application.
* `Supervision!FairSpec`: weak fairness of each loop's steps: the autoscale ticker keeps
  firing while the loop's context is alive, and a round that has begun goes on. Nothing is
  assumed of the operator, of the backlog, or of `Start`.

`EventuallyResolved` counts a job as resolved when it is waiting with all attempts used
up. That clause is needed: `RequeueStale` puts a job interrupted in its last attempt back to
available with `attempt = max_attempts` (`sql:1167`), no claim takes it again, and
nothing makes it failed. Pending jobs are outside the property: the life cycle says of them
that they are cancelled or stay where they are.

`Converges` allows a queue to stay at the wrong number when the number it wants is the
number of workers over all queues. That clause is needed too: `doAutoscale` compares the two
(`supervisor/supervisor.go:263`) and does nothing when they are equal.

## 5. What is proved

For every value of the constants that satisfies the stated assumptions, with TLAPS.

**JobQueueProofs.** All invariants, action properties and the refinement of the `queue` run.

* `TypeCorrect`: `Spec => []TypeOK`.
* `Exclusion` and `Ownership`: `MutualExclusion` and `ClaimOwned` are invariants. Neither is
  inductive alone. A settle could take the row from a second worker unless that worker
  cannot exist, and a second worker could claim the row unless it is known to be running; so
  the inductive invariant is `ExclusionInv`, the conjunction of `TypeOK`, `ClaimOwned` and
  `MutualExclusion`. `ClaimOwned` says the row of an executing worker is running, held by its
  node, in its attempt and fresh: running excludes a second claim, fresh excludes a requeue,
  and `BecomeStale` is disabled for a held job outside `SlowJobs`.
* `RowsConsistent`, `FinalForGood`, `DeadLetters`, `BudgetKept`, `ErrorsRecorded`: these hold
  whoever executes what, so they are proved of a single row. `TableStep` shows that every
  step of the system is, for each job, nothing at all or one driver statement applied to a
  row that meets its WHERE clause (`JobStep`); after that each property is one lemma about
  such a statement. The budget is strengthened by saying that a row which does not exist has
  no runs; the error history needs `ClaimOwned`, because a failure report that met somebody
  else's claim would be recorded under the wrong attempt.
* `LifecycleRefinement`: `JobQueue` implements `JobLifecycle`. `Phases` computes what each
  statement does to the abstract phase, `LifeStep` maps each to an abstract step. A pending job
  of a chain is parked there: it may be cancelled, and nothing ever takes it.

**LeaseProofs**, for both leases: it extends `Leadership` and instantiates `Locks` over the
same `LeaseCalls`.
`LeaseExcludes`: what `Lease` promises is enough, since anything that implements it has at most
one owner at a time. `LockRefinement`, `LeaderRefinement`: both implement it, with every driver.
`LockExclusion`, `OneLeader`: hence no two nodes own the lease at once. `WinnerRecognised`:
`IsLeader` agrees with the winner for its whole term if the ttl is at most its window (in
`DefaultConfig` both are 15 s). The refinements rest on `LockInv` and `LeaderInv`, which the
runs check and `LockInvariant` and `LeaderInvariant` prove: an unexpired answer is backed
by a row or key that outlives it; a call's clock reading is not in the future, and its answer
never shortens an earlier one; and a SQL call past its UPDATE that finds its own node in the
row has written that row itself. The last part is what makes the final SELECT, which looks
at neither expiry nor heartbeat, a sound answer. What is needed of the rounding is that it
keeps the order of times and is never more than `Slack` early.

**NodeRegistryProofs.** `DeregisteredForGood` and `AliveIndexed`: `NoResurrection` and `Indexed`
are inductive with the types. `ReportedAlive`: `Reported`, for any intervals, ttls and windows,
from `ReportInv`, which ties a report's expiry to the ticker (the next tick, less the
heartbeats missed and the one on its way, is when the report was made). `Recovery`: `Recovers`
from the same invariant, which also says that a serving process still has its row in SQL.

**RetriesProofs.** `Attempts`: `AttemptsAgree` for any maximum, negative ones included, any
backoff and any deadline, from `AttemptInv`: the attempt of a running job is within its
maximum, and a worker about to settle carries a result that fits the row. `RetriesSpaced`:
`Spaced` for integers of any width, from `DelayInv`: the backoff of a retryable job is what
`computeBackoffWithConfig` gives for its attempt. What that function computes is `Backoffs`,
which compares the recursive definitions of the code (the shift, the fibonacci loop with
wrapping sums) with the ideal ones. The library states induction over operators, which the
provers cannot instantiate; `Induction` states it over sets, from the well-foundedness of `<`
on `Nat`, and `Recursion` gives a recursive function's equations from it. `DeadlineKept`:
`UntilKept`, from what `DelayInv` says of a worker between the decision and the settle.

**SchedulerProofs.** `ContextsInvariant`: only the context of the latest Start can be alive,
and only while running, and every dispatching run has one of Start's contexts.
`NoLateEnqueue`: hence a run enqueues only while the scheduler runs, even if Stop gave up on
it. `RunsReported`: `EveryRunTold`, from `Owed`: a run owes a report, or has made it, to each
listener there was when it fired.

**RedisStoreProofs.** `StoreTypes`, `IndexesConsistent`: `TypeOK` and `IndexesAgree` are inductive
together (`StoreInv`), for any number of jobs and with scripts called in any order by anybody.
A script treats each job on its own, so both are said of one job (`Entry`), and `StepChanges`
lists the six things a script can do to one. `RedisLifecycle`: each of the six is a step of
`JobLifecycle` or leaves the phase alone, so the two drivers implement the same life cycle.
`LifecycleBounds`: the life cycle alone keeps the tries of a running job within its maximum and
a parked job untried; `RedisWithinMax`: so does the Redis driver.

**SupervisionProofs.** `StopLeavesNone`, `QueuesServed`, `PanicNeedsRestart`: `NoOrphans`, `Served`
and `PanicsOnRestartOnly`, for any queues, limits, counts, starts and loops. The inductive invariant
`SupervisionInv` says of each pool (`PoolInv`) that until a Stop expires it is in the map and
running exactly while the supervisor is, so that the next Stop reaches it and a late loop finds
nothing to scale after it, and that no goroutine is to read its first cell, which `Clamp` keeps
from being removed; of each cell (`CellInv`), how many Scales it takes to come to its state: one to
remove a worker or to add one, two for a worker that is to be stopped although it is in
`p.workers`; of what was lost (`LostInv`), one Scale more than for the cell it was in; of each
loop, that it never asks for more than the maximum; and
that a closed channel in a running supervisor means a second Start. One lemma for each thing
that can happen to a pool (`NewPoolInv`, `UnboundPool`, `StoppedPoolInv`, `ShrunkPool`,
`GrownPool`, `ReadPool`) does the work.

**PoolProofs.** `RestartsIsolated`: `RestartIsolated`, for any targets, starts and growth of the
slice, and however Scales overlap. The invariant is `SliceInv`: all workers of an array that
`p.workers`, `watch` or a removing goroutine can reach are of one Start, and no worker is in
`p.workers` twice. `WorkersTracked`, `TargetHonoured`, `QueueKept`: `Tracked`, `HonoursTarget` and
`KeepsOne`, under no hypothesis about the order of Scales and goroutines. They need `LiveInv` too:
a worker alive is in `p.workers`, ahead of a goroutine that will stop it, or lost
(`AliveInv`); the workers of `p.workers` that a goroutine is to stop are those that are doomed and
still alive, and the first worker is not one of them (`KeptInv`); and no id is given twice
(`KnownInv`). So what the overlap of Scales does is exactly to lose one worker and to doom another
for each cell written over, and nothing else. `SliceInv` and
`LiveInv` were model-checked before they were proved, as were `StoreInv` (as `TypeOK` and
`IndexesAgree`) and the parts of `SupervisionInv`.

Every safety and refinement property of a passing run is thus a theorem. Only model-checked:
liveness (`EventuallyResolved`, `RunsEnd`, `StopReturns`, `Converges`), which is beyond the
prover.

## 6. Findings

Checked by a run that finds the violation:

* `redis_decode`: `Retry` writes `errors = {}` in Lua, which Redis encodes as a JSON object;
  the document can then not be decoded, by `GetByID` or by `Claim`. The tests run on an
  emulation whose encoder writes a list.
* `scheduler_stop`: `Stop(context.Background())` waits with the mutex held for a firing that
  waits for the mutex. With a deadline it returns, and the firing ends after it.
* `pool_leak`: a Scale up right after a Scale down overwrites the cells the removing
  goroutine has still to read: the new worker is stopped and the old one lives on unseen. Pausing
  and resuming a queue is enough. `NoneLost` says that this does not happen; `Tracked`,
  `HonoursTarget`, `NoOrphans` and `Served` say what is true instead.

Met while modelling, visible in the models, without a run of their own:

* `Complete`, `Fail` and `ScheduleRetry` match a row by id and state (`sql:553`). A worker whose
  job was requeued as stale settles the claim of whoever has it now, although `tasker.go:66`
  calls the node id "the owner token ... for job claims". `MutualExclusion` and `ClaimOwned`
  are therefore stated for jobs outside `SlowJobs`.
* `Chain` inserts all jobs but the first as pending, and nothing but a cancellation moves a
  pending job. `ImplementsLifecycle` says so, with either driver, and `EventuallyResolved` leaves
  such jobs out.
* A job requeued in its last attempt stays available for ever (section 4).
* `Scale` raises its target to at least one, so `PauseQueue` leaves a worker claiming, and the
  dashboard, which takes a queue with no workers for paused, does not show it as paused.
  `HonoursTarget` and `Served` state what is true instead.
* `ScaleQueue` does not look at the limits of the queue (`supervisor/supervisor.go:167`), so a queue
  may have more workers than its maximum until autoscaling changes it. `Served` says so.
* Autoscaling compares a queue's number with the total (section 4).
* `Supervisor.New` makes the channel that `Stop` closes: after a restart the next Stop panics.
  `PanicsOnRestartOnly` says that nothing else does.
* `StopAll` returns at the first pool that does not stop in time; that pool stays in the map,
  stopped, the next Start does not replace it, and a Scale puts workers into it which the
  next Stop does not stop. `NoOrphans` and `Served` say so.
* A Redis heartbeat for a key that has expired fails for ever, and a coordinator's key lives
  for two heartbeats, so one lost heartbeat is enough. `Reported` and `Recovers` say which
  losses are survived with which driver.
* `ListNodes` of the Redis driver may remove a node that has registered again; `Indexed` names
  the exception.
* An exponential or fibonacci delay that overflows is compared with its cap after it has
  wrapped, so it may be zero or negative (`state_machine.go:67`); `Spaced` covers the range in
  which the delay is the one the strategy stands for.
* `RetryUntil` is checked with one reading of the clock and the retry scheduled from another.
* The coordinator's `Config.NodeID` is used even if empty, where the Manager makes one up.
* The drivers make transitions that `ValidateTransition` rejects (a cancelled job is retried;
  scheduled and retryable jobs are claimed directly). `JobLifecycle` is what they do implement.
* `ShouldLock` (`job.go:45`) is declared and documented, and used nowhere.
* `job clear` looks for the `states` flag on itself, but it is declared on its parent command
  (`cmd/job.go:67`, `:78`): it finds no states, and `Prune` without states removes nothing
  (`sql:1181`).

## 7. Not modelled

* Registries and middleware: maps under one lock, no protocol.
* Batch helper, command line: wrappers; the calls they make are client actions.
* The dashboard's pages, event stream and CSRF check: they read, or are HTTP plumbing. Its
  requests are actions of `JobQueue` and `Supervision`.
* Queries, statistics and row encoding: reads with no property here, except for the
  decoding of `errors`.
* `Manager.Work` and `Manager.Stop`, a second way of running pools that the supervisor does not
  use; `PoolManager.StopPool` and `ValidateTransition`, which nothing calls.
* A supervisor and a coordinator that share one node id, and clocks that disagree.

## 8. Plan

Done: the job queue over SQL, the Redis job store, leases and node reports with every driver,
retries, the scheduler, one pool, and the supervisor over several, with the safety properties
and refinements of every run proved.

Left:

1. `Manager.Work` and `Manager.Stop` beside the supervisor's pools.
2. The safety half of the liveness properties, as lemmas: that a state in which nothing more
   happens is one in which the job is resolved, or the pool has settled.
3. A supervisor and a coordinator that share a node id.
