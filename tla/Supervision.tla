----------------------------- MODULE Supervision -----------------------------
(***************************************************************************)
(* The supervisor over the pools of several queues: Start and Stop, the    *)
(* operator's PauseQueue, ResumeQueue and ScaleQueue, and the autoscaling  *)
(* tick of the supervisor's loop, which runs beside them and outlives the  *)
(* Start that began it by one round at most.                               *)
(*                                                                         *)
(* p.workers is the first len cells of an array.  A cell tells whether its *)
(* worker runs with the context of Start ("bound"), with one of its own    *)
(* because Scale added it ("free"), or has ended ("dead"), and how often   *)
(* goroutines are still to read the cell and stop the worker they find.    *)
(* A worker that Scale overwrites before it was read is lost: orphans has  *)
(* its kind.  Pool has the arrays one by one; here the array that append   *)
(* allocates is not told apart from the old one, and what is to be read in *)
(* the old one may be read in the new one, at any time and in any order.   *)
(* The node's registration is in NodeRegistry.                             *)
(***************************************************************************)
EXTENDS Integers, FiniteSets, FiniteSetsExt

CONSTANTS
    Queues,
    MinWorkers, MaxWorkers, \* the QueueConfig of each queue
    Counts,      \* what ScaleQueue may be asked for
    Backlogs,    \* how many jobs QueueStats may say are available or retryable in each queue
    MaxChanges,  \* bound on changes of the backlog
    MaxStarts,   \* bound on calls of Start
    MaxRequests  \* bound on the operator's requests

ASSUME SupervisionAssumption ==
    /\ MinWorkers \in [Queues -> Nat] /\ MaxWorkers \in [Queues -> Nat]
    /\ \A q \in Queues : 1 <= MinWorkers[q] /\ MinWorkers[q] <= MaxWorkers[q]
    /\ Backlogs \in [Queues -> SUBSET Nat] /\ Counts \subseteq Int
    /\ {MaxChanges, MaxStarts, MaxRequests} \subseteq Nat

VARIABLES
    running,  \* s.running
    closed,   \* s.stopped is closed
    panicked, \* Stop has closed s.stopped twice and the process is gone
    ctx,      \* whether the context made by the last Start is alive
    pools,    \* the pool manager's map
    auto,     \* the autoscaling of the loop of each Start
    backlog,  \* the jobs that wait in each queue
    orphans,  \* for each queue, the kinds of workers that may run and nothing will stop
    aborted,  \* a StopAll has returned an error, its context having expired
    resized,  \* how many Scales changed the number of a queue's workers, up to MaxResized;
              \* not counted any more, and MaxResized, once a StopAll has failed
    asked,    \* what ScaleQueue was asked for
    changes, starts, requests

poolVars == <<pools, orphans, resized>>

vars == <<running, closed, panicked, ctx, poolVars, auto, backlog, aborted, asked, changes, starts, requests>>

MaxResized == 3

NoPool == [exists |-> FALSE, running |-> FALSE, len |-> 0, cells |-> <<>>]

Loops == 1..MaxStarts

IdleLoop == [pc |-> "idle", todo |-> {}, desired |-> 0, queue |-> {}]

Init ==
    /\ running = FALSE /\ closed = FALSE /\ panicked = FALSE /\ ctx = FALSE /\ aborted = FALSE
    /\ pools = [q \in Queues |-> NoPool]
    /\ auto = [e \in Loops |-> IdleLoop]
    /\ backlog \in [Queues -> UNION {Backlogs[q] : q \in Queues}]
    /\ \A q \in Queues : backlog[q] \in Backlogs[q]
    /\ orphans = [q \in Queues |-> {}]
    /\ resized = [q \in Queues |-> 0] /\ asked = [q \in Queues |-> {}]
    /\ changes = 0 /\ starts = 0 /\ requests = 0

Alive(q) == {i \in 1..pools[q].len : pools[q].cells[i].worker # "dead"}

Free(q) == {i \in 1..pools[q].len : pools[q].cells[i].worker = "free"}

(* PoolManager.WorkerCount counts the workers of all pools, dead or not. *)
WorkerCount == MapThenSumSet(LAMBDA q : pools[q].len, Queues)

Cell(worker, reads) == [worker |-> worker, reads |-> reads]

(* The end of Start's context, for removed workers too. *)
Unbound(pool) ==
    [pool EXCEPT !.cells = [i \in DOMAIN pool.cells |->
        IF pool.cells[i].worker = "bound" THEN Cell("dead", pool.cells[i].reads) ELSE pool.cells[i]]]

-----------------------------------------------------------------------------
NewPool(q) ==
    [exists |-> TRUE, running |-> TRUE, len |-> MaxWorkers[q],
     cells |-> [i \in 1..MaxWorkers[q] |-> Cell("bound", 0)]]

(* StartPool refuses a queue that has a pool. *)
StartPool(q) == IF pools[q].exists THEN pools[q] ELSE NewPool(q)

Start ==
    /\ ~running /\ starts < MaxStarts
    /\ running' = TRUE /\ ctx' = TRUE
    /\ starts' = starts + 1
    /\ pools' = [q \in Queues |-> StartPool(q)]
    /\ UNCHANGED <<closed, panicked, orphans, resized, auto, backlog, aborted, asked, changes, requests>>

(* The context that Start was given ends, and with it the loop. *)
CtxEnds ==
    /\ ctx
    /\ ctx' = FALSE
    /\ pools' = [q \in Queues |-> Unbound(pools[q])]
    /\ orphans' = [q \in Queues |-> orphans[q] \ {"bound"}]
    /\ UNCHANGED <<running, closed, panicked, resized, auto, backlog, aborted, asked, changes, starts, requests>>

(* Faulty: the workers are left to end with the context of Start. *)
StopAllByContext(reached, failed) ==
    /\ pools' = [q \in Queues |-> IF q \in reached THEN NoPool ELSE Unbound(pools[q])]
    /\ orphans' = [q \in Queues |->
                     (orphans[q] \ {"bound"}) \cup (IF q \in reached /\ Free(q) # {} THEN {"free"} ELSE {})]

(* Pool.Stop tells the workers of p.workers to end and watch to read the    *)
(* cells of Start's array, which Scale still writes to unless it has grown. *)
StoppedPool(q) ==
    LET cells == pools[q].cells
        watch == IF DOMAIN cells = 1..MaxWorkers[q] THEN 1 ELSE 0
        Ends(i) == i <= pools[q].len \/ cells[i].worker = "bound"
    IN [pools[q] EXCEPT !.running = FALSE,
                        !.cells = [i \in DOMAIN cells |->
                            Cell(IF Ends(i) THEN "dead" ELSE cells[i].worker, cells[i].reads + watch)]]

(* StopAll over the pools of the map, with Start's context cancelled.       *)
(* Pool.Stop does nothing if the pool was stopped before.  When Stop's      *)
(* context has expired, a Pool.Stop may return its error: the pool "failed" *)
(* stays in the map, and so do the ones not reached.  What is removed and   *)
(* still to be read is stopped by its goroutine all the same.               *)
StopAll(reached, failed) ==
    /\ pools' = [q \in Queues |-> IF q \in failed THEN StoppedPool(q)
                                  ELSE IF q \in reached THEN NoPool ELSE Unbound(pools[q])]
    /\ orphans' = [q \in Queues |->
                     (orphans[q] \ {"bound"})
                     \cup (IF q \in reached /\ ~pools[q].running /\ Free(q) # {} THEN {"free"} ELSE {})]

Stopping ==
    /\ running' = FALSE /\ ctx' = FALSE
    /\ \/ StopAll(Queues, {}) /\ UNCHANGED <<aborted, resized>>
       \/ \E q \in Queues : \E reached \in SUBSET (Queues \ {q}) :
             /\ pools[q].running
             /\ StopAll(reached, {q})
             /\ aborted' = TRUE /\ resized' = [k \in Queues |-> MaxResized]
    /\ closed' = TRUE
    /\ panicked' = closed
    /\ UNCHANGED <<auto, backlog, asked, changes, starts, requests>>

(* Faulty: a supervisor that does not run is stopped all the same. *)
StopAlways == Stopping

Stop == running /\ Stopping

-----------------------------------------------------------------------------
(* Faulty: zero is a target like any other. *)
ClampNot(target) == target

Clamp(target) == IF target < 1 THEN 1 ELSE target

(* The workers beyond target are left to a goroutine. *)
Shrunk(pool, target) ==
    [pool EXCEPT !.len = target,
                 !.cells = [i \in DOMAIN pool.cells |->
                    IF i \in (target + 1)..pool.len
                    THEN Cell(pool.cells[i].worker, pool.cells[i].reads + 1) ELSE pool.cells[i]]]

(* New workers in the cells up to target, which may be still to be read. *)
Grown(pool, target) ==
    [pool EXCEPT !.len = target,
                 !.cells = [i \in (1..target) \cup DOMAIN pool.cells |->
                    IF i \notin (pool.len + 1)..target THEN pool.cells[i]
                    ELSE Cell("free", IF i \in DOMAIN pool.cells THEN pool.cells[i].reads ELSE 0)]]

(* The kinds of the workers that are written over while they work. *)
Overwritten(pool, target) ==
    {pool.cells[i].worker : i \in ((pool.len + 1)..target) \cap DOMAIN pool.cells} \ {"dead"}

(* ScalePool reports an error when the queue has no pool.  Pool.Scale looks *)
(* neither at running nor at which workers have ended, nor at what is still *)
(* to be read.                                                              *)
ScalePool(q, target) ==
    LET pool == pools[q]
        t    == Clamp(target)
    IN \/ ~pool.exists /\ UNCHANGED poolVars
       \/ pool.exists /\ t = pool.len /\ UNCHANGED poolVars
       \/ /\ pool.exists /\ t # pool.len
          /\ pools' = [pools EXCEPT ![q] = IF t < pool.len THEN Shrunk(pool, t) ELSE Grown(pool, t)]
          /\ orphans' = [orphans EXCEPT ![q] = @ \cup Overwritten(pool, t)]
          /\ resized' = [resized EXCEPT ![q] = IF @ < MaxResized THEN @ + 1 ELSE @]

(* A goroutine that Scale or Stop started reads a cell. *)
RemovalReads(q) ==
    /\ \E i \in DOMAIN pools[q].cells :
          /\ pools[q].cells[i].reads > 0
          /\ pools' = [pools EXCEPT ![q].cells[i] = Cell("dead", @.reads - 1)]
    /\ UNCHANGED <<running, closed, panicked, ctx, orphans, resized, auto, backlog, aborted, asked,
                   changes, starts, requests>>

Request(q, target) ==
    /\ requests < MaxRequests
    /\ requests' = requests + 1
    /\ ScalePool(q, target)
    /\ UNCHANGED <<running, closed, panicked, ctx, auto, backlog, aborted, changes, starts>>

PauseQueue(q) == Request(q, 0) /\ UNCHANGED asked

ResumeQueue(q) == Request(q, MaxWorkers[q]) /\ UNCHANGED asked

(* Any count goes, whatever the limits of the queue. *)
ScaleQueue(q) ==
    \E count \in Counts : Request(q, count) /\ asked' = [asked EXCEPT ![q] = @ \cup {count}]

-----------------------------------------------------------------------------
(* computeDesiredWorkers. *)
Desired(jobs, q) ==
    IF jobs \div 2 < MinWorkers[q] THEN MinWorkers[q]
    ELSE IF jobs \div 2 > MaxWorkers[q] THEN MaxWorkers[q] ELSE jobs \div 2

Loop(e, record) ==
    /\ auto' = [auto EXCEPT ![e] = record]
    /\ UNCHANGED <<running, closed, panicked, ctx, backlog, aborted, asked, changes, starts, requests>>

(* The autoscale tick: doAutoscale goes through the queues in any order. *)
AutoscaleTick(e) ==
    /\ e = starts /\ ctx
    /\ auto[e].pc = "idle" /\ auto[e].todo = {}
    /\ Loop(e, [IdleLoop EXCEPT !.todo = Queues])
    /\ UNCHANGED poolVars

(* QueueStats, which fails once the loop's context has ended. *)
ReadStats(e) ==
    /\ auto[e].pc = "idle"
    /\ \E q \in auto[e].todo :
          Loop(e, IF e = starts /\ ctx
                  THEN [pc |-> "count", todo |-> auto[e].todo \ {q},
                        desired |-> Desired(backlog[q], q), queue |-> {q}]
                  ELSE [auto[e] EXCEPT !.todo = @ \ {q}])
    /\ UNCHANGED poolVars

(* Faulty: only a queue that needs more workers is scaled. *)
CompareUpwards(e) ==
    /\ auto[e].pc = "count"
    /\ Loop(e, [auto[e] EXCEPT !.pc = IF auto[e].desired > WorkerCount THEN "scale" ELSE "idle"])
    /\ UNCHANGED poolVars

(* The queue's desired number is compared with the number over all pools. *)
Compare(e) ==
    /\ auto[e].pc = "count"
    /\ Loop(e, [auto[e] EXCEPT !.pc = IF auto[e].desired # WorkerCount THEN "scale" ELSE "idle"])
    /\ UNCHANGED poolVars

Scale(e) ==
    /\ auto[e].pc = "scale"
    /\ \E q \in auto[e].queue : ScalePool(q, auto[e].desired)
    /\ Loop(e, [auto[e] EXCEPT !.pc = "idle"])

LoopStep(e) == AutoscaleTick(e) \/ ReadStats(e) \/ Compare(e) \/ Scale(e)

BacklogChanges(q) ==
    /\ changes < MaxChanges
    /\ changes' = changes + 1
    /\ \E jobs \in Backlogs[q] \ {backlog[q]} : backlog' = [backlog EXCEPT ![q] = jobs]
    /\ UNCHANGED <<running, closed, panicked, ctx, poolVars, auto, aborted, asked, starts, requests>>

Next ==
    /\ ~panicked
    /\ \/ Start \/ Stop \/ CtxEnds
       \/ \E q \in Queues : PauseQueue(q) \/ ResumeQueue(q) \/ ScaleQueue(q)
                           \/ RemovalReads(q) \/ BacklogChanges(q)
       \/ \E e \in Loops : LoopStep(e)

Spec == Init /\ [][Next]_vars

(* The autoscale ticker keeps firing, and Go runs the loop. *)
FairSpec == Spec /\ \A e \in Loops : WF_vars(~panicked /\ LoopStep(e))

-----------------------------------------------------------------------------
(* After a Stop whose context did not expire the map has no worker, however *)
(* the operator and a doAutoscale that was under way resized the pools.     *)
(* What an expired Stop leaves there is workers that Scale had added, or    *)
(* adds to a pool that is stopped and still in the map.  Other workers that *)
(* nothing stops are lost to Scales that overlap: it takes a removal and an *)
(* addition, what Start made ends with its context, and to lose a worker of *)
(* Scale's own takes an addition before them.                               *)
NoOrphans ==
    \A q \in Queues :
        /\ ~running /\ Alive(q) # {} => aborted /\ Alive(q) = Free(q)
        /\ ~ctx => "bound" \notin orphans[q]
        /\ "bound" \in orphans[q] /\ ~aborted => resized[q] >= 2
        /\ "free" \in orphans[q] /\ ~aborted => resized[q] >= 3

(* While the supervisor runs, the first worker of every queue is alive, and *)
(* no queue has more workers than its maximum or than ScaleQueue was asked  *)
(* for: pausing, resuming, and decisions of an earlier Start's loop         *)
(* included.  One of p.workers is dead only where Scales have removed and   *)
(* added workers.  A pool that an expired Stop left in the map breaks this, *)
(* because Start does not replace it.                                       *)
Served ==
    running /\ ctx /\ ~aborted =>
        \A q \in Queues : /\ 1 \in Alive(q)
                          /\ pools[q].len <= MaxWorkers[q] \/ pools[q].len \in asked[q]
                          /\ Alive(q) # 1..pools[q].len => resized[q] >= 2

(* Stop closes s.stopped a second time only if the supervisor was started   *)
(* again: New makes the channel, Start does not.                            *)
PanicsOnRestartOnly == panicked => starts > 1

(* A queue's workers settle at the number its backlog asks for, unless that *)
(* number happens to be the number of workers over all queues.              *)
Settled(q) == pools[q].len = Desired(backlog[q], q) \/ Desired(backlog[q], q) = WorkerCount

Converges == <>[](running /\ ctx => \A q \in Queues : pools[q].exists => Settled(q))
=============================================================================
