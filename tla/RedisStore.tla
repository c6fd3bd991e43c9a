----------------------------- MODULE RedisStore -----------------------------
(***************************************************************************)
(* The job part of driver/redisdriver: the jobs hash and the sorted sets   *)
(* and sets that index it.  Each operation is one Lua script, which Redis  *)
(* runs atomically; any client may call any of them at any time, late      *)
(* settles of requeued jobs included.  Job ids are fresh (INCR) and so are *)
(* the uuids of dispatched jobs; a job stands for both.                    *)
(*                                                                         *)
(* Scores are abstracted to what the scripts compare them with: an entry   *)
(* of job:due:<queue> is "future" or "due", one of job:running "fresh" or  *)
(* "stale"; "absent" is no entry.                                          *)
(***************************************************************************)
EXTENDS JobStates, FiniteSets

CONSTANTS
    Jobs,
    MaxAttemptsChoices, \* what a dispatched row's max_attempts may be
    Priorities          \* what its priority may be

ASSUME RedisAssumption == MaxAttemptsChoices \subseteq Int /\ Priorities \subseteq Int

VARIABLES
    jobs,    \* the hash "jobs": what each id's JSON document says
    uuids,   \* the hash "job:uuids"
    ids,     \* the sorted set "job:ids"
    created, \* the sorted set "job:created"
    due,     \* the sorted set "job:due:<queue>"
    running  \* the sorted set "job:running"

vars == <<jobs, uuids, ids, created, due, running>>

(* A document.  "errors" is how the JSON of the errors field reads: null, a *)
(* list, or an object, which is how cjson writes an empty Lua table.        *)
Document == [state        : States \cup {"none", "gone"},
             attempt      : Nat,
             max_attempts : Int,
             priority     : Int,
             errors       : {"null", "list", "object"}]

NoDocument == [state |-> "none", attempt |-> 0, max_attempts |-> 0, priority |-> 0,
               errors |-> "null"]

Stored(j) == jobs[j].state \in States

TypeOK ==
    /\ jobs \in [Jobs -> Document]
    /\ uuids \subseteq Jobs /\ ids \subseteq Jobs /\ created \subseteq Jobs
    /\ due \in [Jobs -> {"absent", "future", "due"}]
    /\ running \in [Jobs -> {"absent", "fresh", "stale"}]

Init ==
    /\ jobs = [j \in Jobs |-> NoDocument]
    /\ uuids = {} /\ ids = {} /\ created = {}
    /\ due = [j \in Jobs |-> "absent"]
    /\ running = [j \in Jobs |-> "absent"]

QueuedStates == {"available", "scheduled", "retryable"}

(* What the scripts make of a field holding an empty Lua table. *)
EmptyTable == "object"

-----------------------------------------------------------------------------
(* enqueueScript.  A batch with a uuid that is taken is refused whole. *)
NewDocument(max, when, priority, chained) ==
    [NoDocument EXCEPT
        !.state = IF chained THEN "pending" ELSE IF when = "future" THEN "scheduled" ELSE "available",
        !.max_attempts = max,
        !.priority = priority]

NewDocuments ==
    {[doc |-> NewDocument(m, t, p, c), score |-> t] :
        m \in MaxAttemptsChoices, t \in {"future", "due"}, p \in Priorities, c \in BOOLEAN}

EnqueueBatch(new) ==
    /\ DOMAIN new \cap uuids = {}
    /\ \A j \in DOMAIN new : jobs[j].state = "none"
    /\ jobs' = [j \in Jobs |-> IF j \in DOMAIN new THEN new[j].doc ELSE jobs[j]]
    /\ uuids' = uuids \cup DOMAIN new
    /\ ids' = ids \cup DOMAIN new
    /\ created' = created \cup DOMAIN new
    /\ due' = [j \in Jobs |-> IF j \in DOMAIN new /\ new[j].doc.state \in QueuedStates
                              THEN new[j].score ELSE due[j]]
    /\ UNCHANGED running

-----------------------------------------------------------------------------
(* claimScript, for one job.  Due entries that cannot be claimed are        *)
(* dropped from the index on the way.                                       *)

(* Faulty: the attempts are not compared. *)
CandidateUnlimited(j) == due[j] = "due" /\ jobs[j].state \in QueuedStates

Candidate(j) ==
    /\ due[j] = "due"
    /\ jobs[j].state \in QueuedStates
    /\ jobs[j].attempt < jobs[j].max_attempts

Dropped == {j \in Jobs : due[j] = "due" /\ ~Candidate(j)}

Without(index, set) == [j \in Jobs |-> IF j \in set THEN "absent" ELSE index[j]]

Claim(j) ==
    /\ Candidate(j)
    /\ \A k \in Jobs : Candidate(k) => jobs[k].priority <= jobs[j].priority
    /\ jobs' = [jobs EXCEPT ![j].state = "running", ![j].attempt = @ + 1]
    /\ due' = Without(due, Dropped \cup {j})
    /\ running' = [running EXCEPT ![j] = "fresh"]
    /\ UNCHANGED <<uuids, ids, created>>

ClaimNothing ==
    /\ \A j \in Jobs : ~Candidate(j)
    /\ due' = Without(due, Dropped)
    /\ UNCHANGED <<jobs, uuids, ids, created, running>>

-----------------------------------------------------------------------------
(* finishScript, failScript and scheduleRetryScript. *)

(* Faulty: the entry of job:running is left behind. *)
CompleteKeepingEntry(j) ==
    /\ jobs[j].state = "running"
    /\ jobs' = [jobs EXCEPT ![j].state = "completed"]
    /\ UNCHANGED <<uuids, ids, created, due, running>>

Complete(j) ==
    /\ jobs[j].state = "running"
    /\ jobs' = [jobs EXCEPT ![j].state = "completed"]
    /\ running' = Without(running, {j})
    /\ UNCHANGED <<uuids, ids, created, due>>

Fail(j) ==
    /\ jobs[j].state \in {"running", "retryable"}
    /\ jobs' = [jobs EXCEPT ![j].state = "failed", ![j].errors = "list"]
    /\ running' = Without(running, {j})
    /\ due' = Without(due, {j})
    /\ UNCHANGED <<uuids, ids, created>>

ScheduleRetry(j) ==
    /\ jobs[j].state = "running"
    /\ jobs' = [jobs EXCEPT ![j].state = "retryable", ![j].errors = "list"]
    /\ running' = Without(running, {j})
    /\ due' = [due EXCEPT ![j] = "future"]
    /\ UNCHANGED <<uuids, ids, created>>

-----------------------------------------------------------------------------
(* retryScript and cancelScript check the whole batch before they change    *)
(* any of it.                                                               *)

(* Faulty: one attempt is taken back instead of all of them. *)
RetryBatchOneAttempt(batch) ==
    /\ batch # {}
    /\ \A j \in batch : jobs[j].state \in {"failed", "completed", "cancelled", "retryable"}
    /\ jobs' = [j \in Jobs |->
                  IF j \in batch
                  THEN [jobs[j] EXCEPT !.state = "available", !.attempt = @ - 1, !.errors = EmptyTable]
                  ELSE jobs[j]]
    /\ due' = [j \in Jobs |-> IF j \in batch THEN "due" ELSE due[j]]
    /\ running' = Without(running, batch)
    /\ UNCHANGED <<uuids, ids, created>>

RetryBatch(batch) ==
    /\ batch # {}
    /\ \A j \in batch : jobs[j].state \in {"failed", "completed", "cancelled", "retryable"}
    /\ jobs' = [j \in Jobs |->
                  IF j \in batch
                  THEN [jobs[j] EXCEPT !.state = "available", !.attempt = 0, !.errors = EmptyTable]
                  ELSE jobs[j]]
    /\ due' = [j \in Jobs |-> IF j \in batch THEN "due" ELSE due[j]]
    /\ running' = Without(running, batch)
    /\ UNCHANGED <<uuids, ids, created>>

CancelBatch(batch) ==
    /\ batch # {}
    /\ \A j \in batch : jobs[j].state \in {"available", "pending", "scheduled", "retryable"}
    /\ jobs' = [j \in Jobs |-> IF j \in batch THEN [jobs[j] EXCEPT !.state = "cancelled"] ELSE jobs[j]]
    /\ due' = Without(due, batch)
    /\ UNCHANGED <<uuids, ids, created, running>>

-----------------------------------------------------------------------------
(* staleScript: every stale entry leaves job:running, and is requeued if    *)
(* its document still says running.                                         *)
StaleEntries == {j \in Jobs : running[j] = "stale"}

RequeueStale ==
    /\ StaleEntries # {}
    /\ LET requeued == {j \in StaleEntries : jobs[j].state = "running"} IN
          /\ jobs' = [j \in Jobs |-> IF j \in requeued THEN [jobs[j] EXCEPT !.state = "available"]
                                                       ELSE jobs[j]]
          /\ due' = [j \in Jobs |-> IF j \in requeued THEN "due" ELSE due[j]]
    /\ running' = Without(running, StaleEntries)
    /\ UNCHANGED <<uuids, ids, created>>

(* pruneScript over the entries of job:created that are old enough. *)
Prune(old) ==
    /\ old # {} /\ old \subseteq created
    /\ LET pruned == {j \in old : Terminal(jobs[j].state)}
           lost   == {j \in old : ~Stored(j)}
       IN /\ jobs' = [j \in Jobs |-> IF j \in pruned THEN [NoDocument EXCEPT !.state = "gone"] ELSE jobs[j]]
          /\ uuids' = uuids \ pruned
          /\ ids' = ids \ (pruned \cup lost)
          /\ created' = created \ (pruned \cup lost)
          /\ running' = Without(running, pruned)
          /\ due' = Without(due, pruned)

-----------------------------------------------------------------------------
(* Time passes over the scores. *)
BecomeDue(j) ==
    /\ due[j] = "future"
    /\ due' = [due EXCEPT ![j] = "due"]
    /\ UNCHANGED <<jobs, uuids, ids, created, running>>

BecomeStale(j) ==
    /\ running[j] = "fresh"
    /\ running' = [running EXCEPT ![j] = "stale"]
    /\ UNCHANGED <<jobs, uuids, ids, created, due>>

Next ==
    \/ \E batch \in SUBSET Jobs : batch # {} /\ \E new \in [batch -> NewDocuments] : EnqueueBatch(new)
    \/ \E j \in Jobs : Claim(j)
    \/ ClaimNothing
    \/ \E j \in Jobs : Complete(j) \/ Fail(j) \/ ScheduleRetry(j)
    \/ \E batch \in SUBSET Jobs : RetryBatch(batch) \/ CancelBatch(batch)
    \/ RequeueStale
    \/ \E old \in SUBSET Jobs : Prune(old)
    \/ \E j \in Jobs : BecomeDue(j) \/ BecomeStale(j)

Spec == Init /\ [][Next]_vars

-----------------------------------------------------------------------------
(* No script leaves an index that disagrees with the documents: job:running *)
(* has exactly the running jobs, so RequeueStale finds every abandoned one; *)
(* the due set has every queued job that has attempts left, so that Claim   *)
(* can find it, and no job that is not queued; the other indexes have       *)
(* exactly the stored jobs.                                                 *)
IndexesAgree ==
    /\ \A j \in Jobs :
          /\ running[j] # "absent" <=> jobs[j].state = "running"
          /\ due[j] # "absent" => jobs[j].state \in QueuedStates
          /\ jobs[j].state \in QueuedStates /\ jobs[j].attempt < jobs[j].max_attempts
                => due[j] # "absent"
    /\ uuids = {j \in Jobs : Stored(j)}
    /\ ids = uuids /\ created = uuids

(* The Redis driver implements the same life cycle of a job as the SQL one. *)
Phase(doc) ==
    CASE doc.state = "none"    -> "new"
      [] doc.state = "pending" -> "parked"
      [] doc.state = "running" -> "running"
      [] doc.state = "gone"    -> "gone"
      [] Terminal(doc.state)   -> "done"
      [] OTHER                 -> "waiting"

Life(doc) == [phase |-> Phase(doc), tries |-> doc.attempt, max |-> doc.max_attempts]

Lifecycle == INSTANCE JobLifecycle WITH life <- [j \in Jobs |-> Life(jobs[j])]

ImplementsLifecycle == Lifecycle!Spec

(* Every stored document can be read back by decodeJob, whose errors field  *)
(* is a Go slice: GetByID answers for it, and Claim can hand it out.        *)
DocumentsDecode == \A j \in Jobs : Stored(j) => jobs[j].errors # "object"
=============================================================================
