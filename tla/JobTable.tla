------------------------------ MODULE JobTable ------------------------------
(***************************************************************************)
(* One row of the SQL driver's jobs table, and what each statement of      *)
(* driver/sqldriver/driver.go does to a row it matches.  Every statement   *)
(* or transaction of the driver is atomic (a single UPDATE, or a SELECT    *)
(* ... FOR UPDATE followed by an UPDATE in one transaction), so an         *)
(* operation of the driver is one operator here.                           *)
(*                                                                         *)
(* Times are abstracted to what the statements compare them with:          *)
(* scheduled_at is "future" or "due", attempted_at is "null", "fresh" or   *)
(* "stale" (older than the supervisor's RequeueTimeout), finalized_at is   *)
(* "null" or "set".  started_at follows attempted_at and is read only when *)
(* attempted_at is NULL, which no running row has; it is left out with the *)
(* payload, tags, metadata and output columns.                             *)
(***************************************************************************)
EXTENDS JobStates, Sequences, FiniteSets

CONSTANTS
    Nodes,              \* node identities, the values of node_id
    NoNode,             \* node_id IS NULL
    MaxAttemptsChoices, \* what ShouldRetry.MaxAttempts or the config may say
    Priorities          \* what the Priority dispatch option may say

ASSUME TableAssumption ==
    /\ NoNode \notin Nodes
    /\ MaxAttemptsChoices \subseteq Int
    /\ Priorities \subseteq Int

(* "none": never inserted; "gone": deleted by Prune (ids are never reused). *)
RowStates == States \cup {"none", "gone"}

Row == [state        : RowStates,
        attempt      : Nat,
        max_attempts : Int,
        node_id      : Nodes \cup {NoNode},
        scheduled_at : {"future", "due"},
        attempted_at : {"null", "fresh", "stale"},
        finalized_at : {"null", "set"},
        errors       : Seq(Nat),
        priority     : Int]

NoRow == [state |-> "none", attempt |-> 0, max_attempts |-> 0, node_id |-> NoNode,
          scheduled_at |-> "due", attempted_at |-> "null", finalized_at |-> "null",
          errors |-> <<>>, priority |-> 0]

Present(row) == row.state \in States

-----------------------------------------------------------------------------
(* Enqueue.  buildJobRow makes a row scheduled exactly when its scheduled_at *)
(* lies in the future; Chain then overwrites the state of all but the first. *)
JobRow(max, when, priority) ==
    [NoRow EXCEPT !.state        = IF when = "future" THEN "scheduled" ELSE "available",
                  !.max_attempts = max,
                  !.scheduled_at = when,
                  !.priority     = priority]

JobRows == {JobRow(m, t, p) : m \in MaxAttemptsChoices, t \in {"future", "due"}, p \in Priorities}

ChainedRow(row) == [row EXCEPT !.state = "pending"]

-----------------------------------------------------------------------------
(* Claim: the WHERE clause and the SET clause. *)
ClaimStates == {"available", "scheduled", "retryable"}

(* Faulty: the attempt limit is forgotten in the WHERE clause. *)
ClaimableUnlimited(row) == row.state \in ClaimStates /\ row.scheduled_at = "due"

Claimable(row) ==
    /\ row.state \in ClaimStates
    /\ row.scheduled_at = "due"
    /\ row.attempt < row.max_attempts

(* Faulty: the claim is not stamped with attempted_at. *)
ClaimRowUnstamped(row, n) ==
    [row EXCEPT !.state = "running", !.attempt = @ + 1, !.node_id = n]

ClaimRow(row, n) ==
    [row EXCEPT !.state        = "running",
                !.attempt      = @ + 1,
                !.attempted_at = "fresh",
                !.node_id      = n]

(* Faulty: WHERE id = ? alone, without the state. *)
CanSettleAny(row) == Present(row)

(* Complete, Fail and ScheduleRetry look at the state only: neither the     *)
(* node that claimed the row nor the attempt is part of the condition.      *)
CanComplete(row) == row.state = "running"

CompleteRow(row) ==
    [row EXCEPT !.state = "completed", !.finalized_at = "set", !.node_id = NoNode]

CanFail(row) == row.state \in {"running", "retryable"}

FailRow(row) ==
    [row EXCEPT !.state        = "failed",
                !.errors       = Append(@, row.attempt),
                !.finalized_at = "set",
                !.node_id      = NoNode]

CanScheduleRetry(row) == row.state = "running"

(* Faulty: attempted_at survives into the waiting row. *)
ScheduleRetryRowStamped(row) ==
    [row EXCEPT !.state = "retryable", !.errors = Append(@, row.attempt),
                !.scheduled_at = "future", !.node_id = NoNode, !.finalized_at = "null"]

ScheduleRetryRow(row) ==
    [row EXCEPT !.state        = "retryable",
                !.errors       = Append(@, row.attempt),
                !.scheduled_at = "future",
                !.node_id      = NoNode,
                !.attempted_at = "null",
                !.finalized_at = "null"]

-----------------------------------------------------------------------------
(* Retry and Cancel, the operator's interventions. *)
CanRetry(row) == row.state \in {"failed", "completed", "cancelled", "retryable"}

(* Faulty: a retry takes back one attempt instead of all of them. *)
RetryRowOneAttempt(row) ==
    [row EXCEPT !.state = "available", !.scheduled_at = "due", !.node_id = NoNode,
                !.attempt = @ - 1, !.errors = <<>>, !.attempted_at = "null",
                !.finalized_at = "null"]

(* Faulty: the errors of the previous round are kept. *)
RetryRowKeepingErrors(row) ==
    [row EXCEPT !.state = "available", !.scheduled_at = "due", !.node_id = NoNode,
                !.attempt = 0, !.attempted_at = "null", !.finalized_at = "null"]

RetryRow(row) ==
    [row EXCEPT !.state        = "available",
                !.scheduled_at = "due",
                !.node_id      = NoNode,
                !.attempt      = 0,
                !.errors       = <<>>,
                !.attempted_at = "null",
                !.finalized_at = "null"]

(* Faulty: a running job may be cancelled too. *)
CanCancelRunning(row) == row.state \in {"available", "pending", "scheduled", "retryable", "running"}

CanCancel(row) == row.state \in {"available", "pending", "scheduled", "retryable"}

CancelRow(row) ==
    [row EXCEPT !.state = "cancelled", !.finalized_at = "set", !.node_id = NoNode]

-----------------------------------------------------------------------------
(* RequeueStale and Prune, the supervisor's housekeeping. *)
(* Faulty: the cutoff is forgotten, every running row is requeued. *)
StaleAlways(row) == row.state = "running"

Stale(row) == row.state = "running" /\ row.attempted_at = "stale"

(* Faulty: the interrupted attempt is given back. *)
RequeueRowRefunded(row) ==
    [row EXCEPT !.state = "available", !.node_id = NoNode, !.scheduled_at = "due",
                !.attempted_at = "null", !.attempt = @ - 1]

RequeueRow(row) ==
    [row EXCEPT !.state        = "available",
                !.node_id      = NoNode,
                !.scheduled_at = "due",
                !.attempted_at = "null"]

CanPrune(row) == Terminal(row.state)

PrunedRow == [NoRow EXCEPT !.state = "gone"]
=============================================================================
