------------------------------ MODULE Scheduler ------------------------------
(***************************************************************************)
(* scheduler/scheduler.go with the cron library it drives.  Each firing of *)
(* an entry is a goroutine that runs dispatchJob; the other operations are *)
(* calls of the application.  All of them take the mutex s.mu; only Stop   *)
(* keeps it over a wait, so "stopping" is who holds it.                    *)
(*                                                                         *)
(* Start makes a new context; contexts are numbered.  A dispatch under a   *)
(* cancelled context fails, any other may fail or not.                     *)
(***************************************************************************)
EXTENDS Naturals

CONSTANTS
    Jobs,         \* ids of scheduled jobs
    BadJobs,      \* those whose schedule cron cannot parse
    Runs,         \* goroutines for firings
    Listeners,
    StopDeadline, \* whether the context given to Stop ends
    MaxStarts     \* how often Start may be called

ASSUME SchedulerAssumption ==
    /\ BadJobs \subseteq Jobs
    /\ StopDeadline \in BOOLEAN
    /\ MaxStarts \in Nat

VARIABLES
    running,
    stopping,    \* Stop holds s.mu and waits
    ctx,         \* s.ctx, 0 before the first Start
    cancelled,   \* the contexts that have been cancelled
    jobs,        \* s.jobs, which s.entryIDs and cron's entries follow
    listeners,
    cronRunning, \* cron fires entries
    runs         \* what each goroutine is doing

vars == <<running, stopping, ctx, cancelled, jobs, listeners, cronRunning, runs>>

(* seen: the listeners there were when the entry fired; due: those the run  *)
(* has still to tell, once it has read the list; told: those it has told.   *)
Run == [pc   : {"idle", "lock", "dispatch", "deliver"},
        ctx  : Nat,
        seen : SUBSET Listeners,
        due  : SUBSET Listeners,
        told : SUBSET Listeners]

NoRun == [pc |-> "idle", ctx |-> 0, seen |-> {}, due |-> {}, told |-> {}]

TypeOK ==
    /\ running \in BOOLEAN /\ stopping \in BOOLEAN /\ cronRunning \in BOOLEAN
    /\ ctx \in Nat
    /\ cancelled \subseteq Nat
    /\ jobs \subseteq Jobs
    /\ listeners \subseteq Listeners
    /\ runs \in [Runs -> Run]

Init ==
    /\ running = FALSE /\ stopping = FALSE /\ cronRunning = FALSE
    /\ ctx = 0
    /\ cancelled = {}
    /\ jobs = {}
    /\ listeners = {}
    /\ runs = [r \in Runs |-> NoRun]

Unlocked == ~stopping

InFlight == {r \in Runs : runs[r].pc # "idle"}

-----------------------------------------------------------------------------
Observe(l) ==
    /\ Unlocked
    /\ listeners' = listeners \cup {l}
    /\ UNCHANGED <<running, stopping, ctx, cancelled, jobs, cronRunning, runs>>

(* A job whose schedule does not parse is taken out again. *)
Register(j) ==
    /\ Unlocked
    /\ j \notin jobs
    /\ jobs' = IF j \in BadJobs THEN jobs ELSE jobs \cup {j}
    /\ UNCHANGED <<running, stopping, ctx, cancelled, listeners, cronRunning, runs>>

Remove(j) ==
    /\ Unlocked
    /\ jobs' = jobs \ {j}
    /\ UNCHANGED <<running, stopping, ctx, cancelled, listeners, cronRunning, runs>>

Start ==
    /\ Unlocked
    /\ ~running
    /\ ctx < MaxStarts
    /\ ctx' = ctx + 1
    /\ running' = TRUE
    /\ cronRunning' = TRUE
    /\ UNCHANGED <<stopping, cancelled, jobs, listeners, runs>>

(* Faulty: the context outlives the scheduler. *)
StopWithoutCancel ==
    /\ Unlocked
    /\ running
    /\ running' = FALSE
    /\ cronRunning' = FALSE
    /\ stopping' = TRUE
    /\ UNCHANGED <<ctx, cancelled, jobs, listeners, runs>>

(* Stop, up to its select. *)
Stop ==
    /\ Unlocked
    /\ running
    /\ running' = FALSE
    /\ cancelled' = cancelled \cup {ctx}
    /\ cronRunning' = FALSE
    /\ stopping' = TRUE
    /\ UNCHANGED <<ctx, jobs, listeners, runs>>

(* case <-stopped.Done(): cron's running jobs have ended. *)
Stopped ==
    /\ stopping
    /\ InFlight = {}
    /\ stopping' = FALSE
    /\ UNCHANGED <<running, ctx, cancelled, jobs, listeners, cronRunning, runs>>

(* Faulty: the end of the caller's context is not looked at while a run is  *)
(* in flight.                                                               *)
StopGivesUpLate ==
    /\ stopping /\ StopDeadline
    /\ InFlight = {}
    /\ stopping' = FALSE
    /\ UNCHANGED <<running, ctx, cancelled, jobs, listeners, cronRunning, runs>>

(* case <-ctx.Done(): the context given to Stop has ended. *)
StopGivesUp ==
    /\ stopping /\ StopDeadline
    /\ stopping' = FALSE
    /\ UNCHANGED <<running, ctx, cancelled, jobs, listeners, cronRunning, runs>>

-----------------------------------------------------------------------------
(* cron starts a goroutine for an entry that is due. *)
Fire(r) ==
    /\ cronRunning
    /\ jobs # {}
    /\ runs[r].pc = "idle"
    /\ runs' = [runs EXCEPT ![r] = [NoRun EXCEPT !.pc = "lock", !.seen = listeners]]
    /\ UNCHANGED <<running, stopping, ctx, cancelled, jobs, listeners, cronRunning>>

(* dispatchJob reads s.ctx and s.listeners under the mutex. *)
Lock(r) ==
    /\ runs[r].pc = "lock"
    /\ Unlocked
    /\ runs' = [runs EXCEPT ![r].pc = "dispatch", ![r].ctx = ctx, ![r].due = listeners]
    /\ UNCHANGED <<running, stopping, ctx, cancelled, jobs, listeners, cronRunning>>

(* Manager.Dispatch under the context the run has read. *)
Enqueue(r) ==
    /\ runs[r].pc = "dispatch"
    /\ runs[r].ctx \notin cancelled
    /\ runs' = [runs EXCEPT ![r].pc = "deliver"]
    /\ UNCHANGED <<running, stopping, ctx, cancelled, jobs, listeners, cronRunning>>

(* Faulty: a run that failed to enqueue is not reported. *)
DispatchFailsSilently(r) ==
    /\ runs[r].pc = "dispatch"
    /\ runs' = [runs EXCEPT ![r] = NoRun]
    /\ UNCHANGED <<running, stopping, ctx, cancelled, jobs, listeners, cronRunning>>

DispatchFails(r) ==
    /\ runs[r].pc = "dispatch"
    /\ runs' = [runs EXCEPT ![r].pc = "deliver"]
    /\ UNCHANGED <<running, stopping, ctx, cancelled, jobs, listeners, cronRunning>>

(* deliver: the listener returns or panics, which is contained. *)
Deliver(r, l) ==
    /\ runs[r].pc = "deliver"
    /\ l \in runs[r].due
    /\ runs' = [runs EXCEPT ![r].due = @ \ {l}, ![r].told = @ \cup {l}]
    /\ UNCHANGED <<running, stopping, ctx, cancelled, jobs, listeners, cronRunning>>

End(r) ==
    /\ runs[r].pc = "deliver"
    /\ runs[r].due = {}
    /\ runs' = [runs EXCEPT ![r] = NoRun]
    /\ UNCHANGED <<running, stopping, ctx, cancelled, jobs, listeners, cronRunning>>

RunStep(r) ==
    \/ Lock(r) \/ Enqueue(r) \/ DispatchFails(r) \/ End(r)
    \/ \E l \in Listeners : Deliver(r, l)

Next ==
    \/ \E l \in Listeners : Observe(l)
    \/ \E j \in Jobs : Register(j) \/ Remove(j)
    \/ Start \/ Stop \/ Stopped \/ StopGivesUp
    \/ \E r \in Runs : Fire(r) \/ RunStep(r)

Spec == Init /\ [][Next]_vars

(* A goroutine that can go on does, and Stop returns when it may. *)
FairSpec ==
    /\ Spec
    /\ \A r \in Runs : WF_vars(RunStep(r))
    /\ WF_vars(Stopped)
    /\ WF_vars(StopGivesUp)

-----------------------------------------------------------------------------
(* A run that got away from Stop, because Stop gave up waiting for it or    *)
(* because the scheduler was started again, enqueues nothing unless the     *)
(* scheduler is running: its context has been cancelled.                    *)
EnqueuesWhileRunning == [][\A r \in Runs : Enqueue(r) => running]_vars

(* Why: of the contexts Start has made only the current one is alive, and    *)
(* only while the scheduler runs, and a run never works with any other kind. *)
ContextsCancelled ==
    /\ TypeOK
    /\ cronRunning => ctx # 0
    /\ \A c \in 1..ctx : c \notin cancelled => c = ctx /\ running
    /\ \A r \in Runs : runs[r].pc = "lock" => ctx # 0
    /\ \A r \in Runs : runs[r].pc = "dispatch" => runs[r].ctx \in 1..ctx

(* "Listener is told about every scheduled run, after it has been           *)
(* dispatched or failed to be": when a run ends, every listener there was   *)
(* when its entry fired has been told.                                      *)
EveryRunTold ==
    [][\A r \in Runs : runs[r].pc # "idle" /\ runs'[r].pc = "idle"
                          => runs[r].seen \subseteq runs[r].told]_vars

(* A firing always comes to its end, whatever Stop does meanwhile. *)
RunsEnd == \A r \in Runs : runs[r].pc # "idle" ~> runs[r].pc = "idle"

(* Stop returns. *)
StopReturns == stopping ~> ~stopping
=============================================================================
