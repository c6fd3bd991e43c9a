------------------------------ MODULE Retries ------------------------------
(***************************************************************************)
(* One job from its first claim to its end: the retry decision of          *)
(* processJob, which settles it takes, when the next attempt is due, and   *)
(* the backoff arithmetic of state_machine.go with the width of Go's       *)
(* integers as a parameter.                                                *)
(*                                                                         *)
(* The job is claimed by one worker after the other; what several workers  *)
(* that hold the same job do to each other is in JobQueue, and so are the  *)
(* operator's Retry and Cancel.                                            *)
(***************************************************************************)
EXTENDS JobStates

CONSTANTS
    MaxInt,             \* the largest time.Duration and int
    MaxAttemptsChoices, \* what max_attempts may be
    Strategies,         \* of a RetryBackoff; an unknown one is exponential
    Bases, MaxDelays,   \* of a RetryBackoff
    DefaultBase, DefaultMaxDelay, \* of DefaultBackoff
    Untils,             \* what RetryUntil may say
    Never,              \* the job has no RetryUntil
    MaxHook,            \* how long the BeforeRetry hook and the settle take
    MaxNow              \* how long the model runs

(* The powers of two. *)
Pow2[k \in Nat] == IF k = 0 THEN 1 ELSE 2 * Pow2[k - 1]

ASSUME RetriesAssumption ==
    /\ MaxInt \in Nat /\ \E w \in 0..MaxInt : MaxInt + 1 = Pow2[w]
    /\ MaxAttemptsChoices \subseteq Int
    /\ {DefaultBase, DefaultMaxDelay} \subseteq 0..MaxInt
    /\ Bases \subseteq 0..MaxInt /\ MaxDelays \subseteq 0..MaxInt
    /\ Untils \subseteq Nat /\ Never \notin Untils
    /\ MaxHook \in Nat /\ MaxNow \in Nat

VARIABLES
    job,    \* the row: state, attempt, scheduled_at, and what never changes
    worker, \* the worker that holds it
    now,    \* the clock
    vetoed  \* the job is failed because it did not decode or BeforeRetry said so

vars == <<job, worker, now, vetoed>>

-----------------------------------------------------------------------------
(* Two's complement: what does not fit wraps around. *)
Wrap(x) == ((x + MaxInt + 1) % (2 * (MaxInt + 1))) - (MaxInt + 1)

(* 1 << k, which is zero when k is the width or more. *)
Shl(k) == Wrap(Pow2[k])

Fib[i \in Nat] ==
    IF i <= 1 THEN [a |-> 0, b |-> 1]
    ELSE [a |-> Fib[i - 1].b, b |-> Wrap(Fib[i - 1].a + Fib[i - 1].b)]

fibonacci(n) == IF n <= 1 THEN n ELSE Fib[n].b

(* Faulty: no cap. *)
CapNothing(delay, cfg) == delay

Cap(delay, cfg) == IF delay > cfg.max_delay THEN cfg.max_delay ELSE delay

(* Faulty: one doubling too many. *)
BackoffShifted(cfg, n) ==
    Cap(CASE cfg.strategy = "fibonacci" -> Wrap(fibonacci(n) * cfg.base)
          [] cfg.strategy = "fixed"     -> cfg.base
          [] OTHER                      -> Wrap(cfg.base * Shl(n)), cfg)

computeBackoffWithConfig(cfg, n) ==
    Cap(CASE cfg.strategy = "fibonacci" -> Wrap(fibonacci(n) * cfg.base)
          [] cfg.strategy = "fixed"     -> cfg.base
          [] OTHER                      -> Wrap(cfg.base * Shl(n - 1)), cfg)

DefaultBackoff ==
    [strategy |-> "exponential", base |-> DefaultBase, max_delay |-> DefaultMaxDelay]

BackoffConfig == [strategy : Strategies, base : Bases, max_delay : MaxDelays]

-----------------------------------------------------------------------------
Idle == [pc |-> "idle", result |-> "none", backoff |-> 0, decided |-> 0]

(* A job that does not implement ShouldRetryWithBackoff has DefaultBackoff. *)
Init ==
    /\ \E max \in MaxAttemptsChoices, cfg \in BackoffConfig \cup {DefaultBackoff},
          until \in Untils \cup {Never} :
          job = [state |-> "available", attempt |-> 0, scheduled_at |-> 0,
                 max_attempts |-> max, cfg |-> cfg, until |-> until]
    /\ worker = Idle
    /\ now = 0
    /\ vetoed = FALSE

Claim ==
    /\ worker.pc = "idle"
    /\ job.state \in {"available", "retryable"}
    /\ job.scheduled_at <= now
    /\ job.attempt < job.max_attempts
    /\ job' = [job EXCEPT !.state = "running", !.attempt = @ + 1]
    /\ worker' = [Idle EXCEPT !.pc = "exec"]
    /\ UNCHANGED <<now, vetoed>>

(* The payload does not decode. *)
Undecodable ==
    /\ worker.pc = "exec"
    /\ worker' = [worker EXCEPT !.pc = "settle", !.result = "failed", !.decided = now]
    /\ vetoed' = TRUE
    /\ UNCHANGED <<job, now>>

HandlerSucceeds ==
    /\ worker.pc = "exec"
    /\ worker' = [worker EXCEPT !.pc = "settle", !.result = "completed", !.decided = now]
    /\ UNCHANGED <<job, now, vetoed>>

(* Faulty: the delay is forgotten in the comparison. *)
TooLateUndelayed(backoff) == job.until # Never /\ ~(now < job.until)

TooLate(backoff) == job.until # Never /\ ~(now + backoff < job.until)

(* Faulty: the attempt that Claim has counted is counted once more. *)
MayRetryLess == job.attempt + 1 < EffectiveMax(job.max_attempts)

(* Faulty: the attempt that failed is not counted. *)
MayRetryMore == job.attempt <= EffectiveMax(job.max_attempts)

MayRetry == ComputeNextState(job.attempt, job.max_attempts) = "retryable"

(* A hook, a handler or a middleware returned an error or panicked. *)
HandlerFails ==
    /\ worker.pc = "exec"
    /\ LET backoff == computeBackoffWithConfig(job.cfg, job.attempt + 1) IN
          worker' = IF MayRetry /\ ~TooLate(backoff)
                    THEN [pc |-> "hook", result |-> "retryable", backoff |-> backoff, decided |-> now]
                    ELSE [pc |-> "settle", result |-> "failed", backoff |-> 0, decided |-> now]
    /\ UNCHANGED <<job, now, vetoed>>

(* BeforeRetry, if the job has one. *)
BeforeRetry ==
    /\ worker.pc = "hook"
    /\ \/ worker' = [worker EXCEPT !.pc = "settle"] /\ UNCHANGED vetoed
       \/ worker' = [worker EXCEPT !.pc = "settle", !.result = "failed", !.backoff = 0] /\ vetoed' = TRUE
    /\ UNCHANGED <<job, now>>

(* execute reads the clock again to schedule the retry. *)
Settle ==
    /\ worker.pc = "settle"
    /\ job' = [job EXCEPT !.state = worker.result,
                          !.scheduled_at = IF worker.result = "retryable" THEN now + worker.backoff ELSE @]
    /\ worker' = [worker EXCEPT !.pc = "idle"]
    /\ UNCHANGED <<now, vetoed>>

(* The worker dies, or its settle fails; in the end RequeueStale makes the  *)
(* job available at once, without a backoff.                                *)
RequeueStale ==
    /\ job.state = "running"
    /\ job' = [job EXCEPT !.state = "available", !.scheduled_at = now]
    /\ worker' = Idle
    /\ vetoed' = FALSE
    /\ UNCHANGED now

Tick ==
    /\ now < MaxNow
    /\ worker.pc \in {"hook", "settle"} => now < worker.decided + MaxHook
    /\ now' = now + 1
    /\ UNCHANGED <<job, worker, vetoed>>

Next ==
    \/ Claim \/ Undecodable \/ HandlerSucceeds \/ HandlerFails \/ BeforeRetry \/ Settle
    \/ RequeueStale \/ Tick

Spec == Init /\ [][Next]_vars

-----------------------------------------------------------------------------
(* ComputeNextState, which counts the next attempt, agrees with the claim   *)
(* query, which compares the attempts made: no job is left to be retried    *)
(* that cannot be claimed any more, and none is failed for its attempts     *)
(* before it has made all of them.                                          *)
AttemptsAgree ==
    /\ job.state = "retryable" => job.attempt < job.max_attempts
    /\ job.state = "failed" /\ job.until = Never /\ ~vetoed => job.attempt = job.max_attempts

(* The delay that a strategy stands for, in unbounded arithmetic. *)
IdealFib[i \in Nat] == IF i <= 1 THEN i ELSE IdealFib[i - 1] + IdealFib[i - 2]

Ideal(cfg, n) ==
    CASE cfg.strategy = "fibonacci" -> cfg.base * IdealFib[n]
      [] cfg.strategy = "fixed"     -> cfg.base
      [] OTHER                      -> cfg.base * Pow2[n - 1]

(* The wait before a retry is the delay the strategy stands for, or the     *)
(* maximum if that is less, as long as the delay fits the integers; beyond  *)
(* that it is any number up to the maximum, zero and negative ones          *)
(* included: the product is compared with the maximum after it has wrapped. *)
Spaced ==
    job.state = "retryable" =>
        LET ideal == Ideal(job.cfg, job.attempt + 1) IN
            /\ worker.backoff <= job.cfg.max_delay
            /\ ideal <= MaxInt => worker.backoff = IF ideal > job.cfg.max_delay THEN job.cfg.max_delay ELSE ideal

(* A retry is not due at RetryUntil or later, except by the time that the   *)
(* BeforeRetry hook and the settle took after processJob's look at the      *)
(* clock: execute counts the backoff from a later reading.                  *)
UntilKept ==
    job.state = "retryable" /\ job.until # Never => job.scheduled_at < job.until + MaxHook
=============================================================================
