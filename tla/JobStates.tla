----------------------------- MODULE JobStates -----------------------------
(***************************************************************************)
(* The job states and the pure state machine of package tasker: the set of *)
(* states, which of them are terminal, and the state ComputeNextState      *)
(* gives a job whose handler has returned.                                 *)
(***************************************************************************)
EXTENDS Integers

States == {"pending", "scheduled", "available", "running",
           "retryable", "completed", "failed", "cancelled"}

TerminalStates == {"completed", "failed", "cancelled"}

Terminal(s) == s \in TerminalStates

(* A maximum that is not positive means three attempts, but only here: the *)
(* drivers' claim queries compare the column as it is stored.              *)
DefaultMax == 3

EffectiveMax(max) == IF max <= 0 THEN DefaultMax ELSE max

(* ComputeNextState of a row whose handler returned an error.  "attempt" is *)
(* the claimed row's counter, which Claim has already incremented.          *)
ComputeNextState(attempt, max) ==
    IF attempt + 1 > EffectiveMax(max) THEN "failed" ELSE "retryable"
=============================================================================
