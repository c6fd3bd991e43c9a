----------------------------- MODULE MCRetries -----------------------------
(* Small instances of Retries for TLC. *)
EXTENDS Retries
=============================================================================
