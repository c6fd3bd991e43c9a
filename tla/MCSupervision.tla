---------------------------- MODULE MCSupervision ----------------------------
(* Small instances of Supervision for TLC. *)
EXTENDS Supervision, TLC

CONSTANTS q1, q2

One == q1 :> 1 @@ q2 :> 1

OneOrTwo == q1 :> 2 @@ q2 :> 1

Jobs == q1 :> {0, 6} @@ q2 :> {0}
=============================================================================
