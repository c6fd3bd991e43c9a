----------------------------- MODULE MCJobQueue -----------------------------
(* Small instances of JobQueue for TLC. *)
EXTENDS JobQueue, TLC

CONSTANTS n1, n2, w1, w2, j1, j2

(* One worker on each of two nodes. *)
TwoNodes == w1 :> n1 @@ w2 :> n2
=============================================================================
