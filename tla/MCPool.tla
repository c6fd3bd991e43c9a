------------------------------- MODULE MCPool -------------------------------
(* Small instances of Pool for TLC. *)
EXTENDS Pool

(* Capacities double, as the Go runtime's do for small slices. *)
Doubling(c, n) == Min({m \in {Max({c, 1}) * 2^k : k \in 0..n} : m >= n})
=============================================================================
