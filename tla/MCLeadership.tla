---------------------------- MODULE MCLeadership ----------------------------
(* Small instances of Leadership for TLC. *)
EXTENDS Leadership, TLC

Symmetry == Permutations(Nodes)
=============================================================================
