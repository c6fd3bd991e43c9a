---------------------------- MODULE MCRedisStore ----------------------------
(* Small instances of RedisStore for TLC. *)
EXTENDS RedisStore, TLC

JobSymmetry == Permutations(Jobs)
=============================================================================
