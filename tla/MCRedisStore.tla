------------------------------ MODULE MCRedisStore ------------------------------
(* RedisStore for TLC: callers and handles are interchangeable. *)
EXTENDS RedisStore, TLC

Symmetry == Permutations(Callers) \cup Permutations(Handles)
===============================================================================
