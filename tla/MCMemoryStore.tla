----------------------------- MODULE MCMemoryStore -----------------------------
(* MemoryStore for TLC: callers and handles are interchangeable. *)
EXTENDS MemoryStore, TLC

Symmetry == Permutations(Callers) \cup Permutations(Handles)
===============================================================================
