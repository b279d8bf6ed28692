------------------------ MODULE MCPendingTransactions -------------------------
(* PendingTransactions for TLC: requests and handles are interchangeable. *)
EXTENDS PendingTransactions, TLC

Symmetry == Permutations(Requests) \cup Permutations(Handles)
===============================================================================
