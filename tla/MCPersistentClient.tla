------------------------- MODULE MCPersistentClient -------------------------
(* PersistentClient for TLC: callers and clients are interchangeable.       *)
EXTENDS PersistentClient, TLC

Symmetry == Permutations(Callers) \cup Permutations(Clients)
=============================================================================
