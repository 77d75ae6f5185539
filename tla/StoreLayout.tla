----------------------------- MODULE StoreLayout -----------------------------
(* Who calls a client, and how the programs of a controller are numbered.   *)
EXTENDS Integers

CONSTANTS
    Callers,       \* calls made on the client
    Factory,       \* what the chunks hold at first
    Nobody,        \* no caller
    ProgramCount,  \* IRRIGATION_PROGRAM_COUNT
    ChunkCount     \* IRRIGATION_LOGICAL_CHUNKS

ASSUME StoreAssumption ==
    /\ ProgramCount \in Nat /\ ChunkCount \in Nat \ {0}
    /\ Factory \notin Callers /\ Nobody \notin Callers
=============================================================================
