--------------------------- MODULE DispatchDelays ---------------------------
(* The delays of const.py that the dispatcher of notifications depends on.  *)
EXTENDS Integers

CONSTANTS
    Settle,       \* NOTIFY_SETTLE_DELAY
    PartialRetry, \* NOTIFY_PARTIAL_RETRY_DELAY
    Stage,        \* STATUS_NOTIFY_TIMEOUT
    Attempts,     \* subscription attempts
    MaxOps        \* bound on operations

ASSUME DelaysAssumption ==
    {Settle, PartialRetry, Stage, Attempts, MaxOps} \subseteq Nat \ {0}
=============================================================================
