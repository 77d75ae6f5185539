----------------------------- MODULE CallBounds -----------------------------
(* How often the executor repeats an operation, and how much may change on  *)
(* the controller meanwhile.                                                *)
EXTENDS Integers

CONSTANTS
    MaxAttempts,   \* REQUEST_MAX_ATTEMPTS
    MaxChanges     \* bound on changes of the controller that others make

ASSUME AttemptsAssumption == MaxAttempts \in Nat \ {0}
ASSUME ChangesAssumption  == MaxChanges \in Nat
=============================================================================
