SPECIFICATION Spec
CONSTANTS
    Callers = {c1, c2}
    None = None
    Deadline = 3
    MaxAttempts = 2
    RetryDelay = 2
    CloseTimeout = 1
    MayCancel = TRUE
INVARIANT TypeOK
INVARIANT OwnLinkIsActive
INVARIANT NoLinkOutlivesAttempt
INVARIANT CallBounded
PROPERTY DropIsOwn
PROPERTY EveryOperationReturns
