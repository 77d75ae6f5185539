SPECIFICATION Spec
CONSTANTS
    Callers = {c1, c2}
    Clients = {k1, k2}
    None = None
    Deadline = 4
    MaxAttempts = 2
    RetryDelay = 2
    ReleaseTimeout = 1
    IdleSeconds = 1
    MayCancel = FALSE
INVARIANT HeldLinkTimed
PROPERTY EveryCallReturns
PROPERTY KeepsLifecycle
