SPECIFICATION Spec
CONSTANTS
    Callers = {c1, c2}
    Clients = {k1, k2, k3}
    None = None
    Deadline = 6
    MaxAttempts = 3
    RetryDelay = 3
    ReleaseTimeout = 2
    IdleSeconds = 2
    MayCancel = FALSE
SYMMETRY Symmetry
INVARIANT OperationOwnsLink
