SPECIFICATION Spec
CONSTANTS
    Callers = {c1, c2, c3}
    Clients = {k1, k2, k3}
    None = None
    Deadline = 8
    MaxAttempts = 3
    RetryDelay = 3
    ReleaseTimeout = 2
    IdleSeconds = 2
    MayCancel = TRUE
SYMMETRY Symmetry
INVARIANT TypeOK
INVARIANT NoLinkForgotten
INVARIANT HoldBounded
INVARIANT FirstConnectDrained
PROPERTY OnlyIdleSevers
