SPECIFICATION MCSpec
CONSTANTS
    Core = {c}
    Extra = {x}
    Values = {v, w}
    MaxFrames = 2
    Halves = {a, b}
    Settle = 2
    PartialRetry = 3
    Stage = 3
    Attempts = 3
    MaxOps = 4
    Callers = {c1, c2}
    Factory = Factory
    Nobody = Nobody
    ProgramCount = 2
    ChunkCount = 2
    MaxAttempts = 2
    MaxChanges = 1
SYMMETRY Symmetry
INVARIANT TypeOK
INVARIANT RenameTypeOK
INVARIANT RenameSecondOnFirst
INVARIANT RoutingTypeOK
INVARIANT StragglersStayOut
INVARIANT NoFrameMissed
INVARIANT SubscribedOnce
INVARIANT StoreTypeOK
INVARIANT ReadTrue
INVARIANT SetVerified
INVARIANT MixtureNoticed
PROPERTY KeepsPromise
PROPERTY RenameKeepsPromise
