SPECIFICATION Spec
CONSTANTS
    a = a
    b = b
    Frags = {a, b}
    Values = {v, w}
    Blank = w
    Heads <- MCHeads
    MaxStation = 1
    IdleTicks = 2
    ReadTicks = 6
    PauseTicks = 2
    InPlaceRetries = 1
    MaxAsked = 3
    MayChange = TRUE
INVARIANT TypeOK
INVARIANT NamesComplete
INVARIANT SilenceIsPatient
PROPERTY EveryReadEnds
PROPERTY WidthTrue
