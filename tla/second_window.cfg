SPECIFICATION Spec
CONSTANTS
    a = a
    b = b
    Frags = {a, b}
    Values = {v, w}
    Blank = w
    Heads <- MCHeads
    MaxStation = 1
    IdleTicks = 3
    ReadTicks = 8
    PauseTicks = 2
    InPlaceRetries = 0
    MaxAsked = 1
    MayChange = FALSE
INVARIANT SecondWindow
