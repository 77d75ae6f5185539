SPECIFICATION Spec
CONSTANTS
    Frags = {a, b}
    Values = {v, w}
INVARIANT FailureUncertain
