SPECIFICATION Spec
CONSTANTS
    Low = {1}
    High = {3, 4}
    Times = {t1, t2}
    Overlaid = {4}
    MaxAttempts = 1
    MaxChanges = 0
    MaxAir = 2
INVARIANT TimeIsDeferred
