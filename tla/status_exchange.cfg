SPECIFICATION Spec
CONSTANTS
    Low = {1}
    High = {3, 4}
    Times = {t1, t2}
    Overlaid = {4}
    MaxAttempts = 2
    MaxChanges = 1
    MaxAir = 2
SYMMETRY SomeTimes
INVARIANT TypeOK
INVARIANT TimeVerdictTrue
INVARIANT StatusCoherent
INVARIANT CommandDone
