\* A chain of OnFailure steps in which nothing fails.
SPECIFICATION Spec
CONSTANTS
    a = a
    b = b
    c = c
    Names <- NamesABC
    Workflows <- Cascade
    MaxLosses = 0
    MaxEdits = 0
    MaxRuns = 2
INVARIANTS
    OnFailureOnlyAfterFailure
