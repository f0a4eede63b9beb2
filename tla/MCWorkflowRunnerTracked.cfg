\* A step added to a workflow that has started.
SPECIFICATION EditedSpec
CONSTANTS
    a = a
    b = b
    c = c
    Names <- NamesABC
    Workflows <- Edited
    MaxLosses = 0
    MaxEdits = 1
    MaxRuns = 2
INVARIANTS
    ExecutedIsTracked
