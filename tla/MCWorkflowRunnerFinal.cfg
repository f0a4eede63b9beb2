\* A verdict, and a workflow that is changed after it.
SPECIFICATION EditedSpec
CONSTANTS
    a = a
    b = b
    c = c
    Names <- NamesABC
    Workflows <- Edited
    MaxLosses = 0
    MaxEdits = 1
    MaxRuns = 2
PROPERTIES
    VerdictIsFinal
