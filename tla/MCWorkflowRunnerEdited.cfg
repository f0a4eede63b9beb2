\* Users change the workflow between Runs.
SPECIFICATION EditedSpec
CONSTANTS
    a = a
    b = b
    c = c
    Names <- NamesABC
    Workflows <- Edited
    MaxLosses = 1
    MaxEdits = 2
    MaxRuns = 3
PROPERTIES
    SettledStays
