\* Lists of findings below, at and above the cap.
SPECIFICATION Spec
CONSTANTS
    r1 = r1
    r2 = r2
    Refs <- TwoRefs
    Inputs <- SmallInputs
    MaxStatusFindings = 2
INVARIANTS
    SortIsStable
    CapKeepsTheWorst
    DegradedHasEvidence
    CappedFailureShows
