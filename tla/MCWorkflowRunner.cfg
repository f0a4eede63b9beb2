\* Workflows that are not changed while they run.
SPECIFICATION FairSpec
CONSTANTS
    a = a
    b = b
    c = c
    Names <- NamesABC
    Workflows <- AllWorkflows
    MaxLosses = 1
    MaxEdits = 0
    MaxRuns = 3
INVARIANTS
    StatusIsCoherent
    VerdictJustified
    ReexecutionOnlyAfterLoss
    RunsGoAllTheWay
PROPERTIES
    ImplementsContract
    WorkflowEnds
