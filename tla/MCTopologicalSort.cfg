\* Every small workflow, good or bad.
SPECIFICATION FairSpec
CONSTANTS
    a = a
    b = b
    c = c
    x = x
    Names <- NamesABCX
    Workflows <- SmallWorkflows
INVARIANTS
    SortedIsSound
    RefusalIsJustified
PROPERTIES
    LessAndLessToDo
    SortEnds
