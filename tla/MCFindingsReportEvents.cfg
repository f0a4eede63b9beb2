\* The events of a cycle, as the production guide counts them.
SPECIFICATION Spec
CONSTANTS
    r1 = r1
    r2 = r2
    Refs <- TwoRefs
    Inputs <- SmallInputs
    MaxStatusFindings = 2
INVARIANTS
    EventsBounded
