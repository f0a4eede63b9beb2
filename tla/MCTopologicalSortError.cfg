\* What the error of a refused workflow says.
SPECIFICATION Spec
CONSTANTS
    a = a
    b = b
    c = c
    x = x
    Names <- NamesABCX
    Workflows <- Small
INVARIANTS
    CycleMeansCycle
