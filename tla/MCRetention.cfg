\* Rotations over failures, a lagging cache and copies of the same second.
CHECK_DEADLOCK FALSE
SPECIFICATION Spec
CONSTANTS
    MaxCopies = 2
    MaxCreated = 6
    MaxLag = 1
    MaxFaults = 2
    Gaps = {0, 1}
INVARIANTS
    GoneMadeRoom
    CopiesBounded
    LastCopiesKept
