\* What a cycle found is in the status only if its status was stored.
SPECIFICATION Spec
CONSTANTS
    p = p
    q = q
    e = e
    f = f
    NoConfig = NoConfig
    Policies = {p, q}
    Endpoints = {e, f}
    MaxCycles = 3
    MaxEdits = 1
INVARIANTS
    OnlyFinishedCyclesSpeak
CHECK_DEADLOCK FALSE
