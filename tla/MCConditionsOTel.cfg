\* The Provider in use is on record with some policy.
SPECIFICATION Spec
CONSTANTS
    p = p
    q = q
    e = e
    f = f
    NoConfig = NoConfig
    Policies = {p, q}
    Endpoints = {e, f}
    MaxCycles = 2
    MaxEdits = 1
INVARIANTS
    OTelOnRecord
CHECK_DEADLOCK FALSE
