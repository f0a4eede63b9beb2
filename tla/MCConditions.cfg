\* Two policies, with stale copies, writes that fail, users and restarts.
SPECIFICATION Spec
CONSTANTS
    p = p
    q = q
    e = e
    f = f
    NoConfig = NoConfig
    Policies = {p, q}
    Endpoints = {e, f}
    MaxCycles = 3
    MaxEdits = 1
SYMMETRY Symmetry
INVARIANTS
    StatusIsOneCycle
    CacheHasPhantomsOnly
PROPERTIES
    ConditionsNeverGoBack
CHECK_DEADLOCK FALSE
