\* Safety of the reconciler against a lagging cache, conflicts and crashes.
CHECK_DEADLOCK FALSE
SPECIFICATION Spec
CONSTANTS
    MaxEdits = 5
    MaxLag = 2
    MaxFaults = 2
    Wirings <- Either
INVARIANTS
    FinalizerHeldDuringScan
    QuietAfterPause
    StatusSpeaksOfItsGeneration
    NeverForgotten
PROPERTIES
    ObservedNeverGoesBack
    ImplementsContract
