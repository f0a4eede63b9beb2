\* Liveness of a reconciler that was given its Provider.
CHECK_DEADLOCK FALSE
SPECIFICATION FairSpec
CONSTANTS
    MaxEdits = 4
    MaxLag = 2
    MaxFaults = 1
    Wirings <- Corrected
PROPERTIES
    DeletionReleased
    EveryPolicyScanned
    PauseAcknowledged
