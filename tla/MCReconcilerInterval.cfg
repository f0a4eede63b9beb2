\* One policy that nobody changes, and nothing that fails.
SPECIFICATION Spec
CONSTANTS
    MaxEdits = 1
    MaxLag = 1
    MaxFaults = 0
    Wirings <- Corrected
PROPERTIES
    CyclesAreTimed
CHECK_DEADLOCK FALSE
