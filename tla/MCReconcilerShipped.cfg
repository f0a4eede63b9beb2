\* The reconciler main.go builds.
SPECIFICATION FairSpec
CONSTANTS
    MaxEdits = 1
    MaxLag = 1
    MaxFaults = 0
    Wirings <- AsShipped
PROPERTIES
    EveryPolicyScanned
