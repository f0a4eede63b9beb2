\* "Errors lists any pods where log collection itself failed."
SPECIFICATION Spec
CONSTANTS
    a = a
    launcher = launcher
    setup = setup
    operator = operator
    AllNamespaces = AllNamespaces
    Lines <- MCLines
    Significant <- MCSignificant
    Urgent <- MCUrgent
    Prefix <- MCPrefix
    Beginnings <- MCBeginnings
    Pods <- MCPods
    VMSelectors <- MCVMSelectors
    OperatorTargets <- MCOperatorTargets
    Calls <- MCCalls
    Logs <- MCLogs
    MaxLogLen = 2
    TailLines = 2
    MaxErrLinesPerContainer = 1
PROPERTIES
    ErrorsListsFailures
