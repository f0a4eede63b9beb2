\* "maxLogLinesPerContainer kept in the report", however often a pod is visited.
SPECIFICATION Spec
CONSTANTS
    a = a
    launcher = launcher
    setup = setup
    operator = operator
    AllNamespaces = AllNamespaces
    Lines <- MCLines
    Significant <- MCSignificant
    Urgent <- MCUrgent
    Prefix <- MCPrefix
    Beginnings <- MCBeginnings
    Pods <- MCPods
    VMSelectors <- MCVMSelectors
    OperatorTargets <- MCOperatorTargets
    Calls <- MCCalls
    Logs <- MCLogs
    MaxLogLen = 2
    TailLines = 2
    MaxErrLinesPerContainer = 1
INVARIANTS
    LimitPerContainer
