\* A collection over pods that write on, with lists, requests and streams that
\* fail, hang or break off.
SPECIFICATION FairSpec
CONSTANTS
    a = a
    launcher = launcher
    setup = setup
    operator = operator
    AllNamespaces = AllNamespaces
    Lines <- MCLines
    Significant <- MCSignificant
    Urgent <- MCUrgent
    Prefix <- MCPrefix
    Beginnings <- MCBeginnings
    Pods <- MCPods
    VMSelectors <- MCVMSelectors
    OperatorTargets <- MCOperatorTargets
    Calls <- MCCalls
    Logs <- MCLogs
    MaxLogLen = 2
    TailLines = 2
    MaxErrLinesPerContainer = 1
INVARIANTS
    FindingsAreSound
    NothingLost
    SelectorsAccountedFor
PROPERTIES
    LessAndLessToDo
    CollectionEnds
