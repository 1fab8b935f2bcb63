SPECIFICATION FairSpec
CONSTANTS
    Pipes = {k1, k2}
    NoPipe = NoPipe
    MaxFd = 7
    MaxProcs = 4
INVARIANTS
    CommandsWired
    HelloArrives
    Conversation
    OwnStatus
    ChildrenReaped
PROPERTIES
    AllEnd
CHECK_DEADLOCK FALSE
