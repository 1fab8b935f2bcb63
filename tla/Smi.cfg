SPECIFICATION FairSpec
CONSTANTS
    Pids = {p1, p2}
    NoPid = NoPid
    MaxClients = 1
    FifoCapacity = 2
    MaxRuns = 2
    MaxSends = 2
INVARIANTS
    TypeOK
    ReplyHasSlot
    AnsweredInOrder
PROPERTIES
    SlotsKept
    ImplementsExchange
    ClientsEnd
CHECK_DEADLOCK FALSE
