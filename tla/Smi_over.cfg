SPECIFICATION Spec
CONSTANTS
    Pids = {p1, p2}
    NoPid = NoPid
    MaxClients = 1
    FifoCapacity = 1
    MaxRuns = 1
    MaxSends = 1
INVARIANTS
    OverCapacityBlocks
CHECK_DEADLOCK FALSE
