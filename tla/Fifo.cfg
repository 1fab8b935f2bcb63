SPECIFICATION FairSpec
CONSTANTS
    Clients = {c1, c2}
    Words = 3
    FifoCapacity = 2
INVARIANTS
    TypeOK
    ServerStays
    WordsInOrder
PROPERTIES
    WordsArrive
CHECK_DEADLOCK FALSE
