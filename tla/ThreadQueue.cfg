SPECIFICATION FairSpec
CONSTANTS
    Items = 4
    NoNode = NoNode
CHECK_DEADLOCK FALSE
INVARIANTS
    TypeOK
    MutualExclusion
    NoNullTake
    Conservation
    NoLostWakeup
PROPERTIES
    ImplementsHandoff
    JoinReturns
