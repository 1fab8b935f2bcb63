SPECIFICATION FairSpec
CONSTANTS
    MaxLines = 4
INVARIANTS
    TypeOK
    TimesRun
    NothingSkipped
    EnvOfCommand
PROPERTIES
    AllEnd
CHECK_DEADLOCK FALSE
