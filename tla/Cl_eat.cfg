SPECIFICATION FairSpec
CONSTANTS
    MaxLines = 2
PROPERTIES
    RestIsEaten
CHECK_DEADLOCK FALSE
