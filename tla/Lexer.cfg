SPECIFICATION Spec
CONSTANTS
    Alphabet = {"|", ">", "blank", "newline", "quote", "backslash", "a"}
    MaxWord = 3
    MaxInput = 6
INVARIANTS
    TypeOK
    MatchesReference
CHECK_DEADLOCK FALSE
