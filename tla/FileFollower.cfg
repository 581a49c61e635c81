SPECIFICATION MCSpec
CONSTANTS
    None = None
    FromBeginning = FALSE
    TornWrites = TRUE
    MaxLines = 3
    MaxFiles = 2
    MaxRestarts = 1
    MaxTruncations = 1
INVARIANTS
    FollowerTypeOK
    OnceInOrder
PROPERTIES
    ReadsEverything
CHECK_DEADLOCK FALSE
