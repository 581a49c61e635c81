SPECIFICATION MCSpec
CONSTANTS
    None = None
    FromBeginning = TRUE
    TornWrites = FALSE
    MaxLines = 2
    MaxFiles = 2
    MaxRestarts = 0
    MaxTruncations = 0
PROPERTIES
    EndsOnCurrentFile
CHECK_DEADLOCK FALSE
