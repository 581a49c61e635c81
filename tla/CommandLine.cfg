SPECIFICATION MCSpec
CONSTANTS
    Document <- MCDocument
    MaxLines = 2
    MaxOptions = 3
    MaxVariables = 3
INVARIANTS
    OptionsHonoured
    OutputKept
    ValidateExact
    SchemaAgrees
CHECK_DEADLOCK FALSE
