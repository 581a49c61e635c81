SPECIFICATION MCSpec
CONSTANTS
    Stop = Stop
    MaxDocuments = 4
    Document <- MCDocument
    BulkQueueSize = 2
    BatchSize = 2
    MaxRetries = 1
    DeadLetterPath = TRUE
    PartialFaults = TRUE
    DiskFaults = TRUE
INVARIANTS
    SinkTypeOK
    CountedIsStored
    FailedIsKept
    CloseFlushes
    GivenUpAfterRetries
PROPERTIES
    ImplementsDelivery
    CloseEnds
CHECK_DEADLOCK FALSE
