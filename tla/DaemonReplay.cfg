SPECIFICATION DaemonSpec
CONSTANTS
    Stop = Stop
    None = None
    s1 = s1
    s2 = s2
    e1 = e1
    e2 = e2
    e3 = e3
    Source = {s1, s2}
    Event = {e1, e2, e3}
    Files <- MCTwoFiles
    Alarming = {e1}
    Document <- MCDocument
    BulkQueueSize = 1
    BatchSize = 2
    MaxRetries = 0
    DeadLetterPath = TRUE
    PartialFaults = FALSE
    DiskFaults = FALSE
    QueueSize = 1
    MaxSnapshots = 0
    Settings <- MCOpenSearch
    Times <- MCOneTime
    SourceFaults = FALSE
    JsonFaults = TRUE
PROPERTIES
    SinkFailurePropagates
CHECK_DEADLOCK FALSE
