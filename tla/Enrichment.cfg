SPECIFICATION MCSpec
CONSTANTS
    n1 = n1
    n2 = n2
    n3 = n3
    Endpoint <- MCEndpoint
    SuricataAlert <- MCSuricataAlert
    EndpointAuthEvent <- MCEndpointAuthEvent
    Candidate <- MCCandidate
    Document <- MCDocument
    MaxRecords = 2
    MaxEndpoints = 2
    ContextDelta = 1
    AuthDelta = 1
    MaxMatches = 2
    FailureBoost = 10
    SeverityBoost = TRUE
    MaxCalls = 4
    MaxErrors = 1
INVARIANTS
    ContextBounded
    ForgetsOldest
    EvidenceComplete
    BoostsJustified
