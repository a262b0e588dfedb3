SPECIFICATION FairSpec
CONSTANTS
    a = a
    b = b
    c = c
    d = d
    Steps <- MCSteps
    Pipelines <- MCPipelines
    HasTimeout = TRUE
    MaxCancels = 2
INVARIANT TypeOK
INVARIANT RunExact
INVARIANT NoRunaway
PROPERTY DeadlineStops
PROPERTY Termination
