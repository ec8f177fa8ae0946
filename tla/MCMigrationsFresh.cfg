SPECIFICATION Spec
CONSTANTS
    Sets <- BothSets
    Processes <- Everyone
    Plan <- Deployment
    Latest <- OneEach
    Legacy <- NoneEach
    Recorded <- NoTables
    BackoffLimit = 1
    MaxErrors = 0
CHECK_DEADLOCK FALSE
INVARIANTS
    WaitsForLatest
