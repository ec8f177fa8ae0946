SPECIFICATION Spec
CONSTANTS
    Sets <- BothSets
    Processes <- Three
    Plan <- DeploymentOfThree
    Latest <- TwoEach
    Legacy <- TwoAndNone
    Recorded <- Rollouts
    BackoffLimit = 1
    MaxErrors = 1
CHECK_DEADLOCK FALSE
INVARIANTS
    TypeOK
    RecordsTrue
    InOrder
    RolloutWaits
PROPERTY
    RolloutStarts
