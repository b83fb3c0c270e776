SPECIFICATION Spec
CONSTANTS
    absent = absent
    Batches <- MCBatches
    policy <- MCPolicy
    repo <- MCRepo
    Files <- MCFiles
    Handoffs <- MCHandoffs
    MaxCommits = 1
INVARIANTS MergedFilesAreOwned IntegrationIsSafe
PROPERTY GateWantsEveryLane
CHECK_DEADLOCK FALSE
