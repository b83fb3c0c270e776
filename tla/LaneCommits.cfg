SPECIFICATION Spec
CONSTANTS
    absent = absent
    Batches <- MCOneLane
    policy <- MCPolicy
    repo <- MCRepo
    Files <- MCFiles
    Handoffs <- MCHandoffs
    MaxCommits = 2
INVARIANT MergedFilesAreOwned
CHECK_DEADLOCK FALSE
