SPECIFICATION DropSpec
CONSTANTS
    MaxQueueSize = 1
    MaxBatchSize = 1
    MaxRetries = 1
    MaxCalls = 3
    Runs = {r1}
INVARIANTS ReportsAreSound
CHECK_DEADLOCK FALSE
VIEW WithoutMark
