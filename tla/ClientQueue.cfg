SPECIFICATION FairSpec
CONSTANTS
    MaxQueueSize = 2
    MaxBatchSize = 1
    MaxRetries = 0
    MaxCalls = 2
PROPERTIES QueueIsFlushed
CHECK_DEADLOCK FALSE
