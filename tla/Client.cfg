SPECIFICATION ShutdownSpec
CONSTANTS
    MaxQueueSize = 2
    MaxBatchSize = 2
    MaxRetries = 1
    MaxCalls = 4
INVARIANTS TypeOK EventsConserved ReportNeverNegative FlushCoversEarlierEvents LoneShutdownDrains
PROPERTIES NoAttemptAfterGivingUp PumpTerminates ShutdownCompletes
CHECK_DEADLOCK FALSE
