SPECIFICATION Spec
CONSTANTS
    Runs = {1, 2, 3}
    Children <- MCChildren
    Limit = 2
    staleThresholdMs = 0
    MaxClock = 1
    MaxDropped = 1
    null = null
INVARIANTS PagingMissesNothing ReadsAreConsistent
PROPERTIES StaleMeansSilent
CHECK_DEADLOCK FALSE
CONSTRAINT OnePart
