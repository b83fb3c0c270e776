SPECIFICATION Spec
CONSTANTS
    Nodes <- MCNodes
    Order <- MCOrder
    SegmentOf <- MCSegmentOf
    Needs <- MCNeeds
    Repositories <- MCRepositories
    Bound = 1
    MaxRotations = 1
    Concurrency = 2
    NoProgressLimit = 2
    MaxIterations = 24
    MaxSessions = 2
    MaxReds = 2
    MaxRegressions = 1
    Breaks <- MCBreaks
INVARIANTS RepairsAreBounded HeldGateRecovers PhaseRecordsRestOnWaves RunsEndBeforeTheLimit
PROPERTIES EscalationFreezes DebtIsNeverSkipped
CHECK_DEADLOCK FALSE
