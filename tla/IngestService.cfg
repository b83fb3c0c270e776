SPECIFICATION FairSpec
CONSTANTS
    Requests = {p1, p2}
    Runs = {"r1", "r2"}
    Steps = {"s1"}
    Entities = {"d1", "c1"}
    Events <- MCEvents
    Submissions <- ServiceSubmissions
    Names = {"n1", "n2"}
    Metas = {"m1", "m2"}
    MaxClock = 2
    MaxInt4 = 3
INVARIANTS AnsweredMeansStored DropsCreditedOnceAfterStoring
PROPERTIES EveryRequestEnds ReplayIsNotLiveness NeverReopened ColumnsNeverBlanked
CHECK_DEADLOCK FALSE
