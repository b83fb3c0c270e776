SPECIFICATION Spec
CONSTANTS
    Requests = {p1, p2, p3}
    Runs = {"r1", "r2"}
    Steps = {"s1"}
    Entities = {"d1", "c1"}
    Events <- MCEvents
    Submissions <- MergeSubmissions
    Names = {"n1", "n2"}
    Metas = {"m1", "m2"}
    MaxClock = 1
    MaxInt4 = 4
INVARIANTS TypeOK RowIsMergeOfLedger AcceptedOnce
SYMMETRY RequestSymmetry
CHECK_DEADLOCK FALSE
