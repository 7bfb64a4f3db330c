\* Two staff requests at a time on one order of two lines.
SPECIFICATION Spec
CONSTANTS
    apples = apples
    bread = bread
    Lines <- TwoLines
    Ordered <- QtyOrdered
    Calls = {c1, c2}
    Free = Free
    MaxAttempts = 2
SYMMETRY LifecycleSymmetry
CHECK_DEADLOCK FALSE
INVARIANTS
    LifecycleInv
    HistoryTellsStatus
    DispatchIsConfirmed
    BillIsVoided
    GivenBackOnce
    HeardIsHistory
