\* One basket is submitted twice while it is edited or moved to the other shop, an
\* order is corrected and the server restarts; everything it began is scheduled fairly.
SPECIFICATION FairSpec
CONSTANTS
    Stores = {s1, s2}
    Slots = {d1}
    NumProducts = 1
    Carts = {b1}
    Requests = {r1, r2}
    Corrections = {k1}
    Free = Free
    MaxQty = 1
    OpeningStock = 1
    MaxCapacity = 1
    VoidNotes = {TRUE}
    SlotLockAttempts = 2
    MaxMoves = 1
    MaxCrashes = 1

CHECK_DEADLOCK FALSE
INVARIANTS
    BasketBecomesOneOrder
PROPERTIES
    EveryPlacementAnswered
    EventsMatchCommits
