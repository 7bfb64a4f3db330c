\* Two placements, two rival corrections share the last units of two products.
SPECIFICATION Spec
CONSTANTS
    Stores = {s1}
    Slots = {d1, d2}
    NumProducts = 2
    Carts = {b1, b2}
    Requests = {r1, r2}
    Corrections = {k1, k2}
    Free = Free
    MaxQty = 1
    OpeningStock = 1
    MaxCapacity = 1
    VoidNotes = {TRUE, FALSE}
    SlotLockAttempts = 2
    MaxMoves = 0
    MaxCrashes = 0
SYMMETRY ShopSymmetry
CHECK_DEADLOCK FALSE
INVARIANTS
    SlotNeverOverbooked
    MovementsMatchOrders
    NoWaitCycle
PROPERTIES
    AdmittedUnderQuota
    OrdersAreAtomic
