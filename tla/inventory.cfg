\* Any two calls on two products, scheduled fairly, with a restart.
SPECIFICATION FairSpec
CONSTANTS
    NumProducts = 2
    Calls = {c1, c2}
    Free = Free
    OpeningStock <- OneLeft
    MaxAmount = 1
    MaxCrashes = 1

CHECK_DEADLOCK FALSE
INVARIANTS
    LedgerExplainsStock
    ToldWhatLanded
PROPERTIES
    CallsAreAtomic
    EveryCallEnds
