\* Any two requests of two customers and of guests over two baskets, scheduled fairly,
\* with the database breaking deadlocks.
SPECIFICATION FairSpec
CONSTANTS
    Customers = {a1, a2}
    Carts = {k1, k2}
    Calls = {c1, c2}
    Nobody = Nobody
    NoCart = NoCart
    Free = Free

CHECK_DEADLOCK FALSE
INVARIANTS
    CustodyInv
    OneActiveCart
PROPERTIES
    BasketsAreAtomic
    EveryRequestEnds
