\* Only active baskets should be abandoned.
SPECIFICATION Spec
CONSTANTS
    Customers = {a1}
    Carts = {k1, k2}
    Calls = {c1, c2}
    Nobody = Nobody
    NoCart = NoCart
    Free = Free
SYMMETRY CustodySymmetry
CHECK_DEADLOCK FALSE
PROPERTIES
    OnlyActiveAbandoned
