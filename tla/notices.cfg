\* One product in two shops, one basket in two tabs.
SPECIFICATION Spec
CONSTANTS
    Stores = {s1, s2}
    Products = {p1}
    Prices = {1, 2}
    MaxQty = 2
    Calls = {c1, c2}
    Quiet = Quiet
    Free = Free
SYMMETRY NoticeSymmetry
CHECK_DEADLOCK FALSE
INVARIANTS
    BasketInv
    ToldOrOwed
    AddsAreCounted
    OneShop
