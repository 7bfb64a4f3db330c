----------------------------- MODULE MCPlacement -----------------------------
(***************************************************************************)
(* Placement on small instances.  Calls, baskets, shops and slots are      *)
(* model values; products are numbers because their order is the locking   *)
(* order.  Symmetry is only used by the runs that check safety.            *)
(***************************************************************************)
EXTENDS Placement, TLC

CallSymmetry ==
    Permutations(Requests) \cup Permutations(Carts) \cup Permutations(Corrections)

ShopSymmetry == CallSymmetry \cup Permutations(Stores) \cup Permutations(Slots)
=============================================================================
