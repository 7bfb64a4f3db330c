---------------------------- MODULE MCCartCustody ----------------------------
(***************************************************************************)
(* CartCustody on small instances; customers, carts and requests are       *)
(* interchangeable.                                                        *)
(***************************************************************************)
EXTENDS CartCustody, TLC

CustodySymmetry == Permutations(Customers) \cup Permutations(Carts) \cup Permutations(Calls)
=============================================================================
