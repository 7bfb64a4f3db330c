--------------------------- MODULE MCOrderLifecycle ---------------------------
(***************************************************************************)
(* OrderLifecycle on a small instance.                                     *)
(***************************************************************************)
EXTENDS OrderLifecycle, TLC

CONSTANTS apples, bread

\* Two of one product and one of another.
TwoLines == {apples, bread}
QtyOrdered == (apples :> 2) @@ (bread :> 1)

LifecycleSymmetry == Permutations(Calls)
=============================================================================
