----------------------------- MODULE MCInventory -----------------------------
(***************************************************************************)
(* Inventory on small instances: calls are model values, products numbers. *)
(* Of the first product there is one left, of the second none.             *)
(***************************************************************************)
EXTENDS Inventory

OneLeft == <<1, 0>>
=============================================================================
