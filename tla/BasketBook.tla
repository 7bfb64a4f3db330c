----------------------------- MODULE BasketBook -----------------------------
(***************************************************************************)
(* What the requests about baskets promise, as if there were no            *)
(* concurrency: a basket becomes a customer's, and every other active one  *)
(* of theirs is given up, in one indivisible step; a basket is opened, or  *)
(* sold with its order, in one.  CartCustody is shown to implement it.     *)
(*                                                                         *)
(* One freedom is the code's own (cart/service.ts, abandonOtherCarts lists *)
(* without locks and updates by id): baskets that are a customer's, but no *)
(* longer active or no longer this one's, may be given up along with them. *)
(***************************************************************************)

CONSTANTS Customers, Carts, Nobody

VARIABLES cart, orders, bound

bookVars == <<cart, orders, bound>>

ActiveOf(customer) == {k \in Carts : cart[k].status = "ACTIVE" /\ cart[k].owner = customer}

\* Baskets that were bound to a customer, whatever became of them.
OfCustomers == {k \in Carts : cart[k].owner \in Customers}

\* A guest gets a basket.
Open(k) ==
    /\ cart[k].status = "NONE"
    /\ cart' = [cart EXCEPT ![k] = [status |-> "ACTIVE", owner |-> Nobody]]
    /\ UNCHANGED <<orders, bound>>

\* An active or a new basket becomes the customer's one active basket.
Bind(customer, k, gone) ==
    /\ cart[k].status \in {"NONE", "ACTIVE"}
    /\ ActiveOf(customer) \ {k} \subseteq gone
    /\ gone \subseteq OfCustomers \ {k}
    /\ cart' = [l \in Carts |->
          IF l = k THEN [status |-> "ACTIVE", owner |-> customer]
          ELSE IF l \in gone THEN [cart[l] EXCEPT !.status = "ABANDONED"]
          ELSE cart[l]]
    /\ bound' = bound \cup {customer}
    /\ UNCHANGED orders

\* An order closes an active basket, once.
Sell(k) ==
    /\ cart[k].status = "ACTIVE"
    /\ k \notin orders
    /\ cart' = [cart EXCEPT ![k].status = "CONVERTED"]
    /\ orders' = orders \cup {k}
    /\ UNCHANGED bound

Init ==
    /\ orders = {k \in Carts : cart[k].status = "CONVERTED"}
    /\ bound = {}

Next ==
    \E k \in Carts :
        \/ Open(k) \/ Sell(k)
        \/ \E customer \in Customers, gone \in SUBSET Carts : Bind(customer, k, gone)

Spec == Init /\ [][Next]_bookVars
=============================================================================
