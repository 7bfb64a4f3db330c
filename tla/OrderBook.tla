------------------------------ MODULE OrderBook ------------------------------
(***************************************************************************)
(* What order placement promises, as if there were no concurrency: an      *)
(* order, its stock movements and the end of its basket happen in one      *)
(* indivisible step, and so does a store correction.  checkout.placeOrder  *)
(* (checkout/service.ts) claims exactly this of its transaction.  Placement *)
(* is shown to implement it.                                               *)
(***************************************************************************)
EXTENDS Integers, FiniteSets, OrderStates

CONSTANTS Stores, Slots, NumProducts, Carts, Requests, MaxQty, MaxCapacity

VARIABLES stock, cart, order, form

Products == 1 .. NumProducts
Items    == Stores \X Products
Baskets  == [Products -> 0 .. MaxQty]

bookVars == <<stock, cart, order, form>>

\* Orders that hold a place in the window r asks for.
Rivals(r) ==
    {o \in Requests : /\ order[o].status \notin {"NONE", "CANCELLED_BY_STORE"}
                      /\ form[o].store = form[r].store
                      /\ form[o].slot = form[r].slot}

\* The whole basket leaves the shelf, or nothing happens.
Place(r) ==
    LET basket == cart[form[r].cart]
    IN  /\ order[r].status = "NONE"
        /\ basket.status = "ACTIVE" /\ basket.store = form[r].store
        /\ \E p \in Products : basket.lines[p] > 0
        /\ \A p \in Products : stock[<<basket.store, p>>] >= basket.lines[p]
        /\ Cardinality(Rivals(r)) < MaxCapacity
        /\ order' = [order EXCEPT ![r].status = "PLACED", ![r].qty = basket.lines]
        /\ cart' = [cart EXCEPT ![form[r].cart].status = "CONVERTED"]
        /\ stock' = [i \in Items |->
              IF i[1] = basket.store THEN stock[i] - basket.lines[i[2]] ELSE stock[i]]

\* The whole order comes back, once.
Correct(o) ==
    /\ order[o].status \in CancellableFrom
    /\ order' = [order EXCEPT ![o].status = "CANCELLED_BY_STORE",
                              ![o].restored = order[o].qty]
    /\ stock' = [i \in Items |->
          IF i[1] = form[o].store THEN stock[i] + order[o].qty[i[2]] ELSE stock[i]]
    /\ UNCHANGED cart

\* Staff work an order forward.
Progress(o) ==
    /\ \E to \in Statuses \ {"CANCELLED_BY_STORE"} :
          /\ \E rule \in Transitions : rule.from = order[o].status /\ rule.to = to
          /\ order' = [order EXCEPT ![o].status = to]
    /\ UNCHANGED <<stock, cart>>

\* Staff set one item's balance.
Count(i) ==
    /\ stock'[i] \in Nat
    /\ stock' = [stock EXCEPT ![i] = stock'[i]]
    /\ UNCHANGED <<cart, order>>

\* A shopper changes a basket that has not become an order.
Shop(b) ==
    /\ cart[b].status = "ACTIVE"
    /\ \E s \in Stores, lines \in Baskets :
          cart' = [cart EXCEPT ![b].store = s, ![b].lines = lines]
    /\ UNCHANGED <<stock, order>>

Init ==
    /\ stock \in [Items -> Nat]
    /\ \A b \in Carts : cart[b].status = "ACTIVE"
    /\ \A r \in Requests : order[r].status = "NONE"

Next ==
    /\ \/ \E r \in Requests : Place(r) \/ Correct(r) \/ Progress(r)
       \/ \E i \in Items : Count(i)
       \/ \E b \in Carts : Shop(b)
    /\ UNCHANGED form

Spec == Init /\ [][Next]_bookVars
=============================================================================
