----------------------------- MODULE CartCustody -----------------------------
(***************************************************************************)
(* Which basket a shopper has: sign-in adopts the device's basket, adding  *)
(* an item finds, binds or creates one, and checkout converts it, from     *)
(* several devices of several shoppers at once (cart/service.ts).          *)
(*                                                                         *)
(* adoptCart and ensureCart lock the customer, then the device's cart row, *)
(* then list the customer's other active carts and abandon them one update *)
(* at a time, each waiting for its row.  The list is read without locking  *)
(* the rows, so a row may change hands before its update.  What a          *)
(* transaction writes is seen by others when it commits.                   *)
(***************************************************************************)
EXTENDS Naturals, FiniteSets

CONSTANTS
    Customers,  \* shoppers with an account
    Carts,      \* cart rows, those not inserted yet included
    Calls,      \* requests being served
    Nobody,     \* owner of a guest's basket; customer of a guest's request
    NoCart,     \* the token of a device without a basket cookie
    Free        \* the holder of a lock nobody holds

ASSUME CustodyConstants ==
    /\ Nobody \notin Customers
    /\ NoCart \notin Carts
    /\ Free \notin Calls

VARIABLES
    cart,          \* Cart: status ("NONE" before the insert) and owner
    orders,        \* carts an order was placed from
    bound,         \* customers a basket was bound to since observation began
    customerLock,  \* advisory lock on a customer's carts
    cartLock,      \* row lock of a cart
    pc,            \* where each request is
    job,           \* what each request is about
    keep,          \* the cart a request binds or converts
    doomed,        \* listed carts a request has still to abandon
    next,          \* the one of them it updates next
    abandoned      \* carts a request has set to ABANDONED, not committed

locks == <<customerLock, cartLock>>
work  == <<keep, doomed, next, abandoned>>
vars  == <<cart, orders, bound, customerLock, cartLock, pc, job, keep, doomed, next, abandoned>>

-----------------------------------------------------------------------------
(* Rows and requests *)

CartRows ==
    [status : {"ACTIVE", "CONVERTED", "ABANDONED"}, owner : Customers \cup {Nobody}]
        \cup {[status |-> "NONE", owner |-> Nobody]}

Inserted == {k \in Carts : cart[k].status # "NONE"}

ActiveOf(customer) == {k \in Carts : cart[k].status = "ACTIVE" /\ cart[k].owner = customer}

\* The token is the device's cookie: it names an existing row or there is none.
Jobs ==
    [kind : {"signIn"}, customer : Customers, token : Carts]
        \cup [kind : {"add"}, customer : Customers \cup {Nobody}, token : Carts \cup {NoCart}]
        \cup [kind : {"checkout"}, customer : {Nobody}, token : Carts]

NoJob == [kind |-> "add", customer |-> Nobody, token |-> NoCart]

TokenIs(c, status) == job[c].token # NoCart /\ cart[job[c].token].status = status

\* Any listed cart may come first: updatedAt orders them.
PickFrom(S) == IF S = {} THEN {NoCart} ELSE S

\* Bug: a finished transaction keeps its lock on the customer.
FinishKeepingCustomer(c) ==
    /\ cartLock' = [k \in Carts |-> IF cartLock[k] = c THEN Free ELSE cartLock[k]]
    /\ pc' = [pc EXCEPT ![c] = "idle"]
    /\ keep' = [keep EXCEPT ![c] = NoCart]
    /\ doomed' = [doomed EXCEPT ![c] = {}]
    /\ next' = [next EXCEPT ![c] = NoCart]
    /\ abandoned' = [abandoned EXCEPT ![c] = {}]
    /\ UNCHANGED customerLock

Finish(c) ==
    /\ customerLock' = [a \in Customers |-> IF customerLock[a] = c THEN Free ELSE customerLock[a]]
    /\ cartLock' = [k \in Carts |-> IF cartLock[k] = c THEN Free ELSE cartLock[k]]
    /\ pc' = [pc EXCEPT ![c] = "idle"]
    /\ keep' = [keep EXCEPT ![c] = NoCart]
    /\ doomed' = [doomed EXCEPT ![c] = {}]
    /\ next' = [next EXCEPT ![c] = NoCart]
    /\ abandoned' = [abandoned EXCEPT ![c] = {}]

\* The end of the transaction: the locks go, the request is answered and forgotten.
EndTransaction(c) == Finish(c) /\ job' = [job EXCEPT ![c] = NoJob]

-----------------------------------------------------------------------------
(* Steps of a request *)

Begin(c) ==
    /\ pc[c] = "idle"
    /\ \E j \in Jobs :
          /\ j.token \in Inserted \cup {NoCart}
          /\ job' = [job EXCEPT ![c] = j]
          /\ pc' = [pc EXCEPT ![c] = IF j.customer = Nobody THEN "cart" ELSE "customer"]
    /\ UNCHANGED <<cart, orders, bound, locks, work>>

\* Bug: the carts of a customer are not serialised on the customer.
LockCustomerShared(c) ==
    /\ pc[c] = "customer"
    /\ customerLock' = [customerLock EXCEPT ![job[c].customer] = c]
    /\ pc' = [pc EXCEPT ![c] = "cart"]
    /\ UNCHANGED <<cart, orders, bound, cartLock, job, work>>

\* lockCustomerCarts
LockCustomer(c) ==
    /\ pc[c] = "customer"
    /\ customerLock[job[c].customer] = Free
    /\ customerLock' = [customerLock EXCEPT ![job[c].customer] = c]
    /\ pc' = [pc EXCEPT ![c] = "cart"]
    /\ UNCHANGED <<cart, orders, bound, cartLock, job, work>>

\* lockCartByToken waits for the row and reads it under the lock.
RowIsFree(c) == pc[c] = "cart" /\ (job[c].token # NoCart => cartLock[job[c].token] = Free)

\* ensureCart: an active basket serves a guest, or its own customer, as it is.
UseAsItIs(c) ==
    /\ RowIsFree(c)
    /\ job[c].kind = "add"
    /\ TokenIs(c, "ACTIVE")
    /\ job[c].customer \in {Nobody, cart[job[c].token].owner}
    /\ EndTransaction(c)
    /\ UNCHANGED <<cart, orders, bound>>

\* adoptCart has nothing to adopt; lockActiveCart refuses a checkout.
NothingToTake(c) ==
    /\ RowIsFree(c)
    /\ job[c].kind \in {"signIn", "checkout"}
    /\ ~TokenIs(c, "ACTIVE")
    /\ EndTransaction(c)
    /\ UNCHANGED <<cart, orders, bound>>

Wanted(c) ==
    /\ TokenIs(c, "ACTIVE")
    /\ job[c].kind = "add" => job[c].customer \notin {Nobody, cart[job[c].token].owner}

\* Bug: the row is read without waiting for it.
TakeCartUnlocked(c) ==
    /\ pc[c] = "cart"
    /\ Wanted(c)
    /\ keep' = [keep EXCEPT ![c] = job[c].token]
    /\ pc' = [pc EXCEPT ![c] = IF job[c].kind = "checkout" THEN "converting" ELSE "listing"]
    /\ UNCHANGED <<cart, orders, bound, locks, job, doomed, next, abandoned>>

\* The device's basket, locked and active, to be bound or converted.
TakeCart(c) ==
    /\ RowIsFree(c)
    /\ Wanted(c)
    /\ cartLock' = [cartLock EXCEPT ![job[c].token] = c]
    /\ keep' = [keep EXCEPT ![c] = job[c].token]
    /\ pc' = [pc EXCEPT ![c] = IF job[c].kind = "checkout" THEN "converting" ELSE "listing"]
    /\ UNCHANGED <<cart, orders, bound, customerLock, job, doomed, next, abandoned>>

\* Rows not inserted yet, by anybody.
Unused == {k \in Carts : cart[k].status = "NONE"} \ {keep[d] : d \in Calls}

\* The bound on rows: a request that finds none left to insert gives up.
RowsRunOut(c) ==
    /\ RowIsFree(c)
    /\ job[c].kind = "add"
    /\ ~TokenIs(c, "ACTIVE")
    /\ Unused = {}
    /\ EndTransaction(c)
    /\ UNCHANGED <<cart, orders, bound>>

\* ensureCart: no active basket behind the cookie, so a new row, still the
\* transaction's own secret.  The dead row it looked at stays locked.
InsertCart(c, k) ==
    /\ RowIsFree(c)
    /\ job[c].kind = "add"
    /\ ~TokenIs(c, "ACTIVE")
    /\ k \in Unused
    /\ keep' = [keep EXCEPT ![c] = k]
    /\ cartLock' = [cartLock EXCEPT ![k] = c,
                                    ![IF job[c].token = NoCart THEN k ELSE job[c].token] = c]
    /\ pc' = [pc EXCEPT ![c] = IF job[c].customer = Nobody THEN "binding" ELSE "listing"]
    /\ UNCHANGED <<cart, orders, bound, customerLock, job, doomed, next, abandoned>>

\* listActiveCartsForCustomer, without the cart to keep; no row is locked.
ListOthers(c) ==
    /\ pc[c] = "listing"
    /\ doomed' = [doomed EXCEPT ![c] = ActiveOf(job[c].customer) \ {keep[c]}]
    /\ \E k \in PickFrom(doomed'[c]) : next' = [next EXCEPT ![c] = k]
    /\ pc' = [pc EXCEPT ![c] = "binding"]
    /\ UNCHANGED <<cart, orders, bound, locks, job, keep, abandoned>>

\* setCartStatus(id, ABANDONED): by id alone, once the row is free.
AbandonOne(c) ==
    /\ pc[c] = "binding"
    /\ next[c] # NoCart
    /\ cartLock[next[c]] \in {Free, c}
    /\ cartLock' = [cartLock EXCEPT ![next[c]] = c]
    /\ abandoned' = [abandoned EXCEPT ![c] = @ \cup {next[c]}]
    /\ doomed' = [doomed EXCEPT ![c] = @ \ {next[c]}]
    /\ \E k \in PickFrom(doomed'[c]) : next' = [next EXCEPT ![c] = k]
    /\ UNCHANGED <<cart, orders, bound, customerLock, pc, job, keep>>

\* The commit of adoptCart or ensureCart: the others abandoned, the kept cart
\* the customer's (setCartCustomer, or the insert).
Bind(c) ==
    /\ pc[c] = "binding"
    /\ next[c] = NoCart
    /\ cart' = [k \in Carts |->
          IF k = keep[c]
          THEN [status |-> IF k \in Inserted THEN cart[k].status ELSE "ACTIVE",
                owner  |-> job[c].customer]
          ELSE IF k \in abandoned[c] THEN [cart[k] EXCEPT !.status = "ABANDONED"]
          ELSE cart[k]]
    /\ bound' = bound \cup ({job[c].customer} \ {Nobody})
    /\ EndTransaction(c)
    /\ UNCHANGED orders

\* placeOrder commits: the order is written and its basket converted.
Convert(c) ==
    /\ pc[c] = "converting"
    /\ cart' = [cart EXCEPT ![keep[c]].status = "CONVERTED"]
    /\ orders' = orders \cup {keep[c]}
    /\ EndTransaction(c)
    /\ UNCHANGED bound

\* A rollback: a refusal of the order, a timeout, a restart, a deadlock victim.
Abort(c) ==
    /\ pc[c] # "idle"
    /\ EndTransaction(c)
    /\ UNCHANGED <<cart, orders, bound>>

-----------------------------------------------------------------------------
(* Specification *)

\* Baskets of earlier days: any owner, more than one active among them.
Init ==
    /\ cart \in [Carts -> CartRows]
    /\ orders = {k \in Carts : cart[k].status = "CONVERTED"}
    /\ bound = {}
    /\ customerLock = [a \in Customers |-> Free]
    /\ cartLock = [k \in Carts |-> Free]
    /\ pc = [c \in Calls |-> "idle"]
    /\ job = [c \in Calls |-> NoJob]
    /\ keep = [c \in Calls |-> NoCart]
    /\ doomed = [c \in Calls |-> {}]
    /\ next = [c \in Calls |-> NoCart]
    /\ abandoned = [c \in Calls |-> {}]

Proceed(c) ==
    \/ LockCustomer(c) \/ UseAsItIs(c) \/ NothingToTake(c) \/ TakeCart(c)
    \/ RowsRunOut(c) \/ \E k \in Carts : InsertCart(c, k)
    \/ ListOthers(c) \/ AbandonOne(c) \/ Bind(c) \/ Convert(c)

Next == \E c \in Calls : Begin(c) \/ Proceed(c) \/ Abort(c)

Spec == Init /\ [][Next]_vars

-----------------------------------------------------------------------------
(* Waiting *)

\* c cannot move until d ends its transaction.
WaitsFor(c, d) ==
    /\ c # d
    /\ \/ pc[c] = "customer" /\ customerLock[job[c].customer] = d
       \/ pc[c] = "cart" /\ job[c].token # NoCart /\ cartLock[job[c].token] = d
       \/ pc[c] = "binding" /\ next[c] # NoCart /\ cartLock[next[c]] = d

\* Requests that all wait for each other.
Deadlocked(group) ==
    group # {} /\ \A c \in group : \E d \in group : WaitsFor(c, d)

\* PostgreSQL ends a deadlock by aborting one of the transactions in it.
DeadlockVictim ==
    \E group \in SUBSET Calls : Deadlocked(group) /\ \E c \in group : Abort(c)

\* The server executes what it has started, locks are granted in the order they were
\* asked for (so a waiting request is never passed over for ever), and the database
\* breaks deadlocks.
FairSpec == Spec /\ (\A c \in Calls : SF_vars(Proceed(c))) /\ WF_vars(DeadlockVictim)

-----------------------------------------------------------------------------
(* Properties *)

TypeOK ==
    /\ cart \in [Carts -> CartRows]
    /\ orders \subseteq Carts
    /\ bound \subseteq Customers
    /\ customerLock \in [Customers -> Calls \cup {Free}]
    /\ cartLock \in [Carts -> Calls \cup {Free}]
    /\ pc \in [Calls -> {"idle", "customer", "cart", "listing", "binding", "converting"}]
    /\ job \in [Calls -> Jobs]
    /\ keep \in [Calls -> Carts \cup {NoCart}]
    /\ doomed \in [Calls -> SUBSET Carts]
    /\ next \in [Calls -> Carts \cup {NoCart}]
    /\ abandoned \in [Calls -> SUBSET Carts]

\* A request past the first lock alone may bind baskets to its customer.
HoldsCustomer ==
    \A c \in Calls :
        pc[c] \in {"cart", "listing", "binding"} /\ job[c].customer # Nobody
            => customerLock[job[c].customer] = c

\* What a request has listed stays complete: its customer gains no active basket
\* behind its back.
ListIsComplete ==
    \A c \in Calls, a \in Customers :
        pc[c] = "binding" /\ job[c].customer = a
            => ActiveOf(a) \subseteq {keep[c]} \cup doomed[c] \cup abandoned[c]

\* The row a request read and keeps is its own until it ends.
HoldsKept ==
    \A c \in Calls :
        /\ keep[c] # NoCart => cartLock[keep[c]] = c
        /\ pc[c] \in {"listing", "binding", "converting"} => keep[c] # NoCart

\* A list names rows that exist, and the next one to update is on it.
ListedRowsExist ==
    \A c \in Calls :
        /\ doomed[c] \cup abandoned[c] \subseteq Inserted
        /\ next[c] # NoCart => next[c] \in doomed[c]
        /\ next[c] = NoCart => doomed[c] = {}

\* The rows a request has set to ABANDONED are its own until it ends.
HoldsAbandoned == \A c \in Calls : \A k \in abandoned[c] : cartLock[k] = c

\* Nobody takes the basket away from a checkout that read it.
ConvertsActive == \A c \in Calls : pc[c] = "converting" => cart[keep[c]].status = "ACTIVE"

\* The inductive invariant: with complete lists behind the customer lock, binding
\* leaves one active basket; with row locks held to the end, what a checkout read
\* is what it sells.
CustodyInv ==
    /\ TypeOK
    /\ HoldsCustomer
    /\ HoldsKept
    /\ ListIsComplete
    /\ ListedRowsExist
    /\ HoldsAbandoned
    /\ ConvertsActive

\* Once a basket was bound to a customer they never have two active ones, however
\* many devices sign in or add items together, and duplicates left by earlier days
\* are repaired by the first binding (adoptCart, ensureCart).
OneActiveCart == \A a \in bound : \A k, l \in ActiveOf(a) : k = l

\* An order is only ever placed from a basket that is still active at the step that
\* commits it: a basket given up by a sign-in elsewhere is not sold.
SoldWhileActive == [][\A k \in Carts : k \in orders' \ orders => cart[k].status = "ACTIVE"]_vars

\* What the database shows of baskets and orders is a history of BasketBook: a sign-in
\* or an addition binds one basket and gives up all the customer's others in one step,
\* a guest's basket is never given up, and an active basket is sold, once
\* (adoptCart, ensureCart, markConverted).
Book == INSTANCE BasketBook

BasketsAreAtomic == Book!Spec

\* Every request that takes locks ends, deadlocks included.
EveryRequestEnds == \A c \in Calls : pc[c] # "idle" ~> pc[c] = "idle"

\* cart/service.ts:458: "If the customer already had an active cart elsewhere, it is
\* marked ABANDONED": a cart that gets abandoned was an active one.
OnlyActiveAbandoned ==
    [][\A k \in Carts :
          cart'[k].status = "ABANDONED" /\ cart[k].status # "ABANDONED"
              => cart[k].status = "ACTIVE"]_vars

\* cart/service.ts:501: "one order everywhere, so two adoptions can queue but never
\* deadlock against each other".
AdoptionsNeverDeadlock ==
    \A group \in SUBSET {c \in Calls : job[c].kind = "signIn"} : ~Deadlocked(group)
=============================================================================
