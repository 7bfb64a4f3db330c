------------------------------ MODULE Placement ------------------------------
(***************************************************************************)
(* Concurrent order placement and store correction over one PostgreSQL     *)
(* database at READ COMMITTED.                                             *)
(*                                                                         *)
(* A Request is one call of checkout.placeOrder, a Correction one call of  *)
(* orders.correctOrder.  Each is a sequence of statements in one           *)
(* transaction; a step of the model is one statement that takes a lock or  *)
(* reads something another transaction may change.  What a transaction     *)
(* has written stays in `staged' until it commits, so nobody else sees it; *)
(* committed rows are the variables stock, ledger, cart, order, listed and *)
(* settings.  Everything else that moves those rows meanwhile (a shopper   *)
(* editing a basket, staff counting a shelf or changing a setting) holds   *)
(* at most one row lock and is one atomic step.                            *)
(*                                                                         *)
(* Prices are not modelled: whether a basket meets the minimum is a free   *)
(* choice.  A product is its position in the order in which every caller   *)
(* sorts product ids before locking.  An order is named by the request     *)
(* that placed it, and so has the cart, the store and the slot of its form. *)
(***************************************************************************)
EXTENDS Integers, FiniteSets, Sequences, OrderStates

CONSTANTS
    Stores,            \* the shops
    Slots,             \* delivery windows a shop offers
    NumProducts,       \* products 1..NumProducts, in locking order
    Carts,             \* baskets
    Requests,          \* calls of placeOrder
    Corrections,       \* calls of correctOrder
    Free,              \* the holder of a lock nobody holds
    MaxQty,            \* most units of one product in a basket
    OpeningStock,      \* balance of every item when observation starts
    MaxCapacity,       \* largest slot capacity a shop ever configures
    VoidNotes,         \* may a correction come with a note on the POS bill, or without?
    SlotLockAttempts,  \* tries at a busy window before giving up
    MaxMoves,          \* bound on the steps of other people, see OtherPeople
    MaxCrashes         \* bound on restarts of the server

Products == 1 .. NumProducts
Items    == Stores \X Products
Windows  == Stores \X Slots
Calls    == Requests \cup Corrections
Baskets  == [Products -> 0 .. MaxQty]
Nothing  == [p \in Products |-> 0]

ASSUME ConstantsOK ==
    /\ NumProducts \in Nat /\ MaxQty \in Nat /\ OpeningStock \in Nat
    /\ MaxCapacity \in Nat /\ MaxMoves \in Nat /\ MaxCrashes \in Nat
    /\ SlotLockAttempts \in Nat \ {0}
    /\ VoidNotes \subseteq BOOLEAN
    /\ IsFiniteSet(Requests)

ASSUME NamesOK ==
    /\ Requests \cap Corrections = {}
    /\ Free \notin Calls \cup Carts

VARIABLES
    stock,       \* InventoryItem.websiteStock
    ledger,      \* StockLedger, per item, oldest first
    cart,        \* Cart with its CartItems
    order,       \* Order with its OrderLines (cart, store, slot: see form)
    listed,      \* StoreProduct.isListed of an active product
    settings,    \* StoreSettings
    windowLock, cartLock, orderLock, itemLock,   \* who holds what
    form,        \* what each placeOrder call was given (never changes)
    ticket,      \* what each correctOrder call was given (never changes)
    pc,          \* where each call is
    tries,       \* attempts a placement has spent on a busy window
    quota,       \* the slot capacity a placement read before its transaction
    view,        \* the basket a placement revalidated
    staged,      \* balances a transaction has written and not committed
    moved,       \* products a transaction holds the stock row of
    announced,   \* calls whose event has been emitted
    moves, crashes

rows   == <<stock, ledger, cart, order, listed, settings>>
locks  == <<windowLock, cartLock, orderLock, itemLock>>
inputs == <<form, ticket>>
bounds == <<moves, crashes>>
vars   == <<rows, locks, inputs, pc, tries, quota, view, staged, moved,
            announced, bounds>>

-----------------------------------------------------------------------------
(* Types *)

Forms   == [cart : Carts, store : Stores, slot : Slots]
Tickets == [order : Requests, voidNote : VoidNotes]

CartRows == [status : {"ACTIVE", "CONVERTED"}, store : Stores, lines : Baskets]

Orders  == [status : Statuses \cup {"NONE"}, qty : Baskets, restored : Baskets]

Reasons == {"ORDER_PLACED", "ADMIN_CORRECTION", "MANUAL_ADJUST", "RECONCILE"}
Entries == [delta : Int, balanceAfter : Int, reason : Reasons,
            ref : Carts \cup Requests \cup {Free}]

InTransaction == {"counting", "locking-cart", "revalidating", "moving", "restoring"}
Answered      == {"placed", "corrected", "rejected", "busy", "failed", "lost"}

TypeOK ==
    /\ stock \in [Items -> Nat]
    /\ ledger \in [Items -> Seq(Entries)]
    /\ cart \in [Carts -> CartRows]
    /\ order \in [Requests -> Orders]
    /\ listed \in [Items -> BOOLEAN]
    /\ settings \in [Stores -> [accepting : BOOLEAN, slotCapacity : 1 .. MaxCapacity]]
    /\ windowLock \in [Windows -> Requests \cup {Free}]
    /\ cartLock \in [Carts -> Requests \cup {Free}]
    /\ orderLock \in [Requests -> Corrections \cup {Free}]
    /\ itemLock \in [Items -> Calls \cup {Free}]
    /\ form \in [Requests -> Forms]
    /\ ticket \in [Corrections -> Tickets]
    /\ pc \in [Calls -> InTransaction \cup Answered
                          \cup {"idle", "serviceable", "trying", "committed"}]
    /\ tries \in [Requests -> 0 .. SlotLockAttempts]
    /\ quota \in [Requests -> 0 .. MaxCapacity]
    /\ view \in [Requests -> Baskets]
    /\ staged \in [Calls -> [Products -> Nat]]
    /\ moved \in [Calls -> SUBSET Products]
    /\ announced \subseteq Calls
    /\ moves \in 0 .. MaxMoves
    /\ crashes \in 0 .. MaxCrashes

-----------------------------------------------------------------------------
(* What a call works on *)

WindowOf(r) == <<form[r].store, form[r].slot>>
Target(k)   == ticket[k].order

StoreOf(c) == IF c \in Requests THEN form[c].store ELSE form[Target(c)].store

\* countInSlot: every order of the window that was not cancelled.
LiveIn(w) ==
    {o \in Requests : /\ order[o].status \notin {"NONE", "CANCELLED_BY_STORE"}
                      /\ WindowOf(o) = w}

\* Signed movement a call applies to a product's balance.
Delta(c, p) ==
    IF c \in Requests THEN - view[c][p]
    ELSE order[Target(c)].qty[p] - order[Target(c)].restored[p]

\* The lines still to be moved, and the one the sort puts first.
Pending(c)   == {p \in Products : Delta(c, p) # 0} \ moved[c]

\* Bug: lines are moved in basket order instead of the sorted one.
IsAnyPending(c, p) == p \in Pending(c)

IsNext(c, p) == p \in Pending(c) /\ \A q \in Pending(c) : p <= q

ItemOf(c, p) == <<StoreOf(c), p>>

-----------------------------------------------------------------------------
(* Transactions *)

\* Bug: the basket's row lock outlives the transaction.
ReleaseAllButCart(c) ==
    /\ windowLock' = [w \in Windows |-> IF windowLock[w] = c THEN Free ELSE windowLock[w]]
    /\ orderLock'  = [o \in Requests |-> IF orderLock[o] = c THEN Free ELSE orderLock[o]]
    /\ itemLock'   = [i \in Items |-> IF itemLock[i] = c THEN Free ELSE itemLock[i]]
    /\ moved'      = [moved EXCEPT ![c] = {}]
    /\ UNCHANGED cartLock

\* COMMIT and ROLLBACK both give back every lock the transaction holds.
ReleaseAll(c) ==
    /\ windowLock' = [w \in Windows |-> IF windowLock[w] = c THEN Free ELSE windowLock[w]]
    /\ cartLock'   = [b \in Carts |-> IF cartLock[b] = c THEN Free ELSE cartLock[b]]
    /\ orderLock'  = [o \in Requests |-> IF orderLock[o] = c THEN Free ELSE orderLock[o]]
    /\ itemLock'   = [i \in Items |-> IF itemLock[i] = c THEN Free ELSE itemLock[i]]
    /\ moved'      = [moved EXCEPT ![c] = {}]

\* A throw inside the transaction: nothing it wrote survives.
Rollback(c, answer) ==
    /\ ReleaseAll(c)
    /\ pc' = [pc EXCEPT ![c] = answer]
    /\ UNCHANGED <<rows, inputs, quota, view, staged, announced, bounds>>

\* The balances and ledger rows a committing call makes visible.
PublishMovements(c, reason, ref) ==
    LET Mine(i) == i[1] = StoreOf(c) /\ i[2] \in moved[c]
    IN  /\ stock' = [i \in Items |-> IF Mine(i) THEN staged[c][i[2]] ELSE stock[i]]
        /\ ledger' = [i \in Items |->
              IF Mine(i)
              THEN Append(ledger[i], [delta |-> Delta(c, i[2]),
                                      balanceAfter |-> staged[c][i[2]],
                                      reason |-> reason, ref |-> ref])
              ELSE ledger[i]]

\* Bug: nextBalance no longer refuses a negative balance.
ApplyMovementUnchecked(c, p) ==
    /\ itemLock[ItemOf(c, p)] = Free
    /\ itemLock' = [itemLock EXCEPT ![ItemOf(c, p)] = c]
    /\ staged' = [staged EXCEPT ![c][p] = stock[ItemOf(c, p)] + Delta(c, p)]
    /\ moved' = [moved EXCEPT ![c] = @ \cup {p}]
    /\ UNCHANGED <<rows, windowLock, cartLock, orderLock, inputs, pc, tries,
                   quota, view, announced, bounds>>

\* applyMovement: lock the row, compute nextBalance from the locked balance,
\* write it.  Blocks while somebody else holds the row.
ApplyMovement(c, p) ==
    /\ itemLock[ItemOf(c, p)] = Free
    /\ stock[ItemOf(c, p)] + Delta(c, p) >= 0
    /\ itemLock' = [itemLock EXCEPT ![ItemOf(c, p)] = c]
    /\ staged' = [staged EXCEPT ![c][p] = stock[ItemOf(c, p)] + Delta(c, p)]
    /\ moved' = [moved EXCEPT ![c] = @ \cup {p}]
    /\ UNCHANGED <<rows, windowLock, cartLock, orderLock, inputs, pc, tries,
                   quota, view, announced, bounds>>

-----------------------------------------------------------------------------
(* placeOrder *)

\* Validation and serviceability, before the transaction opens.
Resolve(r) ==
    /\ pc[r] = "idle"
    /\ \/ /\ settings[form[r].store].accepting
          /\ pc' = [pc EXCEPT ![r] = "serviceable"]
       \/ pc' = [pc EXCEPT ![r] = "rejected"]     \* bad form, closed, out of zone
    /\ UNCHANGED <<rows, locks, inputs, tries, quota, view, staged, moved,
                   announced, bounds>>

\* The slot grid, a second read of the settings: a paused shop has no windows,
\* and the capacity found here is the one the locked count is compared with.
ReadGrid(r) ==
    /\ pc[r] = "serviceable"
    /\ quota' = [quota EXCEPT ![r] = settings[form[r].store].slotCapacity]
    /\ \/ /\ settings[form[r].store].accepting
          /\ pc' = [pc EXCEPT ![r] = "trying"]
       \/ pc' = [pc EXCEPT ![r] = "rejected"]     \* paused, too soon, too far ahead
    /\ UNCHANGED <<rows, locks, inputs, tries, view, staged, moved, announced, bounds>>

\* Bug: the count is taken without the window lock.
TakeWindowUnlocked(r) ==
    /\ pc[r] = "trying"
    /\ pc' = [pc EXCEPT ![r] = "counting"]
    /\ UNCHANGED <<rows, locks, inputs, tries, quota, view, staged, moved,
                   announced, bounds>>

TakeWindow(r) ==
    /\ pc[r] = "trying"
    /\ windowLock[WindowOf(r)] = Free
    /\ windowLock' = [windowLock EXCEPT ![WindowOf(r)] = r]
    /\ pc' = [pc EXCEPT ![r] = "counting"]
    /\ UNCHANGED <<rows, cartLock, orderLock, itemLock, inputs, tries, quota,
                   view, staged, moved, announced, bounds>>

\* SlotBusy: give the connection back, sleep, come back; give up at the limit.
WindowBusy(r) ==
    /\ pc[r] = "trying"
    /\ windowLock[WindowOf(r)] # Free
    /\ tries' = [tries EXCEPT ![r] = @ + 1]
    /\ Rollback(r, IF tries[r] + 1 < SlotLockAttempts THEN "trying" ELSE "busy")

\* Bug: off by one against the capacity.
CountWindowInclusive(r) ==
    /\ pc[r] = "counting"
    /\ Cardinality(LiveIn(WindowOf(r))) <= quota[r]
    /\ pc' = [pc EXCEPT ![r] = "locking-cart"]
    /\ UNCHANGED <<rows, locks, inputs, tries, quota, view, staged, moved,
                   announced, bounds>>

CountWindow(r) ==
    /\ pc[r] = "counting"
    /\ Cardinality(LiveIn(WindowOf(r))) < quota[r]
    /\ pc' = [pc EXCEPT ![r] = "locking-cart"]
    /\ UNCHANGED <<rows, locks, inputs, tries, quota, view, staged, moved,
                   announced, bounds>>

WindowFull(r) ==
    /\ pc[r] = "counting"
    /\ Cardinality(LiveIn(WindowOf(r))) >= quota[r]
    /\ Rollback(r, "rejected")
    /\ UNCHANGED tries

\* Bug: an already converted basket is accepted again.
CartAcceptableAgain(r) == cart[form[r].cart].store = form[r].store

\* lockCartForCheckout: waits for the row, then looks at the committed status.
CartAcceptable(r) ==
    /\ cart[form[r].cart].status = "ACTIVE"
    /\ cart[form[r].cart].store = form[r].store

\* Bug: the basket is read but its row is not locked.
LockCartReadOnly(r) ==
    /\ pc[r] = "locking-cart"
    /\ cartLock[form[r].cart] = Free
    /\ CartAcceptable(r)
    /\ pc' = [pc EXCEPT ![r] = "revalidating"]
    /\ UNCHANGED <<rows, locks, inputs, tries, quota, view, staged, moved,
                   announced, bounds>>

LockCart(r) ==
    /\ pc[r] = "locking-cart"
    /\ cartLock[form[r].cart] = Free
    /\ CartAcceptable(r)
    /\ cartLock' = [cartLock EXCEPT ![form[r].cart] = r]
    /\ pc' = [pc EXCEPT ![r] = "revalidating"]
    /\ UNCHANGED <<rows, windowLock, orderLock, itemLock, inputs, tries, quota,
                   view, staged, moved, announced, bounds>>

\* The double-submit guard, and the wrong-shop refusal.
RefuseCart(r) ==
    /\ pc[r] = "locking-cart"
    /\ cartLock[form[r].cart] = Free
    /\ ~CartAcceptable(r)
    /\ Rollback(r, "rejected")
    /\ UNCHANGED tries

\* revalidateForCheckout: lines under the cart lock, listings and stock not.
Orderable(r) ==
    LET lines == cart[form[r].cart].lines
    IN  /\ \E p \in Products : lines[p] > 0
        /\ \A p \in Products : lines[p] > 0 =>
               /\ listed[<<form[r].store, p>>]
               /\ stock[<<form[r].store, p>>] >= lines[p]

Revalidate(r) ==
    /\ pc[r] = "revalidating"
    /\ Orderable(r)
    /\ view' = [view EXCEPT ![r] = cart[form[r].cart].lines]
    /\ pc' = [pc EXCEPT ![r] = "moving"]
    /\ UNCHANGED <<rows, locks, inputs, tries, quota, staged, moved, announced, bounds>>

\* Empty basket, a shortfall (doomed lines come back with the rollback), or a
\* subtotal below the minimum.
RefuseBasket(r) ==
    /\ pc[r] = "revalidating"
    /\ Rollback(r, "rejected")
    /\ UNCHANGED tries

TakeStock(r) ==
    /\ pc[r] = "moving"
    /\ \E p \in Products : IsNext(r, p) /\ ApplyMovement(r, p)

\* The last-unit race, lost: the locked balance is smaller than the one read.
RunShort(r) ==
    /\ pc[r] = "moving"
    /\ \E p \in Products : /\ IsNext(r, p)
                           /\ itemLock[ItemOf(r, p)] = Free
                           /\ stock[ItemOf(r, p)] + Delta(r, p) < 0
    /\ Rollback(r, "rejected")
    /\ UNCHANGED tries

\* createOrder and markConverted, then COMMIT.
CommitOrder(r) ==
    /\ pc[r] = "moving"
    /\ Pending(r) = {}
    /\ PublishMovements(r, "ORDER_PLACED", form[r].cart)
    /\ order' = [order EXCEPT ![r] =
          [status |-> "PLACED", qty |-> view[r], restored |-> Nothing]]
    /\ cart' = [cart EXCEPT ![form[r].cart].status = "CONVERTED"]
    /\ ReleaseAll(r)
    /\ pc' = [pc EXCEPT ![r] = "committed"]
    /\ UNCHANGED <<listed, settings, inputs, tries, quota, view, staged, announced, bounds>>

\* Bug: the event is emitted inside the transaction.
AnnounceEarly(c) ==
    /\ pc[c] \in {"moving", "committed"}
    /\ announced' = announced \cup {c}
    /\ pc' = [pc EXCEPT ![c] = IF pc[c] = "moving" THEN "moving"
                               ELSE IF c \in Requests THEN "placed" ELSE "corrected"]
    /\ UNCHANGED <<rows, locks, inputs, tries, quota, view, staged, moved, bounds>>

\* Bug: a correction commits and says nothing.
AnnounceOrdersOnly(c) ==
    /\ pc[c] = "committed"
    /\ announced' = IF c \in Requests THEN announced \cup {c} ELSE announced
    /\ pc' = [pc EXCEPT ![c] = IF c \in Requests THEN "placed" ELSE "corrected"]
    /\ UNCHANGED <<rows, locks, inputs, tries, quota, view, staged, moved, bounds>>

\* The event goes out after the commit, never before.
Announce(c) ==
    /\ pc[c] = "committed"
    /\ announced' = announced \cup {c}
    /\ pc' = [pc EXCEPT ![c] = IF c \in Requests THEN "placed" ELSE "corrected"]
    /\ UNCHANGED <<rows, locks, inputs, tries, quota, view, staged, moved, bounds>>

-----------------------------------------------------------------------------
(* correctOrder *)

\* What cancelByStore checks once it holds the order row.
Correctable(k) ==
    /\ order[Target(k)].status \in CancellableFrom
    /\ order[Target(k)].status \in BilledStates => ticket[k].voidNote

LockOrder(k) ==
    /\ pc[k] = "idle"
    /\ order[Target(k)].status # "NONE"
    /\ orderLock[Target(k)] = Free
    /\ Correctable(k)
    /\ orderLock' = [orderLock EXCEPT ![Target(k)] = k]
    /\ pc' = [pc EXCEPT ![k] = "restoring"]
    /\ UNCHANGED <<rows, windowLock, cartLock, itemLock, inputs, tries, quota,
                   view, staged, moved, announced, bounds>>

RefuseCorrection(k) ==
    /\ pc[k] = "idle"
    /\ order[Target(k)].status # "NONE"
    /\ orderLock[Target(k)] = Free
    /\ ~Correctable(k)
    /\ Rollback(k, "rejected")
    /\ UNCHANGED tries

RestoreLine(k) ==
    /\ pc[k] = "restoring"
    /\ \E p \in Products : IsNext(k, p) /\ ApplyMovement(k, p)

\* Status, history, stock and stockRestoredQty become visible together.
CommitCorrection(k) ==
    /\ pc[k] = "restoring"
    /\ Pending(k) = {}
    /\ PublishMovements(k, "ADMIN_CORRECTION", Target(k))
    /\ order' = [order EXCEPT ![Target(k)].status = "CANCELLED_BY_STORE",
                              ![Target(k)].restored = order[Target(k)].qty]
    /\ ReleaseAll(k)
    /\ pc' = [pc EXCEPT ![k] = "committed"]
    /\ UNCHANGED <<cart, listed, settings, inputs, tries, quota, view, staged,
                   announced, bounds>>

-----------------------------------------------------------------------------
(* Everybody else, at most MaxMoves steps of them *)

RecordMovement(i, balance, reason) ==
    /\ itemLock[i] = Free
    /\ balance # stock[i]
    /\ stock' = [stock EXCEPT ![i] = balance]
    /\ ledger' = [ledger EXCEPT ![i] =
          Append(@, [delta |-> balance - stock[i], balanceAfter |-> balance,
                     reason |-> reason, ref |-> Free])]
    /\ UNCHANGED <<cart, order, listed, settings>>

\* adjustStock by a signed amount, refused below zero.
Adjust(i) ==
    \E d \in {-1, 1} : stock[i] + d >= 0 /\ RecordMovement(i, stock[i] + d, "MANUAL_ADJUST")

\* reconcileStock: the shelf was counted; an agreeing count moves nothing.
Reconcile(i) ==
    \E counted \in 0 .. OpeningStock : RecordMovement(i, counted, "RECONCILE")

\* applyTransition: any table edge except the cancellation.  No code path flags
\* a price variance on a placed order yet, so the guard never holds one back here.
Advance(o) ==
    /\ orderLock[o] = Free
    /\ \E rule \in Transitions :
          /\ rule.from = order[o].status
          /\ rule.to # "CANCELLED_BY_STORE"
          /\ order' = [order EXCEPT ![o].status = rule.to]
    /\ UNCHANGED <<stock, ledger, cart, listed, settings>>

\* Bug: a basket edit does not wait for a checkout that holds the basket.
EditCartUnlocked(b) ==
    /\ cart[b].status = "ACTIVE"
    /\ \E p \in Products, n \in 0 .. MaxQty :
          cart' = [cart EXCEPT ![b].lines =
              [q \in Products |-> IF ~listed[<<cart[b].store, q>>] THEN 0
                                  ELSE IF q = p THEN n ELSE @[q]]]
    /\ UNCHANGED <<stock, ledger, order, listed, settings>>

\* addItem, setQuantity, removeItem: the revalidation they end with drops every
\* line whose product is no longer listed.
EditCart(b) ==
    /\ cartLock[b] = Free
    /\ cart[b].status = "ACTIVE"
    /\ \E p \in Products, n \in 0 .. MaxQty :
          cart' = [cart EXCEPT ![b].lines =
              [q \in Products |-> IF ~listed[<<cart[b].store, q>>] THEN 0
                                  ELSE IF q = p THEN n ELSE @[q]]]
    /\ UNCHANGED <<stock, ledger, order, listed, settings>>

\* rebuildForStore: lines the new shop cannot supply are dropped.
RebuildCart(b) ==
    /\ cartLock[b] = Free
    /\ cart[b].status = "ACTIVE"
    /\ \E s \in Stores \ {cart[b].store} :
          cart' = [cart EXCEPT ![b].store = s, ![b].lines =
              [q \in Products |-> IF listed[<<s, q>>] /\ stock[<<s, q>>] > 0
                                  THEN @[q] ELSE 0]]
    /\ UNCHANGED <<stock, ledger, order, listed, settings>>

SetListed(i) ==
    /\ listed' = [listed EXCEPT ![i] = ~@]
    /\ UNCHANGED <<stock, ledger, cart, order, settings>>

UpdateSettings(s) ==
    /\ \E open \in BOOLEAN, n \in 1 .. MaxCapacity :
          settings' = [settings EXCEPT ![s] = [accepting |-> open, slotCapacity |-> n]]
    /\ UNCHANGED <<stock, ledger, cart, order, listed>>

OtherPeople ==
    /\ moves < MaxMoves
    /\ moves' = moves + 1
    /\ \/ \E i \in Items : Adjust(i) \/ Reconcile(i) \/ SetListed(i)
       \/ \E o \in Requests : Advance(o)
       \/ \E b \in Carts : EditCart(b) \/ RebuildCart(b)
       \/ \E s \in Stores : UpdateSettings(s)
    /\ UNCHANGED <<locks, inputs, pc, tries, quota, view, staged, moved,
                   announced, crashes>>

-----------------------------------------------------------------------------
(* Failures *)

\* The transaction times out, loses its connection or breaks a unique index.
Abort(c) ==
    /\ pc[c] \in InTransaction
    /\ Rollback(c, "failed")
    /\ UNCHANGED tries

\* The server process dies: open transactions roll back, and a call that had
\* committed but not yet emitted never emits.
Crash ==
    /\ crashes < MaxCrashes
    /\ crashes' = crashes + 1
    /\ pc' = [c \in Calls |-> IF pc[c] \in Answered \cup {"idle"} THEN pc[c] ELSE "lost"]
    /\ windowLock' = [w \in Windows |-> Free]
    /\ cartLock'   = [b \in Carts |-> Free]
    /\ orderLock'  = [o \in Requests |-> Free]
    /\ itemLock'   = [i \in Items |-> Free]
    /\ moved'      = [c \in Calls |-> {}]
    /\ UNCHANGED <<rows, inputs, tries, quota, view, staged, announced, moves>>

-----------------------------------------------------------------------------
(* Specification *)

NoOrder == [status |-> "NONE", qty |-> Nothing, restored |-> Nothing]

Init ==
    /\ stock = [i \in Items |-> OpeningStock]
    /\ ledger = [i \in Items |-> << >>]
    /\ cart \in [Carts -> [status : {"ACTIVE"}, store : Stores, lines : Baskets]]
    /\ order = [r \in Requests |-> NoOrder]
    /\ listed = [i \in Items |-> TRUE]
    /\ settings \in [Stores -> [accepting : {TRUE}, slotCapacity : 1 .. MaxCapacity]]
    /\ windowLock = [w \in Windows |-> Free]
    /\ cartLock = [b \in Carts |-> Free]
    /\ orderLock = [o \in Requests |-> Free]
    /\ itemLock = [i \in Items |-> Free]
    /\ form \in [Requests -> Forms]
    /\ ticket \in [Corrections -> Tickets]
    /\ pc = [c \in Calls |-> "idle"]
    /\ tries = [r \in Requests |-> 0]
    /\ quota = [r \in Requests |-> 0]
    /\ view = [r \in Requests |-> Nothing]
    /\ staged = [c \in Calls |-> Nothing]
    /\ moved = [c \in Calls |-> {}]
    /\ announced = {}
    /\ moves = 0
    /\ crashes = 0

\* What the server does for a call once it has arrived.
PlacementStep(r) ==
    \/ ReadGrid(r) \/ TakeWindow(r) \/ WindowBusy(r) \/ CountWindow(r) \/ WindowFull(r)
    \/ LockCart(r) \/ RefuseCart(r) \/ Revalidate(r) \/ RefuseBasket(r)
    \/ TakeStock(r) \/ RunShort(r) \/ CommitOrder(r)

CorrectionStep(k) ==
    LockOrder(k) \/ RefuseCorrection(k) \/ RestoreLine(k) \/ CommitCorrection(k)

Next ==
    \/ \E r \in Requests : Resolve(r) \/ PlacementStep(r)
    \/ \E k \in Corrections : CorrectionStep(k)
    \/ \E c \in Calls : Announce(c) \/ Abort(c)
    \/ OtherPeople
    \/ Crash

Spec == Init /\ [][Next]_vars

\* The server keeps executing the statements of a call it has started, and
\* PostgreSQL hands a released row lock to a waiter.
Fairness ==
    /\ \A r \in Requests : WF_vars(PlacementStep(r) \/ Announce(r))
    /\ \A k \in Corrections : WF_vars(CorrectionStep(k) \/ Announce(k))

FairSpec == Spec /\ Fairness

-----------------------------------------------------------------------------
(* Properties *)

\* A delivery window never holds more live orders than the largest capacity the
\* shop ever set: the count is taken under the window lock, which is held until
\* the order it admits is committed (checkout/service.ts placeOrder).
SlotNeverOverbooked ==
    \A w \in Windows : Cardinality(LiveIn(w)) <= MaxCapacity

\* An order is admitted only while its window, at the moment of the commit, has
\* room under the capacity that placement itself was quoted.
AdmittedUnderQuota ==
    [][\A r \in Requests :
          order[r].status = "NONE" /\ order'[r].status # "NONE"
              => Cardinality(LiveIn(WindowOf(r))) < quota[r]]_vars

LedgerRows(i, reason, ref) ==
    {n \in 1 .. Len(ledger[i]) : ledger[i][n].reason = reason /\ ledger[i][n].ref = ref}

\* Rows of one kind for one reference are exactly one row of this delta, or
\* none when the delta is zero.
ExactlyOnce(rowset, i, delta) ==
    IF delta = 0 THEN rowset = {}
    ELSE \E n \in rowset : rowset = {n} /\ ledger[i][n].delta = delta

\* Every order line left the shelf exactly once and a cancelled one came back
\* exactly once: no sale without an order, no unit given back twice, whatever
\* the crashes, retries and rival corrections.
MovementsMatchOrders ==
    \A i \in Items :
        /\ \A o \in Requests : order[o].status # "NONE" /\ form[o].store = i[1] =>
              /\ ExactlyOnce(LedgerRows(i, "ORDER_PLACED", form[o].cart), i,
                             - order[o].qty[i[2]])
              /\ ExactlyOnce(LedgerRows(i, "ADMIN_CORRECTION", o), i,
                             IF order[o].status = "CANCELLED_BY_STORE"
                             THEN order[o].qty[i[2]] ELSE 0)
        /\ \A n \in 1 .. Len(ledger[i]) :
              /\ ledger[i][n].reason = "ORDER_PLACED" =>
                    \E o \in Requests : /\ order[o].status # "NONE"
                                        /\ form[o].cart = ledger[i][n].ref
                                        /\ form[o].store = i[1]
              /\ ledger[i][n].reason = "ADMIN_CORRECTION" =>
                    order[ledger[i][n].ref].status = "CANCELLED_BY_STORE"

\* A basket becomes at most one order, is CONVERTED exactly when it has, and the
\* order holds what the basket held: a double submit, two submits into two
\* windows, or an edit racing the checkout never changes that.
BasketBecomesOneOrder ==
    \A b \in Carts :
        LET mine == {o \in Requests : order[o].status # "NONE" /\ form[o].cart = b}
        IN  /\ \A o1, o2 \in mine : o1 = o2
            /\ cart[b].status = "CONVERTED" <=> mine # {}
            /\ \A o \in mine : order[o].qty = cart[b].lines /\ form[o].store = cart[b].store

\* Whose lock a blocked call is waiting for.
WaitsFor(c, holder) ==
    /\ holder # c
    /\ \/ pc[c] = "locking-cart" /\ cartLock[form[c].cart] = holder
       \/ /\ pc[c] \in {"moving", "restoring"}
          /\ \E p \in Products : IsNext(c, p) /\ itemLock[ItemOf(c, p)] = holder
       \/ /\ c \in Corrections
          /\ pc[c] = "idle" /\ orderLock[Target(c)] = holder

\* No group of calls is ever waiting on itself: the locks are taken in one
\* global order, so PostgreSQL never has to kill a placement as a deadlock.
NoWaitCycle ==
    \A group \in (SUBSET Calls) \ {{}} :
        \E c \in group : \A d \in group : ~WaitsFor(c, d)

\* Every placement that passed the storefront checks is answered, one way or
\* another: retries are bounded and every wait ends.
EveryPlacementAnswered ==
    \A r \in Requests : pc[r] = "trying" ~> pc[r] \in Answered

\* Events match commits: one is only ever emitted for a call whose change is
\* committed, and a committed call announces itself unless the server dies in
\* between.
EventsMatchCommits ==
    /\ [](\A c \in announced :
            IF c \in Requests THEN order[c].status # "NONE"
            ELSE order[Target(c)].status = "CANCELLED_BY_STORE")
    /\ \A c \in Calls : pc[c] = "committed" ~> (c \in announced \/ pc[c] = "lost")

\* Placing and correcting orders is atomic: whatever the interleaving, every
\* commit is one indivisible step of OrderBook, and nothing else shows.
Book == INSTANCE OrderBook
        WITH stock <- stock, cart <- cart, order <- order, form <- form
OrdersAreAtomic == Book!Spec
=============================================================================
