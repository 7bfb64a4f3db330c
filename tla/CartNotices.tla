----------------------------- MODULE CartNotices -----------------------------
(***************************************************************************)
(* What a basket asserts and what its shopper has been told about it       *)
(* (cart/service.ts, cart/domain/index.ts and the pages that read it).     *)
(*                                                                         *)
(* Every view and every mutation revalidates the basket: unlisted lines    *)
(* go, snapshots are brought up to the shop's price.  That consumes the    *)
(* difference, so whoever revalidates has to pass it on: a page shows it,  *)
(* addItem answers with it, and every mutation leaves it on the cart row   *)
(* for the next page.  One basket, open in several tabs, while the staff   *)
(* of the shops change prices and listings.                                *)
(***************************************************************************)
EXTENDS Naturals, FiniteSets

CONSTANTS
    Stores,
    Products,
    Prices,   \* positive; 0 is the snapshot of a product not in the basket
    MaxQty,   \* MAX_LINE_QUANTITY
    Calls,    \* requests being served, of any tab
    Quiet,    \* a notice that says nothing of a product
    Free      \* the holder of the cart row when nobody holds it

ASSUME NoticeConstants ==
    /\ Prices \subseteq Nat \ {0}
    /\ MaxQty \in Nat \ {0}
    /\ Quiet \notin Nat
    /\ Free \notin Calls

VARIABLES
    price,     \* selling price of each product in each shop
    sold,      \* what each shop lists, of the active products
    store,     \* the shop of the basket
    status,    \* the basket's status
    qty,       \* CartItem.qty, 0 without a line
    snapshot,  \* CartItem.unitPriceSnapshotPaise, 0 without a line
    notice,    \* pendingNoticeJson: a product's new price, 0 for a removal, or Quiet
    moved,     \* products named by the cookie that tells of a change of shop
    cartLock,  \* row lock of the cart
    pc, job,   \* where each request is and what it asks
    copy,      \* quantities a request read under the lock
    quote,     \* prices a request read before it wrote, 0 for what cannot be had
    known,     \* what the shopper was told: a price, or 0 for not in the basket
    missed,    \* why the shopper was last not told of a product, or "nothing"
    asked,     \* the quantities the served requests add up to
    origin     \* the shop whose page a line was added from, or moved to

shops   == <<price, sold>>
rows    == <<store, status, qty, snapshot, notice>>
shopper == <<known, missed, asked, origin>>
calls   == <<cartLock, pc, job, copy, quote>>
vars    == <<price, sold, store, status, qty, snapshot, notice, moved,
             cartLock, pc, job, copy, quote, known, missed, asked, origin>>

-----------------------------------------------------------------------------
(* Requests *)

\* A request is served for the shop of its tab's delivery area.
Jobs ==
    [kind : {"add"}, shop : Stores, product : Products]
        \cup [kind : {"set"}, shop : Stores, product : Products, qty : 1..MaxQty]
        \cup [kind : {"remove"}, shop : Stores, product : Products]
        \cup [kind : {"move", "place"}, shop : Stores]
        \cup [kind : {"view"}, shop : Stores, page : {"cart", "checkout", "browse"}]

NoJob == [kind |-> "none"]

NothingRead == [p \in Products |-> 0]

Lines == {p \in Products : qty[p] > 0}

Smaller(m, n) == IF m < n THEN m ELSE n

-----------------------------------------------------------------------------
(* Revalidation of lines with quantities q and snapshots s at a shop *)

Unlisted(q, at) == {p \in Products : q[p] > 0 /\ p \notin sold[at]}

Kept(q, at) == [p \in Products |-> IF p \in Unlisted(q, at) THEN 0 ELSE q[p]]

\* noticeFrom: the removals and the price moves a revalidation found.
Findings(q, s, at) ==
    [p \in Products |->
        IF p \in Unlisted(q, at) THEN 0
        ELSE IF q[p] > 0 /\ s[p] # price[at][p] THEN price[at][p]
        ELSE Quiet]

Found(f) == {p \in Products : f[p] # Quiet}

\* revalidateInTx: unlisted lines go, snapshots follow the shop's price.
Revalidate(q, at) ==
    /\ qty' = Kept(q, at)
    /\ snapshot' = [p \in Products |-> IF Kept(q, at)[p] > 0 THEN price[at][p] ELSE 0]

-----------------------------------------------------------------------------
(* What the shopper is told *)

Hears(f, before) == [p \in Products |-> IF f[p] # Quiet THEN f[p] ELSE before[p]]

\* Products whose line is not what the shopper was told.
Unsaid == {p \in Products : known[p] # snapshot[p]}

Causes == {"replaced", "expired", "undelivered", "outdated", "browsed", "charged"}

\* What was missed stays missed until the shopper is told; M is missed now.
Miss(M, cause) ==
    missed' = [p \in Products |->
        IF p \notin Unsaid' THEN "nothing" ELSE IF p \in M THEN cause ELSE missed[p]]

\* The transaction commits or rolls back and the request is answered.
Finish(c) ==
    /\ cartLock' = IF cartLock = c THEN Free ELSE cartLock
    /\ pc' = [pc EXCEPT ![c] = "idle"]
    /\ job' = [job EXCEPT ![c] = NoJob]
    /\ copy' = [copy EXCEPT ![c] = NothingRead]
    /\ quote' = [quote EXCEPT ![c] = NothingRead]

Working(c, kind) == pc[c] = "working" /\ job[c].kind = kind

-----------------------------------------------------------------------------
(* Steps of a request *)

\* What a request reads before it writes: the lines, the listing of the product to
\* add, the listings and the stock of the shop to move to.
Read(c) ==
    /\ copy' = [copy EXCEPT ![c] = qty]
    /\ \E had \in SUBSET sold[job'[c].shop] :
          /\ job'[c].kind # "move" => had = sold[job'[c].shop]
          /\ quote' = [quote EXCEPT ![c] =
                [p \in Products |-> IF p \in had THEN price[job'[c].shop][p] ELSE 0]]

\* Bug: the basket is read and changed without its row lock.
RowIsFreeUnlocked == TRUE

\* lockCartByToken
RowIsFree == cartLock = Free

\* lockActiveCart
MayBeUsed == status = "ACTIVE"

\* lockActiveCart, with which every use of a basket begins: a request that waits
\* for the row has read nothing that counts.
Begin(c) ==
    /\ pc[c] = "idle"
    /\ RowIsFree
    /\ MayBeUsed
    /\ cartLock' = c
    /\ \E j \in Jobs : job' = [job EXCEPT ![c] = j]
    /\ pc' = [pc EXCEPT ![c] = "working"]
    /\ Read(c)
    /\ UNCHANGED <<shops, rows, moved, shopper>>

\* A basket action drops the cookie about the move, whatever becomes of it.
\* A refusal, a timeout or a crash rolls everything else back.
Refuse(c) ==
    /\ pc[c] # "idle"
    /\ Finish(c)
    /\ moved' = IF job[c].kind \in {"add", "set", "remove"} THEN {} ELSE moved
    /\ UNCHANGED <<shops, rows, known, asked, origin>>
    /\ Miss(moved \ moved', "replaced")

\* Bug: a top-up takes today's price for its snapshot.
AddedAtTodaysPrice(c, p) == quote[c][p]

\* A line that is there keeps the price its shopper saw.
AddedAt(c, p) == IF copy[c][p] > 0 THEN snapshot[p] ELSE quote[c][p]

\* addItem, once the listing was found: the answer names what the revalidation
\* found, if it arrives.
AddItem(c) ==
    /\ Working(c, "add")
    /\ job[c].shop = store
    /\ LET p == job[c].product
           q == [qty EXCEPT ![p] = Smaller(copy[c][p] + 1, MaxQty)]
           s == [snapshot EXCEPT ![p] = AddedAt(c, p)]
           f == Findings(q, s, store)
           heard == [known EXCEPT ![p] = IF copy[c][p] > 0 THEN @ ELSE quote[c][p]]
       IN /\ quote[c][p] > 0
          /\ Revalidate(q, store)
          /\ notice' = f
          /\ known' \in {heard, Hears(f, heard)}
          /\ asked' = Kept([asked EXCEPT ![p] = Smaller(@ + 1, MaxQty)], store)
          /\ origin' = [origin EXCEPT ![p] = IF copy[c][p] > 0 THEN @ ELSE job[c].shop]
          /\ Miss((Found(notice) \ Found(f)) \cup moved, "replaced")
    /\ moved' = {}
    /\ Finish(c)
    /\ UNCHANGED <<shops, store, status>>

\* setQuantity of a line that is there, and removeItem: the findings stay on the
\* row for the page.
ChangeLine(c, n) ==
    /\ job[c].shop = store
    /\ LET p == job[c].product
           q == [qty EXCEPT ![p] = n]
           f == Findings(q, snapshot, store)
       IN /\ Revalidate(q, store)
          /\ notice' = f
          /\ known' = [known EXCEPT ![p] = IF n = 0 THEN 0 ELSE @]
          /\ asked' = Kept([asked EXCEPT ![p] = n], store)
          /\ Miss((Found(notice) \ Found(f)) \cup moved, "replaced")
    /\ moved' = {}
    /\ Finish(c)
    /\ UNCHANGED <<shops, store, status, origin>>

SetQuantity(c) ==
    /\ Working(c, "set")
    /\ copy[c][job[c].product] > 0
    /\ ChangeLine(c, job[c].qty)

RemoveItem(c) == Working(c, "remove") /\ ChangeLine(c, 0)

\* rebuildForStore within the same shop revalidates; the cookie is dropped.
StayAtStore(c) ==
    /\ Working(c, "move")
    /\ job[c].shop = store
    /\ LET f == Findings(qty, snapshot, store)
       IN /\ Revalidate(qty, store)
          /\ notice' = f
          /\ asked' = Kept(asked, store)
          /\ UNCHANGED known
          /\ Miss((Found(notice) \ Found(f)) \cup moved, "replaced")
    /\ moved' = {}
    /\ Finish(c)
    /\ UNCHANGED <<shops, store, status, origin>>

\* Bug: the lines are merged into the new shop's, not replaced.
CarriedMerged(c) == qty

\* The lines the new shop lists and has in stock.
Carried(c) == [p \in Products |-> IF quote[c][p] > 0 THEN qty[p] ELSE 0]

\* rebuildForStore: the lines are replaced at the new shop's prices, and the
\* answer, if it arrives, sets the cookie that names them.
MoveToStore(c) ==
    /\ Working(c, "move")
    /\ job[c].shop # store
    /\ LET to == job[c].shop
           f == Findings(Carried(c), quote[c], to)
       IN /\ store' = to
          /\ Revalidate(Carried(c), to)
          /\ notice' = f
          /\ moved' \in {Lines, moved}
          /\ asked' = Kept([p \in Products |-> IF quote[c][p] > 0 THEN asked[p] ELSE 0], to)
          /\ origin' = [p \in Products |-> IF quote[c][p] > 0 THEN to ELSE origin[p]]
          /\ UNCHANGED known
          /\ Miss((Found(notice) \cup Lines \cup moved) \ (Found(f) \cup moved'),
                  IF moved' = Lines THEN "replaced" ELSE "undelivered")
    /\ Finish(c)
    /\ UNCHANGED <<shops, status>>

\* viewCart for the basket or the checkout page: the page, if it arrives, shows
\* what is on the row and what this revalidation found, which is said only once.
ViewCart(c) ==
    /\ Working(c, "view")
    /\ job[c].page # "browse"
    /\ job[c].shop = store
    /\ Revalidate(qty, store)
    /\ LET f == Findings(qty, snapshot, store)
           cookie == [p \in Products |->
                        IF job[c].page = "cart" /\ p \in moved THEN snapshot'[p] ELSE Quiet]
           page == Hears(f, Hears(notice, Hears(cookie, known)))
       IN \/ known' = page /\ Miss(Found(notice), "outdated")
          \/ known' = known /\ Miss(Found(f), "undelivered")
    /\ asked' = Kept(asked, store)
    /\ Finish(c)
    /\ UNCHANGED <<shops, store, status, notice, moved, origin>>

\* getCartQuantities on the browse pages: viewCart, of which only the quantities
\* are used.
ViewQuantities(c) ==
    /\ Working(c, "view")
    /\ job[c].page = "browse"
    /\ job[c].shop = store
    /\ Revalidate(qty, store)
    /\ asked' = Kept(asked, store)
    /\ Finish(c)
    /\ UNCHANGED <<shops, store, status, notice, moved, known, origin>>
    /\ Miss(Found(Findings(qty, snapshot, store)), "browsed")

\* placeOrder: nothing may have become unlisted; what became dearer is charged.
PlaceOrder(c) ==
    /\ Working(c, "place")
    /\ job[c].shop = store
    /\ Lines # {}
    /\ Unlisted(qty, store) = {}
    /\ Revalidate(qty, store)
    /\ status' = "CONVERTED"
    /\ Finish(c)
    /\ UNCHANGED <<shops, store, notice, moved, known, asked, origin>>
    /\ Miss(Found(Findings(qty, snapshot, store)), "charged")

-----------------------------------------------------------------------------
(* The staff and the clock *)

SetPrice(s, p, v) ==
    /\ price' = [price EXCEPT ![s][p] = v]
    /\ UNCHANGED <<sold, rows, moved, calls, shopper>>

\* setListed, or activating and discontinuing the product.
SetListed(s, p) ==
    /\ sold' = [sold EXCEPT ![s] = IF p \in @ THEN @ \ {p} ELSE @ \cup {p}]
    /\ UNCHANGED <<price, rows, moved, calls, shopper>>

\* CART_NOTICE_TTL_MS after the mutation its notice is no longer shown, and a
\* minute after the move the cookie is gone.
Expire ==
    /\ notice' \in {notice, [p \in Products |-> Quiet]}
    /\ moved' \in {moved, {}}
    /\ UNCHANGED <<shops, store, status, qty, snapshot, calls, known, asked, origin>>
    /\ Miss((Found(notice) \ Found(notice')) \cup (moved \ moved'), "expired")

-----------------------------------------------------------------------------
(* Specification *)

Init ==
    /\ price \in [Stores -> [Products -> Prices]]
    /\ sold \in [Stores -> SUBSET Products]
    /\ store \in Stores
    /\ status = "ACTIVE"
    /\ qty = NothingRead
    /\ snapshot = NothingRead
    /\ notice = [p \in Products |-> Quiet]
    /\ moved = {}
    /\ cartLock = Free
    /\ pc = [c \in Calls |-> "idle"]
    /\ job = [c \in Calls |-> NoJob]
    /\ copy = [c \in Calls |-> NothingRead]
    /\ quote = [c \in Calls |-> NothingRead]
    /\ known = NothingRead
    /\ missed = [p \in Products |-> "nothing"]
    /\ asked = NothingRead
    /\ origin = [p \in Products |-> store]

Serve(c) ==
    \/ Begin(c) \/ Refuse(c)
    \/ AddItem(c) \/ SetQuantity(c) \/ RemoveItem(c)
    \/ StayAtStore(c) \/ MoveToStore(c)
    \/ ViewCart(c) \/ ViewQuantities(c) \/ PlaceOrder(c)

Next ==
    \/ \E c \in Calls : Serve(c)
    \/ \E s \in Stores, p \in Products : SetListed(s, p) \/ \E v \in Prices : SetPrice(s, p, v)
    \/ Expire

Spec == Init /\ [][Next]_vars

-----------------------------------------------------------------------------
(* Properties *)

TypeOK ==
    /\ price \in [Stores -> [Products -> Prices]]
    /\ sold \in [Stores -> SUBSET Products]
    /\ store \in Stores
    /\ status \in {"ACTIVE", "CONVERTED"}
    /\ qty \in [Products -> 0..MaxQty]
    /\ snapshot \in [Products -> Prices \cup {0}]
    /\ notice \in [Products -> Prices \cup {0, Quiet}]
    /\ moved \subseteq Products
    /\ cartLock \in Calls \cup {Free}
    /\ pc \in [Calls -> {"idle", "working"}]
    /\ job \in [Calls -> Jobs \cup {NoJob}]
    /\ copy \in [Calls -> [Products -> 0..MaxQty]]
    /\ quote \in [Calls -> [Products -> Prices \cup {0}]]
    /\ known \in [Products -> Prices \cup {0}]
    /\ missed \in [Products -> Causes \cup {"nothing"}]
    /\ asked \in [Products -> 0..MaxQty]
    /\ origin \in [Products -> Stores]

\* Whoever works on the basket holds its row: it is active, and what was read of it
\* is what it holds.
WorksAlone ==
    \A c \in Calls :
        pc[c] = "working" => /\ cartLock = c
                             /\ job[c] \in Jobs
                             /\ status = "ACTIVE"
                             /\ copy[c] = qty

\* A line has a price and only a line has one.
LinesArePriced == \A p \in Products : qty[p] = 0 <=> snapshot[p] = 0

\* The inductive invariant the theorems rest on.
BasketInv == TypeOK /\ WorksAlone /\ LinesArePriced

\* A basket changes behind its shopper's back in known ways only.  Whenever a line
\* is not what its shopper was last told (a price moved, a line went), the change
\* is on record for the next page, or named by the cookie of the move, or was
\* missed for one of the causes the code leaves open: a later mutation replaced
\* the record, it expired, an answer was lost, an old notice was repeated, a
\* browse page or the order itself consumed it.
ToldOrOwed ==
    \A p \in Unsaid :
        notice[p] = snapshot[p] \/ p \in moved \/ missed[p] \in Causes

\* No addition is lost between two tabs: a line holds what the served requests
\* asked for, up to the largest quantity a line may have.
AddsAreCounted == qty = asked

\* The basket holds one shop's goods: every line was added from the pages of the
\* shop the basket is now at, or moved there with it.
OneShop == \A p \in Lines : origin[p] = store

\* Once the basket was sold nothing changes it any more, whatever tabs still ask.
SoldBasketIsFrozen == [][status = "CONVERTED" => UNCHANGED <<store, status, qty, snapshot>>]_vars
=============================================================================
