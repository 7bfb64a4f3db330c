----------------------------- MODULE BackOffice -----------------------------
(***************************************************************************)
(* The screens of the back office (app/(admin)/admin) and the reads behind *)
(* them (admin/service.ts).                                                *)
(*                                                                         *)
(* A screen takes its principal once and reads afterwards; the colleagues  *)
(* go on working in between, and an administrator may take the viewer's    *)
(* role, shop or account away.  A screen that has been shown stays open    *)
(* for as long as its viewer leaves it; a button pressed on it starts a    *)
(* request with a principal of its own.                                    *)
(***************************************************************************)
EXTENDS StaffAccounts, OrderStates, Sequences

CONSTANTS
    Orders,          \* numbered as the queue sorts them: by delivery window
    FirstOrders,     \* what the orders may be at the start
    ByCode,          \* the shops, sorted by code
    ListLimit,       \* rows a list or the audit log returns at most
    MaxScreenSteps   \* bound: screens, presses and colleagues' commits

VARIABLES
    order,     \* each order: its shop, status, variance flag and confirmation
    trace,     \* the audit log: who acted, and the shop stamped on the entry
    viewing,   \* the screen being put together, or Nothing
    screen,    \* the screen that is open, or Nothing
    press,     \* a button pressed and not yet served, or Nothing
    screenSteps

screenRows == <<order, trace, viewing, screen, press, screenSteps>>
screenVars == <<request, staffRows, screenRows>>

Order == [shop : Stores, status : Statuses, flagged : BOOLEAN, confirmed : BOOLEAN]

ASSUME BackOfficeConstants ==
    /\ Orders \subseteq Nat /\ IsFiniteSet(Orders)
    /\ FirstOrders \subseteq [Orders -> Order]
    /\ ByCode \in Seq(Stores) /\ ByCode # <<>>
    /\ ListLimit \in Nat \ {0} /\ MaxScreenSteps \in Nat

-----------------------------------------------------------------------------
(* What a screen needs to read, and the forms it offers *)

\* A read names no shop but the principal's own, or the shop the screen shows.
Own(action) == [action |-> action, on |-> "own"]
OfShop(action) == [action |-> action, on |-> "shop"]

StoreList == Own("store:read")
UserList == Own("user:read")
AuditList == Own("audit-log:read")
CategoryList == Own("category:read")
ProductList == Own("product:read")
ListingList == OfShop("store-product:read")
PriceHistory == OfShop("price-change:read")
StockList == OfShop("inventory:read")
LowStockList == OfShop("inventory:read")
ImportList == OfShop("inventory:read")
Ledger == OfShop("stock-ledger:read")
OrderQueue == OfShop("order:read")
OrderCounts == OfShop("order:read")
Settings == OfShop("store-settings:read")
ZoneList == OfShop("delivery-zone:read")
AreaList == OfShop("delivery-area:read")
RequestList == OfShop("product-request:read")
RequestCounts == OfShop("product-request:read")

\* overview, listingRows, stockRows: what admin puts together for its screens.
Overview == {StoreList, ProductList, CategoryList, ListingList, LowStockList}
ListingRows == {ListingList, ProductList}
StockRows == {StockList, ProductList, ListingList}

Page(reads, offers) == [reads |-> reads, offers |-> offers]
ForAdmins(p, offers) == IF p.role = "SUPER_ADMIN" THEN offers ELSE {}

\* The count of orders is tried apart; without it the overview says Unavailable.
OverviewPage(p) == Page(Overview, {})
OrdersPage(p) == Page({StoreList, OrderQueue}, {})
InventoryPage(p) ==
    Page({StoreList, LowStockList, Ledger, ImportList} \cup StockRows,
         {"inventory:adjust", "inventory:reconcile", "inventory:import"})
ListingsPage(p) ==
    Page({StoreList, PriceHistory} \cup ListingRows,
         {"store-product:list", "store-product:set-price"})
ProductsPage(p) ==
    Page({ProductList, CategoryList}, ForAdmins(p, {"product:write", "product-image:write"}))
ZonesPage(p) ==
    Page({StoreList, ZoneList, AreaList}, {"delivery-zone:write", "delivery-area:write"})
StoresPage(p) ==
    Page({StoreList, Settings},
         {"store-settings:update"} \cup ForAdmins(p, {"store:create", "store:update"}))
UsersPage(p) ==
    Page({UserList, StoreList},
         {"user:create", "user:update", "user:disable", "user:reset-password"})
AuditPage(p) == Page({AuditList}, {})
ReportsPage(p) == Page(Overview \cup {OrderCounts}, {})
RequestsPage(p) ==
    Page({StoreList, RequestList, RequestCounts},
         IF p.role = "STORE_STAFF" THEN {} ELSE {"product-request:manage"})
CategoriesPage(p) == Page({CategoryList}, {"category:write"})

\* One order: found within the principal's scope or not at all.
OrderPage(p) == Page({}, {"order:cancel", "order:confirm-variance"})

\* The second factor of one's own account, and two screens that hold no data.
PlainPage(p) == Page({}, {})

PageOf(p, name) ==
    CASE name = "overview" -> OverviewPage(p) [] name = "orders" -> OrdersPage(p)
      [] name = "order" -> OrderPage(p) [] name = "inventory" -> InventoryPage(p)
      [] name = "listings" -> ListingsPage(p) [] name = "products" -> ProductsPage(p)
      [] name = "zones" -> ZonesPage(p) [] name = "stores" -> StoresPage(p)
      [] name = "users" -> UsersPage(p) [] name = "audit" -> AuditPage(p)
      [] name = "reports" -> ReportsPage(p) [] name = "requests" -> RequestsPage(p)
      [] name = "categories" -> CategoriesPage(p) [] OTHER -> PlainPage(p)

\* navigationFor
StaffLinks ==
    {"overview", "orders", "inventory", "listings", "products", "zones", "stores",
     "two-factor", "fulfillment", "pos"}
ManagerLinks == StaffLinks \cup {"users", "audit", "reports", "requests"}

\* Bug: staff are shown the links of a manager.
SameNavigation(role) ==
    IF role = "SUPER_ADMIN" THEN ManagerLinks \cup {"categories"} ELSE ManagerLinks

Navigation(role) ==
    CASE role = "SUPER_ADMIN" -> ManagerLinks \cup {"categories"}
      [] role = "STORE_MANAGER" -> ManagerLinks
      [] OTHER -> StaffLinks

Screens == ManagerLinks \cup {"order", "categories"}

\* resolveStoreId: the query string counts for an administrator only.
Resolved(p, asked) ==
    IF p.role # "SUPER_ADMIN" THEN p.store
    ELSE IF asked # Nothing THEN asked ELSE ByCode[1]

-----------------------------------------------------------------------------
(* What the reads return *)

\* storeScopeFilter
InScope(p, store) == Unscoped(p) \/ p.store = store

\* ACTIONABLE_ORDER_STATUSES
Actionable == CancellableFrom \cup {"OUT_FOR_DELIVERY", "DELIVERY_FAILED"}

\* The first of S by number, ListLimit of them at most.
FirstOf(S) == {o \in S : Cardinality({x \in S : x < o}) < ListLimit}

\* Bug: the page is cut first and the statuses are sorted out afterwards.
QueueCutFirst(p, store, all) ==
    {o \in FirstOf({x \in Orders : InScope(p, order[x].shop) /\ order[x].shop = store}) :
        all \/ order[o].status \in Actionable}

\* queueForStore, listForPrincipal
Queue(p, store, all) ==
    FirstOf({o \in Orders : /\ InScope(p, order[o].shop) /\ order[o].shop = store
                            /\ all \/ order[o].status \in Actionable})

\* orderCountsForStore, summed over the actionable statuses: no page, a count.
ActionableCount(p, store) ==
    Cardinality({o \in Orders : /\ InScope(p, order[o].shop) /\ order[o].shop = store
                                /\ order[o].status \in Actionable})

\* listVisibleUsers: by shop and by the roles one manages.
VisibleUsers(p) ==
    {u \in Users : /\ account[u] # Nothing
                   /\ InScope(p, account[u].store)
                   /\ account[u].role \in RolesUnder(p)}

\* Bug: an entry belongs to the shop its actor works in today.
AuditByActor(p) ==
    LET mine == {i \in DOMAIN trace : InScope(p, account[trace[i].by].store)}
    IN  {i \in mine : Cardinality({j \in mine : j > i}) < ListLimit}

\* listAuditEntries: the newest of the entries stamped with one's shop.
AuditEntries(p) ==
    LET mine == {i \in DOMAIN trace : InScope(p, trace[i].store)}
    IN  {i \in mine : Cardinality({j \in mine : j > i}) < ListLimit}

\* Everything a screen reads is granted, in the shop it shows.
MayShow(v) ==
    \A read \in PageOf(v.as, v.name).reads :
        Authorized(v.as, read.action, IF read.on = "own" THEN v.as.store ELSE v.store)

\* findForPrincipal, then order:read on the row.
Finds(v) ==
    /\ InScope(v.as, order[v.order].shop)
    /\ Authorized(v.as, "order:read", order[v.order].shop)

\* The order page asks how the bill was voided when the row it read has a bill,
\* and offers what the row allows.
NeedsNote(o) == order[o].status \in BilledStates
Offered(v) ==
    IF v.name = "order"
    THEN {a \in OrderPage(v.as).offers :
            IF a = "order:cancel" THEN order[v.order].status \in CancellableFrom
            ELSE order[v.order].flagged /\ ~order[v.order].confirmed}
    ELSE PageOf(v.as, v.name).offers

\* The screen as it is read now.
Rendered(v) ==
    [of |-> v,
     refused |-> ~(MayShow(v) /\ (v.name = "order" => Finds(v))),
     orders |-> IF v.name = "orders" THEN Queue(v.as, v.store, v.all)
                ELSE IF v.name = "order" THEN {v.order} ELSE {},
     count |-> IF v.name \in {"overview", "reports"} THEN ActionableCount(v.as, v.store) ELSE 0,
     users |-> IF v.name = "users" THEN VisibleUsers(v.as) ELSE {},
     entries |-> IF v.name = "audit" THEN AuditEntries(v.as) ELSE {},
     offers |-> Offered(v),
     note |-> v.name = "order" /\ NeedsNote(v.order)]

-----------------------------------------------------------------------------
(* The viewer *)

Stepped == screenSteps < MaxScreenSteps /\ screenSteps' = screenSteps + 1

SignedIn == {c.user : c \in {d \in cookies : IsActive(d.user)}}

\* requirePrincipal, and the screen's query string.
OpenScreen ==
    /\ Stepped /\ viewing = Nothing /\ press = Nothing
    /\ \E u \in SignedIn, name \in Screens :
       \E store \in {Resolved(Principal(u), asked) : asked \in Stores \cup {Nothing}},
          o \in IF name = "order" THEN Orders ELSE {1},
          all \in IF name = "orders" THEN BOOLEAN ELSE {FALSE} :
         viewing' = [name |-> name, as |-> Principal(u), store |-> store,
                     order |-> o, all |-> all]
    /\ screen' = Nothing
    /\ UNCHANGED <<request, staffRows, order, trace, press>>

\* The reads; one that is refused fails the screen.
ShowScreen ==
    /\ viewing # Nothing
    /\ screen' = Rendered(viewing)
    /\ viewing' = Nothing
    /\ UNCHANGED <<request, staffRows, order, trace, press, screenSteps>>

\* The form's fields, sent by whoever the browser is signed in as.
Pressed(as, action) ==
    [by |-> as, action |-> action, order |-> screen.of.order, note |-> screen.note,
     row |-> account[as.user], signedIn |-> as.user \in SignedIn]

\* Bug: the button acts for the principal the screen was shown to.
PressAsShown ==
    /\ Stepped /\ press = Nothing /\ screen # Nothing
    /\ screen.of.name = "order" /\ ~screen.refused
    /\ \E action \in screen.offers : press' = Pressed(screen.of.as, action)
    /\ UNCHANGED <<request, staffRows, order, trace, viewing, screen>>

\* cancelOrderAction, confirmRevisedAmountAction: requirePrincipal comes first.
Press ==
    /\ Stepped /\ press = Nothing /\ screen # Nothing
    /\ screen.of.name = "order" /\ ~screen.refused
    /\ screen.of.as.user \in SignedIn
    /\ \E action \in screen.offers :
         press' = Pressed(Principal(screen.of.as.user), action)
    /\ UNCHANGED <<request, staffRows, order, trace, viewing, screen>>

\* cancelByStore and confirmRevisedAmount, on the order as it is under its lock.
MayServe(p, row) ==
    /\ Authorized(p.by, p.action, row.shop)
    /\ p.action = "order:cancel" =>
         /\ row.status \in CancellableFrom
         /\ row.status \in BilledStates => p.note
    /\ p.action = "order:confirm-variance" => row.flagged

\* The order, its audit entry and the screen again, as the caller's.
Serve ==
    /\ press # Nothing
    /\ LET row == order[press.order] IN
         \/ /\ MayServe(press, row)
            /\ order' = [order EXCEPT ![press.order] =
                 IF press.action = "order:cancel"
                 THEN [row EXCEPT !.status = "CANCELLED_BY_STORE"]
                 ELSE [row EXCEPT !.confirmed = TRUE]]
            /\ trace' = Append(trace, [by |-> press.by.user, store |-> row.shop])
            /\ screen' = Nothing
            /\ viewing' = [screen.of EXCEPT !.as = press.by]
         \/ /\ ~MayServe(press, row)
            /\ UNCHANGED <<order, trace, screen, viewing>>
    /\ press' = Nothing
    /\ UNCHANGED <<request, staffRows, screenSteps>>

-----------------------------------------------------------------------------
(* The colleagues *)

\* Picking, billing, packing, delivering: any edge of the table.
OrderMoves ==
    /\ Stepped
    /\ \E o \in Orders : \E to \in Statuses :
       \E rule \in AllowedRules(order[o].status, to, order[o].flagged, order[o].confirmed) :
         order' = [order EXCEPT ![o].status = rule.to]
    /\ UNCHANGED <<request, staffRows, trace, viewing, screen, press>>

\* An administrator gives an account another role or shop, or disables it; the
\* entry is stamped with the shop the account was in.
AccountMoves ==
    /\ Stepped
    /\ \E a \in SignedIn, u \in Users, j \in StaffJobs :
         /\ a # u /\ account[a].role = "SUPER_ADMIN" /\ account[u] # Nothing
         /\ j.op \in {"update", "disable"} /\ j.target = u
         /\ Eligible(Principal(a), j, account[u])
         /\ account' = [account EXCEPT ![u] = Written(j, account[u])]
         /\ cookies' = IF EndsSessions(j, account[u]) THEN cookies \ SessionsOf(u) ELSE cookies
         /\ trace' = Append(trace, [by |-> a, store |-> account[u].store])
    /\ UNCHANGED <<request, rowLock, resetTo, order, viewing, screen, press>>

\* Someone whose account moved signs in again.
SignInAgain ==
    /\ \E u \in Users :
         /\ IsActive(u) /\ u \notin SignedIn
         /\ cookies' = cookies \cup {[user |-> u, row |-> account[u], late |-> FALSE]}
    /\ UNCHANGED <<request, account, rowLock, resetTo, screenRows>>

\* Any other audited change: of a manager's own shop, or by an administrator.
OtherEntry ==
    /\ Stepped
    /\ \E u \in SignedIn, store \in Stores \cup {NoStore} :
         /\ InScope(Principal(u), store)
         /\ trace' = Append(trace, [by |-> u, store |-> store])
    /\ UNCHANGED <<request, staffRows, order, viewing, screen, press>>

ScreensInit ==
    /\ StaffInit
    /\ order \in FirstOrders
    /\ trace = <<>>
    /\ viewing = Nothing /\ screen = Nothing /\ press = Nothing
    /\ screenSteps = 0

ScreensNext ==
    \/ OpenScreen \/ ShowScreen \/ Press \/ Serve
    \/ OrderMoves \/ AccountMoves \/ SignInAgain \/ OtherEntry

ScreensSpec == ScreensInit /\ [][ScreensNext]_screenVars

-----------------------------------------------------------------------------
(* Properties *)

\* Work the shop still has with an order: a rule leads on, and it is not out
\* of the shop's hands as delivered.
WorkLeft(o) == order[o].status # "DELIVERED" /\ \E rule \in Transitions : rule.from = order[o].status

\* A queue without its history hides no order with work left unless ListLimit
\* such orders come before it, and the count of them is no page's.
QueueIsTrue(s) ==
    LET shopWork == {o \in Orders : order[o].shop = s.of.store /\ WorkLeft(o)}
    IN  /\ \A o \in s.orders : order[o].shop = s.of.store \/ s.of.name = "order"
        /\ s.of.name = "orders" /\ ~s.of.all =>
             \A o \in Orders :
                 o \in s.orders <=>
                     o \in shopWork /\ Cardinality({x \in shopWork : x < o}) < ListLimit
        /\ s.of.name \in {"overview", "reports"} => s.count = Cardinality(shopWork)

\* The users one is shown are the ones one may reset, demote and disable.
UsersAreManaged(s) ==
    s.of.name = "users" =>
        s.users = {u \in Users :
                     /\ account[u] # Nothing
                     /\ account[u].role \in RolesUnder(s.of.as)
                     /\ Authorized(s.of.as, "user:reset-password", account[u].store)}

\* An entry a shop wrote stays on that shop's log until ListLimit newer ones of
\* that shop follow, whoever moves and however busy another shop is.
LogIsTheShops(s) ==
    s.of.name = "audit" =>
        \A i \in DOMAIN trace :
            i \in s.entries <=>
                /\ s.of.as.role = "SUPER_ADMIN" \/ trace[i].store = s.of.as.store
                /\ Cardinality({j \in DOMAIN trace :
                       j > i /\ (s.of.as.role = "SUPER_ADMIN" \/ trace[j].store = s.of.as.store)})
                     < ListLimit

\* An order is its own shop's, whatever shop the rest of the screen would show.
ShopShown(s) == IF s.of.name = "order" THEN order[s.of.order].shop ELSE s.of.store

\* A screen shows its viewer's shops and nothing else, a link leads somewhere
\* ("so nothing dead is shown", admin/domain/index.ts), and a form a manager or
\* an administrator finds there is one they are granted.
ScreenIsTrue(s) ==
    /\ s.refused => s.of.name \notin Navigation(s.of.as.role)
    /\ ~s.refused =>
         /\ \A o \in s.orders : CanAccessStore(s.of.as, order[o].shop)
         /\ QueueIsTrue(s) /\ UsersAreManaged(s) /\ LogIsTheShops(s)
         /\ s.of.as.role # "STORE_STAFF" /\ s.of.name \in Navigation(s.of.as.role) \cup {"order"} =>
              \A action \in s.offers : Authorized(s.of.as, action, ShopShown(s))

\* A button on a screen that has been open for long changes an order only for
\* one who was signed in when pressing it, with the role and the shop the
\* account had by then, and an order that has a POS bill by now is not
\* cancelled by a form that never asked how the bill was voided.
PressIsGranted ==
    (press # Nothing /\ press' = Nothing /\ order' # order) =>
        /\ press.signedIn /\ press.row.active
        /\ Authorized(User(press.row.role, press.row.store), press.action, order[press.order].shop)
        /\ press.action = "order:cancel" /\ order[press.order].status \in BilledStates =>
             press.note

\* The screens of the back office tell the truth at the moment they are read,
\* and do no more than their viewer may by the time a button is pressed.
ScreensHold ==
    [][/\ (screen = Nothing /\ screen' # Nothing) => ScreenIsTrue(screen')
       /\ PressIsGranted]_screenVars
=============================================================================
