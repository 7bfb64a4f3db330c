# Formal model of the supermarket platform

TLA+ modules, TLC configurations and TLAPS proofs for the Next.js / Prisma /
PostgreSQL grocery platform in `src/`. Paths of code are relative to
`src/src/modules/` unless they start with another directory; `docs/...` is
`src/docs/...`.

1. [Inventory](#1-inventory) of the system
2. [What is hard](#2-what-is-hard) in it
3. [The modules](#3-the-modules) and how they correspond to the code
4. [The runs](#4-the-runs), their bounds and the fairness
5. [Where code and documents disagree](#5-where-code-and-documents-disagree)
6. [What is proved](#6-what-is-proved), and how
7. [What is not modelled](#7-what-is-not-modelled)
8. [Plan](#8-plan)

## 1. Inventory

The program is a modular monolith. Every module exposes a `service.ts`; state
lives in PostgreSQL 16 at READ COMMITTED and every mutation runs inside one
`withTransaction` (`platform/db/index.ts`). There are no background workers: all
concurrency is concurrent HTTP requests, serialised only by row locks
(`SELECT ... FOR UPDATE`), advisory locks and conditional updates. After a commit
a service may emit an event on a synchronous in-process bus; a handler that
throws is skipped, a process that dies before the emit never sends it.

| component | state it keeps | operations | correct when | modelled in |
|---|---|---|---|---|
| checkout | none of its own | `availableSlots`, `placeOrder` | a placement is all or nothing; windows and stock are never oversold; a basket is sold once | Placement, OrderBook |
| orders | `Order`, `OrderLine`, `OrderStatusHistory` | `createOrder`, `applyTransition`, `cancelByStore`, `correctOrder`, `confirmRevisedAmount`; queues and timelines read | statuses move along the table only; the history is a chain; the variance guard holds; a cancellation restores stock once | OrderStates, OrderLifecycle, Placement |
| inventory | `InventoryItem`, `StockLedger`, `InventoryImport` | `applyMovement`, `adjustStock`, `reconcileStock`, `runStockImport` | a balance is never negative and always explained by the ledger; a count lands exactly; an import is recorded as it happened | Inventory, StockBook, Placement |
| cart custody | `Cart` status, owner, token | `ensureCart`, `adoptCart`, `markConverted` | one active basket per customer; a basket sold is not given away | CartCustody, BasketBook |
| cart contents | `CartItem`, pending notice | `addItem`, `setQuantity`, `removeItem`, `rebuildForStore`, `viewCart`, revalidation | one shop per basket; additions are not lost; nothing changes silently | CartNotices |
| stores, slots | `Store`, `StoreSettings`, zones, areas | CRUD, `updateSettings`, serviceability, the slot grid | an address resolves to one shop; the grid offers only bookable windows | StoreMap, DeliveryWindows; Placement (settings, a window's capacity) |
| pricing, listings | `StoreProduct`, `PriceHistory` | `setPrice`, `setListed` | a listing has one price; the history chains | Listings; as one step in Placement, CartNotices |
| catalogue | products, categories, images | CRUD, category tree, gallery | the tree has no cycle; a gallery stands in somebody's order | Catalogue; what shoppers see of it: ShopWindow |
| customers | accounts, sessions, addresses | sign-up, sign-in, profile, address book | a phone number is one customer; an account keeps its owner; one default address | ShopAccounts, AddressBook |
| identity | staff accounts, sessions, TOTP | user administration, sign-in, second factor | sessions match authority; managers reach only their staff; a code works once | StaffAccounts, SecondFactor |
| product requests | `ProductRequest` | intake with limits, triage | limits hold under concurrency; statuses follow the table | ProductRequests |
| back office | none of its own | screens, queues, counts, audit log | true when read; powerless once the viewer is | BackOffice |
| stock files | none | parse, plan | read as written, every line accounted for | StockCsv; the transaction: Inventory |
| seed | listings, stock, demo orders | run, killed, run again | nothing is moved twice | Seed |
| notifications, fulfillment | none that decides anything | provider calls; stubs of a later phase | - | no |
| platform | pool, bus, config, audit, authz, money, ids | transactions, locks, emit, authorize | commit or rollback as a whole; no event before its commit; some request can always go on | Authz, Requests, ConnectionPool; the mechanism of every module |
| pages and actions | cookies | storefront and admin forms | the calls come in the right order; area and basket lead to one shop | CartCustody, CartNotices, ShopVisit, ShopWindow, BackOffice |

## 2. What is hard

`PROJECT.json` lists each hazard at its line. The families:

- **Check, then act.** Capacity of a window (`checkout/service.ts:254`), the active
  baskets of a customer (`cart/service.ts:145`), active administrators
  (`identity/service.ts:376`): a transaction counts rows and writes on the strength
  of the count, and READ COMMITTED does not stop another from doing the same.
- **Values read before a lock.** The slot capacity, an import's plan, prices in a
  revalidation, the status on a staff member's page.
- **Lock order.** Stock rows of several products, the cart rows of two customers.
- **Retries and duplicates.** A double submit, a retry at a busy window, two devices
  that sign in.
- **Commit, then announce.** Lost, early or repeated events.
- **Consuming a difference.** Revalidation overwrites the price snapshot; whoever
  does it is the last one able to tell the shopper.
- **A set read row by row.** The category tree, an address book, a gallery, intake caps:
  what one writes is judged on rows it does not lock, so a lock stands for the set.
- **State outside the database.** Cookies arrive with answers, late or never; forms and
  screens stay open while what they show changes.

## 3. The modules

### OrderStates, OrderBook, StockBook, BasketBook

`OrderStates` is the transition table of `orders/state-machine.ts` as a set of rules
(from, to, stamped column, guarded) with `checkTransition` as `AllowedRules`. It has
no variables and is shared by every module in which an order's status moves.

`OrderBook` is the abstract specification of placement: orders, baskets and stock in
which *placing* and *correcting* an order are single steps. It says what a shop
manager may assume: an order appears complete, with its stock taken and its basket
closed, or not at all.

`StockBook` is the abstract specification of the inventory: a call moves every item it
names in one step, from the balances of that moment, with its ledger rows and its
history entry, or it moves nothing; a file that does not fit at some moment is turned down
as a whole (`unfit`), which is recorded later or, if the server fails in between, never.
This is what the header of `inventory/import-service.ts` claims of an import.

`BasketBook` is the abstract specification of custody: one step opens a guest's basket,
sells an active one, or makes a basket a customer's and gives up all their others. It
is no stronger than the code: along with the others, a customer's basket that is not
active any more, or has changed hands, may be given up (the finding `custody_stale_list`).

### Placement

`checkout.placeOrder`, `orders.correctOrder` and what races them. One step is one
statement that takes a lock or reads something another transaction may change;
what a transaction wrote is in `staged` until its commit. A request goes

    Resolve -> ReadGrid -> TakeWindow | WindowBusy (retry) -> CountWindow | WindowFull
      -> LockCart | RefuseCart -> Revalidate | RefuseBasket -> TakeStock* | RunShort
      -> CommitOrder -> Announce

which are, in order, `resolveServiceability`, the grid read before the transaction,
the try-lock on the window (`service.ts:254`), `countInSlot`, `lockActiveCart`,
`revalidateForCheckout`, `applyMovement` per product in id order, and
`createOrder` with `markConverted`. A correction locks the order, checks table and
void note, restores the lines and commits. `Abort` is a timeout or a unique-index
error, `Crash` a restart. `OtherPeople` (staff counting a shelf, editing a basket,
moving it to the other shop, changing a setting or a listing, advancing an order)
hold at most one lock, so each is one step; `MaxMoves` bounds them.

An order is named by the request that placed it, a product by its place in the
order in which everybody sorts. Prices are left out: whether a basket reaches the
minimum is a free choice. Within the bounds of the runs an order gets at most one
step past `PLACED`, so the void note of a billed order, whose check is here, decides
nothing before `OrderLifecycle`; `VoidNotes` is both values in one run and one in the other.

### Inventory

Every way stock moves, side by side: `adjustStock`, `reconcileStock`, CSV imports and
the stock part of an order or correction. A job is a row per product: move by an
amount, or set to a count. `PlanImport` is the plan on an unlocked snapshot, of a file
that fits; `RejectFile` is the plan of one that does not, and `RecordRejection` the separate
insert of its history entry, when the balances may be others. `LockRow` is `lockItem` in product order, `Refuse` and `Commit` are the two ends of the
transaction, `Announce` is `announceMovement` after it. Shops share no rows: one shop.
`CallsAreAtomic` is `StockBook` with the same stock, ledger, history and jobs, and as `unfit`
the files whose rejection is not recorded yet.

### CartCustody

Whose basket is whose. `adoptCart` and `ensureCart` lock the customer (advisory lock),
the device's cart row, list the customer's other active carts *without locks*, and
abandon them one by one, by id; a checkout locks a cart and converts it. Each of these
is a step. A deadlock is possible in the code; `Deadlocked` describes it and
`DeadlockVictim` is PostgreSQL's detector. `BasketsAreAtomic` is `BasketBook` with the
same rows. The initial states hold baskets of
earlier days with any owner, duplicates among them. Carts not yet inserted have
status `NONE`; a request that finds none left gives up (`RowsRunOut`), which bounds the rows.

### CartNotices

What a basket holds and what its shopper was told. Every request is two steps, past
`lockActiveCart` (with the quantities and prices it reads) and its commit; between
them the staff change prices and listings. `known` is a ghost: what the last page or
answer said of each product. `missed` records *why* a change was not told, whenever the
code lets one pass: `Causes` names them, and each step that loses a notice sets its
cause. The notice is on the cart row (`pendingNoticeJson`), the cookie about a move of
shop is `moved`. The cookie names at most six products in the code; the model's
instances have fewer. Stock flags of a line are recomputed by every view and are left out.

### OrderLifecycle

One order after checkout: staff calls lock the order's row (`LockOrder`), decide on what
they read there (`Decide`), commit (`CommitTransition`, `CommitCorrection`,
`ConfirmRevisedAmount`), release the row and only then tell the bus (`Announce`);
`Stop` is a refusal, a timeout or a crash. `applyTransition` is the public boundary of the
table and is modelled although no page calls it yet. Two steps are *external*, because
their code belongs to a later phase and only their columns exist: a short pick that
gives units back (`ShortPick`), and a bill over tolerance (`FlagVariance`). Both are
assumed to take the order's row lock, as every writer of an order in the code does.

### The records

Each of these modules is one component whose state is its own rows. `Requests` is
their common frame: a server works on up to `|Requests|` actions at once; each builds
its principal (`Starts`, from `auth.ts`), makes one service call whose database calls
are steps, and answers (`Answered`). `Authz` holds the grants of every role and
`authorize` over them; every guard that asks it does so with the principal the request started
with, however the account has changed since.

- `StaffAccounts`: `withManagedTarget` locks the account, checks it, writes and drops
  its sessions; `setUserActive` also counts administrators, without a lock; a sign-in
  verifies and opens its session in two statements. `late` marks such a session.
- `SecondFactor`: a code is of a factor and a time step; matching it and claiming its
  counter are two statements, the second conditional. `uses` counts acceptances (ghost).
- `Catalogue`: moves of categories under the tree's advisory lock, products filed under
  them, and `reorderImages`, row by row, with the database's deadlock victim.
- `Listings`: first prices under the lock of the pair, later ones under the row's, a
  history row per change.
- `AddressBook`: one book, three operations under its lock; statements see what was
  committed before them.
- `ShopAccounts`: sign-up claiming the row an order left, checkout's upsert, profile,
  password, sessions, under the database's unique keys. A change of password is the row's
  update, the deletion of the sessions there are, and the commit (`ChangeRow`,
  `DeleteSessions`, `CommitPassword`, or `LosePassword`). The row is locked in between, but a
  session's insert only needs it to exist, so a sign-in does not wait: `late` marks a
  session that was overtaken that way, `deletedBy` one whose deletion is not committed.
- `ProductRequests`: caps counted under the shop's intake lock (tried, never waited
  for), triage under the row's, on a clock of a few units.
- `StoreMap`: shops, zones and areas created and switched; an address routed on one
  read, its order recorded later. Names are values with a relation "begins with".
- `DeliveryWindows`: the calendar arithmetic of `slots.ts` on a day of `DayLength`
  units with one shift of the clock; settings judged and written under their lock; orders
  hold windows. Minutes, hours and days of the code are units here. The clock is not
  put forward by nearly a day (the code's margin then misses the next one), unless by
  whole days.
- `Seed`: the statements of `seedStore` and `seedDemoOrders`, killed anywhere; the
  shop works between two runs and not during one.
- `StockCsv`: `splitLine` character by character, `parseStockCsv` line by line and the
  plan. Its reference definition goes the other way: where a line may be *cut* so that
  each piece is a way of writing a field, plain or between quotes. A file is a sequence of
  lines; taking a text apart into lines (CR, LF, a byte order mark, the empty last line) is
  left out.
- `ShopWindow`: a page is reads of three modules, one after another; `moments` is
  every state of the shop since the visitor came (ghost). A product's `key` is its place by
  `aisleSortKey` and name, neither of which is unique: a page is what *some* order of the
  rows by key puts behind the rows skipped (`First`, `Pages`), chosen anew by every query,
  and so are the hits of a search by score and name. `Reorder` is an edit of the sort key;
  edits that change what a search finds are left out. The tree it starts from has no cycle
  (`Loopless`); a tree drawn from the rows `Catalogue` keeps is one
  (`WindowsAreDrawnFromATree`).
- `BackOffice`: which reads each screen makes, in whose scope and with which limit; a
  screen stays open and a button pressed on it is a new request.
- `ShopVisit`: one device. Cookies travel with an answer, which may be lost or overtaken;
  a checkout form stays open while other tabs go on. `apart` is a ghost: an answer was lost, or
  requests crossed, since the last choice of an area.
- `ConnectionPool`: which statements of a call run on its transaction and which on
  the shared client, and which locks it takes; nothing else of the services. Each read
  under way has a connection of its own (`Underway`), apart from the transactions'.

`MCRecords` puts them side by side, *one in focus per behaviour*. They share no lock,
and what one decides rests on no row that another changes; where a component does
read rows of others (`ShopWindow`, `BackOffice`, `ShopVisit`, `Seed`), it brings
their commits along as steps of its own. A behaviour with two components in motion
would interleave steps that commute. Baskets, stock and orders, which do interact,
are composed in `Placement`.

## 4. The runs

Each run takes under five minutes on two workers; `records` is the longest.

| run | instance | asks |
|---|---|---|
| `placement` | 2 placements, 2 corrections, 2 products, 2 windows of capacity at most 1, stock 1 | no overbooking, entry only under quota, each order line moves its stock exactly once each way, no wait cycle, implements `OrderBook` (`OrdersAreAtomic`) |
| `placement_live` | 1 basket submitted twice, 1 correction, 2 shops, two attempts at a busy window, one outside step, one restart, fair | one order per basket with what it held; every placement answered; events exactly of commits, each at once or lost in a restart (`EventsMatchCommits`) |
| `inventory` | any 2 calls on 2 products, one left of the first and none of the second, one restart, fair | ledger explains stock, what history and events tell is what landed, implements `StockBook` (`CallsAreAtomic`: a rejected file did not fit when planned, and moves nothing), every call ends |
| `custody` | 2 requests at a time, 2 customers and guests, 2 baskets, fair | one active basket, implements `BasketBook` (`BasketsAreAtomic`), every request ends |
| `notices` | 2 tabs, 2 shops, 1 product, 2 prices, at most 2 per line | what was read under the row lock holds; told or owed, additions counted, one shop |
| `lifecycle` | 2 staff calls at a time, 2 lines (2 and 1 units), 2 delivery attempts | decisions stand, history, variance guard, void note, units, events |
| `records` | the record modules, one in focus, two requests at a time | each component's invariant, and the fourteen properties listed in `records.cfg` |
| `custody_stale_list`, `custody_adoptions`, `last_admin`, `area_after_order`, `pool_starves` | smallest that show it | see section 5; TLC finds the violation |

What `records` asks beyond the invariants, per component: sessions match the authority
they were opened under and managers reach only their own staff (`staff`); a code
works once (`factor`); no cycle, a gallery in somebody's order (`catalogue`); a history that
chains (`listings`); exactly one default (`book`); an account keeps its owner
(`accounts`); caps hold in every window of time (`intake`); one shop for an address
(`map`); orders of one grid never overlap and start apart, across a clock put
forward (`windows`); nothing shown that was not so, nothing sold left out while nothing
changes (`shop`); files read as written (`csv`); nothing moved twice (`seed`);
screens true when read, buttons powerless once their viewer is (`screens`); an order
goes to the shop its form named, and area and basket lead to one shop unless an
answer was lost or crossed (`visit`); when nobody can go on, a basket's reads are
waiting (`pool`).

**Why these bounds.** The hazards are races of two transactions, or of a transaction
and one outside step; a third party would have to take part while two are already at
odds over one row, which their locks turn into a wait. (Larger circles of waiting are
excluded by the lock order, not by the bound, and the proofs need no bound.) Two of
each are needed and present: two products (a lock order, one
line of several failing), two windows or one at capacity one (the last place), stock
one (the last unit) and none (a file that does not fit, and would by the time that is recorded),
two baskets (a duplicate to abandon), two prices (a change and its
reversal), two corrections of one order. Calls of `CartCustody`, `CartNotices` and
`OrderLifecycle` return to idle and start again, so sequences are not limited by the
number of calls. `MaxMoves` and `MaxCrashes` bound how often outsiders and restarts
interfere in one behaviour, `MaxAttempts` bounds the one cycle of the order table. In
`placement` no outsider moves, so the settings stay as they are from the beginning; a
setting changed between the read of the grid and the count is in `placement_live`, and in
the theorems, which bound nothing. `SlotLockAttempts` is 2 in `placement_live`, the
fewest with a retry.
The counters an order or a ledger grows are bounded by these.

In `records` two requests are under way at a time and `Max...Calls` bounds how many
start in a behaviour. Staff: two, from three sets of accounts (an administrator, a
manager, and a third who works there, in the other shop, or is disabled), since a
third call would only replay one of the first two from a set already among them.
Second factor 4 (enrol, use, withdraw, enrol again), catalogue 3, listings 4, address
book 5 (fill, promote, remove while adding), accounts 6, map 3, windows 2 on a day of 6 units with the clock put
forward at three places of it, or not. Intake: three calls of two submitters for three wishes
at one shop, at most two per submitter in two units of time and two per shop in one, with
time up to 3 from the first of them on. So each rule of `Refused` is the only one that refuses in some state (the
duplicate, the second submitter at a full shop, the third wish of one submitter when
the shop's shorter window has moved on), and both windows slide while requests are in
them; without any one of the three rules the run finds `CapsHold` violated. The
shop window has one visitor, two commits
in between, three wares and two aisles, pages of two; ties both at the end of a page and
within one. Lines of a stock file have up
to four characters, or five between quotes; files up to three lines. Screens: three steps, three orders,
a list limit of one, starting from the accounts of two administrators or of one and a
manager. The device: three requests, two areas of two shops, two baskets,
one outside step. The pool: two connections, two requests at a time, three calls.

**Deadlock checking** is off everywhere, because the systems do stop: calls that were all
answered. Waiting in a circle is checked instead: by `NoWaitCycle` in `Placement`, by
liveness in `Inventory` and in `CartCustody`, which has a detector, and by
`OnlyBasketsStarve` in `ConnectionPool`.

**Symmetry** is used only in runs without liveness properties.

**Fairness.** Requests need not arrive. Once one has, the server runs its statements:
weak fairness of a call's steps in `Placement` and `Inventory`. In `CartCustody` it is
strong, per request: two others may pass a lock between them, and PostgreSQL queues
waiters per lock, so a waiting request is not passed over for ever. The deadlock
detector is weakly fair (`deadlock_timeout` always fires). Aborts, crashes, staff and shoppers are
never assumed to happen. The other modules state only safety.

**Mutants.** Every property has one in `PROJECT.json`: an operator beside the one it
replaces and marked `Bug:`, such as a row read without waiting, an event
sent from inside the transaction, a table edge without its guard. With it the same
run finds that property violated. The `Bug:` operators are used nowhere else.

## 5. Where code and documents disagree

Shown by a run:

| run | the text says | the code does |
|---|---|---|
| `custody_stale_list` | `cart/service.ts:458`: the customer's other *active* cart is marked `ABANDONED` | listed without a lock and updated by id: one sold meanwhile turns from `CONVERTED` to `ABANDONED` |
| `custody_adoptions` | `cart/service.ts:501`: two adoptions can queue but never deadlock | on two devices that hold each other's basket (sign-out leaves the cookie) each waits for the other's cart row; PostgreSQL aborts one sign-in |
| `last_admin` | `identity/service.ts:358`: the last active `SUPER_ADMIN` cannot be disabled | the count is a plain read while another transaction disables or demotes the other one; both commit |
| `area_after_order` | `docs/phase-3-plan.md:49`: changing the area is always possible | after an order the cookie still names the basket that was sold; the area does change, but `rebuildForStore` throws and the shopper is answered with an error |
| `pool_starves` | `checkout/service.ts:239`: concurrency is bounded by the pool for work, not for waiting | a revalidation inside a transaction reads on the shared client; as many baskets as connections wait for each other until a transaction times out |

Seen while modelling, not shown by a run of its own:

- `inventory/import-service.ts:171` says a rejected run is still recorded with its errors; a row
  that turns bad between plan and apply rolls back its own history entry.
- `docs/phase-3-plan.md:70` says a changed price is shown by every cart view;
  `getCartQuantities` views the basket for its steppers, updates the snapshot and
  drops the finding (the cause `browsed` in `CartNotices`).
- `docs/phase-2-plan.md:140` says `stock.changed` is emitted on every mutation; sales and
  cancellations go through `applyMovement` and emit neither it nor `stock.low`.
- `stores/domain/slots.ts:67` and `:264` say a window's identity is a function of its
  date and the settings. In the hour a clock put *back* repeats, the second pass of
  `localDayStart` returns 23:00 of the same day, so the grid hangs an hour off and
  windows of one grid overlap. `WindowsAreApart` is about the other shift, and shops
  in India have neither.
- `catalog/service.ts:152` says "Move or deactivate the child categories first"; deactivated
  children still block.
- Pages of an aisle are ordered by sort key and name (`catalog/repo.ts:174`), which need not
  be unique, and cut by offset; hits of a search are ordered by score and name. With two
  equal ones at a page's edge every query may order them differently, and turning the
  pages may show a product twice or never although nothing changed. `orders/repo.ts:311`
  says of its own paging why it breaks such ties by id. `ShowsAllThatIsSold` promises
  "exactly once" to the others (`Settled`) only.
- `customers/service.ts:314` says a password change ends every session the account has open. A
  sign-in that has verified the old password may insert its session between the
  deletion and the commit of the change; its foreign key does not conflict with the
  update's lock, and the session stays (`late` in `ShopAccounts`).
- `shopCategories` does not look at a category's
  `isActive`, so a tile can lead to a page that is not found.
- Removing images and adding others can give two one sort key.
- The seed overwrites a listing's price without a history row, creates the default
  address again without clearing another, and resets the demo shopper's password.
- Two areas of one exact name are told apart by one hint, or by the prefix of a third area.
- `placeOrder` reads the area a second time for the locality it writes on the order.
- The checkout form shows the community of the context and posts the area of the saved
  address (`app/(storefront)/checkout/page.tsx:172` and `:176`): an address in the other shop's area
  is refused as `wrong-store`, or, when another tab moved the basket, ordered there.
- Two first additions in two tabs of a guest make two baskets; the later cookie wins.
- Forms are shown to some whom the grant table then refuses; a settings form posts every
  field, so a stale one overwrites; the audit page's `?store=` does not filter; the audit
  entry of a moved account carries the shop it left; the count "Price variances" is
  over all statuses; report figures stop at 500 rows.
- `confirmRevisedAmount` can be repeated from a stale form and replaces who confirmed.
- `{ ...storeScopeFilter(principal), storeId }` (`orders/repo.ts:260` and `:341`, and in `inventory`,
  `pricing`) replaces the scope by the argument; authorization precedes each call.

## 6. What is proved

TLAPS checks each theorem for every value of the constants the named assumptions
allow: any number of requests, rows, shops, products, customers, lines and quantities.

| theorem | what it states |
|---|---|
| `PlacementProofs` | |
| `TypeCorrect` | `TypeOK`: balances, staged balances and retries stay in range |
| `NeverOverbooked`, `OnlyUnderQuota` | `SlotNeverOverbooked`, `AdmittedUnderQuota` (an action property) |
| `BasketsBecomeOrders` | `BasketBecomesOneOrder` |
| `NoDeadlockOnStock` | `NoWaitCycle`: no set of calls, however large, waits in a circle |
| `EveryMovementIsAnOrders` | `MovementsMatchOrders` |
| `NoEventBeforeItsCommit` | `EventsAreTrue`: the half of `EventsMatchCommits` that is about every moment |
| `OrdersImplementTheBook` | `OrdersAreAtomic`: Placement implements `OrderBook` |
| `InventoryProofs` | |
| `InventoryTypeCorrect` | `InventoryTypeOK`: no balance is ever negative |
| `LedgerAlwaysExplains` | `LedgerExplainsStock` |
| `CountsAlwaysLand` | `CountsLand` (an action property): a counted shelf holds what was counted |
| `EveryoneIsToldWhatLanded` | `ToldWhatLanded` |
| `InventoryImplementsTheBook` | `CallsAreAtomic`: Inventory implements `StockBook` |
| `CartCustodyProofs` | |
| `CustodyHolds`, `OneBasketEach` | `CustodyInv`, `OneActiveCart` |
| `SalesAreLive` | `SoldWhileActive` (an action property): what is sold was active |
| `CustodyImplementsTheBook` | `BasketsAreAtomic`: CartCustody implements `BasketBook` |
| `CartNoticesProofs` | |
| `BasketIsLocked`, `NothingChangesSilently` | `BasketInv`, `ToldOrOwed` |
| `NoAddIsLost`, `BasketHasOneShop`, `SoldBasketStays` | `AddsAreCounted`, `OneShop`, `SoldBasketIsFrozen` |
| `OrderLifecycleProofs` | |
| `DecisionsHold`, `HistoryIsTrue`, `DispatchWaitsForConsent` | `LifecycleInv`, `HistoryTellsStatus`, `DispatchIsConfirmed` |
| `NoBillIsLeftStanding`, `UnitsComeBackOnce`, `EventsFollowCommits` | `BillIsVoided`, `GivenBackOnce`, `HeardIsHistory` |
| `RecordsProofs` | |
| `OneDefaultHolds` | `BookInv` and `OneDefault` |
| `CodesWorkOnce` | `FactorInv` and `CodeWorksOnce` |
| `HistoryChains` | `ListingsInv` and `PriceHistoryChains` |
| `IntakeIsCapped` | `IntakeInv` and `CapsHold` |
| `WindowsStayApart` | `WindowsInv` and `WindowsAreApart` |
| `OnlyBasketsWaitForever` | `PoolInv`: who is waiting when nobody can go on |
| `AccountsHold`, `OwnersKeepTheirAccounts` | `AccountsInv`, `AccountsKeepTheirOwner` (an action property) |
| `CookiesCarryAuthority` | `StaffInv` and `CookiesMatchAuthority` |
| `ManagersStayInTheirShop` | `ManagersRunTheirOwnStaff` (an action property) |
| `ScreensTellTheTruth` | `ScreensHold` (an action property) |
| `ShopProofs` | |
| `TreeStaysATree`, `CatalogueHolds` | `TreeHasNoCycle`, `CatalogueInv` |
| `TheMapHolds` | `MapInv` and `RoutesToOneShop` |
| `TheSeedMovesOnce` | `SeedMovesOnce` |
| `TheDeviceHolds` | `VisitInv` |
| `TheShopWindowHolds` | `ShopWindowIsTrue` |
| `FilesAreAccountedFor`, `LinesAreReadAsWritten`, `StockFilesAreReadAsWritten` | `FileIsAccountedFor`, `LineIsReadAsWritten`, and both as `CsvReadAsWritten` |
| `MCRecordsProofs` | |
| `RecordsHold` | `RecordsInv`: every component's invariant, of the composition |
| `RecordsKeepTheirPromises` | the thirteen other properties of the run `records`, of the composition |
| `WindowsAreDrawnFromATree` | what `ShopWindow` assumes of its tree, `Catalogue` keeps |

Up to `MCRecordsProofs` the theorems are about each component's own specification
(`Spec`, `BookSpec`, `WindowSpec` and so on), so what they say of a record module does not
rest on the one-in-focus composition; `MCRecordsProofs` carries them over to it.
Of the properties of the passing runs, all but those of liveness are theorems.

**The assumptions** are the named `ASSUME`s of the modules: quantities are naturals, a
lock nobody holds is held by nobody, `Nothing` is no value of a column, call names are
not lock names, initial rows are rows the program can hold. Three say something of
the system: sets of rows that are counted are finite; the shop's clock is put forward by
less than a day (the margin of `slots.ts` included) or by whole ones; the tree of
categories a visitor meets has no cycle, which is no assumption of the system as a whole
(`WindowsAreDrawnFromATree`). TLC evaluates all of them on each instance.

**The arguments.** None of the safety properties is inductive as it stands; each rests on
who holds what. Each inductive invariant below was checked by TLC on the instance of
its run before it was proved.

- *Placement, windows.* A placement that has counted its window holds the window's lock
  (`WindowHeld`), so the count it compared with its quota can only have fallen since
  (`RoomKept`: other orders may be cancelled, none can be added). With
  `TypeOK` and the bound on retries (`TriesLeft`) that is inductive, and the committing
  step finds a window under quota. `CorrectsAnOrder` says a correction past its
  check works on an order that exists, which keeps restored quantities in range.
- *Placement, baskets and stock.* `CallsRight` says what a call holds where: its basket's row
  and what was read of it (`BasketHeld`), the order it corrects (`OrderHeld`), and the
  stock rows it staged balances for, lowest product first (`MovesHeld`). So a staged balance
  is still the shelf's balance plus the call's movement, and the basket is still active
  when its order commits. `OrdersRight` adds that a cancelled order gave back all it took.
  There is no circle of waiting because a call that is waited for waits, if at all, for a
  later product than the one it is waited for (`WaitsClimb`).
- *Placement implements OrderBook.* The mapping is the identity on stock, baskets, orders
  and forms: what a transaction has staged is not in them. `CommitOrder` is `Place`, a
  committed correction is `Correct`, an outsider's step is one of `OrderBook`'s, and every
  other step is a stutter; that a commit is a *whole* `Place` is `CallsRight`.
- *Inventory.* `BooksInv` = `InventoryTypeOK`, `HeldRowsAreOwn` (a row a call holds is
  locked by it, and the balance it read there is the item's balance) and
  `LedgerExplainsStock`. The middle part turns "the balance computed from what I read" into
  "the balance computed from what is". What others are told rests on `CallsTold`: a call's
  ledger rows appear with its commit, all of them, and never before.
- *Inventory implements StockBook.* The mapping is the identity. `Commit` is `Apply`: by
  `HeldRowsAreOwn` the balances the call computed are those it would compute now, of every
  item at once, and by `CallsTold` nothing of it is recorded yet. `RejectFile` is `TurnDown`,
  on the one snapshot it is planned on, and `RecordRejection` is `Reject`, whatever the
  balances are by then. An `Abort` or `Crash` in between is `Forget`; all else, a rollback
  included, is a stutter.
- *Stock lines.* While `splitLine` walks, the cuts it has made are the only ones a legal
  reading of the line can have, and the field it is in is a start that every such reading
  walks through as well. At the end of the line there is one reading or the line
  is refused. That no other cut exists is shown by taking the *first* place where two
  readings part, an element of a finite set, and so without induction.
- *Stock files.* `FileRight`: the lines read so far are the rows and the errors, and no line
  is both; every SKU a filled line has named is remembered, whether its row was taken or not.
- *CartCustody.* `CustodyInv`: whoever binds baskets to a customer holds the customer's lock
  (`HoldsCustomer`), so the list it took without row locks stays *complete*
  (`ListIsComplete`), although it may be stale in the other direction, which is the
  finding above. Kept and abandoned rows are locked to the end (`HoldsKept`,
  `HoldsAbandoned`), so a checkout sells an active basket (`ConvertsActive`).
- *CartCustody implements BasketBook.* The mapping is the identity; only `Bind` and `Convert`
  write rows. `BasketsRight` adds to `CustodyInv` that the basket about to be bound is still
  as it was read and not on its own list (`KeptAreLive`), that a listed basket stays a
  customer's whatever becomes of it (`ListedAreCustomers`), and that a sold one is never
  active again (`SoldAreOver`). That *all* the others are given up is `ListIsComplete`.
- *CartNotices.* `BasketInv`: whoever works on the basket holds its row, it is active, and what
  was read is what it holds; exactly the lines have a snapshot. From it each of the
  four promises is shown step by step.
- *OrderLifecycle.* `LifecycleInv`: what a call read under the row lock is what the row says
  (`ReadsAreCurrent`), hence what it decided is still allowed when it commits
  (`DecisionsStand`). `GivenBackOnce` is proved together with it, since what is
  outstanding of a line is only a natural number because nothing was given back
  twice. The history needs that an edge is one rule (`OneRulePerEdge`), the guard
  that goods leave by one edge (`OneWayOut`), the void that a cancelled order is
  final (`CancelledIsFinal`): lemmas about the table itself.
- *Book, factor, listings.* `BookRight`: what the holder of the book's lock decided still fits
  what is saved. `FactorRight`: a code's counter is claimed by a conditional update, so
  what was matched before is looked at again. `ListingsRight`: a chain grows at its end,
  under a lock, from the price the row has.
- *Intake.* `IntakeRight`: who counted holds the shop's lock, and time only makes
  requests fall out of a window. That a window of *every* start holds no more than its cap
  is led back to the windows that end with a request.
- *Windows.* `WindowsRight`: each booked window was offered by the grid of its settings.
  Each starts whole lengths after its own date's midnight (`LaidOut`), so two of one date
  are apart; one that is offered ends on its date or at the midnight that closes it, so
  two of different dates are apart as well.
- *Pool.* `PoolRight`: connections out are transactions and reads, and a request's place in
  its script tells which locks and connections it has. When nobody can go on, no read is under
  way, so somebody is in a transaction; who waits there for a lock waits for another
  transaction, the holder of the last lock waits for none, and so one of
  them waits for the shared client, as only baskets do. That it does happen is the
  finding `pool_starves`.
- *Accounts.* `AccountsRight`: the database's unique keys make phones and emails of one row,
  and a row's credentials, once there, are not taken away, so what a request judged
  still holds when it writes. `ChangesAreWhole`: one change of password at a time is under way
  for a row, and once it has deleted the sessions only late ones are left. `StaffRight`: a request past its check holds the account's lock;
  writing an account and dropping its sessions are one commit.
- *Screens.* `ScreensRight`: a screen is within its viewer's scope because the viewer was when
  it asked; a press is by an account as it is then.
- *Tree and gallery.* `TreeRight`: a move is judged and written under the tree's lock, and
  others only add leaves. "No cycle" is stated over *sets* (no set of categories hangs
  under itself), which a move keeps because the new place is not below the category moved.
  `GalleryRight`: a reordering keeps every row it has written locked to its commit.
- *Map.* `MapRight`: rows are created and switched but never moved, so a shop's
  authorization and an address's shop last.
- *Seed.* `SeedRight`: a movement and its ledger row are one transaction, a product has an
  opening row exactly if it is on the shelf, and a demo order has as many rows of a product
  as its status says; so a second run finds what the first one did.
- *Device.* `VisitRight`: `AloneRight` says that a request nobody crossed still works on the
  cookies the device has, and its answer brings area and basket together.
- *Shop window.* `WindowRight`: each part of a page was so at one of the `moments`; if there
  is only one moment they agree. A row whose ties fall on one page is on that page and no other
  in every order the database may choose (`SettledPage`), by counting the rows before its key
  and up to it; so turning all pages shows it exactly once.
- *Composition.* A step of `MCRecords` is a step of the component in focus
  (`StepOfTheOneInFocus`) and leaves what the others keep as it is (`OthersStay`), so a
  behaviour is one of the component in focus and every other is as it was at first. Two
  cases are not that simple: components without requests (window, files, seed, pool) go
  through their own steps or none whoever is in focus, and staff sessions also move while the
  screens are in focus (`SessionsRight`).

Some proofs changed a model. `ScreensHold` was false of an administrator who is moved
to a shop while an order's screen is open; TLC had not met that, since its instances
had one administrator. The property now says what the code does (the screen stays, its
buttons are judged anew) and the run starts from two as well. The constants `Nothing`
and the clocks of `DeliveryWindows` had no assumption that excluded senseless values.

**Only model-checked.**

- Liveness: `EveryPlacementAnswered`, `EveryCallEnds`, `EveryRequestEnds`, and the second
  half of `EventsMatchCommits` (a commit is announced or lost in a restart). The prover
  reaches neither ENABLED nor fairness.
- The five findings: a run shows each by a counterexample, and there is nothing to prove.

## 7. What is not modelled

- *Prices and fees in a placement*: whether a basket reaches the minimum is a free
  choice, and a new fee applies to later placements only. That an area may change
  while a placement relies on it is in `StoreMap`.
- *Windows across a change of the settings*: orders of an older grid are counted by
  their start against the new one; the code has no rule for it, and `WindowsAreApart`
  compares orders of one grid only.
- *What the record modules abstract*: slugs, names and barcodes, search ranking, formats of
  phones and emails, text checks of forms, whether the shop a product is asked of is active.
  Password hashing and the HMAC of a code are out of a model checker's reach.
- *The order of events*: the emit comes after the unlock, so events of two
  transitions may come out in either order; `HeardIsHistory` bounds how many were heard only.
- *Notifications and fulfillment*: providers and stubs of a later phase. *Config, money,
  ids, logging*: functions of a value, without state.
- *Pages*: layout, the order's status page, middleware, boot checks and migrations; the
  figures of the reports beyond the orders still to be worked on.
- *Audit rows*: that an entry exists, by whom and for which shop, is in `BackOffice`; its
  before and after are not.

## 8. Plan

Built, in this order: OrderStates and OrderBook, Placement, Inventory, CartCustody,
CartNotices, OrderLifecycle, each but the first two with its proofs beside it; then Authz
and Requests and the record modules on them, the storefront's window and device, the back
office and the pool;
then the proofs of Placement's baskets, stock and refinement, of what Inventory tells, and of
every record module; then `StockBook` and `BasketBook`, the lines of stock files and the
composition.

Left:

1. **Names for what a stale list may take.** `BasketBook` allows any basket of a customer to be
   given up along with the listed ones; a history of who owned each basket would
   confine it to those that once were this customer's.
2. **Two record modules in motion**: `MCRecords` keeps one in focus, on the argument that the
   others' steps commute with its own; that they do is not itself a theorem.
3. **Prices in a placement**, for the fees and the minimum that are free choices now.
