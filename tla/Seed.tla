-------------------------------- MODULE Seed --------------------------------
(***************************************************************************)
(* The development seed of one shop (prisma/seed.ts): run, killed half way *)
(* and run again, on a database in which the shop has been working since.  *)
(*                                                                         *)
(* Every statement is keyed so that running it again finds its own row.    *)
(* Opening balances and demo orders move stock, so each comes with its     *)
(* ledger rows in one transaction, or not at all.  The program is expected *)
(* to be run by itself: between two runs the shop works, during one it     *)
(* does not.                                                               *)
(***************************************************************************)
EXTENDS Integers, Sequences, FiniteSets

CONSTANTS
    Skus,          \* numbered in the order the seed and its query list them
    Listed,        \* those the seed lists in this shop
    OpeningStock,  \* stockFor, 0 for an unlisted one
    MaxRuns,       \* bound: runs of the seed
    MaxShopSteps   \* bound: what the shop does between runs

ASSUME SeedConstants ==
    /\ Skus = 1..Cardinality(Skus) /\ IsFiniteSet(Skus)
    /\ Listed \subseteq Skus
    /\ OpeningStock \in [Skus -> Nat]
    /\ {MaxRuns, MaxShopSteps} \subseteq Nat

VARIABLES
    stmt,      \* the statement the seed is at, 0 when it is not running
    runs,      \* times it was started
    shopSteps, \* steps of the shop so far
    onSale,    \* StoreProduct.isListed
    shelf,     \* InventoryItem.websiteStock, of the products that have a row
    movements, \* StockLedger rows of each product: what moved it, delta, balanceAfter
    picked,    \* the listings the seed read for its demo orders
    demo       \* the demo orders: how they stand and what was ordered

seedVars == <<stmt, runs, shopSteps, onSale, shelf, movements, picked, demo>>

DemoOrders == {1, 2}
\* What a movement is of: its demo order, or one of these.
opening == 0
trade == 3

NoOrder == [state |-> "none", lines |-> {}]

\* Statements of a run: two for each product, the query, one for each order.
Count == Cardinality(Skus)
ListingOf(p) == 2 * p - 1
ItemOf(p) == 2 * p
Query == 2 * Count + 1
OrderAt(n) == Query + n

\* The move of one product by delta, and its ledger row.
Row(p, what, delta) ==
    [of |-> what, delta |-> delta, after |-> shelf[p] + delta]

Moves(lines, what, delta) ==
    /\ shelf' = [p \in DOMAIN shelf |-> IF p \in lines THEN shelf[p] + delta ELSE shelf[p]]
    /\ movements' = [p \in Skus |-> IF p \in lines
                                    THEN Append(movements[p], Row(p, what, delta))
                                    ELSE movements[p]]

-----------------------------------------------------------------------------
(* The seed *)

Start ==
    /\ stmt = 0 /\ runs < MaxRuns
    /\ stmt' = 1
    /\ runs' = runs + 1
    /\ UNCHANGED <<shopSteps, onSale, shelf, movements, picked, demo>>

\* seedStore: the listing is put back to what the seed says of it.
UpsertListing(p) ==
    /\ stmt = ListingOf(p)
    /\ onSale' = IF p \in Listed THEN onSale \cup {p} ELSE onSale \ {p}
    /\ stmt' = stmt + 1
    /\ UNCHANGED <<runs, shopSteps, shelf, movements, picked, demo>>

\* seedStore: item and opening balance in one transaction; a row that is there
\* already is a P2002, and both it and its ledger are left alone.
CreateItem(p) ==
    /\ stmt = ItemOf(p)
    /\ IF p \in DOMAIN shelf
       THEN UNCHANGED <<shelf, movements>>
       ELSE /\ shelf' = [q \in DOMAIN shelf \cup {p} |->
                           IF q = p THEN OpeningStock[p] ELSE shelf[q]]
            /\ movements' = [movements EXCEPT ![p] =
                 Append(@, [of |-> opening, delta |-> OpeningStock[p],
                            after |-> OpeningStock[p]])]
    /\ stmt' = stmt + 1
    /\ UNCHANGED <<runs, shopSteps, onSale, picked, demo>>

\* seedDemoOrders: the first two listings.
ReadListings ==
    /\ stmt = Query
    /\ picked' = {p \in onSale : Cardinality({q \in onSale : q < p}) < 2}
    /\ stmt' = IF onSale = {} THEN 0 ELSE stmt + 1
    /\ UNCHANGED <<runs, shopSteps, onSale, shelf, movements, demo>>

\* The nth order is of n of each of the first n.
LinesOf(n) == {p \in picked : Cardinality({q \in picked : q < p}) < n}

Short(n) == {p \in LinesOf(n) : p \notin DOMAIN shelf \/ shelf[p] < n}

\* Bug: a line that is short ends the transaction, which commits what it did.
PlaceDemoInPart(n) ==
    IF Short(n) = {}
    THEN /\ Moves(LinesOf(n), n, -n)
         /\ demo' = [demo EXCEPT ![n] = [state |-> "live", lines |-> LinesOf(n)]]
    ELSE /\ shelf' = [p \in DOMAIN shelf |->
                        IF p \in LinesOf(n) \ Short(n) THEN shelf[p] - n ELSE shelf[p]]
         /\ UNCHANGED <<movements, demo>>

\* Every line is planned before one is written; a line that is short throws.
PlaceDemo(n) ==
    IF Short(n) = {}
    THEN /\ Moves(LinesOf(n), n, -n)
         /\ demo' = [demo EXCEPT ![n] = [state |-> "live", lines |-> LinesOf(n)]]
    ELSE UNCHANGED <<shelf, movements, demo>>

\* An order number that is known is done.
DemoOrder(n) ==
    /\ stmt = OrderAt(n)
    /\ IF demo[n].state = "none" THEN PlaceDemo(n) ELSE UNCHANGED <<shelf, movements, demo>>
    /\ stmt' = IF n = 2 THEN 0 ELSE stmt + 1
    /\ UNCHANGED <<runs, shopSteps, onSale, picked>>

\* The process is killed; what was committed stays.
Kill ==
    /\ stmt # 0
    /\ stmt' = 0
    /\ UNCHANGED <<runs, shopSteps, onSale, shelf, movements, picked, demo>>

-----------------------------------------------------------------------------
(* The shop between two runs *)

ShopWorks ==
    /\ stmt = 0
    /\ shopSteps < MaxShopSteps
    /\ shopSteps' = shopSteps + 1
    /\ UNCHANGED <<stmt, runs, picked>>

Trade ==
    /\ ShopWorks
    /\ \E p \in DOMAIN shelf, delta \in {-1, 1} :
         /\ shelf[p] + delta >= 0
         /\ Moves({p}, trade, delta)
    /\ UNCHANGED <<onSale, demo>>

Relist ==
    /\ ShopWorks
    /\ \E p \in Skus : onSale' = (onSale \cup {p}) \ (onSale \cap {p})
    /\ UNCHANGED <<shelf, movements, demo>>

\* correctOrder gives back what the order's ledger says was taken.
CancelDemo ==
    /\ ShopWorks
    /\ \E n \in DemoOrders :
         /\ demo[n].state = "live"
         /\ Moves(demo[n].lines, n, n)
         /\ demo' = [demo EXCEPT ![n].state = "cancelled"]
    /\ UNCHANGED onSale

-----------------------------------------------------------------------------
SeedInit ==
    /\ stmt = 0
    /\ runs = 0
    /\ shopSteps = 0
    /\ onSale = {}
    /\ shelf = <<>>
    /\ movements = [p \in Skus |-> <<>>]
    /\ picked = {}
    /\ demo = [n \in DemoOrders |-> NoOrder]

SeedNext ==
    \/ Start \/ ReadListings \/ Kill \/ Trade \/ Relist \/ CancelDemo
    \/ \E p \in Skus : UpsertListing(p) \/ CreateItem(p)
    \/ \E n \in DemoOrders : DemoOrder(n)

SeedSpec == SeedInit /\ [][SeedNext]_seedVars

-----------------------------------------------------------------------------
(* Properties *)

RowsOf(p, what) == {k \in DOMAIN movements[p] : movements[p][k].of = what}

\* However often the seed was started, wherever it was killed and whatever the
\* shop did meanwhile: every unit on the shelf is explained by its movements,
\* from one opening balance on, and a demo order took its goods exactly once if
\* it stands and gave them back exactly once if it was cancelled (seed.ts:558-
\* 561, 723-733, "nothing partial can commit").
SeedMovesOnce ==
    \A p \in Skus :
        LET h == movements[p] IN
        /\ p \in DOMAIN shelf <=> h # <<>>
        /\ h # <<>> => h[1].after = h[1].delta /\ h[Len(h)].after = shelf[p]
        /\ \A k \in 2..Len(h) : h[k].after = h[k - 1].after + h[k].delta
        /\ RowsOf(p, opening) \subseteq {1}
        /\ \A n \in DemoOrders :
             Cardinality(RowsOf(p, n)) =
                 IF p \notin demo[n].lines THEN 0
                 ELSE IF demo[n].state = "live" THEN 1 ELSE 2
=============================================================================
