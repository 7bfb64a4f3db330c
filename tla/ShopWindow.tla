----------------------------- MODULE ShopWindow -----------------------------
(***************************************************************************)
(* One shop's window: the pages of an aisle, the search, the page of a     *)
(* product and the category tiles (storefront/catalogue.ts with the reads  *)
(* it makes in catalog, pricing and inventory).                            *)
(*                                                                         *)
(* A page is put together from reads of three modules, one after another   *)
(* and outside any transaction; staff may commit a change between any two  *)
(* of them.  The storefront never writes what it reads here.               *)
(***************************************************************************)
EXTENDS Requests, Integers, Sequences, Functions

CONSTANTS
    Wares,          \* products
    Aisles,         \* categories
    Root,           \* a null parentId
    Here,           \* the shop that serves the visitor's area
    Hits,           \* products the search finds, each with its place by score and name
    PageSize,       \* products per page
    SearchLimit,    \* rows a search returns at most
    LowStock,       \* at or below this the number left is told
    FirstShelves,   \* what staff may have set up at the start
    MaxCommits      \* bound: commits of staff while a visitor's pages are put together

VARIABLES
    onShelf,     \* each product: its aisle, its place in it, isActive, this shop's terms and stock
    aisle,     \* each category: its parent and isActive
    visit,     \* the page being put together, or Nothing
    window,    \* the page last shown, or Nothing
    moments,   \* shelves and aisles there have been since the visitor came
    walked,    \* the pages of the aisle seen so far
    commits

pageVars == <<onShelf, aisle, visit, window, moments, walked, commits>>
shopRows == <<onShelf, aisle, commits>>

Placed == [under : Aisles \cup {Root}, active : BOOLEAN]

\* The key is the place of a product by aisleSortKey and then name; neither is
\* unique, so two products may have the same.
Ware == [aisle : Aisles, key : Nat, active : BOOLEAN, listed : BOOLEAN, price : Nat, stock : Nat]

\* No set of categories hangs under itself (TreeHasNoCycle of Catalogue).
Loopless(tree) == \A S \in (SUBSET Aisles) \ {{}} : \E a \in S : tree[a].under \notin S

ASSUME ShopWindowConstants ==
    /\ IsFiniteSet(Wares)
    /\ Here \in Stores
    /\ Root \notin Aisles /\ Nothing \notin Aisles
    /\ DOMAIN Hits \subseteq Wares /\ Hits \in [DOMAIN Hits -> Nat]
    /\ {PageSize, SearchLimit} \subseteq Nat \ {0}
    /\ {LowStock, MaxCommits} \subseteq Nat
    /\ \A f \in FirstShelves : /\ f.onShelf \in [Wares -> Ware]
                               /\ f.aisle \in [Aisles -> Placed] /\ Loopless(f.aisle)

-----------------------------------------------------------------------------
(* The tree, as catalog/domain walks it *)

\* descendantCategoryIds: the root asked for and everything that hangs under it.
Below(tree, c) ==
    {d \in Aisles :
        \A S \in SUBSET Aisles :
            (c \in S /\ \A a \in Aisles : tree[a].under \in S => a \in S) => d \in S}

\* categoryTrail: from the top of the tree down to the category.
Trail(tree, c) == {d \in Aisles : c \in Below(tree, d)}

\* depthOf
Depth(tree, c) == Cardinality(Trail(tree, c)) - 1

-----------------------------------------------------------------------------
(* The queries; each is one statement and sees one committed state *)

Visitor == Shopper(Here)
MayRead(action, store) == Authorized(Visitor, action, store)

\* Bug: what is set up here, listed or not.
ListedIdsOfAll == {w \in Wares : onShelf[w].price > 0}

\* listListedProductIds: all of them, and no other shop's.
ListedIds == {w \in Wares : onShelf[w].listed}

\* listProducts and countProducts: active ones among the ids, in the subtree.
Matching(ids, tree) == {w \in ids : onShelf[w].active /\ onShelf[w].aisle \in tree}

KeysOf(placed) == [w \in Wares |-> placed[w].key]

\* What n rows of S may come first: none that stays behind goes before one of
\* them, and between equal keys the database is free, in every query anew.
First(S, key, n) ==
    {T \in SUBSET S : /\ Cardinality(T) = n \/ (T = S /\ Cardinality(S) < n)
                      /\ \A v \in T, w \in S \ T : key[v] <= key[w]}

\* Bug: an offset of whole pages, this one included.
PagesSkipped(S, key, n) ==
    UNION {First(S \ skipped, key, PageSize) : skipped \in First(S, key, n * PageSize)}

\* take and skip, in the order of browsing: what page n may have on it
Pages(S, key, n) ==
    UNION {First(S \ skipped, key, PageSize) : skipped \in First(S, key, (n - 1) * PageSize)}

PageCount(total) == IF total = 0 THEN 1 ELSE (total + PageSize - 1) \div PageSize
Clamp(n, total) == IF n < PageCount(total) THEN n ELSE PageCount(total)

\* searchProducts: what it may find; the ids restrict the query, so the limit
\* counts them alone.
Found(ids) == First({w \in ids \cap DOMAIN Hits : onShelf[w].active}, Hits, SearchLimit)

\* availabilityOf and displayableRemaining: a band, and a number only when low.
Band(stock) ==
    CASE stock = 0 -> [band |-> "OUT_OF_STOCK", left |-> 0]
      [] stock > 0 /\ stock <= LowStock -> [band |-> "LOW", left |-> stock]
      [] OTHER -> [band |-> "IN_STOCK", left |-> Nothing]

-----------------------------------------------------------------------------
(* The visitor *)

\* pageNumber and Math.max: whatever was typed, it is 1 or more (bound: a page
\* there would be if everything were in the aisle).
Asked == {[page |-> "aisle", want |-> a, number |-> n] :
              a \in Aisles \cup {Nothing}, n \in 1..PageCount(Cardinality(Wares))}
             \cup {[page |-> "search", want |-> Nothing, number |-> n] : n \in 1..2}
             \cup {[page |-> "product", want |-> w, number |-> 1] : w \in Wares}
             \cup {[page |-> "tiles", want |-> Nothing, number |-> 1]}

Now == [onShelf |-> onShelf, aisle |-> aisle]
NothingRead == [ids |-> {}, tree |-> {}, total |-> 0, number |-> 1, rows |-> {},
                prices |-> Nothing, bands |-> Nothing]

\* The page of an aisle first looks the category up: it is not found unless it
\* is active.  The page of a product looks for an active one.  A bound: one
\* visitor in a behaviour, as the next one would start from other shelves.
Arrive ==
    /\ moments = {}
    /\ \E q \in Asked :
         /\ q.page = "aisle" /\ q.want # Nothing => aisle[q.want].active
         /\ q.page = "product" => onShelf[q.want].active
         /\ visit' = [asked |-> q, at |-> "listed", read |-> NothingRead]
    /\ moments' = {Now}
    /\ UNCHANGED <<shopRows, window, walked>>

\* Pager: the next page of the aisle, while there is one.
NextPage ==
    /\ visit = Nothing /\ window # Nothing
    /\ window.asked.page = "aisle" /\ window.number < window.pages
    /\ visit' = [asked |-> [window.asked EXCEPT !.number = window.number + 1],
                 at |-> "listed", read |-> NothingRead]
    /\ window' = Nothing
    /\ UNCHANGED <<shopRows, moments, walked>>

Reads(at, read) ==
    /\ visit' = [visit EXCEPT !.at = at, !.read = read]
    /\ UNCHANGED <<shopRows, window, moments, walked>>

Shows(items, number, pages, total) ==
    /\ visit' = Nothing
    /\ window' = [asked |-> visit.asked, items |-> items, number |-> number,
                  pages |-> pages, total |-> total]
    /\ walked' = Append(walked, {i.ware : i \in items})
    /\ UNCHANGED <<shopRows, moments>>

AtShelf(step) == visit # Nothing /\ visit.at = step

\* Every page but a product's starts from what the shop lists.
ReadListed ==
    /\ AtShelf("listed") /\ visit.asked.page # "product"
    /\ MayRead("store-product:read", Here)
    /\ IF ListedIds = {}
       THEN Shows({}, 1, 1, 0)
       ELSE Reads(CASE visit.asked.page = "aisle" -> "tree"
                    [] visit.asked.page = "search" -> "hits"
                    [] OTHER -> "stocked",
                  [visit.read EXCEPT !.ids = ListedIds])

\* shopPage: the subtree, or no restriction to an aisle
ReadTree ==
    /\ AtShelf("tree") /\ MayRead("category:read", NoStore)
    /\ Reads("count", [visit.read EXCEPT !.tree =
                         IF visit.asked.want = Nothing THEN Aisles
                         ELSE Below(aisle, visit.asked.want)])

CountRows ==
    /\ AtShelf("count") /\ MayRead("product:read", NoStore)
    /\ LET total == Cardinality(Matching(visit.read.ids, visit.read.tree)) IN
         Reads("rows", [visit.read EXCEPT !.total = total,
                                          !.number = Clamp(visit.asked.number, total)])

ReadRows ==
    /\ AtShelf("rows")
    /\ \E page \in Pages(Matching(visit.read.ids, visit.read.tree), KeysOf(onShelf),
                         visit.read.number) :
         Reads("details", [visit.read EXCEPT !.rows = page])

\* searchShop: all hits in one query, one window of them.
ReadHits ==
    /\ AtShelf("hits") /\ MayRead("product:read", NoStore)
    /\ \E found \in Found(visit.read.ids) :
         LET n == Clamp(visit.asked.number, Cardinality(found))
         IN IF found = {}
            THEN Shows({}, 1, 1, 0)
            ELSE \E page \in Pages(found, Hits, n) :
                   Reads("details",
                         [visit.read EXCEPT !.total = Cardinality(found), !.number = n,
                                            !.rows = page])

\* productPage: only what is listed here; its price is the one just read.
ReadProductListing ==
    /\ AtShelf("listed") /\ visit.asked.page = "product"
    /\ MayRead("store-product:read", Here)
    /\ LET w == visit.asked.want IN
         IF onShelf[w].listed
         THEN Reads("details", [visit.read EXCEPT !.rows = {w},
                                  !.prices = [v \in {w} |-> onShelf[v].price]])
         ELSE Shows({}, 1, 1, 0)

\* availabilityFor and pricesFor run side by side: their order is open.
ReadBands ==
    /\ AtShelf("details") /\ visit.read.bands = Nothing
    /\ MayRead("inventory:read", Here)
    /\ Reads("details", [visit.read EXCEPT !.bands =
                           [w \in visit.read.rows |-> Band(onShelf[w].stock)]])

ReadPrices ==
    /\ AtShelf("details") /\ visit.read.prices = Nothing
    /\ Reads("details", [visit.read EXCEPT !.prices =
                           [w \in {v \in visit.read.rows : onShelf[v].listed} |-> onShelf[w].price]])

\* toShopItem: a row without a price is left out; an item that is out of stock
\* cannot be put into the basket.
ShowPage ==
    /\ AtShelf("details") /\ visit.read.bands # Nothing /\ visit.read.prices # Nothing
    /\ LET items == {[ware |-> w, price |-> visit.read.prices[w], stock |-> visit.read.bands[w]] :
                        w \in visit.read.rows \cap DOMAIN visit.read.prices}
       IN Shows(items, visit.read.number, PageCount(visit.read.total), visit.read.total)

\* shopCategories: the tops of the tree that have something listed under them;
\* categories and ids are read side by side, then the products.
ShowTiles ==
    /\ AtShelf("stocked") /\ MayRead("category:read", NoStore)
    /\ LET stocked == {onShelf[w].aisle : w \in Matching(visit.read.ids, Aisles)}
           tiles == {a \in Aisles : aisle[a].under = Root /\ Below(aisle, a) \cap stocked # {}}
       IN Shows({[ware |-> a] : a \in tiles}, 1, 1, Cardinality(tiles))

-----------------------------------------------------------------------------
(* What staff commit meanwhile: each of these is a transaction of its own *)

CommitsWare(w, row) ==
    /\ commits < MaxCommits /\ visit # Nothing
    /\ onShelf' = [onShelf EXCEPT ![w] = row]
    /\ row # onShelf[w]
    /\ commits' = commits + 1
    /\ moments' = moments \cup {[onShelf |-> onShelf', aisle |-> aisle]}
    /\ UNCHANGED <<aisle, visit, window, walked>>

Refile == \E w \in Wares, a \in Aisles : CommitsWare(w, [onShelf[w] EXCEPT !.aisle = a])
Reorder == \E w \in Wares, k \in 1..2 : CommitsWare(w, [onShelf[w] EXCEPT !.key = k])
SwitchWare == \E w \in Wares : CommitsWare(w, [onShelf[w] EXCEPT !.active = ~onShelf[w].active])
SwitchListing ==
    \E w \in Wares : /\ onShelf[w].price > 0
                     /\ CommitsWare(w, [onShelf[w] EXCEPT !.listed = ~onShelf[w].listed])
Reprice == \E w \in Wares, p \in 1..2 :
    CommitsWare(w, [onShelf[w] EXCEPT !.price = p, !.listed = onShelf[w].listed \/ onShelf[w].price = 0])
SellOut == \E w \in Wares : CommitsWare(w, [onShelf[w] EXCEPT !.stock = 0])

Rearrange ==
    /\ commits < MaxCommits /\ visit # Nothing
    /\ \E c \in Aisles, row \in Placed :
         /\ row.under \notin Below(aisle, c)
         /\ row # aisle[c]
         /\ aisle' = [aisle EXCEPT ![c] = row]
    /\ commits' = commits + 1
    /\ moments' = moments \cup {[onShelf |-> onShelf, aisle |-> aisle']}
    /\ UNCHANGED <<onShelf, visit, window, walked>>

-----------------------------------------------------------------------------
WindowInit ==
    /\ \E f \in FirstShelves : onShelf = f.onShelf /\ aisle = f.aisle
    /\ visit = Nothing
    /\ window = Nothing
    /\ moments = {}
    /\ walked = <<>>
    /\ commits = 0

WindowNext ==
    \/ Arrive \/ NextPage
    \/ ReadListed \/ ReadTree \/ CountRows \/ ReadRows \/ ReadHits \/ ReadProductListing
    \/ ReadBands \/ ReadPrices \/ ShowPage \/ ShowTiles
    \/ Refile \/ Reorder \/ SwitchWare \/ SwitchListing \/ Reprice \/ SellOut \/ Rearrange

WindowSpec == WindowInit /\ [][WindowNext]_pageVars

-----------------------------------------------------------------------------
(* Properties *)

\* What the shop sells in an aisle, by definition.
SoldIn(m, a) ==
    {w \in Wares : /\ m.onShelf[w].listed /\ m.onShelf[w].active
                   /\ a # Nothing => a \in Trail(m.aisle, m.onShelf[w].aisle)}

\* The rows of S whose ties all fall on one page: those with an equal key take
\* the places from the number of smaller keys on, and no page ends among them.
Ahead(S, key, w) == {v \in S : key[v] < key[w]}
UpTo(S, key, w) == {v \in S : key[v] <= key[w]}
Settled(S, key) ==
    {w \in S : Cardinality(Ahead(S, key, w)) \div PageSize
                 = (Cardinality(UpTo(S, key, w)) - 1) \div PageSize}

\* Whatever staff commit while a page is put together: everything on it was on
\* sale in this shop at the price shown since the visitor came, active, filed
\* under the aisle, and in the stock band shown; and no page has too much.
ShowsWhatWasSold ==
    window # Nothing /\ window.asked.page # "tiles" =>
        /\ Cardinality(window.items) <= PageSize
        /\ window.number \in 1..window.pages
        /\ \A i \in window.items :
             /\ \E m \in moments : m.onShelf[i.ware].listed /\ m.onShelf[i.ware].price = i.price
             /\ \E m \in moments : Band(m.onShelf[i.ware].stock) = i.stock
             /\ \E m \in moments : m.onShelf[i.ware].active
             /\ window.asked.page = "aisle" /\ window.asked.want # Nothing =>
                   \E m, n \in moments :
                       window.asked.want \in Trail(n.aisle, m.onShelf[i.ware].aisle)

\* While staff change nothing, somebody who turns the pages of an aisle to the
\* last one has seen what is sold in it and nothing else, and everything in it
\* exactly once whose place the order settles (equal keys on both sides of a
\* page's end may come twice or never, catalog/repo.ts:174); a search shows only
\* what is sold; a product's page shows it exactly when it is sold; and the tile
\* of a category leads to something, while everything sold is under a tile.
ShowsAllThatIsSold ==
    \A m \in moments : window # Nothing /\ moments = {m} =>
        LET items == {i.ware : i \in window.items}
            sold == SoldIn(m, window.asked.want)
            settled == Settled(sold, KeysOf(m.onShelf))
        IN CASE window.asked.page = "aisle" ->
                  /\ UNION Range(walked) \subseteq sold
                  /\ window.number = window.pages /\ Len(walked) = window.pages =>
                        settled \subseteq UNION Range(walked)
                  /\ \A i, j \in DOMAIN walked :
                        i # j => walked[i] \cap walked[j] \cap settled = {}
                  /\ window.total = Cardinality(sold)
             [] window.asked.page = "search" ->
                  /\ items \subseteq SoldIn(m, Nothing)
                  /\ items = {} => DOMAIN Hits \cap SoldIn(m, Nothing) = {}
             [] window.asked.page = "product" ->
                  items = {window.asked.want} \cap SoldIn(m, Nothing)
             [] OTHER ->
                  /\ \A a \in items : SoldIn(m, a) # {}
                  /\ SoldIn(m, Nothing) = UNION {SoldIn(m, a) : a \in items}

\* The shop window is true: nothing is shown that was not so, and nothing sold
\* is left out unless something changed or a tie has no order (storefront/catalogue.ts).
ShopWindowIsTrue == ShowsWhatWasSold /\ ShowsAllThatIsSold
=============================================================================
