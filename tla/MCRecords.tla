------------------------------ MODULE MCRecords ------------------------------
(***************************************************************************)
(* The records a shop is run on, one component at a time.  Accounts, the   *)
(* catalogue, prices, address books, product requests, the map, delivery   *)
(* windows and the seed share no lock, and what one of them decides rests  *)
(* on no row another one changes; the shop window, which reads several,    *)
(* brings their commits along, as the back office, a shopper's device and  *)
(* the connection pool do for theirs.  So a behaviour is about the         *)
(* component in focus.                                                     *)
(***************************************************************************)
EXTENDS StaffAccounts, SecondFactor, Catalogue, Listings, AddressBook, ShopAccounts,
        ProductRequests, StoreMap, DeliveryWindows, ShopWindow, StockCsv, Seed,
        BackOffice, ShopVisit, ConnectionPool, TLC

CONSTANTS
    Focuses,   \* the components a run is about
    ann, bob, eve, s1, s2, k2, k3, i1, i2, z1, a1, n1, n2, p1, d2, d3, q1, q2

VARIABLE focus

-----------------------------------------------------------------------------
(* Values of the constants *)

Post(role, store) == [role |-> role, store |-> store, active |-> TRUE, password |-> 0]

\* An administrator, a manager and a member of staff, who works there, has been
\* disabled or works in the other shop; or two administrators.
OneAdmin ==
    {[u \in Users |-> CASE u = ann -> Post("SUPER_ADMIN", NoStore)
                        [] u = bob -> Post("STORE_MANAGER", s1)
                        [] OTHER -> third] :
         third \in {Post("STORE_STAFF", s1), Post("STORE_STAFF", s2),
                    [Post("STORE_STAFF", s1) EXCEPT !.active = FALSE]}}
TwoAdmins ==
    {[u \in Users |-> IF u = eve THEN Nothing ELSE Post("SUPER_ADMIN", NoStore)]}
AnyStaff == OneAdmin \cup TwoAdmins

\* What the other components start from; the screens also from two
\* administrators, one of whom may be moved to a shop.
SettledAccounts == CHOOSE f \in OneAdmin : \A u \in Users : f[u].active

\* Two roots, the third category missing or under the second.
Trees == {[k \in Categories |-> IF k = k3 THEN under ELSE NoParent] : under \in {Nothing, k2}}
Gallery == [i \in Images |-> CASE i = i1 -> 0 [] i = i2 -> 1 [] OTHER -> 2]

\* One name begins with the other; an area of the first shop, and the second
\* shop mapped or not there yet.
NamePrefixes == {<<n, n>> : n \in Names} \cup {<<n1, n2>>}
AreaOf(z, n, h, p) == [zone |-> z, name |-> n, hints |-> h, pincode |-> p, active |-> TRUE]
Additions ==
    {AreaOf(z, n, {}, p) : z \in ZoneIds, n \in Names, p \in {p1, Nothing}}
        \cup {AreaOf(z, n2, {n1}, p1) : z \in ZoneIds \ {z1}}
Maps ==
    {[shops |-> [s \in Stores |-> IF s \in S THEN [active |-> TRUE, accepting |-> TRUE] ELSE Nothing],
      zones |-> [z \in ZoneIds |-> IF z = z1 THEN [store |-> s1, active |-> TRUE]
                                   ELSE IF s2 \in S THEN [store |-> s2, active |-> TRUE]
                                   ELSE Nothing],
      areas |-> [a \in AreaIds |-> IF a = a1 THEN AreaOf(z1, n2, {}, p1) ELSE Nothing]] :
         S \in {{s1}, {s1, s2}}}

\* Clocks put forward within the days of a run, and one that stands.
Clock(at, before, after) == [at |-> at, before |-> before, after |-> after]
ForwardClocks == {Clock(at, 0, 1) : at \in {3, 6, 9}} \cup {Clock(0, 2, 2)}
Hours(length, open, close) == [length |-> length, open |-> open, close |-> close]
DayShapes == {Hours(l, 0, 6) : l \in {1, 2, 3, 6}} \cup {Hours(l, 1, 5) : l \in {1, 2}}
Sent == {Hours(2, Nothing, Nothing), Hours(4, Nothing, Nothing),
         Hours(Nothing, 4, Nothing), Hours(Nothing, Nothing, 3)}

Opening == <<3, 2, 0>>

\* Three products, in an aisle and its parent; one is nearly sold out, one is
\* and one is set up but not listed, and the two listed are a tie on one page.  Or
\* all are listed in one aisle, and the tie is at the end of the first page.
OnShelf(a, key, listed, price, stock) ==
    [aisle |-> a, key |-> key, active |-> TRUE, listed |-> listed, price |-> price,
     stock |-> stock]
Under(d) == [under |-> d, active |-> TRUE]
SomeShelves ==
    {[onShelf |-> <<OnShelf(d3, 2, TRUE, 1, 1), OnShelf(d2, 1, FALSE, 1, 3),
                    OnShelf(d2, 2, TRUE, 2, 0)>>,
      aisle |-> [d \in Aisles |-> Under(IF d = d3 THEN d2 ELSE Root)]]}
        \cup {[onShelf |-> [w \in Wares |-> OnShelf(d2, IF w = 1 THEN 1 ELSE 2, TRUE, 1, w)],
               aisle |-> [d \in Aisles |-> Under(Root)]]}
\* The second is found best, the others alike.
BestHits == <<2, 1, 2>>

\* Every line of four characters, and longer ones that begin and end in a quote.
CsvLines ==
    BoundedSeq(Chars, 4)
        \cup {<<Quote>> \o inside \o <<Quote>> : inside \in BoundedSeq({"x", Quote, ","}, 3)}
Cells(sku, mode, quantity) ==
    [kind |-> "cells", sku |-> sku, mode |-> mode, quantity |-> quantity, whole |-> quantity # 0]
Odd == {[kind |-> "blank"], [kind |-> "broken"], Cells(NoSku, "set", 1)}
CsvFiles ==
    {<<>>}
        \cup [1..2 -> Odd
                       \cup {Cells("a", m, q) : m \in Modes \cup {"", "other"}, q \in {-9, -1, 0, 1, 9}}
                       \cup {Cells("b", m, q) : m \in {"", "delta"}, q \in {-1, 9}}]
        \cup [1..3 -> {[kind |-> "blank"], Cells("a", "", 1), Cells("b", "set", 1),
                       Cells("a", "delta", -2)}]

\* Two orders of the first shop and one of the second.
InShop(s, status, flagged) ==
    [shop |-> s, status |-> status, flagged |-> flagged, confirmed |-> FALSE]
SomeOrders ==
    {<<InShop(s1, "PICKED", FALSE), InShop(s1, "PACKED", TRUE), InShop(s2, "PLACED", FALSE)>>}
ShopsByCode == <<s1, s2>>

\* An area of each shop.  A customer has saved an address in the second.
TwoPlaces == (q1 :> s1) @@ (q2 :> s2)
AnyShopper ==
    {[member |-> FALSE, home |-> Nothing], [member |-> TRUE, home |-> q2]}

OneSku == [sku \in {"a"} |-> 1]

-----------------------------------------------------------------------------
factorRows == <<now, secret, counter, uses>>
shelfRows == <<catalogueRows, galleryRows>>
priceRows == <<listing, history, pairLock, rowHeld>>
bookRows == <<live, defaults, saved, bookLock>>
accountRows == <<customer, signedIn>>
intakeRows == <<today, asks, trail, intakeLock, triageLock>>
mapRows == <<shop, area, zoneOf, routed>>
slotRows == <<clock, zone, shape, settingsLock, booked>>

vars == <<focus, request, staffRows, factorRows, shelfRows, priceRows, bookRows,
          accountRows, intakeRows, mapRows, slotRows, pageVars, csvVars, seedVars,
          screenRows, visitRows, poolRows>>

\* The components that are not in focus start anyhow and stay as they are.
RecordsInit ==
    /\ focus \in Focuses
    /\ StaffInit
    /\ focus = "screens" => account \in {SettledAccounts} \cup TwoAdmins
    /\ focus \notin {"staff", "screens"} => account = SettledAccounts
    /\ CatalogueInit /\ (focus # "catalogue" => parent = CHOOSE t \in FirstTrees : TRUE)
    /\ MapInit /\ (focus # "map" => \E m \in {CHOOSE m \in FirstMaps : TRUE} : shop = m.shops)
    /\ WindowsInit
    /\ focus # "windows" => /\ zone = CHOOSE z \in Zones : TRUE
                            /\ shape = CHOOSE s \in Shapes : TRUE
    /\ CsvInit /\ (focus # "csv" => line = <<>> /\ delimiter = "," /\ file = <<>>)
    /\ FactorInit /\ ListingsInit /\ BookInit /\ AccountsInit /\ IntakeInit /\ SeedInit
    /\ WindowInit
    /\ focus # "shop" => \E f \in {CHOOSE f \in FirstShelves : TRUE} :
                            onShelf = f.onShelf /\ aisle = f.aisle
    /\ ScreensInit /\ (focus # "screens" => order = CHOOSE o \in FirstOrders : TRUE)
    /\ PoolInit
    /\ VisitInit
    /\ focus # "visit" => (shopper = CHOOSE s \in Shoppers : TRUE) /\ jar.basket = Nothing

RecordsNext ==
    \/ /\ focus = "staff"
       /\ UNCHANGED <<factorRows, shelfRows, priceRows, bookRows, accountRows,
                      intakeRows, mapRows, slotRows, pageVars, csvVars, seedVars, screenRows, visitRows, poolRows, focus>>
       /\ StaffNext
    \/ /\ focus = "factor"
       /\ UNCHANGED <<staffRows, shelfRows, priceRows, bookRows, accountRows,
                      intakeRows, mapRows, slotRows, pageVars, csvVars, seedVars, screenRows, visitRows, poolRows, focus>>
       /\ FactorNext
    \/ /\ focus = "catalogue"
       /\ UNCHANGED <<staffRows, factorRows, priceRows, bookRows, accountRows,
                      intakeRows, mapRows, slotRows, pageVars, csvVars, seedVars, screenRows, visitRows, poolRows, focus>>
       /\ CatalogueNext
    \/ /\ focus = "listings"
       /\ UNCHANGED <<staffRows, factorRows, shelfRows, bookRows, accountRows,
                      intakeRows, mapRows, slotRows, pageVars, csvVars, seedVars, screenRows, visitRows, poolRows, focus>>
       /\ ListingsNext
    \/ /\ focus = "book"
       /\ UNCHANGED <<staffRows, factorRows, shelfRows, priceRows, accountRows,
                      intakeRows, mapRows, slotRows, pageVars, csvVars, seedVars, screenRows, visitRows, poolRows, focus>>
       /\ BookNext
    \/ /\ focus = "accounts"
       /\ UNCHANGED <<staffRows, factorRows, shelfRows, priceRows, bookRows,
                      intakeRows, mapRows, slotRows, pageVars, csvVars, seedVars, screenRows, visitRows, poolRows, focus>>
       /\ AccountsNext
    \/ /\ focus = "intake"
       /\ UNCHANGED <<staffRows, factorRows, shelfRows, priceRows, bookRows,
                      accountRows, mapRows, slotRows, pageVars, csvVars, seedVars, screenRows, visitRows, poolRows, focus>>
       /\ IntakeNext
    \/ /\ focus = "map"
       /\ UNCHANGED <<staffRows, factorRows, shelfRows, priceRows, bookRows,
                      accountRows, intakeRows, slotRows, pageVars, csvVars, seedVars, screenRows, visitRows, poolRows, focus>>
       /\ MapNext
    \/ /\ focus = "windows"
       /\ UNCHANGED <<staffRows, factorRows, shelfRows, priceRows, bookRows,
                      accountRows, intakeRows, mapRows, pageVars, csvVars, seedVars, screenRows, visitRows, poolRows, focus>>
       /\ WindowsNext
    \/ /\ focus = "shop"
       /\ UNCHANGED <<request, staffRows, factorRows, shelfRows, priceRows, bookRows,
                      accountRows, intakeRows, mapRows, slotRows, csvVars, seedVars, screenRows, visitRows, poolRows, focus>>
       /\ WindowNext
    \/ /\ focus = "csv"
       /\ UNCHANGED <<request, staffRows, factorRows, shelfRows, priceRows, bookRows,
                      accountRows, intakeRows, mapRows, slotRows, pageVars, seedVars, screenRows, visitRows, poolRows, focus>>
       /\ CsvNext
    \/ /\ focus = "seed"
       /\ UNCHANGED <<request, staffRows, factorRows, shelfRows, priceRows, bookRows,
                      accountRows, intakeRows, mapRows, slotRows, pageVars, csvVars, screenRows, visitRows, poolRows, focus>>
       /\ SeedNext
    \/ /\ focus = "screens"
       /\ UNCHANGED <<factorRows, shelfRows, priceRows, bookRows, accountRows, intakeRows,
                      mapRows, slotRows, pageVars, csvVars, seedVars, visitRows, poolRows, focus>>
       /\ ScreensNext
    \/ /\ focus = "visit"
       /\ UNCHANGED <<staffRows, factorRows, shelfRows, priceRows, bookRows, accountRows, intakeRows,
                      mapRows, slotRows, pageVars, csvVars, seedVars, screenRows, poolRows, focus>>
       /\ VisitNext
    \/ /\ focus = "pool"
       /\ UNCHANGED <<request, staffRows, factorRows, shelfRows, priceRows, bookRows, accountRows,
                      intakeRows, mapRows, slotRows, pageVars, csvVars, seedVars, screenRows, visitRows, focus>>
       /\ PoolNext

RecordsSpec == RecordsInit /\ [][RecordsNext]_vars

Alike == Permutations(Requests)

-----------------------------------------------------------------------------
\* Every component keeps its invariant: the types of its rows, and that what a
\* request relies on when it writes still holds, because of the lock, the
\* condition or the key the code has for it.
RecordsInv ==
    /\ focus = "staff" => StaffInv
    /\ focus = "factor" => FactorInv
    /\ focus = "catalogue" => CatalogueInv
    /\ focus = "listings" => ListingsInv
    /\ focus = "book" => BookInv
    /\ focus = "accounts" => AccountsInv
    /\ focus = "intake" => IntakeInv
    /\ focus = "map" => MapInv /\ RoutesToOneShop
    /\ focus = "windows" => WindowsInv
    /\ focus = "visit" => VisitInv
    /\ focus = "pool" => PoolInv
=============================================================================
