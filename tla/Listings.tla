------------------------------ MODULE Listings ------------------------------
(***************************************************************************)
(* What each shop asks for a product and whether it shows it               *)
(* (pricing/service.ts, pricing/repo.ts, pricing/domain).                  *)
(*                                                                         *)
(* A listing comes into existence with its first price.  Every change of a *)
(* price leaves a row in an append-only history.  Pricing and listing hold *)
(* a lock on the pair of shop and product, because a listing that does not *)
(* exist yet has no row to lock, and then the row.                         *)
(***************************************************************************)
EXTENDS Requests, Sequences

CONSTANTS
    Products,
    Paise,            \* amounts somebody may ask for; 0 stands for no price
    MaxListingCalls   \* bound: requests served in one behaviour

ASSUME ListingConstants ==
    /\ Paise \subseteq Nat
    /\ MaxListingCalls \in Nat
    /\ Nothing \notin [mrp : Nat, selling : Nat, listed : BOOLEAN]

VARIABLES
    listing,   \* the StoreProduct row of a shop and product, or Nothing
    history,   \* its PriceChange rows, oldest first
    pairLock,  \* the request holding the advisory lock of the pair
    rowHeld    \* the request holding the row

listingVars == <<request, listing, history, pairLock, rowHeld>>

Pairs == Stores \X Products
Prices == [mrp : Paise, selling : Paise]
NoPrice == [mrp |-> 0, selling |-> 0]
Listing == [mrp : Nat, selling : Nat, listed : BOOLEAN]

PriceOf(row) == [mrp |-> row.mrp, selling |-> row.selling]

\* assertPrice: positive, and never above the maximum retail price.
Allowed(price) == price.mrp > 0 /\ price.selling > 0 /\ price.selling <= price.mrp

ListingJobs ==
    [op : {"setPrice"}, pair : Pairs, price : {p \in Prices : Allowed(p)}]
        \cup [op : {"setListed"}, pair : Pairs, listed : BOOLEAN]

Grant(op) == IF op = "setPrice" THEN "store-product:set-price" ELSE "store-product:list"

ShopStaff == {User("SUPER_ADMIN", NoStore)}
               \cup {User(role, s) : role \in Roles \ {"SUPER_ADMIN"}, s \in Stores}

Pair(r) == job[r].pair

-----------------------------------------------------------------------------
(* setPrice and setListed *)

AskListing(r) ==
    /\ served < MaxListingCalls
    /\ \E p \in ShopStaff, j \in ListingJobs :
         /\ Authorized(p, Grant(j.op), j.pair[1])
         /\ Starts(r, Nothing, j, "asked", Nothing)
    /\ UNCHANGED <<listing, history, pairLock, rowHeld>>

\* Bug: a lock on the row alone, which is none while there is no row.
LockPairNever(r) ==
    /\ pc[r] = "asked"
    /\ GoesOn(r, "keyed", Nothing)
    /\ UNCHANGED <<listing, history, pairLock, rowHeld>>

\* lockListingPair
LockPair(r) ==
    /\ pc[r] = "asked"
    /\ pairLock[Pair(r)] = Nothing
    /\ pairLock' = [pairLock EXCEPT ![Pair(r)] = r]
    /\ GoesOn(r, "keyed", Nothing)
    /\ UNCHANGED <<listing, history, rowHeld>>

\* lockListingForPair: the row, if there is one, is read under its lock.
ReadListing(r) ==
    /\ pc[r] = "keyed"
    /\ rowHeld[Pair(r)] = Nothing
    /\ rowHeld' = IF listing[Pair(r)] # Nothing
                  THEN [rowHeld EXCEPT ![Pair(r)] = r] ELSE rowHeld
    /\ GoesOn(r, "read", listing[Pair(r)])
    /\ UNCHANGED <<listing, history, pairLock>>

Commits(r) ==
    /\ Answered(r)
    /\ pairLock' = [p \in Pairs |-> IF pairLock[p] = r THEN Nothing ELSE pairLock[p]]
    /\ rowHeld' = [p \in Pairs |-> IF rowHeld[p] = r THEN Nothing ELSE rowHeld[p]]

\* What the history is told of a change from the row read to a price asked.
Moved(before, price) == before = Nothing \/ PriceOf(before) # price

Change(before, price) ==
    [old |-> IF before = Nothing THEN NoPrice ELSE PriceOf(before), new |-> price]

\* setPrice: upsertListing and insertPriceChange in one transaction.  Whether
\* the product is listed stays what it was; a first price lists it.
SetPrice(r) ==
    /\ pc[r] = "read" /\ job[r].op = "setPrice"
    /\ rowHeld[Pair(r)] \in {r, Nothing}
    /\ listing' = [listing EXCEPT ![Pair(r)] =
         [mrp |-> job[r].price.mrp, selling |-> job[r].price.selling,
          listed |-> seen[r] = Nothing \/ seen[r].listed]]
    /\ history' = IF Moved(seen[r], job[r].price)
                  THEN [history EXCEPT ![Pair(r)] = Append(@, Change(seen[r], job[r].price))]
                  ELSE history
    /\ Commits(r)

\* setListed: only of a product the shop has priced.
SetListed(r) ==
    /\ pc[r] = "read" /\ job[r].op = "setListed"
    /\ listing' = IF seen[r] = Nothing THEN listing
                  ELSE [listing EXCEPT ![Pair(r)].listed = job[r].listed]
    /\ Commits(r)
    /\ UNCHANGED history

-----------------------------------------------------------------------------
ListingsInit ==
    /\ RequestsInit
    /\ listing = [p \in Pairs |-> Nothing]
    /\ history = [p \in Pairs |-> <<>>]
    /\ pairLock = [p \in Pairs |-> Nothing]
    /\ rowHeld = [p \in Pairs |-> Nothing]

ListingsNext ==
    \E r \in Requests :
        AskListing(r) \/ LockPair(r) \/ ReadListing(r) \/ SetPrice(r) \/ SetListed(r)

ListingsSpec == ListingsInit /\ [][ListingsNext]_listingVars

-----------------------------------------------------------------------------
(* Properties *)

ListingRequest(r) ==
    /\ pc[r] \in {"idle", "asked", "keyed", "read"}
    /\ pc[r] # "idle" => job[r] \in ListingJobs
    /\ pc[r] \in {"keyed", "read"} => pairLock[Pair(r)] = r
    /\ pc[r] = "read" => seen[r] = listing[Pair(r)]

\* Types; a request past the locks has read the row as it still is.
ListingsInv ==
    /\ listing \in [Pairs -> Listing \cup {Nothing}]
    /\ history \in [Pairs -> Seq([old : [mrp : Nat, selling : Nat],
                                  new : [mrp : Nat, selling : Nat]])]
    /\ pairLock \in [Pairs -> Requests \cup {Nothing}]
    /\ rowHeld \in [Pairs -> Requests \cup {Nothing}]
    /\ \A p \in Pairs : rowHeld[p] # Nothing => pairLock[p] = rowHeld[p]
    /\ \A r \in Requests : ListingRequest(r)

\* The price history of a listing reconstructs its price: it starts from
\* nothing, each entry takes up where the last one ended and moves the price,
\* and the last one ends at the price now asked (repo.ts lockListingPair).
PriceHistoryChains ==
    \A p \in Pairs :
        LET h == history[p] IN
        /\ listing[p] = Nothing <=> h = <<>>
        /\ h # <<>> => h[1].old = NoPrice /\ h[Len(h)].new = PriceOf(listing[p])
        /\ \A n \in 1..Len(h) : h[n].old # h[n].new
        /\ \A n \in 2..Len(h) : h[n].old = h[n - 1].new
=============================================================================
