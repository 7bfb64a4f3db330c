------------------------------ MODULE StoreMap ------------------------------
(***************************************************************************)
(* Shops, delivery zones and areas, and which shop an address belongs to   *)
(* (stores/service.ts, stores/repo.ts, stores/domain).                     *)
(*                                                                         *)
(* An area lies in a zone, a zone in a shop, and neither ever moves.  What *)
(* changes is which of them are active.  Addresses are routed on one read  *)
(* of everything active; the order follows in a transaction of its own.    *)
(*                                                                         *)
(* A name is the normalized name of a locality; Begins says which names    *)
(* begin with which.                                                       *)
(***************************************************************************)
EXTENDS Requests

CONSTANTS
    ZoneIds,
    AreaIds,
    Names,          \* normalized locality names
    Begins,         \* pairs of names, the first a prefix of the second
    Pincodes,
    NewAreas,       \* areas somebody may add
    FirstMaps,      \* shops, zones and areas there may be at the start
    MaxMapCalls     \* bound: requests served in one behaviour

VARIABLES
    shop,     \* Store.isActive and StoreSettings.isAcceptingOrders, or Nothing
    area,     \* DeliveryArea rows, or Nothing
    zoneOf,   \* DeliveryZone rows, or Nothing
    routed    \* orders: the shop they were placed in and the area they go to

mapVars == <<request, shop, area, zoneOf, routed>>

Shops == [active : BOOLEAN, accepting : BOOLEAN]
ZoneRows == [store : Stores, active : BOOLEAN]
AreaRows ==
    [zone : ZoneIds, name : Names, hints : SUBSET Names,
     pincode : Pincodes \cup {Nothing}, active : BOOLEAN]

ASSUME MapConstants ==
    /\ MaxMapCalls \in Nat
    /\ IsFiniteSet(AreaIds)
    /\ Nothing \notin Names \cup Pincodes \cup AreaIds \cup Shops \cup ZoneRows \cup AreaRows
    /\ Begins \subseteq Names \X Names /\ \A n \in Names : <<n, n>> \in Begins
    /\ NewAreas \subseteq {w \in AreaRows : w.active}
    /\ \A m \in FirstMaps :
         /\ m.shops \in [Stores -> Shops \cup {Nothing}]
         /\ m.zones \in [ZoneIds -> ZoneRows \cup {Nothing}]
         /\ m.areas \in [AreaIds -> AreaRows \cup {Nothing}]
         /\ \A z \in ZoneIds : m.zones[z] # Nothing => m.shops[m.zones[z].store] # Nothing
         /\ \A a \in AreaIds : m.areas[a] # Nothing => m.zones[m.areas[a].zone] # Nothing

ZonesThere == {z \in ZoneIds : zoneOf[z] # Nothing}
AreasThere == {a \in AreaIds : area[a] # Nothing}
ShopOf(a) == zoneOf[area[a].zone].store

-----------------------------------------------------------------------------
(* Routing (resolveServiceabilityFrom) *)

Questions ==
    [area : {Nothing}, name : Names \cup {Nothing}, pincode : Pincodes \cup {Nothing}]
        \cup [area : AreaIds, name : {Nothing}, pincode : {Nothing}]

\* loadAreaCandidates, of the shops that are active.
Open ==
    {a \in AreasThere : area[a].active /\ zoneOf[area[a].zone].active /\ shop[ShopOf(a)].active}

OfOneShop(S) == S # {} /\ \A a, b \in S : ShopOf(a) = ShopOf(b)
Only(S) == Cardinality(S) = 1

WithPincode(pincode) == {a \in Open : area[a].pincode = pincode}

\* A name: exact, then a hint, then a prefix either way; several are an answer
\* if they are of one shop.  The pincode narrows the areas if it is of any.
ByName(q) ==
    LET pinned == WithPincode(q.pincode)
        pool == IF q.pincode # Nothing /\ pinned # {} THEN pinned ELSE Open
        exact == {a \in pool : area[a].name = q.name}
        hinted == {a \in pool : q.name \in area[a].hints}
        prefixed == {a \in pool : {<<q.name, area[a].name>>, <<area[a].name, q.name>>} \cap Begins # {}}
        all == exact \cup hinted \cup prefixed
    IN CASE Only(exact) -> exact
         [] ~Only(exact) /\ Only(hinted) -> hinted
         [] ~Only(exact) /\ ~Only(hinted) /\ Only(prefixed) -> prefixed
         [] OTHER -> IF OfOneShop(all) THEN all ELSE {}

\* Bug: the first area with the pincode is the answer.
ByAnyPincode(q) == WithPincode(q.pincode)

\* A pincode alone is an answer only if one shop has it.
ByPincode(q) == IF OfOneShop(WithPincode(q.pincode)) THEN WithPincode(q.pincode) ELSE {}

\* The areas an address may be taken for, in whatever order they were listed.
Routes(q) ==
    IF q.area # Nothing THEN {q.area} \cap Open
    ELSE IF q.name # Nothing /\ ByName(q) # {} THEN ByName(q)
    ELSE IF q.pincode # Nothing THEN ByPincode(q)
    ELSE {}

-----------------------------------------------------------------------------
(* The back office *)

Planners == {User("SUPER_ADMIN", NoStore)}
              \cup {User(role, s) : role \in Roles \ {"SUPER_ADMIN"}, s \in Stores}

MapJobs ==
    [op : {"addShop"}, at : Stores]
        \cup [op : {"addZone"}, at : ZoneIds, store : Stores]
        \cup [op : {"addArea"}, at : AreaIds, row : NewAreas]
        \cup [op : {"setShop"}, at : Stores, active : BOOLEAN]
        \cup [op : {"setAccepting"}, at : Stores, active : BOOLEAN]
        \cup [op : {"setZone"}, at : ZoneIds, active : BOOLEAN]
        \cup [op : {"setArea"}, at : AreaIds, active : BOOLEAN]

\* The row an operation is about was read first; its shop decides, never a
\* shop the caller names.
Grants(p, j) ==
    CASE j.op = "addShop" -> Authorized(p, "store:create", NoStore)
      [] j.op = "addZone" -> shop[j.store] # Nothing /\ Authorized(p, "delivery-zone:write", j.store)
      [] j.op = "addArea" -> j.row.zone \in ZonesThere
                             /\ Authorized(p, "delivery-area:write", zoneOf[j.row.zone].store)
      [] j.op = "setShop" -> shop[j.at] # Nothing /\ Authorized(p, "store:update", j.at)
      [] j.op = "setAccepting" -> shop[j.at] # Nothing
                                  /\ Authorized(p, "store-settings:update", j.at)
      [] j.op = "setZone" -> j.at \in ZonesThere
                             /\ Authorized(p, "delivery-zone:write", zoneOf[j.at].store)
      [] j.op = "setArea" -> j.at \in AreasThere
                             /\ Authorized(p, "delivery-area:write", ShopOf(j.at))

AskMap(r) ==
    /\ served < MaxMapCalls
    /\ \E p \in Planners, j \in MapJobs :
         /\ Grants(p, j)
         /\ Starts(r, p, j, "asked", Nothing)
    /\ UNCHANGED <<shop, area, zoneOf, routed>>

\* An insert that meets a row is refused.
Put(rows, k, row) == IF rows[k] = Nothing THEN [rows EXCEPT ![k] = row] ELSE rows

\* createStore makes the settings row with the shop; updates write the columns
\* they were sent.
WriteMap(r) ==
    /\ pc[r] = "asked"
    /\ LET j == job[r] IN
         /\ shop' = CASE j.op = "addShop" -> Put(shop, j.at, [active |-> TRUE, accepting |-> TRUE])
                      [] j.op = "setShop" -> [shop EXCEPT ![j.at].active = j.active]
                      [] j.op = "setAccepting" -> [shop EXCEPT ![j.at].accepting = j.active]
                      [] OTHER -> shop
         /\ zoneOf' = CASE j.op = "addZone" -> Put(zoneOf, j.at, [store |-> j.store, active |-> TRUE])
                        [] j.op = "setZone" -> [zoneOf EXCEPT ![j.at].active = j.active]
                        [] OTHER -> zoneOf
         /\ area' = CASE j.op = "addArea" -> Put(area, j.at, j.row)
                      [] j.op = "setArea" -> [area EXCEPT ![j.at].active = j.active]
                      [] OTHER -> area
    /\ Answered(r)
    /\ UNCHANGED routed

-----------------------------------------------------------------------------
(* Orders *)

\* resolveServiceability: an address of a shop that takes no orders is refused.
AskRoute(r) ==
    /\ served < MaxMapCalls
    /\ \E q \in Questions : \E a \in Routes(q) :
         /\ shop[ShopOf(a)].accepting
         /\ Starts(r, Shopper(ShopOf(a)), [op |-> "order", area |-> a], "routed", ShopOf(a))
    /\ UNCHANGED <<shop, area, zoneOf, routed>>

\* placeOrder's transaction does not route again.
OrderThere(r) ==
    /\ pc[r] = "routed"
    /\ routed' = routed \cup {[store |-> seen[r], area |-> job[r].area]}
    /\ Answered(r)
    /\ UNCHANGED <<shop, area, zoneOf>>

-----------------------------------------------------------------------------
MapInit ==
    /\ RequestsInit
    /\ \E m \in FirstMaps : shop = m.shops /\ zoneOf = m.zones /\ area = m.areas
    /\ routed = {}

MapNext ==
    \E r \in Requests : AskMap(r) \/ WriteMap(r) \/ AskRoute(r) \/ OrderThere(r)

MapSpec == MapInit /\ [][MapNext]_mapVars

-----------------------------------------------------------------------------
(* Properties *)

\* Types; zones are of shops and areas of zones that exist; an order, placed or
\* under way, is in the shop its area belongs to; what a request was granted
\* for the row as it read it, it is granted for the row it writes.
MapInv ==
    /\ shop \in [Stores -> Shops \cup {Nothing}]
    /\ zoneOf \in [ZoneIds -> ZoneRows \cup {Nothing}]
    /\ area \in [AreaIds -> AreaRows \cup {Nothing}]
    /\ \A z \in ZonesThere : shop[zoneOf[z].store] # Nothing
    /\ \A a \in AreasThere : area[a].zone \in ZonesThere
    /\ \A o \in routed : o.area \in AreasThere /\ o.store = ShopOf(o.area)
    /\ \A r \in Requests :
         /\ pc[r] = "routed" => job[r].area \in AreasThere /\ seen[r] = ShopOf(job[r].area)
         /\ pc[r] = "asked" => Grants(caller[r], job[r])

\* An address is routed to one shop whatever order the database lists the areas
\* in, and a pincode two open shops share is never an answer by itself
\* (domain/index.ts:82-99, "guessing would silently route half the orders to the
\* wrong store").
RoutesToOneShop ==
    \A q \in Questions : \A a, b \in Routes(q) : ShopOf(a) = ShopOf(b)
=============================================================================
