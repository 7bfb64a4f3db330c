------------------------------ MODULE ShopVisit ------------------------------
(***************************************************************************)
(* One shopper's device in the storefront (src/storefront.ts, the actions  *)
(* and the checkout page of app/(storefront)).                             *)
(*                                                                         *)
(* The device holds two pointers, the area its shopper picked and the      *)
(* token of their basket; the basket is a row, and has a shop of its own.  *)
(* A request works with the cookies it was sent with; the cookies it sets  *)
(* arrive with its answer, in any order with those of other requests, or   *)
(* not at all.  A checkout form stays open in its tab while other tabs go  *)
(* on.  Areas are served or not as staff decide; none changes its shop.    *)
(***************************************************************************)
EXTENDS Requests

CONSTANTS
    Places,          \* DeliveryArea rows
    ShopFor,         \* the shop each of them is mapped to
    Baskets,         \* Cart rows that may be written
    Shoppers,        \* who may be at the device
    MaxVisitCalls,   \* bound: requests of the device
    MaxTurns         \* bound: steps of staff and of other devices

VARIABLES
    jar,       \* the cookies of the device: storeContext and cartToken
    basket,    \* Cart rows: shop, status, and whether a customer owns them
    reached,   \* areas whose shop delivers there and takes orders
    shopper,   \* the session: a customer or not, and the area of their address
    form,      \* the checkout form that is open, or Nothing
    shown,     \* the answer that came last
    bought,    \* orders: where they were placed and what the form had said
    crossed,   \* requests that were under way together with another
    apart,     \* an answer was lost or requests crossed since the last choice
    turns

visitRows == <<jar, basket, reached, shopper, form, shown, bought, crossed, apart, turns>>
visitVars == <<request, visitRows>>
deviceRows == <<jar, form, shown, crossed, apart>>
staffSide == <<reached, shopper, turns>>

Cart == [shop : Stores, status : {"ACTIVE", "CONVERTED", "ABANDONED"}, owned : BOOLEAN]
Session == [member : BOOLEAN, home : Places \cup {Nothing}]
Form == [area : Places, shows : Stores, saved : BOOLEAN]

ASSUME ShopVisitConstants ==
    /\ ShopFor \in [Places -> Stores]
    /\ Nothing \notin Places \cup Stores \cup Baskets /\ Nothing \notin Cart
    /\ Shoppers \subseteq Session
    /\ \A s \in Shoppers : s.member \/ s.home = Nothing
    /\ {MaxVisitCalls, MaxTurns} \subseteq Nat

-----------------------------------------------------------------------------
(* Requests and answers *)

\* currentStoreContext: the shop of the area, if it is still served.
Context(cookies) == IF cookies.area \in reached THEN ShopFor[cookies.area] ELSE Nothing

Live(t) == t # Nothing /\ basket[t].status = "ACTIVE"

At(r, kind, step) == pc[r] = step /\ job[r].kind = kind

\* A request is answered: what it says, and the cookies it sets.
NoCookies == [c \in {} |-> Nothing]
SetsArea(a) == [c \in {"area"} |-> a]
SetsBasket(t) == [c \in {"basket"} |-> t]
Answer(r, says, cookies) ==
    GoesOn(r, "answer", [says |-> says, cookies |-> cookies, form |-> Nothing])
Goes(r, step, read) == GoesOn(r, step, read) /\ UNCHANGED <<basket, bought>>
Says(r, says, cookies) == Answer(r, says, cookies) /\ UNCHANGED <<basket, bought>>

\* The page, a button, or the form that is open.
Clicks ==
    {[kind |-> "choose", area |-> a] : a \in Places}
        \cup {[kind |-> k] : k \in {"forget", "add", "checkout"}}
        \cup (IF form = Nothing THEN {} ELSE {[kind |-> "place", form |-> form]})

Send(r) ==
    /\ served < MaxVisitCalls
    /\ \E j \in Clicks : Starts(r, shopper, j, "arrived", [jar |-> jar])
    /\ LET others == {q \in Requests : pc[q] # "idle"} IN
         crossed' = crossed \cup (IF others = {} THEN {} ELSE others \cup {r})
    /\ UNCHANGED <<jar, basket, form, shown, bought, apart, staffSide>>

-----------------------------------------------------------------------------
(* chooseAreaAction and clearAreaAction *)

\* Bug: the area picked before stays.
ChooseResolveKeeping(r) ==
    /\ At(r, "choose", "arrived")
    /\ IF job[r].area \notin reached
       THEN Says(r, "unserviceable", NoCookies)
       ELSE IF seen[r].jar.basket = Nothing
       THEN Says(r, "chosen", SetsArea(job[r].area))
       ELSE Goes(r, "rebuild", seen[r])

\* Only an area that is served becomes the context; otherwise there is none.
ChooseResolve(r) ==
    /\ At(r, "choose", "arrived")
    /\ IF job[r].area \notin reached
       THEN Says(r, "unserviceable", SetsArea(Nothing))
       ELSE IF seen[r].jar.basket = Nothing
       THEN Says(r, "chosen", SetsArea(job[r].area))
       ELSE Goes(r, "rebuild", seen[r])

\* Bug: the basket is repriced where it is.
RebuildInPlace(r) ==
    /\ At(r, "choose", "rebuild")
    /\ Says(r, IF Live(seen[r].jar.basket) THEN "chosen" ELSE "refused", SetsArea(job[r].area))

\* rebuildForStore: the basket moves along.  It throws when the basket is no
\* longer active, and by then the cookie is set.
Rebuild(r) ==
    /\ At(r, "choose", "rebuild")
    /\ LET t == seen[r].jar.basket IN
         \/ /\ ~Live(t)
            /\ Says(r, "refused", SetsArea(job[r].area))
         \/ /\ Live(t)
            /\ basket' = [basket EXCEPT ![t].shop = ShopFor[job[r].area]]
            /\ Answer(r, "chosen", SetsArea(job[r].area))
            /\ UNCHANGED bought

Forget(r) == At(r, "forget", "arrived") /\ Says(r, "picker", SetsArea(Nothing))

-----------------------------------------------------------------------------
(* addToCartAction *)

ReadContext(r) ==
    /\ At(r, "add", "arrived")
    /\ IF Context(seen[r].jar) = Nothing
       THEN Says(r, "picker", NoCookies)
       ELSE Goes(r, "ensure", [jar |-> seen[r].jar, shop |-> Context(seen[r].jar)])

\* The other baskets of the customer, who has one
AbandonOthers(rows, kept) ==
    [b \in Baskets |-> IF shopper.member /\ b # kept /\ rows[b] # Nothing
                          /\ rows[b].owned /\ rows[b].status = "ACTIVE"
                       THEN [rows[b] EXCEPT !.status = "ABANDONED"] ELSE rows[b]]

\* ensureCart: the basket of the cookie while it is active, or a new one of the
\* shop; a customer's becomes theirs.  A bound: there are rows left.
Ensure(r) ==
    /\ At(r, "add", "ensure")
    /\ LET t == seen[r].jar.basket
           next(b, cookies) == [cart |-> b, shop |-> seen[r].shop, cookies |-> cookies]
       IN IF Live(t)
          THEN /\ basket' = IF shopper.member /\ ~basket[t].owned
                            THEN [AbandonOthers(basket, t) EXCEPT ![t].owned = TRUE]
                            ELSE basket
               /\ GoesOn(r, "item", next(t, NoCookies))
          ELSE \E b \in Baskets :
               /\ basket[b] = Nothing
               /\ basket' = [AbandonOthers(basket, b) EXCEPT ![b] =
                    [shop |-> seen[r].shop, status |-> "ACTIVE", owned |-> shopper.member]]
               /\ GoesOn(r, "item", next(b, SetsBasket(b)))
    /\ UNCHANGED bought

\* addItem: the basket must be active still, and of this shop.
AddItem(r) ==
    /\ At(r, "add", "item")
    /\ LET b == seen[r].cart
           fits == Live(b) /\ basket[b].shop = seen[r].shop
       IN Says(r, IF fits THEN "added" ELSE "refused", seen[r].cookies)

-----------------------------------------------------------------------------
(* The checkout page and placeOrderAction *)

ReadCheckoutContext(r) ==
    /\ At(r, "checkout", "arrived")
    /\ IF Context(seen[r].jar) = Nothing
       THEN Says(r, "picker", NoCookies)
       ELSE Goes(r, "view", [jar |-> seen[r].jar, shop |-> Context(seen[r].jar)])

\* viewCart reads the settings of the basket's shop as a shopper of the context's,
\* which is denied when they are two.  The form names the community of the
\* context, and the area of the shopper's address if there is one.  Whether the
\* lines and the windows allow a form is a free choice.
ShowCheckout(r) ==
    /\ At(r, "checkout", "view")
    /\ LET t == seen[r].jar.basket
           shop == seen[r].shop
           atHome == shopper.home # Nothing
       IN \/ ~Live(t) /\ Answer(r, "empty", NoCookies)
          \/ Live(t) /\ basket[t].shop # shop /\ Answer(r, "broken", NoCookies)
          \/ Live(t) /\ basket[t].shop = shop /\ Answer(r, "blocked", NoCookies)
          \/ /\ Live(t) /\ basket[t].shop = shop
             /\ GoesOn(r, "answer",
                  [says |-> "form", cookies |-> NoCookies,
                   form |-> [area |-> IF atHome THEN shopper.home ELSE seen[r].jar.area,
                             shows |-> shop, saved |-> atHome]])
    /\ UNCHANGED <<basket, bought>>

\* Bug: the order goes where the cookie points.
PlaceResolveCookie(r) ==
    /\ At(r, "place", "arrived")
    /\ IF seen[r].jar.basket = Nothing \/ Context(seen[r].jar) = Nothing
       THEN Says(r, "declined", NoCookies)
       ELSE Goes(r, "place", [jar |-> seen[r].jar, shop |-> Context(seen[r].jar)])

\* The area of the form is resolved, not the cookie's.
PlaceResolve(r) ==
    /\ At(r, "place", "arrived")
    /\ IF seen[r].jar.basket = Nothing \/ job[r].form.area \notin reached
       THEN Says(r, "declined", NoCookies)
       ELSE Goes(r, "place", [jar |-> seen[r].jar, shop |-> ShopFor[job[r].form.area]])

\* placeOrder: declined unless the basket is active and of that shop; the lines,
\* the window and the minimum, which Placement is about, are a free choice.
Place(r) ==
    /\ At(r, "place", "place")
    /\ LET t == seen[r].jar.basket IN
         \/ Says(r, "declined", NoCookies)
         \/ /\ Live(t) /\ basket[t].shop = seen[r].shop
            /\ basket' = [basket EXCEPT ![t].status = "CONVERTED"]
            /\ bought' = bought \cup {[shop |-> seen[r].shop, basket |-> t, form |-> job[r].form]}
            /\ Answer(r, "placed", NoCookies)

-----------------------------------------------------------------------------
(* The device, and the others *)

Ends(r) ==
    /\ pc[r] = "answer"
    /\ Answered(r)
    /\ crossed' = crossed \ {r}
    /\ UNCHANGED <<basket, bought, staffSide>>

\* The answer arrives: its cookies are set and its page is shown.  After a choice
\* that was alone the shopper stands at one shop again.
Deliver(r) ==
    /\ Ends(r)
    /\ jar' = [c \in DOMAIN jar |->
                 IF c \in DOMAIN seen[r].cookies THEN seen[r].cookies[c] ELSE jar[c]]
    /\ shown' = seen[r].says
    /\ form' = CASE seen[r].says = "form" -> seen[r].form
                 [] seen[r].says = "placed" -> Nothing
                 [] OTHER -> form
    /\ apart' = (r \in crossed \/ (apart /\ job[r].kind # "choose"))

\* It does not.
Lose(r) ==
    /\ Ends(r)
    /\ apart' = TRUE
    /\ UNCHANGED <<jar, form, shown>>

Turn ==
    /\ turns < MaxTurns /\ turns' = turns + 1
    /\ UNCHANGED <<request, deviceRows, shopper, bought>>

\* Staff switch an area, or a whole shop, on or off.
Switch ==
    /\ Turn
    /\ \E areas \in {{a} : a \in Places} \cup {{a \in Places : ShopFor[a] = s} : s \in Stores} :
         \/ reached' = reached \cup areas
         \/ reached' = reached \ areas
    /\ reached' # reached
    /\ UNCHANGED basket

\* The shopper signs in on another device, whose basket wins.
SignInElsewhere ==
    /\ Turn
    /\ shopper.member
    /\ \E b \in Baskets : basket[b] # Nothing /\ basket[b].owned /\ basket[b].status = "ACTIVE"
    /\ basket' = AbandonOthers(basket, Nothing)
    /\ UNCHANGED reached

\* A first visit, or one of a shopper who left a basket here the day before.
VisitInit ==
    /\ shopper \in Shoppers
    /\ \/ /\ jar = [area |-> Nothing, basket |-> Nothing]
          /\ basket = [b \in Baskets |-> Nothing]
       \/ \E a \in Places, t \in Baskets :
            /\ jar = [area |-> a, basket |-> t]
            /\ basket = [b \in Baskets |-> IF b # t THEN Nothing ELSE
                 [shop |-> ShopFor[a], status |-> "ACTIVE", owned |-> shopper.member]]
    /\ reached = Places
    /\ form = Nothing /\ shown = "picker" /\ bought = {}
    /\ crossed = {} /\ apart = FALSE /\ turns = 0

Serves(r) ==
    /\ \/ ChooseResolve(r) \/ Rebuild(r) \/ Forget(r)
       \/ ReadContext(r) \/ Ensure(r) \/ AddItem(r)
       \/ ReadCheckoutContext(r) \/ ShowCheckout(r)
       \/ PlaceResolve(r) \/ Place(r)
    /\ UNCHANGED <<deviceRows, staffSide>>

VisitNext ==
    \/ \E r \in Requests : Send(r) \/ Serves(r) \/ Deliver(r) \/ Lose(r)
    \/ Switch \/ SignInElsewhere

VisitSpec == RequestsInit /\ VisitInit /\ [][VisitNext]_visitVars

-----------------------------------------------------------------------------
(* Properties *)

VisitTypes ==
    /\ jar \in [area : Places \cup {Nothing}, basket : Baskets \cup {Nothing}]
    /\ basket \in [Baskets -> Cart \cup {Nothing}]
    /\ jar.basket # Nothing => basket[jar.basket] # Nothing
    /\ reached \subseteq Places
    /\ form = Nothing \/ form \in Form

\* Whoever was told that nobody delivers there has no shop to go on buying from
\* (actions.ts:72-75).
TurnedAwayHasNoShop == shown = "unserviceable" => jar.area = Nothing

\* Between requests the basket is of the shop the area leads to, and the checkout
\* page comes up, unless an answer was lost or requests crossed; choosing an area
\* again mends it.
BasketIsOfTheShop ==
    ~apart =>
        /\ (\A r \in Requests : pc[r] = "idle") /\ jar.area # Nothing /\ Live(jar.basket) =>
             basket[jar.basket].shop = ShopFor[jar.area]
        /\ shown # "broken"

\* An order goes to the shop of the community the form named, whatever the other
\* tabs have done to the cookies and the basket; one that is made out to a saved
\* address goes to the shop of that address.
BuysWhereTheFormSays ==
    \A o \in bought :
        /\ o.shop = ShopFor[o.form.area]
        /\ ~o.form.saved => o.shop = o.form.shows

\* A basket is sold at most once, however often the form is sent.
SoldOnce == \A o, p \in bought : o.basket = p.basket => o = p

VisitInv ==
    /\ VisitTypes /\ TurnedAwayHasNoShop /\ BasketIsOfTheShop
    /\ BuysWhereTheFormSays /\ SoldOnce

\* The header says the area can always be changed: no choice of an area that is
\* served is answered with an error (docs/phase-3-plan.md:49).
AreaCanAlwaysChange ==
    \A r \in Requests :
        pc[r] = "answer" /\ job[r].kind = "choose" => seen[r].says # "refused"
=============================================================================
