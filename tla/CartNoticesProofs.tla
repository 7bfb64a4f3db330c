-------------------------- MODULE CartNoticesProofs --------------------------
(***************************************************************************)
(* Proofs about CartNotices for every number of shops, products, prices    *)
(* and tabs.                                                               *)
(***************************************************************************)
EXTENDS CartNotices, TLAPS

-----------------------------------------------------------------------------
(* What revalidation does *)

LEMMA RevalidateTypes ==
    ASSUME TypeOK, NEW at \in Stores, NEW q \in [Products -> 0..MaxQty], Revalidate(q, at)
    PROVE  /\ qty' \in [Products -> 0..MaxQty]
           /\ snapshot' \in [Products -> Prices \cup {0}]
           /\ \A p \in Products : qty'[p] = 0 <=> snapshot'[p] = 0
BY NoticeConstants DEF TypeOK, Revalidate, Kept, Unlisted

LEMMA FindingTypes ==
    ASSUME TypeOK, NEW at \in Stores, NEW q \in [Products -> 0..MaxQty],
           NEW s \in [Products -> Prices \cup {0}]
    PROVE  Findings(q, s, at) \in [Products -> Prices \cup {0, Quiet}]
BY NoticeConstants DEF TypeOK, Findings, Unlisted

\* A product of which nothing was found keeps its snapshot; of any other the
\* finding is the new snapshot.
LEMMA FindingsTell ==
    ASSUME TypeOK, NEW at \in Stores, NEW q \in [Products -> 0..MaxQty],
           NEW s \in [Products -> Prices \cup {0}], Revalidate(q, at), NEW p \in Products,
           q[p] = 0 => s[p] = 0
    PROVE  /\ Findings(q, s, at)[p] = Quiet => snapshot'[p] = s[p]
           /\ Findings(q, s, at)[p] # Quiet => snapshot'[p] = Findings(q, s, at)[p]
<1>1. price[at][p] \in Prices
  BY DEF TypeOK
<1>2. price[at][p] # 0 /\ price[at][p] # Quiet /\ 0 # Quiet
  <2>1. price[at][p] \in Nat \ {0}
    BY <1>1, NoticeConstants
  <2>2. Quiet \notin Nat /\ 0 \in Nat
    BY NoticeConstants
  <2> QED BY <2>1, <2>2, Zenon
<1>q. q[p] \in Nat
  BY NoticeConstants
<1>3. snapshot'[p] = IF q[p] > 0 /\ p \in sold[at] THEN price[at][p] ELSE 0
  BY <1>q DEF Revalidate, Kept, Unlisted
<1>4. Findings(q, s, at)[p] = IF q[p] > 0 /\ p \notin sold[at] THEN 0
                              ELSE IF q[p] > 0 /\ s[p] # price[at][p] THEN price[at][p]
                              ELSE Quiet
  BY DEF Findings, Unlisted
<1>5. CASE q[p] = 0
  BY <1>2, <1>3, <1>4, <1>5
<1>6. CASE q[p] > 0
  BY <1>2, <1>3, <1>4, <1>6
<1> QED BY <1>q, <1>5, <1>6

LEMMA KeptTypes ==
    ASSUME NEW at \in Stores, NEW q \in [Products -> 0..MaxQty]
    PROVE  Kept(q, at) \in [Products -> 0..MaxQty]
BY NoticeConstants DEF Kept

LEMMA MissTypes ==
    ASSUME TypeOK, NEW M, NEW cause \in Causes, Miss(M, cause)
    PROVE  missed' \in [Products -> Causes \cup {"nothing"}]
BY DEF TypeOK, Miss

LEMMA FinishTypes ==
    ASSUME TypeOK, NEW c \in Calls, Finish(c)
    PROVE  /\ cartLock' \in Calls \cup {Free}
           /\ pc' \in [Calls -> {"idle", "working"}]
           /\ job' \in [Calls -> Jobs \cup {NoJob}]
           /\ copy' \in [Calls -> [Products -> 0..MaxQty]]
           /\ quote' \in [Calls -> [Products -> Prices \cup {0}]]
BY NoticeConstants DEF TypeOK, Finish, NothingRead

\* When the one at work is done nobody is.
LEMMA FinishAlone ==
    ASSUME TypeOK, WorksAlone, NEW c \in Calls, pc[c] = "working", Finish(c)
    PROVE  WorksAlone'
<1>1. \A d \in Calls : pc[d] = "working" => d = c
  BY DEF WorksAlone
<1> QED BY <1>1 DEF TypeOK, WorksAlone, Finish

\* The shape of a job gives its fields their types.
LEMMA JobTypes ==
    ASSUME TypeOK, WorksAlone, NEW c \in Calls, pc[c] = "working"
    PROVE  /\ job[c].shop \in Stores
           /\ job[c].kind \in {"add", "set", "remove"} => job[c].product \in Products
           /\ job[c].kind = "set" => job[c].qty \in 1..MaxQty
BY DEF WorksAlone, Jobs

-----------------------------------------------------------------------------
(* The invariant: types, who works, and prices *)

LEMMA BeginStep ==
    ASSUME BasketInv, NEW c \in Calls, Begin(c)
    PROVE  BasketInv'
<1>. TypeOK /\ WorksAlone /\ LinesArePriced
  BY DEF BasketInv
<1>1. /\ copy'[c] = qty /\ copy' = [copy EXCEPT ![c] = qty]
      /\ job' \in [Calls -> Jobs \cup {NoJob}] /\ job'[c] \in Jobs
      /\ \A d \in Calls \ {c} : job'[d] = job[d]
      /\ job'[c].shop \in Stores
  <2>1. PICK j \in Jobs : job' = [job EXCEPT ![c] = j]
    BY DEF Begin
  <2>2. j.shop \in Stores
    BY DEF Jobs
  <2> QED BY <2>1, <2>2 DEF Begin, Read, TypeOK
<1>2. quote' \in [Calls -> [Products -> Prices \cup {0}]]
  <2>1. PICK had \in SUBSET sold[job'[c].shop] :
            quote' = [quote EXCEPT ![c] =
                [p \in Products |-> IF p \in had THEN price[job'[c].shop][p] ELSE 0]]
    BY DEF Begin, Read
  <2>2. \A p \in Products : price[job'[c].shop][p] \in Prices
    BY <1>1 DEF TypeOK
  <2> QED BY <2>1, <2>2 DEF TypeOK
<1>3. TypeOK'
  BY <1>1, <1>2 DEF TypeOK, Begin, shops, rows, shopper
<1>4. WorksAlone'
  <2>1. \A d \in Calls : pc[d] # "working"
    BY NoticeConstants DEF WorksAlone, Begin, RowIsFree
  <2>2. \A d \in Calls : pc'[d] = "working" => d = c
    BY <2>1 DEF TypeOK, Begin
  <2> QED BY <1>1, <2>2 DEF WorksAlone, Begin, MayBeUsed, rows
<1>5. LinesArePriced'
  BY DEF LinesArePriced, Begin, rows
<1> QED BY <1>3, <1>4, <1>5 DEF BasketInv

LEMMA RefuseStep ==
    ASSUME BasketInv, NEW c \in Calls, Refuse(c)
    PROVE  BasketInv'
<1>. TypeOK /\ WorksAlone /\ LinesArePriced
  BY DEF BasketInv
<1>1. Finish(c) /\ pc[c] = "working" /\ Miss(moved \ moved', "replaced")
  BY DEF Refuse, TypeOK
<1>2. TypeOK'
  BY <1>1, FinishTypes, MissTypes DEF TypeOK, Refuse, shops, rows, Causes
<1>3. WorksAlone'
  BY <1>1, FinishAlone
<1>4. LinesArePriced'
  BY DEF LinesArePriced, Refuse, rows
<1> QED BY <1>2, <1>3, <1>4 DEF BasketInv

\* What every step that serves a request and revalidates has in common.
LEMMA ServedStep ==
    ASSUME BasketInv, NEW c \in Calls, pc[c] = "working",
           NEW at \in Stores, NEW q \in [Products -> 0..MaxQty], Revalidate(q, at),
           NEW M, NEW cause \in Causes, Miss(M, cause), Finish(c), UNCHANGED shops,
           store' \in Stores, status' \in {"ACTIVE", "CONVERTED"},
           notice' \in [Products -> Prices \cup {0, Quiet}],
           moved' \subseteq Products,
           known' \in [Products -> Prices \cup {0}],
           asked' \in [Products -> 0..MaxQty],
           origin' \in [Products -> Stores]
    PROVE  BasketInv'
<1>. TypeOK /\ WorksAlone /\ LinesArePriced
  BY DEF BasketInv
<1>1. TypeOK'
  BY RevalidateTypes, FinishTypes, MissTypes DEF TypeOK, shops
<1>2. WorksAlone'
  BY FinishAlone
<1>3. LinesArePriced'
  BY RevalidateTypes DEF LinesArePriced
<1> QED BY <1>1, <1>2, <1>3 DEF BasketInv

LEMMA HearsTypes ==
    ASSUME NEW f \in [Products -> Prices \cup {0, Quiet}],
           NEW before \in [Products -> Prices \cup {0}]
    PROVE  Hears(f, before) \in [Products -> Prices \cup {0}]
BY DEF Hears

LEMMA AddItemStep ==
    ASSUME BasketInv, NEW c \in Calls, AddItem(c)
    PROVE  BasketInv'
<1>. TypeOK /\ WorksAlone
  BY DEF BasketInv
<1>. DEFINE p == job[c].product
            q == [qty EXCEPT ![p] = Smaller(copy[c][p] + 1, MaxQty)]
            s == [snapshot EXCEPT ![p] = AddedAt(c, p)]
            f == Findings(q, s, store)
            heard == [known EXCEPT ![p] = IF copy[c][p] > 0 THEN @ ELSE quote[c][p]]
            a == [asked EXCEPT ![p] = Smaller(@ + 1, MaxQty)]
<1>1. pc[c] = "working" /\ p \in Products /\ store \in Stores
  BY JobTypes DEF AddItem, Working, TypeOK
<1>2. /\ q \in [Products -> 0..MaxQty]
      /\ a \in [Products -> 0..MaxQty]
  BY <1>1, NoticeConstants DEF TypeOK, Smaller
<1>3. /\ s \in [Products -> Prices \cup {0}]
      /\ heard \in [Products -> Prices \cup {0}]
  BY <1>1 DEF TypeOK, AddedAt
<1>4. f \in [Products -> Prices \cup {0, Quiet}]
  BY <1>1, <1>2, <1>3, FindingTypes
<1>5. known' \in [Products -> Prices \cup {0}]
  <2>1. known' = heard \/ known' = Hears(f, heard)
    BY DEF AddItem
  <2> HIDE DEF f, heard
  <2>2. Hears(f, heard) \in [Products -> Prices \cup {0}]
    BY <1>3, <1>4, HearsTypes
  <2> QED BY <2>1, <2>2, <1>3
<1>6. asked' \in [Products -> 0..MaxQty]
  <2>1. asked' = Kept(a, store)
    BY DEF AddItem
  <2> QED BY <2>1, <1>1, <1>2, KeptTypes
<1>7. origin' \in [Products -> Stores]
  BY <1>1, JobTypes DEF TypeOK, AddItem
<1>8. /\ Revalidate(q, store) /\ Finish(c) /\ notice' = f /\ moved' = {}
      /\ UNCHANGED <<shops, store, status>>
      /\ Miss((Found(notice) \ Found(f)) \cup moved, "replaced")
  BY DEF AddItem
<1>9. status' \in {"ACTIVE", "CONVERTED"} /\ store' \in Stores /\ UNCHANGED shops
  BY <1>1, <1>8 DEF TypeOK
<1> HIDE DEF p, q, s, f, heard, a
<1> QED BY <1>1, <1>2, <1>4, <1>5, <1>6, <1>7, <1>8, <1>9, ServedStep DEF Causes

LEMMA ChangeLineStep ==
    ASSUME BasketInv, NEW c \in Calls, pc[c] = "working",
           job[c].product \in Products, NEW n \in 0..MaxQty, ChangeLine(c, n)
    PROVE  BasketInv'
<1>. TypeOK /\ WorksAlone
  BY DEF BasketInv
<1>. DEFINE p == job[c].product
            q == [qty EXCEPT ![p] = n]
            f == Findings(q, snapshot, store)
            a == [asked EXCEPT ![p] = n]
<1>1. store \in Stores
  BY DEF TypeOK
<1>2. /\ q \in [Products -> 0..MaxQty]
      /\ a \in [Products -> 0..MaxQty]
  BY DEF TypeOK
<1>3. f \in [Products -> Prices \cup {0, Quiet}]
  BY <1>1, <1>2, FindingTypes DEF TypeOK
<1>4. known' \in [Products -> Prices \cup {0}]
  BY DEF TypeOK, ChangeLine
<1>5. asked' \in [Products -> 0..MaxQty]
  <2>1. asked' = Kept(a, store)
    BY DEF ChangeLine
  <2> QED BY <2>1, <1>1, <1>2, KeptTypes
<1>6. /\ Revalidate(q, store) /\ Finish(c) /\ notice' = f /\ moved' = {}
      /\ UNCHANGED <<shops, store, status, origin>>
      /\ Miss((Found(notice) \ Found(f)) \cup moved, "replaced")
  BY DEF ChangeLine
<1>7. /\ status' \in {"ACTIVE", "CONVERTED"} /\ store' \in Stores /\ UNCHANGED shops
      /\ origin' \in [Products -> Stores]
  BY <1>1, <1>6 DEF TypeOK
<1> HIDE DEF p, q, f, a
<1> QED BY <1>1, <1>2, <1>3, <1>4, <1>5, <1>6, <1>7, ServedStep DEF Causes

LEMMA StayAtStoreStep ==
    ASSUME BasketInv, NEW c \in Calls, StayAtStore(c)
    PROVE  BasketInv'
<1>. TypeOK
  BY DEF BasketInv
<1>. DEFINE f == Findings(qty, snapshot, store)
<1>1. store \in Stores /\ qty \in [Products -> 0..MaxQty] /\ pc[c] = "working"
  BY DEF TypeOK, StayAtStore, Working
<1>2. f \in [Products -> Prices \cup {0, Quiet}]
  BY <1>1, FindingTypes DEF TypeOK
<1>3. asked' \in [Products -> 0..MaxQty]
  BY <1>1, KeptTypes DEF StayAtStore, TypeOK
<1>4. /\ Revalidate(qty, store) /\ Finish(c) /\ notice' = f /\ moved' = {}
      /\ UNCHANGED <<shops, store, status, known, origin>>
      /\ Miss((Found(notice) \ Found(f)) \cup moved, "replaced")
  BY DEF StayAtStore
<1>5. /\ status' \in {"ACTIVE", "CONVERTED"} /\ store' \in Stores /\ UNCHANGED shops
      /\ origin' \in [Products -> Stores] /\ known' \in [Products -> Prices \cup {0}]
  BY <1>1, <1>4 DEF TypeOK
<1> HIDE DEF f
<1> QED BY <1>1, <1>2, <1>3, <1>4, <1>5, ServedStep DEF Causes

LEMMA MoveToStoreStep ==
    ASSUME BasketInv, NEW c \in Calls, MoveToStore(c)
    PROVE  BasketInv'
<1>. TypeOK /\ WorksAlone
  BY DEF BasketInv
<1>. DEFINE to == job[c].shop
            f == Findings(Carried(c), quote[c], to)
            a == [r \in Products |-> IF quote[c][r] > 0 THEN asked[r] ELSE 0]
<1>1. to \in Stores /\ pc[c] = "working"
  BY JobTypes DEF MoveToStore, Working
<1>2. /\ Carried(c) \in [Products -> 0..MaxQty]
      /\ a \in [Products -> 0..MaxQty]
      /\ quote[c] \in [Products -> Prices \cup {0}]
  BY NoticeConstants DEF TypeOK, Carried
<1>3. f \in [Products -> Prices \cup {0, Quiet}]
  BY <1>1, <1>2, FindingTypes
<1>4. asked' \in [Products -> 0..MaxQty]
  <2>1. asked' = Kept(a, to)
    BY DEF MoveToStore
  <2> QED BY <2>1, <1>1, <1>2, KeptTypes
<1>5. /\ Revalidate(Carried(c), to) /\ Finish(c) /\ notice' = f /\ store' = to
      /\ UNCHANGED <<shops, status, known>> /\ moved' \in {Lines, moved}
      /\ Miss((Found(notice) \cup Lines \cup moved) \ (Found(f) \cup moved'),
              IF moved' = Lines THEN "replaced" ELSE "undelivered")
  BY DEF MoveToStore
<1>6. origin' \in [Products -> Stores]
  BY <1>1 DEF TypeOK, MoveToStore
<1>7. /\ status' \in {"ACTIVE", "CONVERTED"} /\ store' \in Stores /\ UNCHANGED shops
      /\ known' \in [Products -> Prices \cup {0}] /\ moved' \subseteq Products
  BY <1>1, <1>5 DEF TypeOK, Lines
<1>8. (IF moved' = Lines THEN "replaced" ELSE "undelivered") \in Causes
  BY DEF Causes
<1> HIDE DEF to, f, a
<1> QED BY <1>1, <1>2, <1>3, <1>4, <1>5, <1>6, <1>7, <1>8, ServedStep

LEMMA ViewCartStep ==
    ASSUME BasketInv, NEW c \in Calls, ViewCart(c)
    PROVE  BasketInv'
<1>. TypeOK
  BY DEF BasketInv
<1>. DEFINE f == Findings(qty, snapshot, store)
<1>1. store \in Stores /\ qty \in [Products -> 0..MaxQty] /\ pc[c] = "working"
  BY DEF TypeOK, ViewCart, Working
<1>2. /\ Revalidate(qty, store) /\ Finish(c)
      /\ UNCHANGED <<shops, store, status, notice, moved, origin>>
  BY DEF ViewCart
<1>3. /\ f \in [Products -> Prices \cup {0, Quiet}]
      /\ snapshot' \in [Products -> Prices \cup {0}]
  BY <1>1, <1>2, FindingTypes, RevalidateTypes DEF TypeOK
<1>4. known' \in [Products -> Prices \cup {0}]
  <2>. DEFINE cookie == [r \in Products |->
                IF job[c].page = "cart" /\ r \in moved THEN snapshot'[r] ELSE Quiet]
              page == Hears(f, Hears(notice, Hears(cookie, known)))
  <2>1. cookie \in [Products -> Prices \cup {0, Quiet}]
    BY <1>3
  <2>2. Hears(cookie, known) \in [Products -> Prices \cup {0}]
    BY <2>1, HearsTypes DEF TypeOK
  <2>3. Hears(notice, Hears(cookie, known)) \in [Products -> Prices \cup {0}]
    BY <2>2, HearsTypes DEF TypeOK
  <2>4. page \in [Products -> Prices \cup {0}]
    BY <1>3, <2>3, HearsTypes
  <2>5. known' = page \/ known' = known
    BY DEF ViewCart
  <2> QED BY <2>4, <2>5 DEF TypeOK
<1>5. asked' \in [Products -> 0..MaxQty]
  BY <1>1, KeptTypes DEF ViewCart, TypeOK
<1>6. \E M : Miss(M, "outdated") \/ Miss(M, "undelivered")
  BY DEF ViewCart
<1>7. /\ status' \in {"ACTIVE", "CONVERTED"} /\ store' \in Stores /\ UNCHANGED shops
      /\ origin' \in [Products -> Stores] /\ moved' \subseteq Products
      /\ notice' \in [Products -> Prices \cup {0, Quiet}]
  BY <1>1, <1>2 DEF TypeOK
<1> QED BY <1>1, <1>2, <1>4, <1>5, <1>6, <1>7, ServedStep DEF Causes

LEMMA ViewQuantitiesStep ==
    ASSUME BasketInv, NEW c \in Calls, ViewQuantities(c)
    PROVE  BasketInv'
<1>. TypeOK
  BY DEF BasketInv
<1>1. store \in Stores /\ qty \in [Products -> 0..MaxQty] /\ pc[c] = "working"
  BY DEF TypeOK, ViewQuantities, Working
<1>2. asked' \in [Products -> 0..MaxQty]
  BY <1>1, KeptTypes DEF ViewQuantities, TypeOK
<1>3. /\ Revalidate(qty, store) /\ Finish(c)
      /\ UNCHANGED <<shops, store, status, notice, moved, known, origin>>
      /\ Miss(Found(Findings(qty, snapshot, store)), "browsed")
  BY DEF ViewQuantities
<1> QED BY <1>1, <1>2, <1>3, ServedStep DEF Causes, TypeOK

LEMMA PlaceOrderStep ==
    ASSUME BasketInv, NEW c \in Calls, PlaceOrder(c)
    PROVE  BasketInv'
<1>. TypeOK
  BY DEF BasketInv
<1>1. store \in Stores /\ qty \in [Products -> 0..MaxQty] /\ pc[c] = "working"
  BY DEF TypeOK, PlaceOrder, Working
<1>2. /\ Revalidate(qty, store) /\ Finish(c) /\ status' = "CONVERTED"
      /\ UNCHANGED <<shops, store, notice, moved, known, asked, origin>>
      /\ Miss(Found(Findings(qty, snapshot, store)), "charged")
  BY DEF PlaceOrder
<1> QED BY <1>1, <1>2, ServedStep DEF Causes, TypeOK

LEMMA OutsideStep ==
    ASSUME BasketInv,
           \/ \E s \in Stores, p \in Products :
                   SetListed(s, p) \/ \E v \in Prices : SetPrice(s, p, v)
           \/ Expire
           \/ UNCHANGED vars
    PROVE  BasketInv'
<1>. TypeOK /\ WorksAlone /\ LinesArePriced
  BY DEF BasketInv
<1>1. CASE \E s \in Stores, p \in Products : SetListed(s, p)
  BY <1>1 DEF BasketInv, TypeOK, WorksAlone, LinesArePriced, SetListed, rows, calls, shopper
<1>2. CASE \E s \in Stores, p \in Products, v \in Prices : SetPrice(s, p, v)
  BY <1>2 DEF BasketInv, TypeOK, WorksAlone, LinesArePriced, SetPrice, rows, calls, shopper
<1>3. CASE Expire
  <2>1. TypeOK'
    <3>1. missed' \in [Products -> Causes \cup {"nothing"}]
      BY <1>3, MissTypes DEF Expire, Causes
    <3> QED BY <1>3, <3>1 DEF TypeOK, Expire, shops, calls
  <2> QED BY <1>3, <2>1 DEF BasketInv, WorksAlone, LinesArePriced, Expire, calls
<1>4. CASE UNCHANGED vars
  BY <1>4 DEF BasketInv, TypeOK, WorksAlone, LinesArePriced, vars
<1> QED BY <1>1, <1>2, <1>3, <1>4

LEMMA BasketStart == Init => BasketInv
BY NoticeConstants DEF Init, BasketInv, TypeOK, WorksAlone, LinesArePriced, NothingRead

LEMMA BasketStep ==
    ASSUME BasketInv, [Next]_vars
    PROVE  BasketInv'
<1>. TypeOK /\ WorksAlone
  BY DEF BasketInv
<1>1. ASSUME NEW c \in Calls, Serve(c)
      PROVE  BasketInv'
  <2>1. CASE Begin(c)
    BY <2>1, BeginStep
  <2>2. CASE Refuse(c)
    BY <2>2, RefuseStep
  <2>3. CASE AddItem(c)
    BY <2>3, AddItemStep
  <2>4. CASE SetQuantity(c)
    BY <2>4, JobTypes, ChangeLineStep, NoticeConstants DEF SetQuantity, Working
  <2>5. CASE RemoveItem(c)
    BY <2>5, JobTypes, ChangeLineStep, NoticeConstants DEF RemoveItem, Working
  <2>6. CASE StayAtStore(c) \/ MoveToStore(c)
    BY <2>6, StayAtStoreStep, MoveToStoreStep
  <2>7. CASE ViewCart(c) \/ ViewQuantities(c) \/ PlaceOrder(c)
    BY <2>7, ViewCartStep, ViewQuantitiesStep, PlaceOrderStep
  <2> QED BY <1>1, <2>1, <2>2, <2>3, <2>4, <2>5, <2>6, <2>7 DEF Serve
<1> QED BY <1>1, OutsideStep DEF Next

\* Whoever works on a basket holds its row and has a current reading of it, and
\* every line is priced.
THEOREM BasketIsLocked == Spec => []BasketInv
<1>1. Init => BasketInv
  BY BasketStart
<1>2. BasketInv /\ [Next]_vars => BasketInv'
  BY BasketStep
<1> QED BY <1>1, <1>2, PTL DEF Spec

-----------------------------------------------------------------------------
(* What the shopper is told *)

\* A step leaves nobody in the dark when whatever is unsaid after it is on the row,
\* in the cookie, or among what the step is known to miss.
LEMMA OwedAfter ==
    ASSUME NEW M, NEW cause \in Causes, Miss(M, cause),
           \A p \in Products : known'[p] # snapshot'[p] =>
               notice'[p] = snapshot'[p] \/ p \in moved' \/ p \in M \/ missed[p] \in Causes
    PROVE  ToldOrOwed'
BY DEF ToldOrOwed, Unsaid, Miss

\* What was unsaid before the row was overwritten and the cookie dropped.
LEMMA UnsaidBefore ==
    ASSUME TypeOK, ToldOrOwed, NEW p \in Products, known[p] # snapshot[p]
    PROVE  \/ p \in Found(notice) /\ notice[p] = snapshot[p]
           \/ p \in moved \/ missed[p] \in Causes
<1>1. snapshot[p] # Quiet
  <2>1. snapshot[p] \in Prices \cup {0}
    BY DEF TypeOK
  <2>2. Prices \cup {0} \subseteq Nat
    BY NoticeConstants
  <2> QED BY <2>1, <2>2, NoticeConstants
<1> QED BY <1>1 DEF ToldOrOwed, Unsaid, Found

LEMMA AddItemOwes ==
    ASSUME BasketInv, ToldOrOwed, NEW c \in Calls, AddItem(c)
    PROVE  ToldOrOwed'
<1>. TypeOK /\ WorksAlone /\ LinesArePriced
  BY DEF BasketInv
<1>. DEFINE b == job[c].product
            q == [qty EXCEPT ![b] = Smaller(copy[c][b] + 1, MaxQty)]
            s == [snapshot EXCEPT ![b] = AddedAt(c, b)]
            f == Findings(q, s, store)
            heard == [known EXCEPT ![b] = IF copy[c][b] > 0 THEN @ ELSE quote[c][b]]
            M == (Found(notice) \ Found(f)) \cup moved
<1>1. b \in Products /\ store \in Stores /\ copy[c] = qty
  BY JobTypes DEF AddItem, Working, TypeOK, WorksAlone
<1>2. q \in [Products -> 0..MaxQty] /\ q[b] > 0
  BY <1>1, NoticeConstants DEF TypeOK, Smaller
<1>3. s \in [Products -> Prices \cup {0}]
  BY <1>1 DEF TypeOK, AddedAt
<1>4. \A p \in Products : q[p] = 0 => s[p] = 0
  BY <1>1, <1>2 DEF TypeOK, LinesArePriced
<1>5. /\ Revalidate(q, store) /\ notice' = f /\ Miss(M, "replaced")
      /\ known' = heard \/ known' = Hears(f, heard)
  BY DEF AddItem
<1>6. ASSUME NEW p \in Products, known'[p] # snapshot'[p]
      PROVE  notice'[p] = snapshot'[p] \/ p \in moved' \/ p \in M \/ missed[p] \in Causes
  <2>. HIDE DEF q, s, f
  <2>1. CASE f[p] # Quiet
    BY <1>1, <1>2, <1>3, <1>4, <1>5, <2>1, FindingsTell DEF f
  <2>2. CASE f[p] = Quiet
    <3>1. snapshot'[p] = s[p]
      BY <1>1, <1>2, <1>3, <1>4, <1>5, <2>2, FindingsTell DEF f
    <3>2. known'[p] = heard[p]
      BY <1>5, <2>2 DEF Hears
    <3>3. known[p] # snapshot[p]
      BY <1>1, <1>6, <3>1, <3>2 DEF s, AddedAt, TypeOK
    <3> QED BY <2>2, <3>3, UnsaidBefore DEF Found
  <2> QED BY <2>1, <2>2
<1> HIDE DEF M
<1> QED BY <1>5, <1>6, OwedAfter DEF Causes

LEMMA ChangeLineOwes ==
    ASSUME BasketInv, ToldOrOwed, NEW c \in Calls, job[c].product \in Products,
           NEW n \in 0..MaxQty, ChangeLine(c, n)
    PROVE  ToldOrOwed'
<1>. TypeOK /\ LinesArePriced
  BY DEF BasketInv
<1>. DEFINE b == job[c].product
            q == [qty EXCEPT ![b] = n]
            f == Findings(q, snapshot, store)
            M == (Found(notice) \ Found(f)) \cup moved
<1>1. store \in Stores /\ q \in [Products -> 0..MaxQty]
      /\ snapshot \in [Products -> Prices \cup {0}]
  BY DEF TypeOK
<1>2. /\ Revalidate(q, store) /\ notice' = f /\ Miss(M, "replaced")
      /\ known' = [known EXCEPT ![b] = IF n = 0 THEN 0 ELSE @]
  BY DEF ChangeLine
<1>3. ASSUME NEW p \in Products, known'[p] # snapshot'[p]
      PROVE  notice'[p] = snapshot'[p] \/ p \in moved' \/ p \in M \/ missed[p] \in Causes
  <2>1. ~(p = b /\ n = 0)
    <3>1. q[p] = 0 => snapshot'[p] = 0
      BY <1>2 DEF Revalidate, Kept
    <3> QED BY <1>2, <1>3, <3>1 DEF TypeOK
  <2>2. q[p] = 0 => snapshot[p] = 0
    BY <2>1 DEF TypeOK, LinesArePriced
  <2>3. known'[p] = known[p]
    BY <1>2, <2>1 DEF TypeOK
  <2>. HIDE DEF q, f
  <2>4. CASE f[p] # Quiet
    BY <1>1, <1>2, <2>2, <2>4, FindingsTell DEF f
  <2>5. CASE f[p] = Quiet
    <3>1. snapshot'[p] = snapshot[p]
      BY <1>1, <1>2, <2>2, <2>5, FindingsTell DEF f
    <3> QED BY <1>3, <2>3, <2>5, <3>1, UnsaidBefore DEF Found
  <2> QED BY <2>4, <2>5
<1> HIDE DEF M
<1> QED BY <1>2, <1>3, OwedAfter DEF Causes

LEMMA MoveToStoreOwes ==
    ASSUME BasketInv, ToldOrOwed, NEW c \in Calls, MoveToStore(c)
    PROVE  ToldOrOwed'
<1>. TypeOK /\ WorksAlone /\ LinesArePriced
  BY DEF BasketInv
<1>. DEFINE to == job[c].shop
            q == Carried(c)
            f == Findings(q, quote[c], to)
            M == (Found(notice) \cup Lines \cup moved) \ (Found(f) \cup moved')
            cause == IF moved' = Lines THEN "replaced" ELSE "undelivered"
<1>1. /\ to \in Stores /\ q \in [Products -> 0..MaxQty]
      /\ quote[c] \in [Products -> Prices \cup {0}]
  BY JobTypes, NoticeConstants DEF MoveToStore, Working, TypeOK, Carried
<1>2. /\ Revalidate(q, to) /\ notice' = f /\ Miss(M, cause) /\ known' = known
  BY DEF MoveToStore
<1>3. ASSUME NEW p \in Products, known'[p] # snapshot'[p]
      PROVE  notice'[p] = snapshot'[p] \/ p \in moved' \/ p \in M \/ missed[p] \in Causes
  <2>1. CASE p \in Found(f)
    <3>1. q[p] > 0 /\ f[p] # Quiet
      BY <1>1, <2>1 DEF Found, Findings, Unlisted
    <3>2. q[p] = 0 => quote[c][p] = 0
      BY <1>1, <3>1
    <3>. HIDE DEF q
    <3> QED BY <1>1, <1>2, <3>1, <3>2, FindingsTell
  <2>2. CASE p \notin Found(f) /\ p \in Lines
    BY <2>2
  <2>3. CASE p \notin Found(f) /\ p \notin Lines
    <3>1. qty[p] = 0 /\ q[p] = 0
      BY <2>3 DEF Lines, TypeOK, Carried
    <3>2. snapshot'[p] = 0 /\ snapshot[p] = 0
      BY <1>2, <3>1 DEF Revalidate, Kept, LinesArePriced
    <3> QED BY <1>2, <1>3, <2>3, <3>2, UnsaidBefore
  <2> QED BY <2>1, <2>2, <2>3
<1>4. cause \in Causes
  BY DEF Causes
<1> HIDE DEF M, cause
<1> QED BY <1>2, <1>3, <1>4, OwedAfter

\* The steps that revalidate the basket as it is, and what the shopper learns.
LEMMA RevalidateOwes ==
    ASSUME BasketInv, ToldOrOwed, Revalidate(qty, store), NEW M, NEW cause \in Causes,
           Miss(M, cause),
           \A p \in Products :
               IF Findings(qty, snapshot, store)[p] # Quiet
               THEN p \in M \/ known'[p] = snapshot'[p] \/ notice'[p] = snapshot'[p]
               ELSE known'[p] = known[p] => /\ p \in Found(notice) => p \in M \/ notice' = notice
                                            /\ p \in moved => p \in M \/ p \in moved',
           \A p \in Products :
               known'[p] # known[p] /\ Findings(qty, snapshot, store)[p] = Quiet =>
                   p \in M \/ known'[p] = snapshot'[p]
    PROVE  ToldOrOwed'
<1>. TypeOK /\ LinesArePriced
  BY DEF BasketInv
<1>. DEFINE f == Findings(qty, snapshot, store)
<1>1. /\ store \in Stores /\ qty \in [Products -> 0..MaxQty]
      /\ snapshot \in [Products -> Prices \cup {0}]
      /\ \A p \in Products : qty[p] = 0 => snapshot[p] = 0
  BY DEF TypeOK, LinesArePriced
<1>2. ASSUME NEW p \in Products, known'[p] # snapshot'[p]
      PROVE  notice'[p] = snapshot'[p] \/ p \in moved' \/ p \in M \/ missed[p] \in Causes
  <2>1. CASE f[p] # Quiet
    BY <1>2, <2>1
  <2>2. CASE f[p] = Quiet /\ known'[p] # known[p]
    BY <1>2, <2>2
  <2>3. CASE f[p] = Quiet /\ known'[p] = known[p]
    <3>1. snapshot'[p] = snapshot[p]
      BY <1>1, <2>3, FindingsTell
    <3>2. \/ p \in Found(notice) /\ notice[p] = snapshot[p]
          \/ p \in moved \/ missed[p] \in Causes
      BY <1>2, <2>3, <3>1, UnsaidBefore
    <3> QED BY <2>3, <3>1, <3>2
  <2> QED BY <2>1, <2>2, <2>3
<1> QED BY <1>2, OwedAfter

LEMMA ViewCartOwes ==
    ASSUME BasketInv, ToldOrOwed, NEW c \in Calls, ViewCart(c)
    PROVE  ToldOrOwed'
<1>. TypeOK /\ LinesArePriced
  BY DEF BasketInv
<1>. DEFINE f == Findings(qty, snapshot, store)
            cookie == [p \in Products |->
                IF job[c].page = "cart" /\ p \in moved THEN snapshot'[p] ELSE Quiet]
            page == Hears(f, Hears(notice, Hears(cookie, known)))
<1>1. Revalidate(qty, store) /\ UNCHANGED <<notice, moved>>
  BY DEF ViewCart
<1>2. \/ known' = page /\ Miss(Found(notice), "outdated")
      \/ known' = known /\ Miss(Found(f), "undelivered")
  BY DEF ViewCart
<1>3. /\ store \in Stores /\ qty \in [Products -> 0..MaxQty]
      /\ snapshot \in [Products -> Prices \cup {0}]
      /\ \A p \in Products : qty[p] = 0 => snapshot[p] = 0
  BY DEF TypeOK, LinesArePriced
<1>4. CASE known' = page /\ Miss(Found(notice), "outdated")
  <2>1. ASSUME NEW p \in Products, f[p] # Quiet
        PROVE  known'[p] = snapshot'[p]
    <3>1. snapshot'[p] = f[p]
      BY <1>1, <1>3, <2>1, FindingsTell
    <3> QED BY <1>4, <2>1, <3>1 DEF Hears
  <2>2. ASSUME NEW p \in Products, f[p] = Quiet, known'[p] # known[p]
        PROVE  p \in Found(notice) \/ known'[p] = snapshot'[p]
    <3>. HIDE DEF f
    <3> QED BY <1>4, <2>2 DEF Hears, Found
  <2> HIDE DEF f, page, cookie
  <2> QED BY <1>1, <1>4, <2>1, <2>2, RevalidateOwes DEF Causes, f
<1>5. CASE known' = known /\ Miss(Found(f), "undelivered")
  BY <1>1, <1>5, RevalidateOwes DEF Causes, Found
<1> QED BY <1>2, <1>4, <1>5

LEMMA OwedStep ==
    ASSUME BasketInv, ToldOrOwed, [Next]_vars
    PROVE  ToldOrOwed'
<1>. TypeOK /\ WorksAlone
  BY DEF BasketInv
<1>1. ASSUME NEW c \in Calls, Serve(c)
      PROVE  ToldOrOwed'
  <2>1. CASE Begin(c)
    BY <2>1 DEF Begin, rows, shopper, ToldOrOwed, Unsaid
  <2>2. CASE Refuse(c)
    <3>1. /\ UNCHANGED <<snapshot, notice, known>> /\ Miss(moved \ moved', "replaced")
      BY <2>2 DEF Refuse, rows
    <3>2. \A p \in Products : known'[p] # snapshot'[p] =>
              \/ notice'[p] = snapshot'[p] \/ p \in moved'
              \/ p \in moved \ moved' \/ missed[p] \in Causes
      BY <3>1, UnsaidBefore
    <3> QED BY <3>1, <3>2, OwedAfter DEF Causes
  <2>3. CASE AddItem(c)
    BY <2>3, AddItemOwes
  <2>4. CASE SetQuantity(c)
    BY <2>4, JobTypes, ChangeLineOwes, NoticeConstants DEF SetQuantity, Working
  <2>5. CASE RemoveItem(c)
    BY <2>5, JobTypes, ChangeLineOwes, NoticeConstants DEF RemoveItem, Working
  <2>6. CASE StayAtStore(c)
    <3>. DEFINE f == Findings(qty, snapshot, store)
    <3>1. /\ Revalidate(qty, store) /\ notice' = f /\ known' = known
          /\ Miss((Found(notice) \ Found(f)) \cup moved, "replaced")
      BY <2>6 DEF StayAtStore
    <3>2. \A p \in Products : f[p] # Quiet => notice'[p] = snapshot'[p]
      BY <3>1, FindingsTell DEF BasketInv, TypeOK, LinesArePriced
    <3> QED BY <3>1, <3>2, RevalidateOwes DEF Causes, Found
  <2>7. CASE MoveToStore(c)
    BY <2>7, MoveToStoreOwes
  <2>8. CASE ViewCart(c)
    BY <2>8, ViewCartOwes
  <2>9. CASE ViewQuantities(c)
    BY <2>9, RevalidateOwes DEF ViewQuantities, Causes, Found
  <2>10. CASE PlaceOrder(c)
    BY <2>10, RevalidateOwes DEF PlaceOrder, Causes, Found
  <2> QED BY <1>1, <2>1, <2>2, <2>3, <2>4, <2>5, <2>6, <2>7, <2>8, <2>9, <2>10 DEF Serve
<1>2. CASE \E s \in Stores, p \in Products : SetListed(s, p) \/ \E v \in Prices : SetPrice(s, p, v)
  BY <1>2 DEF SetListed, SetPrice, rows, shopper, ToldOrOwed, Unsaid
<1>3. CASE Expire
  <2>1. /\ UNCHANGED <<snapshot, known>>
        /\ Miss((Found(notice) \ Found(notice')) \cup (moved \ moved'), "expired")
        /\ notice' = notice \/ notice' = [p \in Products |-> Quiet]
    BY <1>3 DEF Expire
  <2>2. \A p \in Products : known'[p] # snapshot'[p] =>
            \/ notice'[p] = snapshot'[p] \/ p \in moved'
            \/ p \in (Found(notice) \ Found(notice')) \cup (moved \ moved')
            \/ missed[p] \in Causes
    BY <2>1, UnsaidBefore DEF Found
  <2> QED BY <2>1, <2>2, OwedAfter DEF Causes
<1>4. CASE UNCHANGED vars
  BY <1>4 DEF vars, ToldOrOwed, Unsaid
<1> QED BY <1>1, <1>2, <1>3, <1>4 DEF Next

\* A basket that is not what its shopper was told is one the next page tells of, or
\* one of the causes the code leaves open applies.
THEOREM NothingChangesSilently == Spec => []ToldOrOwed
<1>1. Init => BasketInv /\ ToldOrOwed
  BY BasketStart DEF Init, ToldOrOwed, Unsaid
<1>2. BasketInv /\ ToldOrOwed /\ [Next]_vars => (BasketInv /\ ToldOrOwed)'
  BY BasketStep, OwedStep
<1> QED BY <1>1, <1>2, PTL DEF Spec

-----------------------------------------------------------------------------
(* What other tabs may do to a basket *)

\* At the end of a job the requests counted so far are what the basket holds.
LEMMA CountStep ==
    ASSUME BasketInv, AddsAreCounted, [Next]_vars
    PROVE  AddsAreCounted'
<1>. TypeOK /\ WorksAlone
  BY DEF BasketInv
<1>1. ASSUME NEW c \in Calls, Serve(c)
      PROVE  AddsAreCounted'
  <2>1. CASE Begin(c) \/ Refuse(c)
    BY <2>1 DEF Begin, Refuse, rows, shopper, AddsAreCounted
  <2>2. CASE AddItem(c)
    <3>1. copy[c] = qty
      BY <2>2 DEF AddItem, Working, WorksAlone
    <3> QED BY <2>2, <3>1 DEF AddItem, Revalidate, AddsAreCounted
  <2>3. CASE SetQuantity(c) \/ RemoveItem(c)
    BY <2>3 DEF SetQuantity, RemoveItem, ChangeLine, Revalidate, AddsAreCounted
  <2>4. CASE StayAtStore(c)
    BY <2>4 DEF StayAtStore, Revalidate, AddsAreCounted
  <2>5. CASE MoveToStore(c)
    BY <2>5 DEF MoveToStore, Carried, Revalidate, AddsAreCounted
  <2>6. CASE ViewCart(c) \/ ViewQuantities(c)
    BY <2>6 DEF ViewCart, ViewQuantities, Revalidate, AddsAreCounted
  <2>7. CASE PlaceOrder(c)
    <3>1. Kept(qty, store) = qty
      BY <2>7 DEF PlaceOrder, Kept, TypeOK
    <3> QED BY <2>7, <3>1 DEF PlaceOrder, Revalidate, AddsAreCounted
  <2> QED BY <1>1, <2>1, <2>2, <2>3, <2>4, <2>5, <2>6, <2>7 DEF Serve
<1>2. CASE \E s \in Stores, p \in Products : SetListed(s, p) \/ \E v \in Prices : SetPrice(s, p, v)
  BY <1>2 DEF SetListed, SetPrice, rows, shopper, AddsAreCounted
<1>3. CASE Expire
  BY <1>3 DEF Expire, AddsAreCounted
<1>4. CASE UNCHANGED vars
  BY <1>4 DEF vars, AddsAreCounted
<1> QED BY <1>1, <1>2, <1>3, <1>4 DEF Next

\* addItem reads the quantity and writes it back in two statements: under the row
\* lock no addition of another tab is lost.
THEOREM NoAddIsLost == Spec => []AddsAreCounted
<1>1. Init => BasketInv /\ AddsAreCounted
  BY BasketStart DEF Init, AddsAreCounted
<1>2. BasketInv /\ AddsAreCounted /\ [Next]_vars => (BasketInv /\ AddsAreCounted)'
  BY BasketStep, CountStep
<1> QED BY <1>1, <1>2, PTL DEF Spec

\* A revalidation adds no line.
LEMMA KeptLines ==
    ASSUME TypeOK, NEW at, NEW q \in [Products -> 0..MaxQty], Revalidate(q, at),
           NEW p \in Products, qty'[p] > 0
    PROVE  q[p] > 0
BY NoticeConstants DEF Revalidate, Kept

LEMMA ShopStep ==
    ASSUME BasketInv, OneShop, [Next]_vars
    PROVE  OneShop'
<1>. TypeOK /\ WorksAlone
  BY DEF BasketInv
<1>a. store \in Stores /\ qty \in [Products -> 0..MaxQty]
  BY DEF TypeOK
<1>1. ASSUME NEW c \in Calls, Serve(c)
      PROVE  OneShop'
  <2>1. CASE Begin(c) \/ Refuse(c)
    BY <2>1 DEF Begin, Refuse, rows, shopper, OneShop, Lines
  <2>2. CASE AddItem(c)
    <3>. DEFINE b == job[c].product
                q == [qty EXCEPT ![b] = Smaller(copy[c][b] + 1, MaxQty)]
    <3>1. copy[c] = qty /\ b \in Products
      BY <2>2, JobTypes DEF AddItem, Working, WorksAlone
    <3>2. q \in [Products -> 0..MaxQty]
      BY <3>1, NoticeConstants DEF TypeOK, Smaller
    <3>3. /\ Revalidate(q, store) /\ store' = store /\ job[c].shop = store
          /\ origin' = [origin EXCEPT ![b] = IF copy[c][b] > 0 THEN @ ELSE job[c].shop]
      BY <2>2 DEF AddItem
    <3>4. ASSUME NEW p \in Products, qty'[p] > 0
          PROVE  origin'[p] = store'
      <4>1. q[p] > 0
        BY <3>2, <3>3, <3>4, KeptLines
      <4>2. CASE p = b
        BY <3>1, <3>3, <4>2 DEF OneShop, Lines, TypeOK
      <4>3. CASE p # b
        BY <3>1, <3>3, <4>1, <4>3 DEF OneShop, Lines, TypeOK
      <4> QED BY <4>2, <4>3
    <3> QED BY <3>4 DEF OneShop, Lines
  <2>3. CASE SetQuantity(c)
    <3>. DEFINE b == job[c].product
                q == [qty EXCEPT ![b] = job[c].qty]
    <3>1. copy[c] = qty /\ b \in Products /\ job[c].qty \in 1..MaxQty
      BY <2>3, JobTypes DEF SetQuantity, Working, WorksAlone
    <3>2. q \in [Products -> 0..MaxQty] /\ qty[b] > 0
      BY <2>3, <3>1, NoticeConstants DEF TypeOK, SetQuantity
    <3>3. Revalidate(q, store) /\ UNCHANGED <<store, origin>>
      BY <2>3 DEF SetQuantity, ChangeLine
    <3>4. ASSUME NEW p \in Products, qty'[p] > 0
          PROVE  qty[p] > 0
      <4>1. q[p] > 0
        BY <3>2, <3>3, <3>4, KeptLines
      <4> QED BY <3>2, <4>1 DEF TypeOK
    <3> QED BY <3>3, <3>4 DEF OneShop, Lines
  <2>4. CASE RemoveItem(c)
    <3>. DEFINE q == [qty EXCEPT ![job[c].product] = 0]
    <3>1. q \in [Products -> 0..MaxQty]
      <4>1. 0 \in 0..MaxQty
        BY NoticeConstants
      <4> QED BY <4>1 DEF TypeOK
    <3>2. Revalidate(q, store) /\ UNCHANGED <<store, origin>>
      BY <2>4 DEF RemoveItem, ChangeLine
    <3>3. ASSUME NEW p \in Products, qty'[p] > 0
          PROVE  qty[p] > 0
      <4>1. q[p] > 0
        BY <3>1, <3>2, <3>3, KeptLines
      <4> QED BY <4>1 DEF TypeOK
    <3> QED BY <3>2, <3>3 DEF OneShop, Lines
  <2>5. CASE MoveToStore(c)
    <3>1. Carried(c) \in [Products -> 0..MaxQty]
      BY NoticeConstants DEF TypeOK, Carried
    <3>2. /\ Revalidate(Carried(c), job[c].shop) /\ store' = job[c].shop
          /\ origin' = [p \in Products |-> IF quote[c][p] > 0 THEN job[c].shop ELSE origin[p]]
      BY <2>5 DEF MoveToStore
    <3>3. ASSUME NEW p \in Products, qty'[p] > 0
          PROVE  quote[c][p] > 0
      BY <3>1, <3>2, <3>3, KeptLines DEF Carried
    <3> QED BY <3>2, <3>3 DEF OneShop, Lines
  <2>6. CASE StayAtStore(c) \/ ViewCart(c) \/ ViewQuantities(c) \/ PlaceOrder(c)
    <3>1. Revalidate(qty, store) /\ UNCHANGED <<store, origin>>
      BY <2>6 DEF StayAtStore, ViewCart, ViewQuantities, PlaceOrder
    <3> QED BY <1>a, <3>1, KeptLines DEF OneShop, Lines
  <2> QED BY <1>1, <2>1, <2>2, <2>3, <2>4, <2>5, <2>6 DEF Serve
<1>2. CASE \E s \in Stores, p \in Products : SetListed(s, p) \/ \E v \in Prices : SetPrice(s, p, v)
  BY <1>2 DEF SetListed, SetPrice, rows, shopper, OneShop, Lines
<1>3. CASE Expire
  BY <1>3 DEF Expire, OneShop, Lines
<1>4. CASE UNCHANGED vars
  BY <1>4 DEF vars, OneShop, Lines
<1> QED BY <1>1, <1>2, <1>3, <1>4 DEF Next

\* A tab of another delivery area adds nothing to a basket: all lines of a basket
\* come from the pages of the shop it is at.
THEOREM BasketHasOneShop == Spec => []OneShop
<1>1. Init => BasketInv /\ OneShop
  BY BasketStart DEF Init, OneShop, Lines, NothingRead
<1>2. BasketInv /\ OneShop /\ [Next]_vars => (BasketInv /\ OneShop)'
  BY BasketStep, ShopStep
<1> QED BY <1>1, <1>2, PTL DEF Spec

\* No tab changes a basket that became an order.
THEOREM SoldBasketStays == Spec => SoldBasketIsFrozen
<1>1. ASSUME BasketInv, [Next]_vars, status = "CONVERTED"
      PROVE  UNCHANGED <<store, status, qty, snapshot>>
  <2>1. \A c \in Calls : pc[c] # "working"
    BY <1>1 DEF BasketInv, WorksAlone
  <2>2. ASSUME NEW c \in Calls, Serve(c)
        PROVE  UNCHANGED <<store, status, qty, snapshot>>
    <3>1. Begin(c) \/ Refuse(c)
      BY <2>1, <2>2 DEF Serve, Working, AddItem, SetQuantity, RemoveItem, StayAtStore,
                        MoveToStore, ViewCart, ViewQuantities, PlaceOrder
    <3> QED BY <3>1 DEF Begin, Refuse, rows
  <2>3. CASE \E s \in Stores, p \in Products : SetListed(s, p) \/ \E v \in Prices : SetPrice(s, p, v)
    BY <2>3 DEF SetListed, SetPrice, rows
  <2>4. CASE Expire
    BY <2>4 DEF Expire
  <2>5. CASE UNCHANGED vars
    BY <2>5 DEF vars
  <2> QED BY <1>1, <2>2, <2>3, <2>4, <2>5 DEF Next
<1>2. BasketInv /\ [Next]_vars => [status = "CONVERTED" => UNCHANGED <<store, status, qty, snapshot>>]_vars
  BY <1>1
<1>3. Spec => []BasketInv
  BY BasketIsLocked
<1> QED BY <1>2, <1>3, PTL DEF Spec, SoldBasketIsFrozen
=============================================================================
