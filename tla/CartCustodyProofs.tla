-------------------------- MODULE CartCustodyProofs --------------------------
(***************************************************************************)
(* Proofs about CartCustody for every set of customers, carts and          *)
(* requests.                                                               *)
(***************************************************************************)
EXTENDS CartCustody, TLAPS

-----------------------------------------------------------------------------
(* Types *)

LEMMA JobTypes ==
    ASSUME TypeOK, NEW c \in Calls
    PROVE  /\ job[c].kind \in {"signIn", "add", "checkout"}
           /\ job[c].customer \in Customers \cup {Nobody}
           /\ job[c].token \in Carts \cup {NoCart}
           /\ NoJob \in Jobs
BY DEF TypeOK, Jobs, NoJob

\* What a finished transaction leaves behind is well typed.
LEMMA EndTypes ==
    ASSUME TypeOK, NEW c \in Calls, EndTransaction(c),
           cart' \in [Carts -> CartRows], orders' \subseteq Carts, bound' \subseteq Customers
    PROVE  TypeOK'
<1>1. NoJob \in Jobs
  BY JobTypes
<1>2. /\ customerLock' \in [Customers -> Calls \cup {Free}]
      /\ cartLock' \in [Carts -> Calls \cup {Free}]
  BY DEF TypeOK, EndTransaction, Finish
<1>3. job' \in [Calls -> Jobs]
  BY <1>1 DEF TypeOK, EndTransaction
<1> QED BY <1>2, <1>3 DEF TypeOK, EndTransaction, Finish

\* Whatever a request picks is a cart on its list, or nothing from an empty one.
LEMMA PickTypes ==
    ASSUME NEW S \in SUBSET Carts, NEW k \in PickFrom(S)
    PROVE  k \in Carts \cup {NoCart} /\ (k = NoCart => S = {})
BY CustodyConstants DEF PickFrom

LEMMA BindTypes ==
    ASSUME TypeOK, NEW c \in Calls, Bind(c)
    PROVE  /\ cart' \in [Carts -> CartRows]
           /\ bound' \subseteq Customers
<1> DEFINE row(k) ==
      IF k = keep[c]
      THEN [status |-> IF k \in Inserted THEN cart[k].status ELSE "ACTIVE",
            owner  |-> job[c].customer]
      ELSE IF k \in abandoned[c] THEN [cart[k] EXCEPT !.status = "ABANDONED"]
      ELSE cart[k]
<1>1. cart' = [k \in Carts |-> row(k)]
  BY DEF Bind
<1>2. ASSUME NEW k \in Carts
      PROVE  row(k) \in CartRows
  <2>1. cart[k] \in CartRows
    BY DEF TypeOK
  <2>2. k \in Inserted => cart[k].status \in {"ACTIVE", "CONVERTED", "ABANDONED"}
    BY <2>1 DEF Inserted, CartRows
  <2>3. [cart[k] EXCEPT !.status = "ABANDONED"] \in CartRows
    BY <2>1 DEF CartRows
  <2>4. job[c].customer \in Customers \cup {Nobody}
    BY JobTypes
  <2> QED BY <2>1, <2>2, <2>3, <2>4 DEF CartRows
<1>3. cart' \in [Carts -> CartRows]
  <2> HIDE DEF row
  <2> QED BY <1>1, <1>2
<1>4. bound' \subseteq Customers
  BY JobTypes DEF Bind, TypeOK
<1> QED BY <1>3, <1>4

LEMMA ConvertTypes ==
    ASSUME TypeOK, NEW c \in Calls, Convert(c), keep[c] # NoCart
    PROVE  cart' \in [Carts -> CartRows] /\ orders' \subseteq Carts
<1>1. keep[c] \in Carts
  BY DEF TypeOK
<1>2. cart' = [cart EXCEPT ![keep[c]] = [cart[keep[c]] EXCEPT !.status = "CONVERTED"]]
  BY DEF Convert
<1>3. [cart[keep[c]] EXCEPT !.status = "CONVERTED"] \in CartRows
  <2>1. cart[keep[c]] \in CartRows
    BY <1>1 DEF TypeOK
  <2> QED BY <2>1 DEF CartRows
<1> QED BY <1>1, <1>2, <1>3 DEF Convert, TypeOK

LEMMA TypeStep ==
    ASSUME TypeOK, HoldsKept, [Next]_vars
    PROVE  TypeOK'
<1>1. ASSUME NEW c \in Calls, Begin(c)
      PROVE  TypeOK'
  BY <1>1 DEF Begin, TypeOK, locks, work
<1>2. ASSUME NEW c \in Calls, LockCustomer(c)
      PROVE  TypeOK'
  BY <1>2 DEF LockCustomer, TypeOK, work
<1>3. ASSUME NEW c \in Calls, TakeCart(c)
      PROVE  TypeOK'
  BY <1>3, JobTypes DEF TakeCart, TypeOK
<1>4. ASSUME NEW c \in Calls, NEW k \in Carts, InsertCart(c, k)
      PROVE  TypeOK'
  BY <1>4 DEF InsertCart, TypeOK
<1>5. ASSUME NEW c \in Calls, ListOthers(c)
      PROVE  TypeOK'
  <2>1. doomed' \in [Calls -> SUBSET Carts]
    BY <1>5 DEF ListOthers, TypeOK, ActiveOf
  <2>2. next' \in [Calls -> Carts \cup {NoCart}]
    <3>1. doomed'[c] \in SUBSET Carts
      BY <2>1
    <3> QED BY <1>5, <3>1, PickTypes DEF ListOthers, TypeOK
  <2> QED BY <1>5, <2>1, <2>2 DEF ListOthers, TypeOK, locks
<1>6. ASSUME NEW c \in Calls, AbandonOne(c)
      PROVE  TypeOK'
  <2>1. next[c] \in Carts
    BY <1>6 DEF AbandonOne, TypeOK
  <2>2. doomed' \in [Calls -> SUBSET Carts]
    BY <1>6 DEF AbandonOne, TypeOK
  <2>3. next' \in [Calls -> Carts \cup {NoCart}]
    <3>1. doomed'[c] \in SUBSET Carts
      BY <2>2
    <3> QED BY <1>6, <3>1, PickTypes DEF AbandonOne, TypeOK
  <2> QED BY <1>6, <2>1, <2>2, <2>3 DEF AbandonOne, TypeOK
<1>7. ASSUME NEW c \in Calls, Bind(c)
      PROVE  TypeOK'
  BY <1>7, BindTypes, EndTypes DEF Bind, TypeOK
<1>8. ASSUME NEW c \in Calls, Convert(c)
      PROVE  TypeOK'
  <2>1. keep[c] # NoCart
    BY <1>8 DEF Convert, HoldsKept
  <2> QED BY <1>8, <2>1, ConvertTypes, EndTypes DEF Convert, TypeOK
<1>9. ASSUME NEW c \in Calls,
             UseAsItIs(c) \/ NothingToTake(c) \/ RowsRunOut(c) \/ Abort(c)
      PROVE  TypeOK'
  BY <1>9, EndTypes DEF UseAsItIs, NothingToTake, RowsRunOut, Abort, TypeOK
<1>10. CASE UNCHANGED vars
  BY <1>10 DEF vars, TypeOK
<1> QED
  BY <1>1, <1>2, <1>3, <1>4, <1>5, <1>6, <1>7, <1>8, <1>9, <1>10 DEF Next, Proceed

-----------------------------------------------------------------------------
(* Locks *)

LEMMA CustomerStep ==
    ASSUME TypeOK, HoldsCustomer, [Next]_vars
    PROVE  HoldsCustomer'
<1>1. ASSUME NEW c \in Calls, Begin(c)
      PROVE  HoldsCustomer'
  BY <1>1 DEF Begin, HoldsCustomer, TypeOK, locks
<1>2. ASSUME NEW c \in Calls, LockCustomer(c)
      PROVE  HoldsCustomer'
  <2>1. job[c].customer \in Customers \/ job[c].customer = Nobody
    BY JobTypes
  <2> QED BY <1>2, <2>1, CustodyConstants DEF LockCustomer, HoldsCustomer, TypeOK
<1>3. ASSUME NEW c \in Calls,
             \/ TakeCart(c) \/ (\E k \in Carts : InsertCart(c, k))
             \/ ListOthers(c) \/ AbandonOne(c)
      PROVE  HoldsCustomer'
  BY <1>3 DEF TakeCart, InsertCart, RowIsFree, ListOthers, AbandonOne, HoldsCustomer, TypeOK, locks
<1>4. ASSUME NEW c \in Calls, EndTransaction(c)
      PROVE  HoldsCustomer'
  <2> SUFFICES ASSUME NEW d \in Calls, pc'[d] \in {"cart", "listing", "binding"},
                      job'[d].customer # Nobody
               PROVE  customerLock'[job'[d].customer] = d
    BY DEF HoldsCustomer
  <2>1. d # c /\ pc'[d] = pc[d] /\ job'[d] = job[d]
    BY <1>4 DEF EndTransaction, Finish, TypeOK
  <2>2. customerLock[job[d].customer] = d /\ job[d].customer \in Customers
    BY <2>1, JobTypes DEF HoldsCustomer
  <2> QED BY <1>4, <2>1, <2>2 DEF EndTransaction, Finish
<1>5. CASE UNCHANGED vars
  BY <1>5 DEF vars, HoldsCustomer
<1> QED
  BY <1>1, <1>2, <1>3, <1>4, <1>5
  DEF Next, Proceed, UseAsItIs, NothingToTake, RowsRunOut, Bind, Convert, Abort

LEMMA KeptStep ==
    ASSUME TypeOK, HoldsKept, [Next]_vars
    PROVE  HoldsKept'
<1>1. ASSUME NEW c \in Calls, Begin(c) \/ LockCustomer(c)
      PROVE  HoldsKept'
  BY <1>1 DEF Begin, LockCustomer, HoldsKept, TypeOK, locks, work
<1>2. ASSUME NEW c \in Calls, TakeCart(c)
      PROVE  HoldsKept'
  <2>1. job[c].token \in Carts
    BY <1>2, JobTypes DEF TakeCart, Wanted, TokenIs
  <2> QED BY <1>2, <2>1, CustodyConstants DEF TakeCart, RowIsFree, Wanted, TokenIs, HoldsKept, TypeOK
<1>3. ASSUME NEW c \in Calls, NEW k \in Carts, InsertCart(c, k)
      PROVE  HoldsKept'
  <2> SUFFICES ASSUME NEW d \in Calls
               PROVE  /\ keep'[d] # NoCart => cartLock'[keep'[d]] = d
                      /\ pc'[d] \in {"listing", "binding", "converting"} => keep'[d] # NoCart
    BY DEF HoldsKept
  <2>1. CASE d = c
    BY <1>3, <2>1, CustodyConstants DEF InsertCart, TypeOK
  <2>2. CASE d # c
    <3>1. keep'[d] = keep[d] /\ pc'[d] = pc[d] /\ keep[d] # k
      BY <1>3, <2>2 DEF InsertCart, Unused, TypeOK
    <3>2. keep[d] # NoCart => keep[d] # job[c].token
      BY <1>3, <2>2, CustodyConstants DEF InsertCart, RowIsFree, HoldsKept
    <3>3. keep[d] # NoCart => cartLock'[keep[d]] = cartLock[keep[d]]
      BY <1>3, <3>1, <3>2 DEF InsertCart, TypeOK
    <3> QED BY <3>1, <3>3 DEF HoldsKept
  <2> QED BY <2>1, <2>2
<1>4. ASSUME NEW c \in Calls, ListOthers(c)
      PROVE  HoldsKept'
  BY <1>4 DEF ListOthers, HoldsKept, TypeOK, locks
<1>5. ASSUME NEW c \in Calls, AbandonOne(c)
      PROVE  HoldsKept'
  BY <1>5, CustodyConstants DEF AbandonOne, HoldsKept, TypeOK
<1>6. ASSUME NEW c \in Calls, EndTransaction(c)
      PROVE  HoldsKept'
  BY <1>6, CustodyConstants DEF EndTransaction, Finish, HoldsKept, TypeOK
<1>7. CASE UNCHANGED vars
  BY <1>7 DEF vars, HoldsKept
<1> QED
  BY <1>1, <1>2, <1>3, <1>4, <1>5, <1>6, <1>7
  DEF Next, Proceed, UseAsItIs, NothingToTake, RowsRunOut, Bind, Convert, Abort

-----------------------------------------------------------------------------
(* The list *)

\* A row that exists never goes away again.
LEMMA RowsStay ==
    ASSUME TypeOK, HoldsKept, [Next]_vars
    PROVE  Inserted \subseteq Inserted'
<1>1. ASSUME UNCHANGED cart
      PROVE  Inserted \subseteq Inserted'
  BY <1>1 DEF Inserted
<1>2. ASSUME NEW c \in Calls, Bind(c)
      PROVE  Inserted \subseteq Inserted'
  <2> SUFFICES ASSUME NEW k \in Carts, cart[k].status # "NONE"
               PROVE  cart'[k].status # "NONE"
    BY DEF Inserted
  <2>1. cart[k] \in CartRows
    BY DEF TypeOK
  <2>2. cart'[k] = IF k = keep[c]
                   THEN [status |-> cart[k].status, owner |-> job[c].customer]
                   ELSE IF k \in abandoned[c] THEN [cart[k] EXCEPT !.status = "ABANDONED"]
                   ELSE cart[k]
    BY <1>2 DEF Bind, Inserted
  <2> QED BY <2>1, <2>2 DEF CartRows
<1>3. ASSUME NEW c \in Calls, Convert(c)
      PROVE  Inserted \subseteq Inserted'
  <2> SUFFICES ASSUME NEW k \in Carts, cart[k].status # "NONE"
               PROVE  cart'[k].status # "NONE"
    BY DEF Inserted
  <2>1. cart[k] \in CartRows
    BY DEF TypeOK
  <2>2. cart'[k] = IF k = keep[c] THEN [cart[k] EXCEPT !.status = "CONVERTED"] ELSE cart[k]
    BY <1>3 DEF Convert, TypeOK
  <2> QED BY <2>1, <2>2 DEF CartRows
<1> QED
  BY <1>1, <1>2, <1>3
  DEF Next, Proceed, Begin, LockCustomer, UseAsItIs, NothingToTake, RowsRunOut, TakeCart,
      InsertCart, ListOthers, AbandonOne, Abort, vars

LEMMA ListedStep ==
    ASSUME TypeOK, HoldsKept, ListedRowsExist, [Next]_vars
    PROVE  ListedRowsExist'
<1>1. Inserted \subseteq Inserted'
  BY RowsStay
<1>2. ASSUME UNCHANGED <<next, doomed, abandoned>>
      PROVE  ListedRowsExist'
  BY <1>1, <1>2 DEF ListedRowsExist
<1>3. ASSUME NEW c \in Calls, ListOthers(c) \/ AbandonOne(c)
      PROVE  ListedRowsExist'
  <2>1. doomed'[c] \in SUBSET Carts
    BY <1>3 DEF ListOthers, AbandonOne, ActiveOf, TypeOK
  <2>2. /\ next'[c] = NoCart => doomed'[c] = {}
        /\ next'[c] # NoCart => next'[c] \in doomed'[c]
    BY <1>3, <2>1, CustodyConstants DEF PickFrom, ListOthers, AbandonOne, TypeOK
  <2>3. doomed'[c] \cup abandoned'[c] \subseteq Inserted
    BY <1>3 DEF ListOthers, AbandonOne, ActiveOf, Inserted, ListedRowsExist, TypeOK
  <2>4. \A d \in Calls \ {c} : UNCHANGED <<next[d], doomed[d], abandoned[d]>>
    BY <1>3 DEF ListOthers, AbandonOne, TypeOK
  <2> QED BY <1>1, <2>2, <2>3, <2>4 DEF ListedRowsExist
<1>4. ASSUME NEW c \in Calls, EndTransaction(c)
      PROVE  ListedRowsExist'
  BY <1>1, <1>4 DEF EndTransaction, Finish, ListedRowsExist, TypeOK
<1> QED
  BY <1>2, <1>3, <1>4
  DEF Next, Proceed, Begin, LockCustomer, UseAsItIs, NothingToTake, RowsRunOut, TakeCart,
      InsertCart, Bind, Convert, Abort, vars, work

LEMMA AbandonedStep ==
    ASSUME TypeOK, HoldsKept, ListedRowsExist, HoldsAbandoned, [Next]_vars
    PROVE  HoldsAbandoned'
<1>1. ASSUME UNCHANGED <<cartLock, abandoned>>
      PROVE  HoldsAbandoned'
  BY <1>1 DEF HoldsAbandoned
<1>2. ASSUME NEW c \in Calls, TakeCart(c)
      PROVE  HoldsAbandoned'
  <2>1. cartLock[job[c].token] = Free
    BY <1>2 DEF TakeCart, RowIsFree, Wanted, TokenIs
  <2> QED BY <1>2, <2>1, CustodyConstants DEF TakeCart, HoldsAbandoned, TypeOK
<1>3. ASSUME NEW c \in Calls, NEW k \in Carts, InsertCart(c, k)
      PROVE  HoldsAbandoned'
  <2> SUFFICES ASSUME NEW d \in Calls, NEW l \in abandoned[d]
               PROVE  cartLock'[l] = d
    BY <1>3 DEF InsertCart, HoldsAbandoned
  <2>1. l \in Carts /\ l # k /\ cartLock[l] = d
    BY <1>3 DEF InsertCart, Unused, ListedRowsExist, Inserted, HoldsAbandoned, TypeOK
  <2>2. l # job[c].token
    BY <1>3, <2>1, CustodyConstants DEF InsertCart, RowIsFree
  <2> QED BY <1>3, <2>1, <2>2 DEF InsertCart, TypeOK
<1>4. ASSUME NEW c \in Calls, AbandonOne(c)
      PROVE  HoldsAbandoned'
  BY <1>4, CustodyConstants DEF AbandonOne, HoldsAbandoned, TypeOK
<1>5. ASSUME NEW c \in Calls, EndTransaction(c)
      PROVE  HoldsAbandoned'
  BY <1>5, CustodyConstants DEF EndTransaction, Finish, HoldsAbandoned, TypeOK
<1> QED
  BY <1>1, <1>2, <1>3, <1>4, <1>5
  DEF Next, Proceed, Begin, LockCustomer, UseAsItIs, NothingToTake, RowsRunOut,
      ListOthers, Bind, Convert, Abort, vars, locks, work

\* A transaction that ends writes no row another one keeps.
LEMMA KeptRowsStay ==
    ASSUME TypeOK, HoldsKept, HoldsAbandoned,
           NEW c \in Calls, Bind(c) \/ Convert(c),
           NEW d \in Calls, d # c, pc[d] = "converting"
    PROVE  cart'[keep[d]] = cart[keep[d]]
<1>1. keep[d] \in Carts /\ cartLock[keep[d]] = d
  BY DEF HoldsKept, TypeOK
<1>2. keep[d] # keep[c] /\ keep[d] \notin abandoned[c]
  BY <1>1 DEF HoldsKept, HoldsAbandoned, Bind, Convert
<1> QED BY <1>1, <1>2 DEF Bind, Convert, TypeOK

LEMMA ConvertsStep ==
    ASSUME TypeOK, HoldsKept, HoldsAbandoned, ConvertsActive, [Next]_vars
    PROVE  ConvertsActive'
<1>1. ASSUME UNCHANGED <<cart, pc, keep>>
      PROVE  ConvertsActive'
  BY <1>1 DEF ConvertsActive
<1>2. ASSUME NEW c \in Calls, Begin(c) \/ LockCustomer(c) \/ ListOthers(c) \/ AbandonOne(c)
      PROVE  ConvertsActive'
  BY <1>2 DEF Begin, LockCustomer, ListOthers, AbandonOne, ConvertsActive, TypeOK, work
<1>3. ASSUME NEW c \in Calls, TakeCart(c)
      PROVE  ConvertsActive'
  BY <1>3 DEF TakeCart, Wanted, TokenIs, ConvertsActive, TypeOK
<1>4. ASSUME NEW c \in Calls, NEW k \in Carts, InsertCart(c, k)
      PROVE  ConvertsActive'
  BY <1>4 DEF InsertCart, ConvertsActive, TypeOK
<1>5. ASSUME NEW c \in Calls, EndTransaction(c), UNCHANGED cart
      PROVE  ConvertsActive'
  BY <1>5 DEF EndTransaction, Finish, ConvertsActive, TypeOK
<1>6. ASSUME NEW c \in Calls, Bind(c) \/ Convert(c)
      PROVE  ConvertsActive'
  <2> SUFFICES ASSUME NEW d \in Calls, pc'[d] = "converting"
               PROVE  cart'[keep'[d]].status = "ACTIVE"
    BY DEF ConvertsActive
  <2>1. d # c /\ pc[d] = "converting" /\ keep'[d] = keep[d]
    BY <1>6 DEF Bind, Convert, EndTransaction, Finish, TypeOK
  <2> QED BY <1>6, <2>1, KeptRowsStay DEF ConvertsActive
<1> QED
  BY <1>1, <1>2, <1>3, <1>4, <1>5, <1>6
  DEF Next, Proceed, UseAsItIs, NothingToTake, RowsRunOut, Abort, vars

\* A binding gives an active basket to its own customer only, and leaves that
\* customer no other.
LEMMA BindGives ==
    ASSUME CustodyInv, NEW c \in Calls, Bind(c), NEW a \in Customers
    PROVE  /\ a # job[c].customer => ActiveOf(a)' \subseteq ActiveOf(a)
           /\ a = job[c].customer => ActiveOf(a)' \subseteq {keep[c]}
<1>1. ASSUME NEW k \in Carts, k # keep[c], k \in ActiveOf(a)'
      PROVE  k \in ActiveOf(a) /\ k \notin abandoned[c]
  <2>1. cart'[k] = IF k \in abandoned[c] THEN [cart[k] EXCEPT !.status = "ABANDONED"] ELSE cart[k]
    BY <1>1 DEF Bind
  <2>2. cart[k] \in CartRows
    BY DEF CustodyInv, TypeOK
  <2>3. k \notin abandoned[c]
    BY <1>1, <2>1, <2>2 DEF ActiveOf, CartRows
  <2> QED BY <1>1, <2>1, <2>3 DEF ActiveOf
<1>2. ASSUME a # job[c].customer
      PROVE  keep[c] \notin ActiveOf(a)'
  BY <1>2 DEF Bind, ActiveOf
<1>3. ASSUME a = job[c].customer
      PROVE  ActiveOf(a) \subseteq {keep[c]} \cup abandoned[c]
  <2>1. pc[c] = "binding" /\ doomed[c] = {}
    BY DEF Bind, CustodyInv, ListedRowsExist
  <2> QED BY <1>3, <2>1 DEF CustodyInv, ListIsComplete
<1>4. ActiveOf(a)' \subseteq Carts
  BY DEF ActiveOf
<1> QED BY <1>1, <1>2, <1>3, <1>4

\* No other step gives anyone an active basket.
LEMMA OnlyBindGives ==
    ASSUME CustodyInv, [Next]_vars, \A c \in Calls : ~Bind(c), NEW a \in Customers
    PROVE  ActiveOf(a)' \subseteq ActiveOf(a) /\ bound' = bound
<1>1. CASE UNCHANGED <<cart, bound>>
  BY <1>1 DEF ActiveOf
<1>2. ASSUME NEW c \in Calls, Convert(c)
      PROVE  ActiveOf(a)' \subseteq ActiveOf(a) /\ bound' = bound
  <2>1. ASSUME NEW k \in Carts, k \in ActiveOf(a)'
        PROVE  k \in ActiveOf(a)
    <3>1. cart[k] \in CartRows
      BY DEF CustodyInv, TypeOK
    <3> QED BY <1>2, <2>1, <3>1 DEF Convert, ActiveOf, CustodyInv, TypeOK, CartRows
  <2> QED BY <1>2, <2>1 DEF Convert, ActiveOf
<1> QED
  BY <1>1, <1>2
  DEF Next, Proceed, Begin, LockCustomer, UseAsItIs, NothingToTake, RowsRunOut, TakeCart,
      InsertCart, ListOthers, AbandonOne, Abort, vars

LEMMA CompleteStep ==
    ASSUME CustodyInv, [Next]_vars
    PROVE  ListIsComplete'
<1> SUFFICES ASSUME NEW c \in Calls, NEW a \in Customers,
                    pc'[c] = "binding", job'[c].customer = a
             PROVE  ActiveOf(a)' \subseteq {keep'[c]} \cup doomed'[c] \cup abandoned'[c]
  BY DEF ListIsComplete
<1> USE DEF CustodyInv
<1>1. ASSUME ListOthers(c)
      PROVE  ActiveOf(a)' \subseteq {keep'[c]} \cup doomed'[c] \cup abandoned'[c]
  BY <1>1 DEF ListOthers, ActiveOf, TypeOK
<1>2. ASSUME ~ListOthers(c)
      PROVE  /\ pc[c] = "binding" /\ job'[c] = job[c] /\ keep'[c] = keep[c]
             /\ doomed[c] \cup abandoned[c] \subseteq doomed'[c] \cup abandoned'[c]
  <2>1. ASSUME NEW d \in Calls, EndTransaction(d)
        PROVE  d # c /\ UNCHANGED <<pc[c], job[c], keep[c], doomed[c], abandoned[c]>>
    BY <2>1 DEF EndTransaction, Finish, TypeOK
  <2>2. ASSUME NEW d \in Calls, Begin(d) \/ LockCustomer(d) \/ TakeCart(d) \/ ListOthers(d)
        PROVE  d # c /\ UNCHANGED <<pc[c], job[c], keep[c], doomed[c], abandoned[c]>>
    BY <1>2, <2>2 DEF Begin, LockCustomer, TakeCart, ListOthers, TypeOK, work
  <2>3. ASSUME NEW d \in Calls, NEW k \in Carts, InsertCart(d, k)
        PROVE  d # c /\ UNCHANGED <<pc[c], job[c], keep[c], doomed[c], abandoned[c]>>
    BY <2>3, CustodyConstants DEF InsertCart, TypeOK
  <2>4. ASSUME NEW d \in Calls, AbandonOne(d)
        PROVE  /\ UNCHANGED <<pc[c], job[c], keep[c]>>
               /\ doomed[c] \cup abandoned[c] \subseteq doomed'[c] \cup abandoned'[c]
    BY <2>4 DEF AbandonOne, TypeOK
  <2>5. CASE UNCHANGED vars
    BY <2>5 DEF vars
  <2> QED
    BY <2>1, <2>2, <2>3, <2>4, <2>5
    DEF Next, Proceed, UseAsItIs, NothingToTake, RowsRunOut, Bind, Convert, Abort
<1>3. ASSUME ~ListOthers(c)
      PROVE  ActiveOf(a)' \subseteq ActiveOf(a)
  <2>1. pc[c] = "binding" /\ job[c].customer = a /\ customerLock[a] = c
    BY <1>2, <1>3, CustodyConstants DEF HoldsCustomer
  <2>2. ASSUME NEW d \in Calls, Bind(d)
        PROVE  job[d].customer # a
    <3>1. d # c
      BY <2>2 DEF Bind, EndTransaction, Finish, TypeOK
    <3>2. pc[d] = "binding"
      BY <2>2 DEF Bind
    <3> QED BY <2>1, <3>1, <3>2, CustodyConstants DEF HoldsCustomer
  <2>3. CASE \E d \in Calls : Bind(d)
    BY <2>1, <2>2, <2>3, BindGives
  <2>4. CASE \A d \in Calls : ~Bind(d)
    BY <2>1, <2>4, OnlyBindGives
  <2> QED BY <2>3, <2>4
<1>4. ASSUME ~ListOthers(c)
      PROVE  ActiveOf(a)' \subseteq {keep'[c]} \cup doomed'[c] \cup abandoned'[c]
  <2>1. ActiveOf(a) \subseteq {keep[c]} \cup doomed[c] \cup abandoned[c]
    BY <1>2, <1>4 DEF ListIsComplete
  <2> QED BY <1>2, <1>3, <1>4, <2>1
<1> QED BY <1>1, <1>4

-----------------------------------------------------------------------------
(* Theorems *)

LEMMA CustodyInit == Init => CustodyInv
<1> SUFFICES ASSUME Init
             PROVE  CustodyInv
  OBVIOUS
<1>1. TypeOK
  BY DEF Init, TypeOK, Jobs, NoJob
<1>2. HoldsCustomer /\ HoldsKept /\ ListIsComplete
  BY DEF Init, HoldsCustomer, HoldsKept, ListIsComplete
<1>3. ListedRowsExist /\ HoldsAbandoned /\ ConvertsActive
  BY DEF Init, ListedRowsExist, HoldsAbandoned, ConvertsActive
<1> QED BY <1>1, <1>2, <1>3 DEF CustodyInv

LEMMA CustodyStep == CustodyInv /\ [Next]_vars => CustodyInv'
<1> SUFFICES ASSUME CustodyInv, [Next]_vars
             PROVE  CustodyInv'
  OBVIOUS
<1>1. /\ TypeOK /\ HoldsCustomer /\ HoldsKept /\ ListIsComplete
      /\ ListedRowsExist /\ HoldsAbandoned /\ ConvertsActive
  BY DEF CustodyInv
<1>2. TypeOK' /\ HoldsCustomer' /\ HoldsKept' /\ ListIsComplete'
  BY <1>1, TypeStep, CustomerStep, KeptStep, CompleteStep
<1>3. ListedRowsExist' /\ HoldsAbandoned' /\ ConvertsActive'
  BY <1>1, ListedStep, AbandonedStep, ConvertsStep
<1> QED BY <1>2, <1>3 DEF CustodyInv

\* The inductive invariant: requests are well typed, hold the locks their position
\* says they hold, and have complete lists.
THEOREM CustodyHolds == Spec => []CustodyInv
BY CustodyInit, CustodyStep, PTL DEF Spec

\* Whatever baskets earlier days left, a customer a basket was bound to never has
\* two active ones again, however many devices, customers and baskets there are.
THEOREM OneBasketEach == Spec => []OneActiveCart
<1>1. Init => OneActiveCart
  BY DEF Init, OneActiveCart
<1>2. CustodyInv /\ OneActiveCart /\ [Next]_vars => OneActiveCart'
  <2> SUFFICES ASSUME CustodyInv, OneActiveCart, [Next]_vars, NEW a \in bound'
               PROVE  \A k, l \in ActiveOf(a)' : k = l
    BY DEF OneActiveCart
  <2>1. ASSUME NEW c \in Calls, Bind(c), a = job[c].customer
        PROVE  \A k, l \in ActiveOf(a)' : k = l
    <3>1. a \in Customers
      BY <2>1, JobTypes DEF Bind, CustodyInv, TypeOK
    <3> QED BY <2>1, <3>1, BindGives
  <2>2. ASSUME NEW c \in Calls, Bind(c), a # job[c].customer
        PROVE  \A k, l \in ActiveOf(a)' : k = l
    <3>1. a \in bound /\ a \in Customers
      BY <2>2 DEF Bind, CustodyInv, TypeOK
    <3> QED BY <2>2, <3>1, BindGives DEF OneActiveCart
  <2>3. ASSUME \A c \in Calls : ~Bind(c)
        PROVE  \A k, l \in ActiveOf(a)' : k = l
    <3>1. bound' = bound
      BY <2>3 DEF Next, Proceed, Begin, LockCustomer, UseAsItIs, NothingToTake, RowsRunOut,
                  TakeCart, InsertCart, ListOthers, AbandonOne, Convert, Abort, vars
    <3>2. a \in bound /\ a \in Customers
      BY <3>1 DEF CustodyInv, TypeOK
    <3> QED BY <2>3, <3>2, OnlyBindGives DEF OneActiveCart
  <2> QED BY <2>1, <2>2, <2>3
<1> QED BY <1>1, <1>2, CustodyInit, CustodyStep, PTL DEF Spec

\* Whatever sign-ins, additions and checkouts run at the same time, a basket an
\* order is placed from is still active at the step that commits the order.
THEOREM SalesAreLive == Spec => SoldWhileActive
<1>1. CustodyInv /\ [Next]_vars =>
        [\A k \in Carts : k \in orders' \ orders => cart[k].status = "ACTIVE"]_vars
  <2> SUFFICES ASSUME CustodyInv, [Next]_vars, NEW k \in Carts, k \in orders' \ orders
               PROVE  cart[k].status = "ACTIVE"
    OBVIOUS
  <2>1. PICK c \in Calls : Convert(c)
    BY DEF Next, Proceed, Begin, LockCustomer, UseAsItIs, NothingToTake, RowsRunOut,
           TakeCart, InsertCart, ListOthers, AbandonOne, Bind, Abort, vars
  <2> QED BY <2>1 DEF Convert, CustodyInv, ConvertsActive
<1> QED BY <1>1, CustodyInit, CustodyStep, PTL DEF Spec, SoldWhileActive

-----------------------------------------------------------------------------
(* CartCustody implements BasketBook *)

\* The basket a request is about to bind is as it read it and not on its own list,
\* and nothing is listed for a guest.
KeptAreLive ==
    \A c \in Calls :
        /\ pc[c] = "listing" => job[c].customer # Nobody
        /\ pc[c] \in {"listing", "binding"} =>
              /\ cart[keep[c]].status \in {"NONE", "ACTIVE"}
              /\ keep[c] \notin doomed[c] \cup abandoned[c]
              /\ job[c].customer = Nobody =>
                    cart[keep[c]].status = "NONE" /\ doomed[c] \cup abandoned[c] = {}
        /\ pc[c] # "binding" => doomed[c] \cup abandoned[c] = {}

\* A basket that was a customer's is never a guest's again.
ListedAreCustomers ==
    \A c \in Calls : \A k \in doomed[c] \cup abandoned[c] : cart[k].owner \in Customers

SoldAreOver == \A k \in orders : cart[k].status \in {"CONVERTED", "ABANDONED"}

BasketsRight == CustodyInv /\ KeptAreLive /\ ListedAreCustomers /\ SoldAreOver

LEMMA BasketsRightAtFirst == Init => BasketsRight
<1> SUFFICES ASSUME Init
             PROVE  BasketsRight
  OBVIOUS
<1>1. KeptAreLive
  BY DEF Init, KeptAreLive
<1>2. ListedAreCustomers /\ SoldAreOver
  BY DEF Init, ListedAreCustomers, SoldAreOver
<1> QED BY <1>1, <1>2, CustodyInit DEF BasketsRight

\* Rows change only when a transaction ends: a basket is bound or it is sold.
LEMMA RowsChangeAtCommits ==
    ASSUME [Next]_vars
    PROVE  UNCHANGED <<cart, orders, bound>> \/ \E c \in Calls : Bind(c) \/ Convert(c)
BY DEF Next, Proceed, Begin, LockCustomer, UseAsItIs, NothingToTake, RowsRunOut, TakeCart,
       InsertCart, ListOthers, AbandonOne, Abort, vars

\* The rows a binding writes.
LEMMA BoundRows ==
    ASSUME BasketsRight, NEW c \in Calls, Bind(c), NEW k \in Carts
    PROVE  cart'[k] = IF k = keep[c] THEN [status |-> "ACTIVE", owner |-> job[c].customer]
                      ELSE IF k \in abandoned[c] THEN [cart[k] EXCEPT !.status = "ABANDONED"]
                      ELSE cart[k]
<1>1. cart[keep[c]].status \in {"NONE", "ACTIVE"}
  BY DEF Bind, BasketsRight, KeptAreLive
<1>2. cart'[k] = IF k = keep[c]
                 THEN [status |-> IF k \in Inserted THEN cart[k].status ELSE "ACTIVE",
                       owner  |-> job[c].customer]
                 ELSE IF k \in abandoned[c] THEN [cart[k] EXCEPT !.status = "ABANDONED"]
                 ELSE cart[k]
  BY DEF Bind
<1>3. k = keep[c] => (IF k \in Inserted THEN cart[k].status ELSE "ACTIVE") = "ACTIVE"
  BY <1>1 DEF Inserted
<1> QED BY <1>2, <1>3

\* A transaction that ends writes no row another one holds.
LEMMA HeldRowsStay ==
    ASSUME BasketsRight, NEW c \in Calls, Bind(c) \/ Convert(c),
           NEW d \in Calls, d # c, NEW k \in Carts, k = keep[d] \/ k \in abandoned[d]
    PROVE  cart'[k] = cart[k]
<1>1. cartLock[k] = d
  BY CustodyConstants DEF BasketsRight, CustodyInv, HoldsKept, HoldsAbandoned
<1>2. k # keep[c] /\ k \notin abandoned[c]
  BY <1>1 DEF BasketsRight, CustodyInv, HoldsKept, HoldsAbandoned, Bind, Convert
<1> QED BY <1>1, <1>2 DEF Bind, Convert, BasketsRight, CustodyInv, TypeOK

\* A customer's basket stays a customer's.
LEMMA OwnersStay ==
    ASSUME BasketsRight, [Next]_vars, NEW k \in Carts, cart[k].owner \in Customers
    PROVE  cart'[k].owner \in Customers
<1>1. cart[k] \in CartRows
  BY DEF BasketsRight, CustodyInv, TypeOK
<1>2. cart[k].status # "NONE"
  BY <1>1, CustodyConstants DEF CartRows
<1>3. ASSUME NEW c \in Calls, Bind(c)
      PROVE  cart'[k].owner \in Customers
  <2>1. k = keep[c] => job[c].customer \in Customers
    BY <1>2, <1>3, JobTypes DEF Bind, BasketsRight, CustodyInv, KeptAreLive
  <2>2. [cart[k] EXCEPT !.status = "ABANDONED"].owner = cart[k].owner
    BY <1>1 DEF CartRows
  <2>3. cart'[k] = IF k = keep[c] THEN [status |-> "ACTIVE", owner |-> job[c].customer]
                   ELSE IF k \in abandoned[c] THEN [cart[k] EXCEPT !.status = "ABANDONED"]
                   ELSE cart[k]
    BY <1>3, BoundRows
  <2> QED BY <2>1, <2>2, <2>3
<1>4. ASSUME NEW c \in Calls, Convert(c)
      PROVE  cart'[k].owner \in Customers
  <2>1. cart'[k] = IF k = keep[c] THEN [cart[k] EXCEPT !.status = "CONVERTED"] ELSE cart[k]
    BY <1>4 DEF Convert, BasketsRight, CustodyInv, TypeOK
  <2> QED BY <1>1, <2>1 DEF CartRows
<1> QED BY <1>3, <1>4, RowsChangeAtCommits

LEMMA ListedStayCustomers ==
    ASSUME BasketsRight, [Next]_vars
    PROVE  ListedAreCustomers'
<1>1. ASSUME NEW d \in Calls, NEW k \in doomed[d] \cup abandoned[d]
      PROVE  k \in Carts /\ cart'[k].owner \in Customers
  BY <1>1, OwnersStay DEF BasketsRight, CustodyInv, TypeOK, ListedAreCustomers
<1>2. ASSUME NEW d \in Calls, NEW k \in Carts, k \in doomed'[d] \cup abandoned'[d],
             k \notin doomed[d] \cup abandoned[d]
      PROVE  cart'[k].owner \in Customers
  <2>1. PICK c \in Calls : ListOthers(c)
    <3>1. ASSUME NEW c \in Calls, EndTransaction(c)
          PROVE  FALSE
      BY <1>2, <3>1 DEF EndTransaction, Finish, BasketsRight, CustodyInv, TypeOK
    <3>2. ASSUME NEW c \in Calls, AbandonOne(c)
          PROVE  FALSE
      BY <1>2, <3>2 DEF AbandonOne, BasketsRight, CustodyInv, TypeOK, ListedRowsExist
    <3>3. ASSUME UNCHANGED <<doomed, abandoned>>
          PROVE  FALSE
      BY <1>2, <3>3
    <3> QED
      BY <3>1, <3>2, <3>3
      DEF Next, Proceed, Begin, LockCustomer, UseAsItIs, NothingToTake, RowsRunOut, TakeCart,
          InsertCart, Bind, Convert, Abort, vars, work
  <2>2. d = c /\ k \in ActiveOf(job[c].customer)
    BY <1>2, <2>1 DEF ListOthers, BasketsRight, CustodyInv, TypeOK
  <2>3. job[c].customer \in Customers
    BY <2>1, JobTypes DEF ListOthers, BasketsRight, CustodyInv, KeptAreLive
  <2> QED BY <2>1, <2>2, <2>3 DEF ListOthers, ActiveOf
<1>3. \A d \in Calls : doomed'[d] \cup abandoned'[d] \subseteq Carts
  BY CustodyStep DEF BasketsRight, CustodyInv, TypeOK
<1> QED BY <1>1, <1>2, <1>3 DEF ListedAreCustomers

LEMMA SoldStayOver ==
    ASSUME BasketsRight, [Next]_vars
    PROVE  SoldAreOver'
<1>1. ASSUME NEW c \in Calls, Bind(c)
      PROVE  SoldAreOver'
  <2> SUFFICES ASSUME NEW k \in orders
               PROVE  cart'[k].status \in {"CONVERTED", "ABANDONED"}
    BY <1>1 DEF Bind, SoldAreOver
  <2>1. k \in Carts /\ cart[k] \in CartRows /\ cart[k].status \in {"CONVERTED", "ABANDONED"}
    BY DEF BasketsRight, CustodyInv, TypeOK, SoldAreOver
  <2>2. k # keep[c]
    BY <1>1, <2>1 DEF Bind, BasketsRight, KeptAreLive
  <2>3. [cart[k] EXCEPT !.status = "ABANDONED"].status = "ABANDONED"
    BY <2>1 DEF CartRows
  <2> QED BY <1>1, <2>1, <2>2, <2>3, BoundRows
<1>2. ASSUME NEW c \in Calls, Convert(c)
      PROVE  SoldAreOver'
  <2> SUFFICES ASSUME NEW k \in orders'
               PROVE  cart'[k].status \in {"CONVERTED", "ABANDONED"}
    BY DEF SoldAreOver
  <2>1. keep[c] \in Carts /\ orders' = orders \cup {keep[c]}
    BY <1>2 DEF Convert, BasketsRight, CustodyInv, TypeOK, HoldsKept
  <2>2. k \in Carts /\ cart[k] \in CartRows
    BY <2>1 DEF BasketsRight, CustodyInv, TypeOK
  <2>3. cart'[k] = IF k = keep[c] THEN [cart[k] EXCEPT !.status = "CONVERTED"] ELSE cart[k]
    BY <1>2, <2>2 DEF Convert, BasketsRight, CustodyInv, TypeOK
  <2>4. [cart[k] EXCEPT !.status = "CONVERTED"].status = "CONVERTED"
    BY <2>2 DEF CartRows
  <2> QED BY <2>1, <2>3, <2>4 DEF BasketsRight, SoldAreOver
<1>3. CASE UNCHANGED <<cart, orders, bound>>
  BY <1>3 DEF BasketsRight, SoldAreOver
<1> QED BY <1>1, <1>2, <1>3, RowsChangeAtCommits

LEMMA KeptStayLive ==
    ASSUME BasketsRight, [Next]_vars
    PROVE  KeptAreLive'
<1> DEFINE Live(d) ==
      /\ pc[d] = "listing" => job[d].customer # Nobody
      /\ pc[d] \in {"listing", "binding"} =>
            /\ cart[keep[d]].status \in {"NONE", "ACTIVE"}
            /\ keep[d] \notin doomed[d] \cup abandoned[d]
            /\ job[d].customer = Nobody =>
                  cart[keep[d]].status = "NONE" /\ doomed[d] \cup abandoned[d] = {}
      /\ pc[d] # "binding" => doomed[d] \cup abandoned[d] = {}
<1> USE DEF BasketsRight, CustodyInv, TypeOK
<1>1. \A d \in Calls : Live(d)
  BY DEF KeptAreLive
<1> SUFFICES ASSUME NEW d \in Calls
             PROVE  Live(d)'
  BY DEF KeptAreLive
<1>2. ASSUME UNCHANGED <<cart, pc, keep, doomed, abandoned, job>>
      PROVE  Live(d)'
  BY <1>1, <1>2
<1>3. ASSUME NEW c \in Calls, Begin(c) \/ LockCustomer(c)
      PROVE  Live(d)'
  BY <1>1, <1>3 DEF Begin, LockCustomer, work
<1>4. ASSUME NEW c \in Calls, TakeCart(c)
      PROVE  Live(d)'
  <2>1. CASE d = c
    <3>1. pc[c] = "cart" /\ cart[job[c].token].status = "ACTIVE" /\ job[c].token \in Carts
      BY <1>4, JobTypes DEF TakeCart, RowIsFree, Wanted, TokenIs
    <3>2. doomed'[c] \cup abandoned'[c] = {}
      BY <1>1, <1>4, <3>1 DEF TakeCart
    <3>3. pc'[c] = "listing" => job[c].customer # Nobody
      <4>1. job[c].kind = "signIn" => job[c].customer # Nobody
        BY CustodyConstants DEF Jobs
      <4> QED BY <1>4, <4>1, JobTypes DEF TakeCart, Wanted
    <3>4. /\ pc'[c] \in {"listing", "converting"} /\ keep'[c] = job[c].token
          /\ UNCHANGED <<cart, job>>
      BY <1>4 DEF TakeCart
    <3> QED BY <2>1, <3>1, <3>2, <3>3, <3>4
  <2>2. CASE d # c
    BY <1>1, <1>4, <2>2 DEF TakeCart
  <2> QED BY <2>1, <2>2
<1>5. ASSUME NEW c \in Calls, NEW k \in Carts, InsertCart(c, k)
      PROVE  Live(d)'
  BY <1>1, <1>5 DEF InsertCart, RowIsFree, Unused
<1>6. ASSUME NEW c \in Calls, ListOthers(c)
      PROVE  Live(d)'
  BY <1>1, <1>6 DEF ListOthers, ActiveOf
<1>7. ASSUME NEW c \in Calls, AbandonOne(c)
      PROVE  Live(d)'
  BY <1>1, <1>7 DEF AbandonOne, ListedRowsExist
<1>8. ASSUME NEW c \in Calls, EndTransaction(c), UNCHANGED cart \/ Bind(c) \/ Convert(c)
      PROVE  Live(d)'
  <2>1. CASE d = c
    BY <1>8, <2>1 DEF EndTransaction, Finish
  <2>2. CASE d # c
    <3>1. UNCHANGED <<pc[d], keep[d], doomed[d], abandoned[d], job[d]>>
      BY <1>8, <2>2 DEF EndTransaction, Finish
    <3>2. pc[d] \in {"listing", "binding"} => keep[d] \in Carts /\ cart'[keep[d]] = cart[keep[d]]
      BY <1>8, <2>2, HeldRowsStay DEF HoldsKept
    <3> QED BY <1>1, <3>1, <3>2
  <2> QED BY <2>1, <2>2
<1> QED
  BY <1>2, <1>3, <1>4, <1>5, <1>6, <1>7, <1>8
  DEF Next, Proceed, UseAsItIs, NothingToTake, RowsRunOut, Bind, Convert, Abort, vars

LEMMA BasketsStayRight == BasketsRight /\ [Next]_vars => BasketsRight'
BY CustodyStep, KeptStayLive, ListedStayCustomers, SoldStayOver DEF BasketsRight

\* A customer's binding gives up all the others at once.
LEMMA BindBinds ==
    ASSUME BasketsRight, NEW c \in Calls, Bind(c), job[c].customer # Nobody
    PROVE  Book!Bind(job[c].customer, keep[c], abandoned[c])
<1> DEFINE a == job[c].customer
<1>1. /\ a \in Customers /\ keep[c] \in Carts /\ abandoned[c] \subseteq Carts
      /\ pc[c] = "binding" /\ doomed[c] = {}
  BY JobTypes DEF Bind, BasketsRight, CustodyInv, TypeOK, HoldsKept, ListedRowsExist
<1>2. cart[keep[c]].status \in {"NONE", "ACTIVE"} /\ keep[c] \notin abandoned[c]
  BY <1>1 DEF BasketsRight, KeptAreLive
<1>3. Book!ActiveOf(a) \ {keep[c]} \subseteq abandoned[c]
  BY <1>1 DEF BasketsRight, CustodyInv, ListIsComplete, ActiveOf, Book!ActiveOf
<1>4. abandoned[c] \subseteq Book!OfCustomers \ {keep[c]}
  BY <1>1, <1>2 DEF BasketsRight, ListedAreCustomers, Book!OfCustomers
<1>5. cart' = [l \in Carts |->
                 IF l = keep[c] THEN [status |-> "ACTIVE", owner |-> a]
                 ELSE IF l \in abandoned[c] THEN [cart[l] EXCEPT !.status = "ABANDONED"]
                 ELSE cart[l]]
  <2>1. cart' = [l \in Carts |-> cart'[l]]
    BY DEF Bind
  <2> QED BY <2>1, BoundRows
<1>6. bound' = bound \cup {a} /\ UNCHANGED orders
  BY DEF Bind
<1> QED BY <1>2, <1>3, <1>4, <1>5, <1>6 DEF Book!Bind

\* A guest's is a basket of its own.
LEMMA BindOpens ==
    ASSUME BasketsRight, NEW c \in Calls, Bind(c), job[c].customer = Nobody
    PROVE  Book!Open(keep[c])
<1>1. /\ keep[c] \in Carts /\ cart[keep[c]].status = "NONE" /\ abandoned[c] = {}
  BY DEF Bind, BasketsRight, CustodyInv, TypeOK, HoldsKept, KeptAreLive
<1>2. cart' = [cart EXCEPT ![keep[c]] = [status |-> "ACTIVE", owner |-> Nobody]]
  <2>1. cart' = [l \in Carts |-> cart'[l]] /\ cart = [l \in Carts |-> cart[l]]
    BY DEF Bind, BasketsRight, CustodyInv, TypeOK
  <2>2. \A l \in Carts :
           cart'[l] = IF l = keep[c] THEN [status |-> "ACTIVE", owner |-> Nobody] ELSE cart[l]
    BY <1>1, BoundRows
  <2> QED BY <2>1, <2>2
<1>3. UNCHANGED <<orders, bound>>
  BY DEF Bind
<1> QED BY <1>1, <1>2, <1>3 DEF Book!Open

LEMMA ConvertSells ==
    ASSUME BasketsRight, NEW c \in Calls, Convert(c)
    PROVE  keep[c] \in Carts /\ Book!Sell(keep[c])
<1>1. keep[c] \in Carts /\ cart[keep[c]].status = "ACTIVE"
  BY DEF Convert, BasketsRight, CustodyInv, TypeOK, HoldsKept, ConvertsActive
<1>2. keep[c] \notin orders
  BY <1>1 DEF BasketsRight, SoldAreOver
<1> QED BY <1>1, <1>2 DEF Convert, Book!Sell

\* Every step is one of the book or shows nothing of itself in it.
LEMMA RequestsServeTheBook ==
    ASSUME BasketsRight, [Next]_vars
    PROVE  [Book!Next]_Book!bookVars
<1>1. ASSUME NEW c \in Calls, Bind(c)
      PROVE  Book!Next
  <2>1. /\ keep[c] \in Carts /\ abandoned[c] \in SUBSET Carts
        /\ job[c].customer \in Customers \cup {Nobody}
    BY <1>1, JobTypes DEF Bind, BasketsRight, CustodyInv, TypeOK, HoldsKept
  <2> QED BY <1>1, <2>1, BindBinds, BindOpens DEF Book!Next
<1>2. ASSUME NEW c \in Calls, Convert(c)
      PROVE  Book!Next
  BY <1>2, ConvertSells DEF Book!Next
<1> QED BY <1>1, <1>2, RowsChangeAtCommits DEF Book!bookVars

\* Whose basket is whose changes in whole steps: every interleaving of sign-ins,
\* additions and checkouts is a history of BasketBook, in which a customer's baskets
\* are settled at once and an active basket is sold, once (cart/service.ts adoptCart,
\* ensureCart, markConverted).
THEOREM CustodyImplementsTheBook == Spec => BasketsAreAtomic
<1>1. Init => Book!Init
  BY DEF Init, Book!Init
<1> QED
  BY <1>1, BasketsRightAtFirst, BasketsStayRight, RequestsServeTheBook, PTL
  DEF Spec, BasketsAreAtomic, Book!Spec
=============================================================================
