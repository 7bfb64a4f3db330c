--------------------------- MODULE PlacementProofs ---------------------------
(***************************************************************************)
(* Proofs about Placement for every number of shops, slots, products,      *)
(* baskets and calls, and every bound.                                     *)
(***************************************************************************)
EXTENDS Placement, FiniteSetTheorems, NaturalsInduction, TLAPS

-----------------------------------------------------------------------------
(* Types *)

\* A call that may still try a busy window has a try left.
TriesLeft ==
    \A r \in Requests : pc[r] \in {"idle", "serviceable", "trying"} => tries[r] < SlotLockAttempts

\* Every edge of the table leaves a state an order can be in, and never the
\* cancelled one; it enters a state of the enumeration.
LEMMA RuleTypes ==
    ASSUME NEW rule \in Transitions
    PROVE  /\ rule.from \in Statuses \ {"CANCELLED_BY_STORE"}
           /\ rule.to \in Statuses
BY DEF Transitions, Rule, Statuses, CancellableFrom, TerminalStates

\* What a call moves is a whole number of units.
LEMMA DeltaType ==
    ASSUME TypeOK, NEW c \in Calls, NEW p \in Products
    PROVE  Delta(c, p) \in Int /\ ItemOf(c, p) \in Items
<1>1. CASE c \in Requests
  BY <1>1 DEF TypeOK, Delta, ItemOf, StoreOf, Items, Forms, Baskets
<1>2. CASE c \in Corrections \ Requests
  BY <1>2 DEF TypeOK, Delta, ItemOf, StoreOf, Target, Tickets, Orders, Items, Forms, Baskets
<1> QED BY <1>1, <1>2 DEF Calls

\* Giving every lock back leaves well-typed locks.
LEMMA ReleaseTypes ==
    ASSUME TypeOK, NEW c \in Calls, ReleaseAll(c)
    PROVE  /\ windowLock' \in [Windows -> Requests \cup {Free}]
           /\ cartLock' \in [Carts -> Requests \cup {Free}]
           /\ orderLock' \in [Requests -> Corrections \cup {Free}]
           /\ itemLock' \in [Items -> Calls \cup {Free}]
           /\ moved' \in [Calls -> SUBSET Products]
BY DEF TypeOK, ReleaseAll

\* What a commit publishes is well typed.
LEMMA PublishTypes ==
    ASSUME TypeOK, NEW c \in Calls, NEW reason \in Reasons,
           NEW ref \in Carts \cup Requests \cup {Free},
           PublishMovements(c, reason, ref)
    PROVE  stock' \in [Items -> Nat] /\ ledger' \in [Items -> Seq(Entries)]
<1> DEFINE mine(i)  == i[1] = StoreOf(c) /\ i[2] \in moved[c]
           entry(i) == [delta |-> Delta(c, i[2]), balanceAfter |-> staged[c][i[2]],
                        reason |-> reason, ref |-> ref]
<1>1. /\ stock' = [i \in Items |-> IF mine(i) THEN staged[c][i[2]] ELSE stock[i]]
      /\ ledger' = [i \in Items |-> IF mine(i) THEN Append(ledger[i], entry(i)) ELSE ledger[i]]
  BY DEF PublishMovements
<1>2. ASSUME NEW i \in Items
      PROVE  i[2] \in Products /\ staged[c][i[2]] \in Nat
  BY DEF Items, TypeOK
<1>3. stock' \in [Items -> Nat]
  <2> HIDE DEF mine
  <2> QED BY <1>1, <1>2 DEF TypeOK
<1>4. ASSUME NEW i \in Items
      PROVE  entry(i) \in Entries
  BY <1>2, DeltaType DEF Entries
<1>5. ledger' \in [Items -> Seq(Entries)]
  <2> HIDE DEF mine, entry
  <2>1. ASSUME NEW i \in Items
        PROVE  Append(ledger[i], entry(i)) \in Seq(Entries)
    BY <1>4, ledger[i] \in Seq(Entries) DEF TypeOK
  <2> QED BY <1>1, <2>1 DEF TypeOK
<1> QED BY <1>3, <1>5

\* Which variables a rollback leaves alone, and what it leaves well typed.
LEMMA RollbackTypes ==
    ASSUME TypeOK, NEW c \in Calls, NEW answer \in Answered \cup {"trying"},
           Rollback(c, answer), tries' \in [Requests -> 0 .. SlotLockAttempts]
    PROVE  TypeOK'
<1>1. /\ windowLock' \in [Windows -> Requests \cup {Free}]
      /\ cartLock' \in [Carts -> Requests \cup {Free}]
      /\ orderLock' \in [Requests -> Corrections \cup {Free}]
      /\ itemLock' \in [Items -> Calls \cup {Free}]
      /\ moved' \in [Calls -> SUBSET Products]
  BY ReleaseTypes DEF Rollback
<1> QED BY <1>1 DEF TypeOK, Rollback, rows, inputs, bounds

LEMMA MovementTypes ==
    ASSUME TypeOK, NEW c \in Calls, NEW p \in Products, ApplyMovement(c, p)
    PROVE  TypeOK'
<1>1. ItemOf(c, p) \in Items /\ Delta(c, p) \in Int
  BY DeltaType
<1>2. stock[ItemOf(c, p)] + Delta(c, p) \in Nat
  BY <1>1 DEF TypeOK, ApplyMovement
<1>3. staged' \in [Calls -> [Products -> Nat]] /\ moved' \in [Calls -> SUBSET Products]
  <2> HIDE DEF Products
  <2> QED BY <1>2 DEF TypeOK, ApplyMovement
<1>4. itemLock' \in [Items -> Calls \cup {Free}]
  BY <1>1 DEF TypeOK, ApplyMovement
<1> QED BY <1>3, <1>4 DEF TypeOK, ApplyMovement, rows, inputs, bounds

LEMMA TypeInit == Init => TypeOK /\ TriesLeft
<1>1. ASSUME Init
      PROVE  Nothing \in Baskets /\ NoOrder \in Orders
  BY ConstantsOK DEF Nothing, NoOrder, Baskets, Orders
<1>2. ASSUME Init
      PROVE  TypeOK
  <2>1. ledger \in [Items -> Seq(Entries)]
    BY <1>2 DEF Init
  <2>2. /\ view \in [Requests -> Baskets]
        /\ order \in [Requests -> Orders]
        /\ staged \in [Calls -> [Products -> Nat]]
    BY <1>1, <1>2 DEF Init, Nothing
  <2>3. cart \in [Carts -> CartRows]
    BY <1>2 DEF Init, CartRows
  <2>4. settings \in [Stores -> [accepting : BOOLEAN, slotCapacity : 1 .. MaxCapacity]]
    BY <1>2 DEF Init
  <2> QED BY <1>2, <2>1, <2>2, <2>3, <2>4, ConstantsOK DEF Init, TypeOK, Calls
<1>3. ASSUME Init
      PROVE  TriesLeft
  BY <1>3, ConstantsOK DEF Init, TriesLeft, Calls
<1> QED BY <1>2, <1>3

LEMMA TypeStep == TypeOK /\ TriesLeft /\ [Next]_vars => TypeOK'
<1> SUFFICES ASSUME TypeOK, TriesLeft, [Next]_vars
             PROVE  TypeOK'
  OBVIOUS
<1> USE DEF Calls
<1>1. ASSUME NEW r \in Requests, Resolve(r) \/ PlacementStep(r)
      PROVE  TypeOK'
  <2>1. CASE Resolve(r)
    BY <2>1 DEF Resolve, TypeOK, Answered, rows, locks, inputs, bounds
  <2>2. CASE ReadGrid(r)
    <3>1. settings[form[r].store].slotCapacity \in 0 .. MaxCapacity
      BY ConstantsOK DEF TypeOK, Forms
    <3> QED BY <2>2, <3>1 DEF ReadGrid, TypeOK, Answered, rows, locks, inputs, bounds
  <2>3. CASE TakeWindow(r)
    BY <2>3 DEF TakeWindow, TypeOK, InTransaction, rows, inputs, bounds
  <2>4. CASE WindowBusy(r)
    <3>1. tries' \in [Requests -> 0 .. SlotLockAttempts]
      BY <2>4, ConstantsOK DEF WindowBusy, TypeOK, TriesLeft
    <3> QED BY <2>4, <3>1, RollbackTypes DEF WindowBusy, Answered
  <2>5. CASE CountWindow(r)
    BY <2>5 DEF CountWindow, TypeOK, InTransaction, rows, locks, inputs, bounds
  <2>6. CASE WindowFull(r) \/ RefuseCart(r) \/ RefuseBasket(r) \/ RunShort(r)
    <3>1. Rollback(r, "rejected") /\ UNCHANGED tries
      BY <2>6 DEF WindowFull, RefuseCart, RefuseBasket, RunShort
    <3> QED BY <3>1, RollbackTypes DEF TypeOK, Answered
  <2>7. CASE LockCart(r)
    BY <2>7 DEF LockCart, TypeOK, InTransaction, rows, inputs, bounds
  <2>8. CASE Revalidate(r)
    <3>1. cart[form[r].cart].lines \in Baskets
      BY DEF TypeOK, Forms, CartRows
    <3> QED BY <2>8, <3>1 DEF Revalidate, TypeOK, InTransaction, rows, locks, inputs, bounds
  <2>9. CASE TakeStock(r)
    BY <2>9, MovementTypes DEF TakeStock
  <2>10. CASE CommitOrder(r)
    <3>1. stock' \in [Items -> Nat] /\ ledger' \in [Items -> Seq(Entries)]
      BY <2>10, PublishTypes DEF CommitOrder, Reasons, TypeOK, Forms
    <3>2. order' \in [Requests -> Orders]
      <4>1. Nothing \in Baskets
        BY ConstantsOK DEF Nothing, Baskets
      <4> QED BY <2>10, <4>1 DEF CommitOrder, TypeOK, Orders, Statuses, CancellableFrom
    <3>3. cart' \in [Carts -> CartRows]
      <4> DEFINE row == cart[form[r].cart]
      <4>1. form[r].cart \in Carts /\ row \in CartRows
        BY DEF TypeOK, Forms
      <4>2. [row EXCEPT !.status = "CONVERTED"] \in CartRows
        BY <4>1 DEF CartRows
      <4>3. cart' = [cart EXCEPT ![form[r].cart] = [row EXCEPT !.status = "CONVERTED"]]
        BY <2>10 DEF CommitOrder
      <4> QED BY <4>1, <4>2, <4>3 DEF TypeOK
    <3>4. ReleaseAll(r)
      BY <2>10 DEF CommitOrder
    <3> QED
      BY <2>10, <3>1, <3>2, <3>3, <3>4, ReleaseTypes DEF CommitOrder, TypeOK, inputs, bounds
  <2> QED BY <1>1, <2>1, <2>2, <2>3, <2>4, <2>5, <2>6, <2>7, <2>8, <2>9, <2>10
          DEF PlacementStep
<1>2. ASSUME NEW k \in Corrections, CorrectionStep(k)
      PROVE  TypeOK'
  <2>1. CASE LockOrder(k)
    BY <2>1 DEF LockOrder, TypeOK, Target, Tickets, InTransaction, rows, inputs, bounds
  <2>2. CASE RefuseCorrection(k)
    BY <2>2, RollbackTypes DEF RefuseCorrection, TypeOK, Answered
  <2>3. CASE RestoreLine(k)
    BY <2>3, MovementTypes DEF RestoreLine
  <2>4. CASE CommitCorrection(k)
    <3>1. stock' \in [Items -> Nat] /\ ledger' \in [Items -> Seq(Entries)]
      BY <2>4, PublishTypes DEF CommitCorrection, Reasons, TypeOK, Target, Tickets
    <3>2. order' \in [Requests -> Orders]
      <4> DEFINE o   == Target(k)
                 row == order[o]
                 new == [row EXCEPT !.status = "CANCELLED_BY_STORE", !.restored = row.qty]
      <4>1. o \in Requests /\ row \in Orders
        BY DEF TypeOK, Target, Tickets
      <4>2. new \in Orders
        BY <4>1 DEF Orders, Statuses, TerminalStates
      <4>3. order' = [order EXCEPT ![o] = new]
        BY <2>4 DEF CommitCorrection
      <4> QED BY <4>1, <4>2, <4>3 DEF TypeOK
    <3>3. ReleaseAll(k)
      BY <2>4 DEF CommitCorrection
    <3> QED
      BY <2>4, <3>1, <3>2, <3>3, ReleaseTypes DEF CommitCorrection, TypeOK, inputs, bounds
  <2> QED BY <1>2, <2>1, <2>2, <2>3, <2>4 DEF CorrectionStep
<1>3. ASSUME NEW c \in Calls, Announce(c)
      PROVE  TypeOK'
  BY <1>3 DEF Announce, TypeOK, Answered, rows, locks, inputs, bounds
<1>4. ASSUME NEW c \in Calls, Abort(c)
      PROVE  TypeOK'
  BY <1>4, RollbackTypes DEF Abort, TypeOK, Answered
<1>5. CASE OtherPeople
  <2>1. moves' \in 0 .. MaxMoves
    BY <1>5, ConstantsOK DEF OtherPeople, TypeOK
  <2>2. ASSUME NEW i \in Items, NEW balance \in Nat, NEW reason \in Reasons,
               RecordMovement(i, balance, reason)
        PROVE  stock' \in [Items -> Nat] /\ ledger' \in [Items -> Seq(Entries)]
    <3> DEFINE entry == [delta |-> balance - stock[i], balanceAfter |-> balance,
                         reason |-> reason, ref |-> Free]
    <3>1. entry \in Entries
      BY DEF TypeOK, Entries
    <3>2. Append(ledger[i], entry) \in Seq(Entries)
      BY <3>1, ledger[i] \in Seq(Entries) DEF TypeOK
    <3> QED BY <2>2, <3>2 DEF RecordMovement, TypeOK
  <2>3. ASSUME NEW i \in Items, Adjust(i) \/ Reconcile(i)
        PROVE  /\ stock' \in [Items -> Nat] /\ ledger' \in [Items -> Seq(Entries)]
               /\ UNCHANGED <<cart, order, listed, settings>>
    <3>1. PICK balance \in Nat, reason \in Reasons : RecordMovement(i, balance, reason)
      BY <2>3, ConstantsOK DEF Adjust, Reconcile, TypeOK, Reasons
    <3> QED BY <3>1, <2>2 DEF RecordMovement
  <2>4. ASSUME NEW o \in Requests, Advance(o)
        PROVE  order' \in [Requests -> Orders]
    <3>1. PICK rule \in Transitions :
             order' = [order EXCEPT ![o] = [order[o] EXCEPT !.status = rule.to]]
      BY <2>4 DEF Advance
    <3>2. order[o] \in Orders
      BY DEF TypeOK
    <3>3. [order[o] EXCEPT !.status = rule.to] \in Orders
      BY <3>2, RuleTypes DEF Orders
    <3> QED BY <3>1, <3>3 DEF TypeOK
  <2>5. ASSUME NEW b \in Carts, EditCart(b) \/ RebuildCart(b)
        PROVE  cart' \in [Carts -> CartRows]
    <3>1. cart[b] \in CartRows
      BY DEF TypeOK
    <3>2. ASSUME NEW s \in Stores, NEW lines \in Baskets
          PROVE  [cart[b] EXCEPT !.store = s, !.lines = lines] \in CartRows
      BY <3>1 DEF CartRows
    <3>3. PICK s \in Stores, lines \in Baskets :
             cart' = [cart EXCEPT ![b] = [cart[b] EXCEPT !.store = s, !.lines = lines]]
      <4>1. cart[b].store \in Stores /\ cart[b].lines \in Baskets
            /\ cart[b] = [status |-> cart[b].status, store |-> cart[b].store,
                          lines |-> cart[b].lines]
        BY <3>1 DEF CartRows
      <4>2. CASE EditCart(b)
        <5>1. PICK p \in Products, n \in 0 .. MaxQty :
                 cart' = [cart EXCEPT ![b] = [cart[b] EXCEPT !.lines =
                     [q \in Products |-> IF ~listed[<<cart[b].store, q>>] THEN 0
                                         ELSE IF q = p THEN n ELSE cart[b].lines[q]]]]
          BY <4>2 DEF EditCart
        <5>2. [q \in Products |-> IF ~listed[<<cart[b].store, q>>] THEN 0
                                  ELSE IF q = p THEN n ELSE cart[b].lines[q]] \in Baskets
          BY <4>1, ConstantsOK DEF Baskets
        <5>3. [cart[b] EXCEPT !.store = cart[b].store] = cart[b]
          BY <4>1
        <5> QED BY <5>1, <5>2, <5>3, <4>1
      <4>3. CASE RebuildCart(b)
        <5>1. PICK s \in Stores :
                 cart' = [cart EXCEPT ![b] = [cart[b] EXCEPT !.store = s, !.lines =
                     [q \in Products |-> IF listed[<<s, q>>] /\ stock[<<s, q>>] > 0
                                         THEN cart[b].lines[q] ELSE 0]]]
          BY <4>3 DEF RebuildCart
        <5>2. [q \in Products |-> IF listed[<<s, q>>] /\ stock[<<s, q>>] > 0
                                  THEN cart[b].lines[q] ELSE 0] \in Baskets
          BY <4>1, ConstantsOK DEF Baskets
        <5> QED BY <5>1, <5>2
      <4> QED BY <2>5, <4>2, <4>3
    <3> QED BY <3>2, <3>3 DEF TypeOK
  <2>6. ASSUME NEW i \in Items, SetListed(i)
        PROVE  listed' \in [Items -> BOOLEAN]
    BY <2>6 DEF SetListed, TypeOK
  <2>7. ASSUME NEW s \in Stores, UpdateSettings(s)
        PROVE  settings' \in [Stores -> [accepting : BOOLEAN, slotCapacity : 1 .. MaxCapacity]]
    BY <2>7 DEF UpdateSettings, TypeOK
  <2> QED
    BY <1>5, <2>1, <2>3, <2>4, <2>5, <2>6, <2>7
       DEF OtherPeople, Advance, EditCart, RebuildCart, SetListed, UpdateSettings, TypeOK,
           locks, inputs
<1>6. CASE Crash
  BY <1>6, ConstantsOK DEF Crash, TypeOK, Answered, rows, inputs
<1>7. CASE UNCHANGED vars
  BY <1>7 DEF TypeOK, vars, rows, locks, inputs, bounds
<1> QED BY <1>1, <1>2, <1>3, <1>4, <1>5, <1>6, <1>7 DEF Next

LEMMA TriesStep == TypeOK /\ TriesLeft /\ [Next]_vars => TriesLeft'
<1> SUFFICES ASSUME TypeOK, TriesLeft, [Next]_vars,
                    NEW q \in Requests, pc'[q] \in {"idle", "serviceable", "trying"}
             PROVE  tries'[q] < SlotLockAttempts
  BY DEF TriesLeft
<1> USE DEF Calls
<1>1. ASSUME NEW r \in Requests, Resolve(r) \/ PlacementStep(r)
      PROVE  tries'[q] < SlotLockAttempts
  <2>1. CASE WindowBusy(r)
    BY <2>1, ConstantsOK, NamesOK DEF WindowBusy, Rollback, TypeOK, TriesLeft
  <2>2. CASE ~WindowBusy(r)
    BY <1>1, <2>2 DEF PlacementStep, Resolve, ReadGrid, TakeWindow, CountWindow, WindowFull,
       LockCart, RefuseCart, Revalidate, RefuseBasket, TakeStock, RunShort, CommitOrder,
       ApplyMovement, Rollback, TypeOK, TriesLeft
  <2> QED BY <2>1, <2>2
<1>2. ASSUME NEW k \in Corrections, CorrectionStep(k)
      PROVE  tries'[q] < SlotLockAttempts
  BY <1>2, NamesOK DEF CorrectionStep, LockOrder, RefuseCorrection, RestoreLine,
     CommitCorrection, ApplyMovement, Rollback, TypeOK, TriesLeft
<1>3. ASSUME NEW c \in Calls, Announce(c) \/ Abort(c)
      PROVE  tries'[q] < SlotLockAttempts
  BY <1>3, NamesOK DEF Announce, Abort, Rollback, TypeOK, TriesLeft
<1>4. CASE OtherPeople \/ Crash \/ UNCHANGED vars
  BY <1>4 DEF OtherPeople, Crash, vars, TypeOK, TriesLeft
<1> QED BY <1>1, <1>2, <1>3, <1>4 DEF Next

\* Every state is well typed, and a placement that is told to come back to a
\* busy window always has an attempt left (TypeOK; the retry loop of placeOrder).
THEOREM TypeCorrect == Spec => [](TypeOK /\ TriesLeft)
BY TypeInit, TypeStep, TriesStep, PTL DEF Spec

-----------------------------------------------------------------------------
(* Delivery windows *)

HoldsWindow == {"counting", "locking-cart", "revalidating", "moving"}
Admitted    == HoldsWindow \ {"counting"}

\* From the count to the end of its transaction a placement holds its window.
WindowHeld ==
    \A r \in Requests : pc[r] \in HoldsWindow => windowLock[WindowOf(r)] = r

\* What the count found stays true until then.
RoomKept ==
    \A r \in Requests :
        pc[r] \in Admitted => Cardinality(LiveIn(WindowOf(r))) < quota[r]

SlotInv == WindowHeld /\ RoomKept /\ SlotNeverOverbooked

LEMMA LiveFinite ==
    ASSUME NEW w
    PROVE  IsFiniteSet(LiveIn(w)) /\ Cardinality(LiveIn(w)) \in Nat
<1>1. LiveIn(w) \subseteq Requests
  BY DEF LiveIn
<1> QED BY <1>1, ConstantsOK, FS_Subset, FS_CardinalityType

\* Holding a place in a window, of one order.
Live(status) == status \notin {"NONE", "CANCELLED_BY_STORE"}

\* A step that starts no order's claim on a window leaves no window fuller.
LEMMA LiveShrinks ==
    ASSUME UNCHANGED form, NEW w,
           \A o \in Requests : Live(order'[o].status) => Live(order[o].status)
    PROVE  Cardinality(LiveIn(w)') <= Cardinality(LiveIn(w))
<1>1. LiveIn(w)' \subseteq LiveIn(w)
  BY DEF LiveIn, Live, WindowOf
<1> QED BY <1>1, LiveFinite, FS_Subset

\* The only step that gives a window an order is a commit, and it gives one.
LEMMA LiveGrows ==
    ASSUME TypeOK, NEW r \in Requests, CommitOrder(r), NEW w
    PROVE  /\ w # WindowOf(r) => LiveIn(w)' = LiveIn(w)
           /\ Cardinality(LiveIn(w)') <= Cardinality(LiveIn(w)) + 1
<1>1. /\ form' = form
      /\ \A o \in Requests \ {r} : order'[o] = order[o]
  BY DEF CommitOrder, TypeOK, inputs
<1>2. LiveIn(w)' \subseteq LiveIn(w) \cup {r}
  BY <1>1 DEF LiveIn, WindowOf
<1>3. w # WindowOf(r) => LiveIn(w)' = LiveIn(w)
  BY <1>1 DEF LiveIn, WindowOf
<1>4. /\ IsFiniteSet(LiveIn(w) \cup {r})
      /\ Cardinality(LiveIn(w) \cup {r}) <= Cardinality(LiveIn(w)) + 1
      /\ Cardinality(LiveIn(w) \cup {r}) \in Nat
  <2>1. IsFiniteSet(LiveIn(w)) /\ Cardinality(LiveIn(w)) \in Nat
    BY LiveFinite
  <2>2. /\ IsFiniteSet(LiveIn(w) \cup {r})
        /\ \/ Cardinality(LiveIn(w) \cup {r}) = Cardinality(LiveIn(w))
           \/ Cardinality(LiveIn(w) \cup {r}) = Cardinality(LiveIn(w)) + 1
    BY <2>1, FS_AddElement
  <2> QED BY <2>1, <2>2
<1>5. Cardinality(LiveIn(w)') <= Cardinality(LiveIn(w) \cup {r})
  BY <1>2, <1>4, FS_Subset
<1>6. Cardinality(LiveIn(w)') \in Nat
  BY <1>2, <1>4, FS_Subset, FS_CardinalityType
<1> QED BY <1>3, <1>4, <1>5, <1>6, LiveFinite

LEMMA SlotInit == Init => SlotInv
<1> SUFFICES ASSUME Init
             PROVE  SlotInv
  OBVIOUS
<1>1. WindowHeld /\ RoomKept
  BY DEF Init, WindowHeld, RoomKept, HoldsWindow, Admitted, Calls
<1>2. ASSUME NEW w
      PROVE  LiveIn(w) = {}
  BY DEF Init, LiveIn, NoOrder
<1>3. SlotNeverOverbooked
  BY <1>2, FS_EmptySet, ConstantsOK DEF SlotNeverOverbooked
<1> QED BY <1>1, <1>3 DEF SlotInv

\* Steps that take no window and start no order's claim keep SlotInv, if the
\* calls that still count on their window still hold it.
LEMMA SlotFrame ==
    ASSUME TypeOK, SlotInv, UNCHANGED form,
           \A o \in Requests : Live(order'[o].status) => Live(order[o].status),
           \A r \in Requests : pc'[r] \in HoldsWindow =>
               windowLock'[WindowOf(r)] = r,
           \A r \in Requests : pc'[r] \in Admitted =>
               pc[r] \in Admitted /\ quota'[r] = quota[r]
    PROVE  SlotInv'
<1>1. WindowHeld'
  BY DEF WindowHeld, WindowOf
<1>2. \A w : /\ Cardinality(LiveIn(w)') <= Cardinality(LiveIn(w))
            /\ Cardinality(LiveIn(w)) \in Nat
            /\ Cardinality(LiveIn(w)') \in Nat
  <2> SUFFICES ASSUME NEW w
               PROVE  /\ Cardinality(LiveIn(w)') <= Cardinality(LiveIn(w))
                      /\ Cardinality(LiveIn(w)) \in Nat
                      /\ Cardinality(LiveIn(w)') \in Nat
    OBVIOUS
  <2>1. LiveIn(w)' \subseteq Requests
    BY DEF LiveIn
  <2> QED BY <2>1, LiveShrinks, LiveFinite, ConstantsOK, FS_Subset, FS_CardinalityType
<1>3. RoomKept'
  <2> SUFFICES ASSUME NEW r \in Requests, pc'[r] \in Admitted
               PROVE  Cardinality(LiveIn(WindowOf(r))') < quota'[r]
    BY DEF RoomKept, WindowOf
  <2>1. Cardinality(LiveIn(WindowOf(r))) < quota[r] /\ quota'[r] = quota[r]
    BY DEF SlotInv, RoomKept
  <2>2. quota[r] \in Int
    BY ConstantsOK DEF TypeOK
  <2>3. WindowOf(r)' = WindowOf(r)
    BY DEF WindowOf
  <2> QED BY <1>2, <2>1, <2>2, <2>3
<1>4. SlotNeverOverbooked'
  BY <1>2, ConstantsOK DEF SlotInv, SlotNeverOverbooked
<1> QED BY <1>1, <1>3, <1>4 DEF SlotInv

LEMMA WindowType ==
    ASSUME TypeOK, NEW r \in Requests
    PROVE  WindowOf(r) \in Windows
BY DEF TypeOK, WindowOf, Windows, Forms

\* A transaction that ends takes nobody else's window away.
LEMMA OthersKeepWindow ==
    ASSUME TypeOK, SlotInv, NEW c \in Calls, ReleaseAll(c),
           NEW r \in Requests, r # c, pc[r] \in HoldsWindow
    PROVE  windowLock'[WindowOf(r)] = r
BY WindowType DEF SlotInv, WindowHeld, ReleaseAll

LEMMA SlotRollback ==
    ASSUME TypeOK, SlotInv, NEW c \in Calls,
           NEW answer \in Answered \cup {"trying"}, Rollback(c, answer)
    PROVE  SlotInv'
<1>1. answer \notin HoldsWindow
  BY DEF Answered, HoldsWindow
<1>2. /\ UNCHANGED <<form, order, quota>>
      /\ \A d \in Calls : pc'[d] = IF d = c THEN answer ELSE pc[d]
  BY DEF Rollback, TypeOK, rows, inputs
<1>3. \A r \in Requests : pc'[r] \in HoldsWindow => windowLock'[WindowOf(r)] = r
  BY <1>1, <1>2, OthersKeepWindow DEF Rollback, Calls
<1> QED BY <1>1, <1>2, <1>3, SlotFrame DEF Calls, Admitted

\* A commit puts one order in its window, where the count left room for it;
\* nobody else can be counting there, for the committing call holds the window.
LEMMA SlotCommit ==
    ASSUME TypeOK, SlotInv, NEW r \in Requests, CommitOrder(r)
    PROVE  SlotInv'
<1>1. /\ pc[r] = "moving" /\ ReleaseAll(r)
      /\ UNCHANGED <<form, quota>>
      /\ \A d \in Calls : pc'[d] = IF d = r THEN "committed" ELSE pc[d]
  BY DEF CommitOrder, TypeOK, inputs
<1>2. WindowHeld'
  BY <1>1, OthersKeepWindow DEF WindowHeld, HoldsWindow, WindowOf, Calls
<1>3. \A w : /\ Cardinality(LiveIn(w)) \in Nat
            /\ Cardinality(LiveIn(w)') \in Nat
  <2> SUFFICES ASSUME NEW w
               PROVE  /\ Cardinality(LiveIn(w)) \in Nat
                      /\ Cardinality(LiveIn(w)') \in Nat
    OBVIOUS
  <2>1. LiveIn(w)' \subseteq Requests
    BY DEF LiveIn
  <2> QED BY <2>1, LiveFinite, ConstantsOK, FS_Subset, FS_CardinalityType
<1>4. RoomKept'
  <2> SUFFICES ASSUME NEW q \in Requests, pc'[q] \in Admitted
               PROVE  Cardinality(LiveIn(WindowOf(q))') < quota'[q]
    BY DEF RoomKept, WindowOf
  <2>1. q # r /\ pc[q] \in Admitted
    BY <1>1 DEF Calls, Admitted, HoldsWindow
  <2>2. windowLock[WindowOf(q)] = q /\ windowLock[WindowOf(r)] = r
    BY <1>1, <2>1 DEF SlotInv, WindowHeld, Admitted, HoldsWindow
  <2>3. LiveIn(WindowOf(q))' = LiveIn(WindowOf(q))
    <3>1. WindowOf(q) # WindowOf(r)
      BY <2>1, <2>2
    <3>2. WindowOf(q)' = WindowOf(q)
      BY <1>1 DEF WindowOf
    <3> QED BY <3>1, <3>2, LiveGrows
  <2> QED BY <1>1, <2>1, <2>3 DEF SlotInv, RoomKept
<1>5. SlotNeverOverbooked'
  <2> SUFFICES ASSUME NEW w \in Windows
               PROVE  Cardinality(LiveIn(w)') <= MaxCapacity
    BY DEF SlotNeverOverbooked
  <2>1. CASE w = WindowOf(r)
    <3>1. Cardinality(LiveIn(w)) < quota[r]
      BY <1>1, <2>1 DEF SlotInv, RoomKept, Admitted, HoldsWindow
    <3>2. Cardinality(LiveIn(w)') <= Cardinality(LiveIn(w)) + 1
      BY LiveGrows
    <3>3. quota[r] \in 0 .. MaxCapacity
      BY DEF TypeOK
    <3> QED BY <1>3, <3>1, <3>2, <3>3, ConstantsOK
  <2>2. CASE w # WindowOf(r)
    BY <2>2, LiveGrows DEF SlotInv, SlotNeverOverbooked
  <2> QED BY <2>1, <2>2
<1> QED BY <1>2, <1>4, <1>5 DEF SlotInv

LEMMA SlotStep == TypeOK /\ SlotInv /\ [Next]_vars => SlotInv'
<1> SUFFICES ASSUME TypeOK, SlotInv, [Next]_vars
             PROVE  SlotInv'
  OBVIOUS
<1> USE DEF Calls
<1>1. ASSUME NEW r \in Requests, Resolve(r) \/ PlacementStep(r)
      PROVE  SlotInv'
  <2>1. CASE Resolve(r) \/ ReadGrid(r) \/ LockCart(r) \/ Revalidate(r) \/ TakeStock(r)
    <3>1. /\ UNCHANGED <<form, order, windowLock>>
          /\ \A q \in Requests \ {r} : pc'[q] = pc[q] /\ quota'[q] = quota[q]
          /\ pc'[r] \in HoldsWindow => pc[r] \in Admitted /\ quota'[r] = quota[r]
      BY <2>1 DEF Resolve, ReadGrid, LockCart, Revalidate, TakeStock, ApplyMovement, TypeOK,
         rows, locks, inputs, HoldsWindow, Admitted
    <3> QED BY <3>1, SlotFrame DEF SlotInv, WindowHeld, HoldsWindow, Admitted
  <2>2. CASE TakeWindow(r)
    <3>1. /\ UNCHANGED <<form, order, quota>>
          /\ \A q \in Requests : pc'[q] = IF q = r THEN "counting" ELSE pc[q]
          /\ windowLock[WindowOf(r)] = Free
          /\ windowLock' = [windowLock EXCEPT ![WindowOf(r)] = r]
      BY <2>2 DEF TakeWindow, TypeOK, rows, inputs
    <3>2. \A q \in Requests : pc'[q] \in HoldsWindow => windowLock'[WindowOf(q)] = q
      BY <3>1, WindowType, NamesOK DEF SlotInv, WindowHeld, TypeOK
    <3> QED BY <3>1, <3>2, SlotFrame DEF Admitted
  <2>3. CASE CountWindow(r)
    <3>1. /\ UNCHANGED <<form, order, quota, windowLock>>
          /\ \A q \in Requests : pc'[q] = IF q = r THEN "locking-cart" ELSE pc[q]
          /\ pc[r] = "counting"
          /\ Cardinality(LiveIn(WindowOf(r))) < quota[r]
      BY <2>3 DEF CountWindow, TypeOK, rows, locks, inputs
    <3>2. \A w : LiveIn(w)' = LiveIn(w)
      BY <3>1 DEF LiveIn, WindowOf
    <3> QED BY <3>1, <3>2
            DEF SlotInv, WindowHeld, RoomKept, SlotNeverOverbooked, HoldsWindow, Admitted, WindowOf
  <2>4. CASE WindowBusy(r) \/ WindowFull(r) \/ RefuseCart(r) \/ RefuseBasket(r) \/ RunShort(r)
    BY <2>4, SlotRollback
       DEF WindowBusy, WindowFull, RefuseCart, RefuseBasket, RunShort, Answered
  <2>5. CASE CommitOrder(r)
    BY <2>5, SlotCommit
  <2> QED BY <1>1, <2>1, <2>2, <2>3, <2>4, <2>5 DEF PlacementStep
<1>2. ASSUME NEW k \in Corrections, CorrectionStep(k)
      PROVE  SlotInv'
  <2>1. CASE LockOrder(k) \/ RestoreLine(k)
    <3>1. /\ UNCHANGED <<form, order, windowLock, quota>>
          /\ \A q \in Requests : pc'[q] = pc[q]
      BY <2>1, NamesOK DEF LockOrder, RestoreLine, ApplyMovement, TypeOK, rows, inputs
    <3> QED BY <3>1, SlotFrame DEF SlotInv, WindowHeld
  <2>2. CASE RefuseCorrection(k)
    BY <2>2, SlotRollback DEF RefuseCorrection, Answered
  <2>3. CASE CommitCorrection(k)
    <3>1. /\ UNCHANGED <<form, quota>> /\ ReleaseAll(k)
          /\ \A q \in Requests : pc'[q] = pc[q]
      BY <2>3, NamesOK DEF CommitCorrection, TypeOK, inputs
    <3>2. \A o \in Requests : Live(order'[o].status) => Live(order[o].status)
      <4>1. order' = [order EXCEPT ![Target(k)] =
                [order[Target(k)] EXCEPT !.status = "CANCELLED_BY_STORE",
                                         !.restored = order[Target(k)].qty]]
        BY <2>3 DEF CommitCorrection
      <4>2. [order[Target(k)] EXCEPT !.status = "CANCELLED_BY_STORE",
                                     !.restored = order[Target(k)].qty].status
                = "CANCELLED_BY_STORE"
        BY DEF TypeOK, Orders, Target, Tickets
      <4> QED BY <4>1, <4>2 DEF TypeOK, Live
    <3>3. \A q \in Requests : pc'[q] \in HoldsWindow => windowLock'[WindowOf(q)] = q
      BY <3>1, OthersKeepWindow, NamesOK
    <3> QED BY <3>1, <3>2, <3>3, SlotFrame
  <2> QED BY <1>2, <2>1, <2>2, <2>3 DEF CorrectionStep
<1>3. ASSUME NEW c \in Calls, Announce(c)
      PROVE  SlotInv'
  <2>1. /\ UNCHANGED <<form, order, windowLock, quota>>
        /\ \A q \in Requests : pc'[q] \in HoldsWindow => pc'[q] = pc[q]
    BY <1>3 DEF Announce, TypeOK, rows, locks, inputs, HoldsWindow
  <2> QED BY <2>1, SlotFrame DEF SlotInv, WindowHeld, Admitted
<1>4. ASSUME NEW c \in Calls, Abort(c)
      PROVE  SlotInv'
  BY <1>4, SlotRollback DEF Abort, Answered
<1>5. CASE OtherPeople
  <2>1. UNCHANGED <<form, windowLock, quota, pc>>
    BY <1>5 DEF OtherPeople, locks, inputs
  <2>2. \A o \in Requests : Live(order'[o].status) => Live(order[o].status)
    <3>1. CASE UNCHANGED order
      BY <3>1
    <3>2. ASSUME NEW o \in Requests, Advance(o)
          PROVE  \A q \in Requests : Live(order'[q].status) => Live(order[q].status)
      BY <3>2, RuleTypes DEF Advance, TypeOK, Live, Statuses, CancellableFrom, TerminalStates
    <3> QED BY <1>5, <3>1, <3>2
            DEF OtherPeople, Adjust, Reconcile, RecordMovement, SetListed, EditCart,
                RebuildCart, UpdateSettings
  <2> QED BY <2>1, <2>2, SlotFrame DEF SlotInv, WindowHeld
<1>6. CASE Crash
  <2>1. /\ UNCHANGED <<form, order, quota>>
        /\ \A q \in Requests : pc'[q] \notin HoldsWindow
    BY <1>6 DEF Crash, rows, inputs, HoldsWindow, Answered
  <2> QED BY <2>1, SlotFrame DEF Admitted
<1>7. CASE UNCHANGED vars
  BY <1>7, SlotFrame DEF vars, rows, locks, inputs, SlotInv, WindowHeld
<1> QED BY <1>1, <1>2, <1>3, <1>4, <1>5, <1>6, <1>7 DEF Next

\* No window ever holds more live orders than the largest capacity its shop ever
\* set, for any number of concurrent placements (SlotNeverOverbooked).
THEOREM NeverOverbooked == Spec => []SlotNeverOverbooked
<1>1. TypeOK /\ TriesLeft /\ SlotInv /\ [Next]_vars => (TypeOK /\ TriesLeft /\ SlotInv)'
  BY TypeStep, TriesStep, SlotStep
<1>2. SlotInv => SlotNeverOverbooked
  BY DEF SlotInv
<1> QED BY TypeInit, SlotInit, <1>1, <1>2, PTL DEF Spec

\* A correction under way is of an order that exists, and orders never vanish.
CorrectsAnOrder ==
    \A k \in Corrections : pc[k] = "restoring" => order[Target(k)].status # "NONE"

\* Only a commit, a correction or staff write an order.
LEMMA OrderWriters ==
    ASSUME [Next]_vars
    PROVE  \/ UNCHANGED order
           \/ \E r \in Requests : CommitOrder(r)
           \/ \E k \in Corrections : CommitCorrection(k)
           \/ \E q \in Requests : Advance(q)
<1>1. ASSUME NEW r \in Requests, Resolve(r) \/ PlacementStep(r), ~CommitOrder(r)
      PROVE  UNCHANGED order
  BY <1>1 DEF PlacementStep, Resolve, ReadGrid, TakeWindow, WindowBusy, CountWindow,
     WindowFull, LockCart, RefuseCart, Revalidate, RefuseBasket, TakeStock, RunShort,
     ApplyMovement, Rollback, rows
<1>2. ASSUME NEW k \in Corrections, CorrectionStep(k), ~CommitCorrection(k)
      PROVE  UNCHANGED order
  BY <1>2 DEF CorrectionStep, LockOrder, RefuseCorrection, RestoreLine, ApplyMovement,
     Rollback, rows
<1>3. ASSUME NEW c \in Calls, Announce(c) \/ Abort(c)
      PROVE  UNCHANGED order
  BY <1>3 DEF Announce, Abort, Rollback, rows
<1>4. CASE OtherPeople
  BY <1>4 DEF OtherPeople, Adjust, Reconcile, RecordMovement, SetListed, EditCart,
     RebuildCart, UpdateSettings
<1>5. CASE Crash \/ UNCHANGED vars
  BY <1>5 DEF Crash, vars, rows
<1> QED BY <1>1, <1>2, <1>3, <1>4, <1>5 DEF Next

LEMMA OrdersStay ==
    ASSUME TypeOK, [Next]_vars, NEW o \in Requests, order[o].status # "NONE"
    PROVE  order'[o].status # "NONE"
<1> USE DEF Calls
<1>1. CASE UNCHANGED order
  BY <1>1
<1>2. ASSUME NEW r \in Requests, CommitOrder(r)
      PROVE  order'[o].status # "NONE"
  BY <1>2 DEF CommitOrder, TypeOK
<1>3. ASSUME NEW k \in Corrections, CommitCorrection(k)
      PROVE  order'[o].status # "NONE"
  <2>1. order' = [order EXCEPT ![Target(k)] =
            [order[Target(k)] EXCEPT !.status = "CANCELLED_BY_STORE",
                                     !.restored = order[Target(k)].qty]]
    BY <1>3 DEF CommitCorrection
  <2>2. [order[Target(k)] EXCEPT !.status = "CANCELLED_BY_STORE",
                                 !.restored = order[Target(k)].qty].status # "NONE"
    BY DEF TypeOK, Orders, Target, Tickets
  <2> QED BY <2>1, <2>2 DEF TypeOK
<1>4. ASSUME NEW q \in Requests, Advance(q)
      PROVE  order'[o].status # "NONE"
  <2>1. PICK rule \in Transitions :
           order' = [order EXCEPT ![q] = [order[q] EXCEPT !.status = rule.to]]
    BY <1>4 DEF Advance
  <2>2. [order[q] EXCEPT !.status = rule.to].status = rule.to
    BY DEF TypeOK, Orders
  <2>3. rule.to # "NONE"
    BY RuleTypes DEF Statuses, CancellableFrom, TerminalStates
  <2> QED BY <2>1, <2>2, <2>3 DEF TypeOK
<1> QED BY <1>1, <1>2, <1>3, <1>4, OrderWriters

LEMMA CorrectsStep == TypeOK /\ CorrectsAnOrder /\ [Next]_vars => CorrectsAnOrder'
<1> SUFFICES ASSUME TypeOK, CorrectsAnOrder, [Next]_vars,
                    NEW k \in Corrections, pc'[k] = "restoring"
             PROVE  order'[Target(k)'].status # "NONE"
  BY DEF CorrectsAnOrder
<1> USE DEF Calls
<1>1. Target(k)' = Target(k) /\ Target(k) \in Requests
  <2>1. UNCHANGED ticket
    BY DEF Next, OtherPeople, PlacementStep, CorrectionStep, Resolve, ReadGrid, TakeWindow,
       WindowBusy, CountWindow, WindowFull, LockCart, RefuseCart, Revalidate, RefuseBasket,
       TakeStock, RunShort, CommitOrder, LockOrder, RefuseCorrection, RestoreLine,
       CommitCorrection, Announce, Abort, Crash, ApplyMovement, Rollback, inputs, vars
  <2> QED BY <2>1 DEF Target, TypeOK, Tickets
<1>2. pc[k] = "restoring" \/ LockOrder(k)
  <2>1. ASSUME NEW r \in Requests, Resolve(r) \/ PlacementStep(r)
        PROVE  pc[k] = "restoring"
    BY <2>1, NamesOK DEF PlacementStep, Resolve, ReadGrid, TakeWindow, WindowBusy, CountWindow,
       WindowFull, LockCart, RefuseCart, Revalidate, RefuseBasket, TakeStock, RunShort,
       CommitOrder, ApplyMovement, Rollback, TypeOK
  <2>2. ASSUME NEW j \in Corrections, CorrectionStep(j)
        PROVE  pc[k] = "restoring" \/ LockOrder(k)
    BY <2>2 DEF CorrectionStep, LockOrder, RefuseCorrection, RestoreLine, CommitCorrection,
       ApplyMovement, Rollback, TypeOK
  <2>3. ASSUME NEW c \in Calls, Announce(c) \/ Abort(c)
        PROVE  pc[k] = "restoring"
    BY <2>3 DEF Announce, Abort, Rollback, TypeOK
  <2>4. CASE OtherPeople \/ Crash \/ UNCHANGED vars
    BY <2>4 DEF OtherPeople, Crash, vars, TypeOK, Answered
  <2> QED BY <2>1, <2>2, <2>3, <2>4 DEF Next
<1>3. order[Target(k)].status # "NONE"
  BY <1>2 DEF CorrectsAnOrder, LockOrder
<1> QED BY <1>1, <1>3, OrdersStay

\* An order enters its window only below the capacity its placement was quoted,
\* counted at the very step that commits it (AdmittedUnderQuota).
THEOREM OnlyUnderQuota == Spec => AdmittedUnderQuota
<1> DEFINE Inv    == TypeOK /\ TriesLeft /\ SlotInv /\ CorrectsAnOrder
           Admits == \A r \in Requests :
                         order[r].status = "NONE" /\ order'[r].status # "NONE"
                             => Cardinality(LiveIn(WindowOf(r))) < quota[r]
<1>1. Init => Inv
  BY TypeInit, SlotInit DEF CorrectsAnOrder, Init, Calls
<1>2. Inv /\ [Next]_vars => Inv'
  BY TypeStep, TriesStep, SlotStep, CorrectsStep
<1>3. Inv /\ [Next]_vars => Admits
  <2> SUFFICES ASSUME Inv, [Next]_vars, NEW r \in Requests,
                      order[r].status = "NONE", order'[r].status # "NONE"
               PROVE  Cardinality(LiveIn(WindowOf(r))) < quota[r]
    OBVIOUS
  <2>1. CommitOrder(r)
    <3>1. ASSUME NEW q \in Requests, CommitOrder(q)
          PROVE  q = r
      BY <3>1 DEF CommitOrder, TypeOK
    <3>2. ASSUME NEW k \in Corrections, CommitCorrection(k)
          PROVE  FALSE
      <4>1. \A o \in Requests : o # Target(k) => order'[o] = order[o]
        BY <3>2 DEF CommitCorrection, TypeOK
      <4> QED BY <3>2, <4>1 DEF CommitCorrection, CorrectsAnOrder
    <3>3. ASSUME NEW o \in Requests, Advance(o)
          PROVE  FALSE
      BY <3>3, RuleTypes DEF Advance, TypeOK, Statuses, CancellableFrom, TerminalStates
    <3> QED BY <3>1, <3>2, <3>3, OrderWriters
  <2> QED BY <2>1 DEF CommitOrder, SlotInv, RoomKept, Admitted, HoldsWindow
<1> QED BY <1>1, <1>2, <1>3, PTL DEF Spec, AdmittedUnderQuota

-----------------------------------------------------------------------------
(* What the calls hold *)

Moving  == {"moving", "restoring"}
Working == Moving \cup {"revalidating"}

\* A lock is held by a call that is where such a lock is needed.
HoldersAtWork ==
    /\ \A b \in Carts :
         cartLock[b] # Free => pc[cartLock[b]] \in {"revalidating", "moving"}
    /\ \A o \in Requests : orderLock[o] # Free => pc[orderLock[o]] = "restoring"
    /\ \A i \in Items :
         itemLock[i] # Free => i[1] = StoreOf(itemLock[i]) /\ i[2] \in moved[itemLock[i]]

\* A placement works on a basket that is its own until its transaction ends,
\* and takes from the shelf what it read there.
BasketHeld(r) ==
    /\ pc[r] # "restoring"
    /\ pc[r] \in {"revalidating", "moving"} =>
         cartLock[form[r].cart] = r /\ CartAcceptable(r)
    /\ pc[r] = "moving" =>
         /\ view[r] = cart[form[r].cart].lines
         /\ \E p \in Products : view[r][p] > 0

\* A correction works on an order that nobody else moves.
OrderHeld(k) ==
    /\ pc[k] \in {"idle", "restoring", "committed"} \cup Answered
    /\ pc[k] = "restoring" =>
         orderLock[Target(k)] = k /\ order[Target(k)].status \in CancellableFrom

\* Balances are staged from rows that are locked, lowest product first.
MovesHeld(c) ==
    /\ moved[c] # {} => pc[c] \in Moving
    /\ \A p \in moved[c] :
         /\ itemLock[ItemOf(c, p)] = c
         /\ staged[c][p] = stock[ItemOf(c, p)] + Delta(c, p)
         /\ Delta(c, p) # 0
    /\ \A p \in moved[c], q \in Pending(c) : p < q

CallsRight ==
    /\ HoldersAtWork
    /\ \A r \in Requests : BasketHeld(r)
    /\ \A k \in Corrections : OrderHeld(k)
    /\ \A c \in Calls : MovesHeld(c)

\* What was given back is the whole order or nothing.
OrderWhole(o) ==
    /\ order[o].status = "NONE" => order[o].qty = Nothing
    /\ order[o].restored = IF order[o].status = "CANCELLED_BY_STORE"
                           THEN order[o].qty ELSE Nothing

OrdersRight ==
    /\ \A o \in Requests : OrderWhole(o)
    /\ BasketBecomesOneOrder

\* A step before the locks or after the commit.
Quiet(c) ==
    /\ \A d \in Calls \ {c} : pc'[d] = pc[d]
    /\ pc[c] \notin Working /\ pc'[c] \notin Working
    /\ c \in Corrections => pc'[c] \in Answered
    /\ UNCHANGED <<rows, cartLock, orderLock, itemLock, inputs, view, staged, moved>>

\* A transaction ends with nothing written.
Ends(c) ==
    /\ \A d \in Calls \ {c} : pc'[d] = pc[d]
    /\ pc'[c] \notin Working
    /\ c \in Corrections => pc'[c] \in Answered
    /\ ReleaseAll(c)
    /\ UNCHANGED <<rows, inputs, view, staged>>

MovesNext(c) ==
    pc[c] \in Moving /\ \E p \in Products : IsNext(c, p) /\ ApplyMovement(c, p)

LEMMA StepKinds ==
    ASSUME TypeOK, [Next]_vars
    PROVE  \/ UNCHANGED vars \/ OtherPeople \/ Crash
           \/ \E c \in Calls : Quiet(c) \/ Ends(c) \/ MovesNext(c)
           \/ \E r \in Requests : LockCart(r) \/ Revalidate(r) \/ CommitOrder(r)
           \/ \E k \in Corrections : LockOrder(k) \/ CommitCorrection(k)
<1> USE DEF Calls
<1>1. ASSUME NEW c \in Calls, NEW answer \in Answered \cup {"trying"}, Rollback(c, answer),
             c \in Corrections => answer \in Answered
      PROVE  Ends(c)
  BY <1>1 DEF Rollback, Ends, TypeOK, Working, Moving, Answered
<1>2. ASSUME NEW r \in Requests, Resolve(r) \/ PlacementStep(r)
      PROVE  \/ Quiet(r) \/ Ends(r) \/ MovesNext(r)
             \/ LockCart(r) \/ Revalidate(r) \/ CommitOrder(r)
  <2>0. r \notin Corrections
    BY NamesOK
  <2>1. CASE Resolve(r) \/ ReadGrid(r) \/ TakeWindow(r) \/ CountWindow(r)
    BY <2>0, <2>1 DEF Resolve, ReadGrid, TakeWindow, CountWindow, Quiet, TypeOK, locks,
                      Working, Moving
  <2>2. CASE WindowBusy(r) \/ WindowFull(r) \/ RefuseCart(r) \/ RefuseBasket(r) \/ RunShort(r)
    BY <1>1, <2>0, <2>2 DEF WindowBusy, WindowFull, RefuseCart, RefuseBasket, RunShort, Answered
  <2>3. CASE TakeStock(r)
    BY <2>3 DEF TakeStock, MovesNext, Moving
  <2> QED BY <1>2, <2>1, <2>2, <2>3 DEF PlacementStep
<1>3. ASSUME NEW k \in Corrections, CorrectionStep(k)
      PROVE  Ends(k) \/ MovesNext(k) \/ LockOrder(k) \/ CommitCorrection(k)
  BY <1>1, <1>3 DEF CorrectionStep, RefuseCorrection, RestoreLine, MovesNext, Moving, Answered
<1>4. ASSUME NEW c \in Calls, Announce(c)
      PROVE  Quiet(c)
  BY <1>4, NamesOK DEF Announce, Quiet, TypeOK, locks, Working, Moving, Answered
<1>5. ASSUME NEW c \in Calls, Abort(c)
      PROVE  Ends(c)
  BY <1>1, <1>5 DEF Abort, Answered
<1> QED BY <1>2, <1>3, <1>4, <1>5 DEF Next

\* What a call works on never changes.
LEMMA SameInputs ==
    ASSUME UNCHANGED <<form, ticket>>, NEW c
    PROVE  /\ StoreOf(c)' = StoreOf(c) /\ Target(c)' = Target(c)
           /\ \A p : ItemOf(c, p)' = ItemOf(c, p)
BY DEF StoreOf, Target, ItemOf

LEMMA TargetType ==
    ASSUME TypeOK, NEW k \in Corrections
    PROVE  Target(k) \in Requests /\ order[Target(k)] \in Orders
BY DEF TypeOK, Target, Tickets

LEMMA HeldTypes ==
    ASSUME TypeOK
    PROVE  /\ \A c \in Calls : moved[c] \subseteq Products
           /\ \A r \in Requests : form[r].cart \in Carts /\ form[r].store \in Stores
           /\ \A b \in Carts : cartLock[b] # Free => cartLock[b] \in Calls
           /\ \A o \in Requests : orderLock[o] # Free => orderLock[o] \in Calls
           /\ \A i \in Items : itemLock[i] # Free => itemLock[i] \in Calls
BY DEF TypeOK, Forms, Calls

\* Locks stay where they are needed when only call c takes or gives back.
LEMMA HoldersStay ==
    ASSUME TypeOK, HoldersAtWork, UNCHANGED <<form, ticket>>, NEW c \in Calls,
           \A d \in Calls \ {c} : pc'[d] = pc[d] /\ moved'[d] = moved[d],
           \A b \in Carts : cartLock'[b] # Free =>
               IF cartLock'[b] = c THEN pc'[c] \in {"revalidating", "moving"}
               ELSE cartLock'[b] = cartLock[b],
           \A o \in Requests : orderLock'[o] # Free =>
               IF orderLock'[o] = c THEN pc'[c] = "restoring" ELSE orderLock'[o] = orderLock[o],
           \A i \in Items : itemLock'[i] # Free =>
               IF itemLock'[i] = c THEN i[1] = StoreOf(c) /\ i[2] \in moved'[c]
               ELSE itemLock'[i] = itemLock[i]
    PROVE  HoldersAtWork'
<1>1. \A b \in Carts : cartLock'[b] # Free => pc'[cartLock'[b]] \in {"revalidating", "moving"}
  BY HeldTypes DEF HoldersAtWork
<1>2. \A o \in Requests : orderLock'[o] # Free => pc'[orderLock'[o]] = "restoring"
  BY HeldTypes DEF HoldersAtWork
<1>3. ASSUME NEW i \in Items, itemLock'[i] # Free
      PROVE  i[1] = StoreOf(itemLock[i])' /\ i[2] \in moved'[itemLock'[i]]
  <2>1. PICK d \in Calls : d = itemLock'[i] /\ i[1] = StoreOf(d) /\ i[2] \in moved'[d]
    BY <1>3, HeldTypes DEF HoldersAtWork
  <2>2. StoreOf(itemLock[i])' = StoreOf(d)
    BY <2>1 DEF StoreOf, Target
  <2> QED BY <2>1, <2>2
<1> QED BY <1>1, <1>2, <1>3 DEF HoldersAtWork

\* A call keeps what it holds while nobody touches it.
LEMMA MovesStay ==
    ASSUME NEW d \in Calls, MovesHeld(d), UNCHANGED <<form, ticket>>,
           pc'[d] = pc[d], moved'[d] = moved[d], staged'[d] = staged[d],
           moved[d] # {} => \A p \in Products : Delta(d, p)' = Delta(d, p),
           \A p \in moved[d] : /\ itemLock'[ItemOf(d, p)] = d
                               /\ stock'[ItemOf(d, p)] = stock[ItemOf(d, p)],
           moved[d] \subseteq Products
    PROVE  MovesHeld(d)'
<1>1. \A p : ItemOf(d, p)' = ItemOf(d, p)
  BY SameInputs
<1>2. CASE moved[d] = {}
  BY <1>2 DEF MovesHeld
<1>3. CASE moved[d] # {}
  <2>1. \A p \in Products : Delta(d, p)' = Delta(d, p)
    BY <1>3
  <2>2. Pending(d)' = Pending(d)
    BY <2>1 DEF Pending
  <2>3. \A p \in moved[d] :
          /\ itemLock'[ItemOf(d, p)'] = d
          /\ staged'[d][p] = stock'[ItemOf(d, p)'] + Delta(d, p)'
          /\ Delta(d, p)' # 0
    BY <1>1, <2>1 DEF MovesHeld
  <2>4. moved'[d] # {} => pc'[d] \in Moving
    BY DEF MovesHeld
  <2>5. \A p \in moved'[d], q \in Pending(d)' : p < q
    BY <2>2 DEF MovesHeld
  <2> QED BY <2>3, <2>4, <2>5 DEF MovesHeld
<1> QED BY <1>2, <1>3

LEMMA SameDelta ==
    ASSUME TypeOK, NEW d \in Calls, UNCHANGED <<form, ticket>>,
           d \in Requests => view'[d] = view[d],
           d \in Corrections => /\ order'[Target(d)].qty = order[Target(d)].qty
                                /\ order'[Target(d)].restored = order[Target(d)].restored
    PROVE  \A p \in Products : Delta(d, p)' = Delta(d, p)
BY SameInputs DEF Delta, Target, Calls

LEMMA OrdersLeftAlone ==
    ASSUME OrdersRight, UNCHANGED <<form, order, cart>>
    PROVE  OrdersRight'
BY DEF OrdersRight, OrderWhole, BasketBecomesOneOrder

\* What others hold is theirs: a lock has one holder.
LEMMA QuietKeeps ==
    ASSUME TypeOK, CallsRight, NEW c \in Calls, Quiet(c)
    PROVE  CallsRight'
<1>1. /\ rows' = rows /\ form' = form /\ ticket' = ticket /\ view' = view
      /\ staged' = staged /\ moved' = moved
      /\ cartLock' = cartLock /\ orderLock' = orderLock /\ itemLock' = itemLock
      /\ stock' = stock /\ cart' = cart /\ order' = order
  BY DEF Quiet, inputs, rows
<1>2. /\ \A d \in Calls \ {c} : pc'[d] = pc[d]
      /\ pc[c] \notin Working /\ pc'[c] \notin Working
      /\ c \in Corrections => pc'[c] \in Answered
  BY DEF Quiet
<1>3. HoldersAtWork'
  <2>1. HoldersAtWork /\ moved[c] = {}
    BY <1>2 DEF CallsRight, MovesHeld, Working
  <2>2. /\ \A b \in Carts : cartLock[b] # Free => cartLock[b] # c
        /\ \A o \in Requests : orderLock[o] # Free => orderLock[o] # c
        /\ \A i \in Items : itemLock[i] # Free => itemLock[i] # c
    BY <1>2, <2>1 DEF HoldersAtWork, Working, Moving
  <2> QED BY <1>1, <1>2, <2>1, <2>2, HoldersStay
<1>4. ASSUME NEW r \in Requests
      PROVE  BasketHeld(r)'
  BY <1>1, <1>2 DEF CallsRight, BasketHeld, CartAcceptable, Calls, Working, Moving
<1>5. ASSUME NEW k \in Corrections
      PROVE  OrderHeld(k)'
  BY <1>1, <1>2 DEF CallsRight, OrderHeld, Target, Calls, Working, Moving
<1>6. ASSUME NEW d \in Calls
      PROVE  MovesHeld(d)'
  <2>1. CASE d # c
    <3>1. \A p \in Products : Delta(d, p)' = Delta(d, p)
      BY <1>1, SameDelta
    <3> QED BY <1>1, <1>2, <2>1, <3>1, MovesStay DEF CallsRight, MovesHeld, TypeOK
  <2>2. CASE d = c
    BY <1>1, <1>2, <2>2 DEF CallsRight, MovesHeld, Working
  <2> QED BY <2>1, <2>2
<1> QED BY <1>3, <1>4, <1>5, <1>6 DEF CallsRight

LEMMA EndsKeeps ==
    ASSUME TypeOK, CallsRight, NEW c \in Calls, Ends(c)
    PROVE  CallsRight'
<1>1. /\ form' = form /\ ticket' = ticket /\ view' = view /\ staged' = staged
      /\ stock' = stock /\ cart' = cart /\ order' = order
  BY DEF Ends, inputs, rows
<1>2. /\ \A d \in Calls \ {c} : pc'[d] = pc[d] /\ moved'[d] = moved[d]
      /\ pc'[c] \notin Working /\ moved'[c] = {}
      /\ c \in Corrections => pc'[c] \in Answered
  BY DEF Ends, ReleaseAll, TypeOK
<1>3. /\ \A b \in Carts : cartLock'[b] = IF cartLock[b] = c THEN Free ELSE cartLock[b]
      /\ \A o \in Requests : orderLock'[o] = IF orderLock[o] = c THEN Free ELSE orderLock[o]
      /\ \A i \in Items : itemLock'[i] = IF itemLock[i] = c THEN Free ELSE itemLock[i]
  BY DEF Ends, ReleaseAll
<1>4. HoldersAtWork'
  <2>1. c # Free
    BY NamesOK
  <2> QED BY <1>1, <1>2, <1>3, <2>1, HoldersStay DEF CallsRight
<1>5. ASSUME NEW r \in Requests
      PROVE  BasketHeld(r)'
  <2>1. form[r].cart \in Carts /\ r \in Calls /\ BasketHeld(r)
    BY HeldTypes DEF CallsRight, Calls
  <2> QED BY <1>1, <1>2, <1>3, <2>1 DEF BasketHeld, CartAcceptable, Working, Moving
<1>6. ASSUME NEW k \in Corrections
      PROVE  OrderHeld(k)'
  BY <1>1, <1>2, <1>3, TargetType DEF CallsRight, OrderHeld, Target, Calls, Working, Moving
<1>7. ASSUME NEW d \in Calls
      PROVE  MovesHeld(d)'
  <2>1. CASE d # c
    <3>1. \A p \in Products : Delta(d, p)' = Delta(d, p)
      BY <1>1, SameDelta
    <3>2. \A p \in moved[d] : itemLock'[ItemOf(d, p)] = d
      BY <1>3, <2>1, DeltaType DEF CallsRight, MovesHeld, TypeOK
    <3> QED BY <1>1, <1>2, <2>1, <3>1, <3>2, MovesStay DEF CallsRight, TypeOK
  <2>2. CASE d = c
    BY <1>2, <2>2 DEF MovesHeld
  <2> QED BY <2>1, <2>2
<1> QED BY <1>4, <1>5, <1>6, <1>7 DEF CallsRight

LEMMA CrashKeeps ==
    ASSUME TypeOK, CallsRight, Crash
    PROVE  CallsRight'
<1>1. /\ form' = form /\ ticket' = ticket
      /\ \A c \in Calls : /\ moved'[c] = {}
                          /\ pc'[c] \notin Working \cup {"restoring"}
                          /\ c \in Corrections => pc'[c] \in {"idle"} \cup Answered
      /\ \A b \in Carts : cartLock'[b] = Free
      /\ \A o \in Requests : orderLock'[o] = Free
      /\ \A i \in Items : itemLock'[i] = Free
  BY DEF Crash, inputs, Working, Moving, Answered
<1>2. HoldersAtWork'
  BY <1>1 DEF HoldersAtWork
<1>3. \A r \in Requests : BasketHeld(r)'
  BY <1>1 DEF BasketHeld, Calls, Working, Moving
<1>4. \A k \in Corrections : OrderHeld(k)'
  BY <1>1 DEF OrderHeld, Calls, Working, Moving
<1>5. \A c \in Calls : MovesHeld(c)'
  BY <1>1 DEF MovesHeld
<1> QED BY <1>2, <1>3, <1>4, <1>5 DEF CallsRight

\* A basket is locked while it may still become an order.
LEMMA LockCartKeeps ==
    ASSUME TypeOK, CallsRight, NEW r \in Requests, LockCart(r)
    PROVE  CallsRight'
<1>1. /\ form' = form /\ ticket' = ticket /\ view' = view /\ staged' = staged
      /\ moved' = moved /\ orderLock' = orderLock /\ itemLock' = itemLock
      /\ stock' = stock /\ cart' = cart /\ order' = order
  BY DEF LockCart, inputs, rows
<1>2. /\ \A d \in Calls \ {r} : pc'[d] = pc[d]
      /\ pc[r] = "locking-cart" /\ pc'[r] = "revalidating"
      /\ cartLock[form[r].cart] = Free /\ CartAcceptable(r)
      /\ cartLock' = [cartLock EXCEPT ![form[r].cart] = r]
      /\ form[r].cart \in Carts /\ r \in Calls /\ r \notin Corrections
  BY NamesOK DEF LockCart, TypeOK, Calls, Forms
<1>3. HoldersAtWork'
  <2>1. HoldersAtWork /\ moved[r] = {}
    BY <1>2 DEF CallsRight, MovesHeld, Moving
  <2>2. /\ \A b \in Carts : cartLock[b] # Free => cartLock[b] # r
        /\ \A o \in Requests : orderLock[o] # Free => orderLock[o] # r
        /\ \A i \in Items : itemLock[i] # Free => itemLock[i] # r
    BY <1>2, <2>1 DEF HoldersAtWork
  <2>3. \A b \in Carts : cartLock'[b] = IF b = form[r].cart THEN r ELSE cartLock[b]
    BY <1>2 DEF TypeOK
  <2> QED BY <1>1, <1>2, <2>1, <2>2, <2>3, HoldersStay
<1>4. ASSUME NEW q \in Requests
      PROVE  BasketHeld(q)'
  <2>1. CASE q = r
    BY <1>1, <1>2, <2>1 DEF BasketHeld, CartAcceptable, TypeOK
  <2>2. CASE q # r
    <3>1. pc'[q] = pc[q] /\ q \in Calls /\ q # Free
      BY <1>2, <2>2, NamesOK DEF Calls
    <3>2. pc[q] \in {"revalidating", "moving"} => cartLock'[form[q].cart] = q
      BY <1>2, <2>2, <3>1 DEF CallsRight, BasketHeld, TypeOK, Forms
    <3> QED BY <1>1, <3>1, <3>2 DEF CallsRight, BasketHeld, CartAcceptable
  <2> QED BY <2>1, <2>2
<1>5. \A k \in Corrections : OrderHeld(k)'
  BY <1>1, <1>2 DEF CallsRight, OrderHeld, Target, Calls
<1>6. ASSUME NEW d \in Calls
      PROVE  MovesHeld(d)'
  <2>1. \A p \in Products : Delta(d, p)' = Delta(d, p)
    BY <1>1, SameDelta
  <2>2. CASE d # r
    BY <1>1, <1>2, <2>1, <2>2, MovesStay, HeldTypes DEF CallsRight, MovesHeld
  <2>3. CASE d = r
    BY <1>1, <1>2, <2>3 DEF CallsRight, MovesHeld, Moving
  <2> QED BY <2>2, <2>3
<1> QED BY <1>3, <1>4, <1>5, <1>6 DEF CallsRight

\* What a placement goes on to move is what the locked basket holds.
LEMMA RevalidateKeeps ==
    ASSUME TypeOK, CallsRight, NEW r \in Requests, Revalidate(r)
    PROVE  CallsRight'
<1>1. /\ form' = form /\ ticket' = ticket /\ staged' = staged /\ moved' = moved
      /\ cartLock' = cartLock /\ orderLock' = orderLock /\ itemLock' = itemLock
      /\ stock' = stock /\ cart' = cart /\ order' = order
  BY DEF Revalidate, inputs, rows, locks
<1>2. /\ \A d \in Calls \ {r} : pc'[d] = pc[d]
      /\ pc[r] = "revalidating" /\ pc'[r] = "moving"
      /\ view' = [view EXCEPT ![r] = cart[form[r].cart].lines]
      /\ \E p \in Products : cart[form[r].cart].lines[p] > 0
      /\ r \in Calls /\ r \notin Corrections
  BY NamesOK DEF Revalidate, Orderable, TypeOK, Calls
<1>3. HoldersAtWork'
  <2>1. HoldersAtWork /\ moved[r] = {}
    BY <1>2 DEF CallsRight, MovesHeld, Moving
  <2>2. /\ \A o \in Requests : orderLock[o] # Free => orderLock[o] # r
        /\ \A i \in Items : itemLock[i] # Free => itemLock[i] # r
    BY <1>2, <2>1 DEF HoldersAtWork
  <2> QED BY <1>1, <1>2, <2>1, <2>2, HoldersStay
<1>4. ASSUME NEW q \in Requests
      PROVE  BasketHeld(q)'
  BY <1>1, <1>2 DEF CallsRight, BasketHeld, CartAcceptable, TypeOK, Calls
<1>5. \A k \in Corrections : OrderHeld(k)'
  BY <1>1, <1>2 DEF CallsRight, OrderHeld, Target, Calls
<1>6. ASSUME NEW d \in Calls
      PROVE  MovesHeld(d)'
  <2>1. CASE d # r
    <3>1. \A p \in Products : Delta(d, p)' = Delta(d, p)
      BY <1>1, <1>2, <2>1, SameDelta DEF TypeOK
    <3> QED BY <1>1, <1>2, <2>1, <3>1, MovesStay, HeldTypes DEF CallsRight, MovesHeld
  <2>2. CASE d = r
    BY <1>1, <1>2, <2>2 DEF CallsRight, MovesHeld, Moving
  <2> QED BY <2>1, <2>2
<1> QED BY <1>3, <1>4, <1>5, <1>6 DEF CallsRight

LEMMA LockOrderKeeps ==
    ASSUME TypeOK, CallsRight, NEW k \in Corrections, LockOrder(k)
    PROVE  CallsRight'
<1>1. /\ form' = form /\ ticket' = ticket /\ view' = view /\ staged' = staged
      /\ moved' = moved /\ cartLock' = cartLock /\ itemLock' = itemLock
      /\ stock' = stock /\ cart' = cart /\ order' = order
  BY DEF LockOrder, inputs, rows
<1>2. /\ \A d \in Calls \ {k} : pc'[d] = pc[d]
      /\ pc[k] = "idle" /\ pc'[k] = "restoring"
      /\ orderLock[Target(k)] = Free
      /\ \A o \in Requests : orderLock'[o] = IF o = Target(k) THEN k ELSE orderLock[o]
      /\ order[Target(k)].status \in CancellableFrom
      /\ k \in Calls /\ k \notin Requests /\ k # Free
  BY NamesOK DEF LockOrder, Correctable, TypeOK, Calls
<1>3. HoldersAtWork'
  <2>1. HoldersAtWork /\ moved[k] = {}
    BY <1>2 DEF CallsRight, MovesHeld, Moving
  <2>2. /\ \A b \in Carts : cartLock[b] # Free => cartLock[b] # k
        /\ \A i \in Items : itemLock[i] # Free => itemLock[i] # k
    BY <1>2, <2>1 DEF HoldersAtWork
  <2> QED BY <1>1, <1>2, <2>1, <2>2, HoldersStay
<1>4. \A r \in Requests : BasketHeld(r)'
  BY <1>1, <1>2 DEF CallsRight, BasketHeld, CartAcceptable, Calls
<1>5. ASSUME NEW j \in Corrections
      PROVE  OrderHeld(j)'
  <2>1. Target(k) \in Requests /\ Target(j) \in Requests /\ Target(j)' = Target(j)
    BY <1>1, TargetType, SameInputs
  <2>2. j = k \/ pc'[j] = pc[j]
    BY <1>2 DEF Calls
  <2>3. j # Free
    BY NamesOK DEF Calls
  <2> QED BY <1>1, <1>2, <2>1, <2>2, <2>3 DEF CallsRight, OrderHeld
<1>6. ASSUME NEW d \in Calls
      PROVE  MovesHeld(d)'
  <2>1. \A p \in Products : Delta(d, p)' = Delta(d, p)
    BY <1>1, SameDelta
  <2>2. CASE d # k
    BY <1>1, <1>2, <2>1, <2>2, MovesStay, HeldTypes DEF CallsRight, MovesHeld
  <2>3. CASE d = k
    BY <1>1, <1>2, <2>3 DEF CallsRight, MovesHeld, Moving
  <2> QED BY <2>2, <2>3
<1> QED BY <1>3, <1>4, <1>5, <1>6 DEF CallsRight

\* The next product is below every one that is left.
LEMMA MovesNextKeeps ==
    ASSUME TypeOK, CallsRight, NEW c \in Calls, MovesNext(c)
    PROVE  CallsRight'
<1>1. PICK p \in Products : pc[c] \in Moving /\ IsNext(c, p) /\ ApplyMovement(c, p)
  BY DEF MovesNext
<1>2. /\ form' = form /\ ticket' = ticket /\ view' = view /\ pc' = pc
      /\ cartLock' = cartLock /\ orderLock' = orderLock
      /\ stock' = stock /\ cart' = cart /\ order' = order
  BY <1>1 DEF ApplyMovement, inputs, rows
<1>3. ItemOf(c, p) \in Items /\ itemLock[ItemOf(c, p)] = Free /\ c # Free
  BY <1>1, DeltaType, NamesOK DEF ApplyMovement
<1>4. /\ \A i \in Items : itemLock'[i] = IF i = ItemOf(c, p) THEN c ELSE itemLock[i]
      /\ moved'[c] = moved[c] \cup {p} /\ \A d \in Calls \ {c} : moved'[d] = moved[d]
      /\ \A d \in Calls \ {c} : staged'[d] = staged[d]
      /\ \A q \in Products : staged'[c][q] = IF q = p THEN stock[ItemOf(c, p)] + Delta(c, p)
                                             ELSE staged[c][q]
  BY <1>1, <1>3 DEF ApplyMovement, TypeOK
<1>5. HoldersAtWork'
  <2>1. HoldersAtWork
    BY DEF CallsRight
  <2>2. /\ \A b \in Carts : cartLock[b] = c => pc[c] \in {"revalidating", "moving"}
        /\ \A o \in Requests : orderLock[o] = c => pc[c] = "restoring"
        /\ \A i \in Items : itemLock[i] = c => i[1] = StoreOf(c) /\ i[2] \in moved[c]
    BY <1>3, <2>1 DEF HoldersAtWork
  <2>3. ItemOf(c, p)[1] = StoreOf(c) /\ ItemOf(c, p)[2] = p
    BY DEF ItemOf
  <2>4. \A i \in Items : itemLock'[i] = c => i[1] = StoreOf(c) /\ i[2] \in moved'[c]
    BY <1>4, <2>2, <2>3
  <2> QED BY <1>2, <1>4, <2>1, <2>2, <2>4, HoldersStay
<1>6. \A r \in Requests : BasketHeld(r)'
  BY <1>2 DEF CallsRight, BasketHeld, CartAcceptable
<1>7. \A k \in Corrections : OrderHeld(k)'
  BY <1>2 DEF CallsRight, OrderHeld, Target
<1>8. ASSUME NEW d \in Calls, d # c
      PROVE  MovesHeld(d)'
  <2>1. \A q \in Products : Delta(d, q)' = Delta(d, q)
    BY <1>2, SameDelta
  <2>2. MovesHeld(d) /\ moved[d] \subseteq Products /\ d # Free
    BY HeldTypes, NamesOK DEF CallsRight
  <2>3. \A q \in moved[d] : ItemOf(d, q) \in Items /\ itemLock[ItemOf(d, q)] = d
    BY <2>2, DeltaType DEF MovesHeld
  <2>4. \A q \in moved[d] : itemLock'[ItemOf(d, q)] = d
    BY <1>3, <1>4, <2>2, <2>3
  <2> QED BY <1>2, <1>4, <1>8, <2>1, <2>2, <2>4, MovesStay
<1>9. MovesHeld(c)'
  <2>1. \A q \in Products : Delta(c, q)' = Delta(c, q) /\ ItemOf(c, q)' = ItemOf(c, q)
    BY <1>2, SameDelta, SameInputs
  <2>2. /\ MovesHeld(c) /\ moved[c] \subseteq Products /\ moved'[c] \subseteq Products
        /\ p \in Pending(c) /\ \A q \in Pending(c) : p <= q
    BY <1>1, <1>4, HeldTypes DEF CallsRight, IsNext
  <2>3. Pending(c)' = Pending(c) \ {p}
    BY <1>4, <2>1 DEF Pending
  <2>4. Delta(c, p) # 0 /\ p \notin moved[c]
    BY <2>2 DEF Pending
  <2>5. \A q \in moved'[c] :
          /\ itemLock'[ItemOf(c, q)] = c
          /\ staged'[c][q] = stock[ItemOf(c, q)] + Delta(c, q)
          /\ Delta(c, q) # 0
    <3> SUFFICES ASSUME NEW q \in moved'[c]
                 PROVE  /\ itemLock'[ItemOf(c, q)] = c
                        /\ staged'[c][q] = stock[ItemOf(c, q)] + Delta(c, q)
                        /\ Delta(c, q) # 0
      OBVIOUS
    <3>1. CASE q = p
      BY <1>3, <1>4, <2>4, <3>1
    <3>2. CASE q # p
      <4>1. q \in moved[c] /\ q \in Products /\ ItemOf(c, q) \in Items
        BY <1>4, <2>2, <3>2, DeltaType
      <4> QED BY <1>4, <2>2, <3>2, <4>1 DEF MovesHeld
    <3> QED BY <3>1, <3>2
  <2>6. \A q \in moved'[c], s \in Pending(c)' : q < s
    <3>1. \A s \in Pending(c)' : s \in Pending(c) /\ s \in Products /\ p < s
      BY <2>2, <2>3, ConstantsOK DEF Pending, Products
    <3> QED BY <1>4, <2>2, <3>1 DEF MovesHeld
  <2>7. pc'[c] \in Moving
    BY <1>1, <1>2
  <2> QED BY <1>2, <2>1, <2>2, <2>5, <2>6, <2>7 DEF MovesHeld
<1> QED BY <1>5, <1>6, <1>7, <1>8, <1>9 DEF CallsRight

\* Nobody else touches a basket, an order or a balance that is locked.
LEMMA OthersKeep ==
    ASSUME TypeOK, CallsRight, OtherPeople
    PROVE  CallsRight'
<1>1. /\ form' = form /\ ticket' = ticket /\ view' = view /\ pc' = pc
      /\ cartLock' = cartLock /\ orderLock' = orderLock /\ itemLock' = itemLock
      /\ staged' = staged /\ moved' = moved
  BY DEF OtherPeople, inputs, locks
<1>2. /\ \A b \in Carts : cartLock[b] # Free => cart'[b] = cart[b]
      /\ \A o \in Requests : orderLock[o] # Free => order'[o] = order[o]
      /\ \A i \in Items : itemLock[i] # Free => stock'[i] = stock[i]
      /\ \A o \in Requests : /\ order'[o].qty = order[o].qty
                             /\ order'[o].restored = order[o].restored
  <2>1. ASSUME NEW i \in Items, NEW balance, NEW reason, RecordMovement(i, balance, reason)
        PROVE  /\ \A j \in Items : itemLock[j] # Free => stock'[j] = stock[j]
               /\ cart' = cart /\ order' = order
    BY <2>1 DEF RecordMovement, TypeOK
  <2>2. ASSUME NEW o \in Requests, Advance(o)
        PROVE  /\ \A q \in Requests : orderLock[q] # Free => order'[q] = order[q]
               /\ \A q \in Requests : /\ order'[q].qty = order[q].qty
                                      /\ order'[q].restored = order[q].restored
               /\ cart' = cart /\ stock' = stock
    BY <2>2 DEF Advance, TypeOK, Orders
  <2>3. ASSUME NEW b \in Carts, EditCart(b) \/ RebuildCart(b)
        PROVE  /\ \A a \in Carts : cartLock[a] # Free => cart'[a] = cart[a]
               /\ order' = order /\ stock' = stock
    BY <2>3 DEF EditCart, RebuildCart, TypeOK
  <2> QED BY <2>1, <2>2, <2>3 DEF OtherPeople, Adjust, Reconcile, SetListed, UpdateSettings
<1>3. HoldersAtWork'
  BY <1>1 DEF CallsRight, HoldersAtWork, StoreOf, Target
<1>4. ASSUME NEW r \in Requests
      PROVE  BasketHeld(r)'
  <2>1. BasketHeld(r) /\ form[r].cart \in Carts /\ r # Free
    BY HeldTypes, NamesOK DEF CallsRight, Calls
  <2> QED BY <1>1, <1>2, <2>1 DEF BasketHeld, CartAcceptable
<1>5. ASSUME NEW k \in Corrections
      PROVE  OrderHeld(k)'
  <2>1. OrderHeld(k) /\ Target(k) \in Requests /\ Target(k)' = Target(k) /\ k # Free
    BY <1>1, TargetType, SameInputs, NamesOK DEF CallsRight, Calls
  <2> QED BY <1>1, <1>2, <2>1 DEF OrderHeld
<1>6. ASSUME NEW d \in Calls
      PROVE  MovesHeld(d)'
  <2>1. \A p \in Products : Delta(d, p)' = Delta(d, p)
    BY <1>1, <1>2, SameDelta, TargetType
  <2>2. MovesHeld(d) /\ moved[d] \subseteq Products /\ d # Free
    BY HeldTypes, NamesOK DEF CallsRight
  <2>3. \A p \in moved[d] : ItemOf(d, p) \in Items /\ itemLock[ItemOf(d, p)] = d
    BY <2>2, DeltaType DEF MovesHeld
  <2> QED BY <1>1, <1>2, <2>1, <2>2, <2>3, MovesStay
<1> QED BY <1>3, <1>4, <1>5, <1>6 DEF CallsRight

\* A commit publishes every movement of the call and no other.
LEMMA PublishedMoves ==
    ASSUME TypeOK, NEW c \in Calls, MovesHeld(c), Pending(c) = {},
           NEW reason, NEW ref, PublishMovements(c, reason, ref)
    PROVE  /\ \A i \in Items : i[2] \in Products /\ Delta(c, i[2]) \in Int
           /\ \A i \in Items :
                stock'[i] = IF i[1] = StoreOf(c) THEN stock[i] + Delta(c, i[2]) ELSE stock[i]
           /\ \A i \in Items : itemLock[i] # c => stock'[i] = stock[i]
           /\ stock' = [i \in Items |->
                IF i[1] = StoreOf(c) THEN stock[i] + Delta(c, i[2]) ELSE stock[i]]
           /\ \A i \in Items :
                IF i[1] = StoreOf(c) /\ Delta(c, i[2]) # 0
                THEN ledger'[i] = Append(ledger[i], [delta |-> Delta(c, i[2]),
                                                     balanceAfter |-> stock'[i],
                                                     reason |-> reason, ref |-> ref])
                ELSE ledger'[i] = ledger[i]
<1> DEFINE mine(i) == i[1] = StoreOf(c) /\ i[2] \in moved[c]
           entry(i) == [delta |-> Delta(c, i[2]), balanceAfter |-> staged[c][i[2]],
                        reason |-> reason, ref |-> ref]
<1>1. /\ stock' = [i \in Items |-> IF mine(i) THEN staged[c][i[2]] ELSE stock[i]]
      /\ ledger' = [i \in Items |-> IF mine(i) THEN Append(ledger[i], entry(i)) ELSE ledger[i]]
  BY DEF PublishMovements
<1>2. \A i \in Items : i[2] \in Products /\ Delta(c, i[2]) \in Int /\ stock[i] \in Nat
  BY DeltaType DEF Items, TypeOK
<1>3. \A i \in Items : i[1] = StoreOf(c) => i = ItemOf(c, i[2])
  BY DEF Items, ItemOf
<1>4. \A p \in Products : p \in moved[c] <=> Delta(c, p) # 0
  BY DEF MovesHeld, Pending
<1>5. \A i \in Items : mine(i) => /\ staged[c][i[2]] = stock[i] + Delta(c, i[2])
                                  /\ itemLock[i] = c
  BY <1>3 DEF MovesHeld
<1>6. \A i \in Items : mine(i) <=> i[1] = StoreOf(c) /\ Delta(c, i[2]) # 0
  BY <1>2, <1>4
<1> HIDE DEF mine
<1>7. \A i \in Items :
        stock'[i] = IF i[1] = StoreOf(c) THEN stock[i] + Delta(c, i[2]) ELSE stock[i]
  BY <1>1, <1>2, <1>5, <1>6
<1>8. \A i \in Items : itemLock[i] # c => stock'[i] = stock[i]
  BY <1>1, <1>5
<1>9. stock' = [i \in Items |->
          IF i[1] = StoreOf(c) THEN stock[i] + Delta(c, i[2]) ELSE stock[i]]
  <2>1. \A i \in Items : (IF mine(i) THEN staged[c][i[2]] ELSE stock[i])
          = (IF i[1] = StoreOf(c) THEN stock[i] + Delta(c, i[2]) ELSE stock[i])
    BY <1>2, <1>5, <1>6
  <2> QED BY <1>1, <2>1
<1>10. ASSUME NEW i \in Items
       PROVE  IF i[1] = StoreOf(c) /\ Delta(c, i[2]) # 0
              THEN ledger'[i] = Append(ledger[i], [delta |-> Delta(c, i[2]),
                                                   balanceAfter |-> stock'[i],
                                                   reason |-> reason, ref |-> ref])
              ELSE ledger'[i] = ledger[i]
  <2>1. CASE mine(i)
    <3>1. stock'[i] = staged[c][i[2]] /\ ledger'[i] = Append(ledger[i], entry(i))
      BY <1>1, <2>1
    <3> QED BY <1>6, <2>1, <3>1
  <2>2. CASE ~mine(i)
    <3>1. ledger'[i] = ledger[i]
      <4> HIDE DEF entry
      <4> QED BY <1>1, <2>2
    <3> QED BY <1>6, <2>2, <3>1
  <2> QED BY <2>1, <2>2
<1> QED BY <1>2, <1>7, <1>8, <1>9, <1>10

\* The order of a placement that is about to commit is not there yet.
LEMMA NotYetPlaced ==
    ASSUME TypeOK, CallsRight, OrdersRight, NEW r \in Requests, pc[r] = "moving"
    PROVE  /\ order[r].status = "NONE" /\ order[r].qty = Nothing /\ order[r].restored = Nothing
           /\ cartLock[form[r].cart] = r /\ CartAcceptable(r)
           /\ \A o \in Requests : form[o].cart = form[r].cart => order[o].status = "NONE"
<1>1. form[r].cart \in Carts /\ cartLock[form[r].cart] = r /\ CartAcceptable(r)
  BY HeldTypes DEF CallsRight, BasketHeld
<1>2. \A o \in Requests : form[o].cart = form[r].cart => order[o].status = "NONE"
  BY <1>1 DEF OrdersRight, BasketBecomesOneOrder, CartAcceptable
<1> QED BY <1>1, <1>2 DEF OrdersRight, OrderWhole

LEMMA CommitOrderKeeps ==
    ASSUME TypeOK, CallsRight, OrdersRight, NEW r \in Requests, CommitOrder(r)
    PROVE  CallsRight'
<1>1. /\ form' = form /\ ticket' = ticket /\ view' = view /\ staged' = staged
  BY DEF CommitOrder, inputs
<1>2. /\ r \in Calls /\ r \notin Corrections /\ r # Free /\ pc[r] = "moving"
      /\ \A d \in Calls \ {r} : pc'[d] = pc[d] /\ moved'[d] = moved[d]
      /\ pc'[r] = "committed" /\ moved'[r] = {}
  BY NamesOK DEF CommitOrder, ReleaseAll, TypeOK, Calls
<1>3. /\ \A b \in Carts : cartLock'[b] = IF cartLock[b] = r THEN Free ELSE cartLock[b]
      /\ \A o \in Requests : orderLock'[o] = IF orderLock[o] = r THEN Free ELSE orderLock[o]
      /\ \A i \in Items : itemLock'[i] = IF itemLock[i] = r THEN Free ELSE itemLock[i]
  BY DEF CommitOrder, ReleaseAll
<1>4. /\ order[r].status = "NONE" /\ cartLock[form[r].cart] = r
  BY <1>2, NotYetPlaced
<1>5. /\ \A b \in Carts : b # form[r].cart => cart'[b] = cart[b]
      /\ \A o \in Requests : o # r => order'[o] = order[o]
  BY DEF CommitOrder, TypeOK
<1>6. \A i \in Items : itemLock[i] # r => stock'[i] = stock[i]
  BY <1>2, PublishedMoves DEF CommitOrder, CallsRight
<1>7. HoldersAtWork'
  BY <1>1, <1>2, <1>3, HoldersStay DEF CallsRight
<1>8. ASSUME NEW q \in Requests
      PROVE  BasketHeld(q)'
  <2>1. CASE q = r
    BY <1>2, <2>1 DEF BasketHeld
  <2>2. CASE q # r
    <3>1. BasketHeld(q) /\ form[q].cart \in Carts /\ q \in Calls
      BY HeldTypes DEF CallsRight, Calls
    <3>2. pc[q] \in {"revalidating", "moving"} => form[q].cart # form[r].cart
      BY <1>4, <2>2, <3>1 DEF BasketHeld
    <3> QED BY <1>1, <1>2, <1>3, <1>5, <2>2, <3>1, <3>2 DEF BasketHeld, CartAcceptable
  <2> QED BY <2>1, <2>2
<1>9. \A k \in Corrections : pc[k] = "restoring" => Target(k) # r
  BY <1>4 DEF CallsRight, OrderHeld, CancellableFrom
<1>10. ASSUME NEW k \in Corrections
       PROVE  OrderHeld(k)'
  <2>1. OrderHeld(k) /\ Target(k) \in Requests /\ Target(k)' = Target(k) /\ k # r /\ pc'[k] = pc[k]
    BY <1>1, <1>2, TargetType, SameInputs DEF CallsRight, Calls
  <2>2. pc[k] = "restoring" => order'[Target(k)] = order[Target(k)] /\ orderLock'[Target(k)] = k
    BY <1>3, <1>5, <1>9, <2>1 DEF OrderHeld
  <2> QED BY <2>1, <2>2 DEF OrderHeld
<1>11. ASSUME NEW d \in Calls
       PROVE  MovesHeld(d)'
  <2>1. CASE d # r
    <3>1. MovesHeld(d) /\ moved[d] \subseteq Products
      BY HeldTypes DEF CallsRight
    <3>2. ASSUME moved[d] # {}
          PROVE  \A p \in Products : Delta(d, p)' = Delta(d, p)
      <4>1. d \in Corrections => pc[d] = "restoring" /\ d \notin Requests
        BY <3>1, <3>2, NamesOK DEF MovesHeld, Moving, CallsRight, OrderHeld, Answered
      <4> QED BY <1>1, <1>5, <1>9, <4>1, SameDelta, TargetType
    <3>3. \A p \in moved[d] : ItemOf(d, p) \in Items /\ itemLock[ItemOf(d, p)] = d
      BY <3>1, DeltaType DEF MovesHeld
    <3>4. \A p \in moved[d] : /\ itemLock'[ItemOf(d, p)] = d
                              /\ stock'[ItemOf(d, p)] = stock[ItemOf(d, p)]
      BY <1>3, <1>6, <2>1, <3>3
    <3> QED BY <1>1, <1>2, <2>1, <3>1, <3>2, <3>4, MovesStay
  <2>2. CASE d = r
    BY <1>2, <2>2 DEF MovesHeld
  <2> QED BY <2>1, <2>2
<1> QED BY <1>7, <1>8, <1>10, <1>11 DEF CallsRight

LEMMA CommitCorrectionKeeps ==
    ASSUME TypeOK, CallsRight, NEW k \in Corrections, CommitCorrection(k)
    PROVE  CallsRight'
<1>1. /\ form' = form /\ ticket' = ticket /\ view' = view /\ staged' = staged /\ cart' = cart
  BY DEF CommitCorrection, inputs
<1>2. /\ k \in Calls /\ k \notin Requests /\ k # Free /\ pc[k] = "restoring"
      /\ \A d \in Calls \ {k} : pc'[d] = pc[d] /\ moved'[d] = moved[d]
      /\ pc'[k] = "committed" /\ moved'[k] = {}
  BY NamesOK DEF CommitCorrection, ReleaseAll, TypeOK, Calls
<1>3. /\ \A b \in Carts : cartLock'[b] = IF cartLock[b] = k THEN Free ELSE cartLock[b]
      /\ \A o \in Requests : orderLock'[o] = IF orderLock[o] = k THEN Free ELSE orderLock[o]
      /\ \A i \in Items : itemLock'[i] = IF itemLock[i] = k THEN Free ELSE itemLock[i]
  BY DEF CommitCorrection, ReleaseAll
<1>4. Target(k) \in Requests /\ orderLock[Target(k)] = k
  BY <1>2, TargetType DEF CallsRight, OrderHeld
<1>5. \A o \in Requests : o # Target(k) => order'[o] = order[o]
  BY DEF CommitCorrection, TypeOK
<1>6. \A i \in Items : itemLock[i] # k => stock'[i] = stock[i]
  BY <1>2, PublishedMoves DEF CommitCorrection, CallsRight
<1>7. HoldersAtWork'
  BY <1>1, <1>2, <1>3, HoldersStay DEF CallsRight
<1>8. ASSUME NEW q \in Requests
      PROVE  BasketHeld(q)'
  <2>1. BasketHeld(q) /\ form[q].cart \in Carts /\ q # k /\ q \in Calls
    BY <1>2, HeldTypes DEF CallsRight, Calls
  <2> QED BY <1>1, <1>2, <1>3, <2>1 DEF BasketHeld, CartAcceptable
<1>9. ASSUME NEW j \in Corrections, j # k, pc[j] = "restoring"
      PROVE  Target(j) # Target(k) /\ orderLock[Target(j)] = j
  BY <1>4, <1>9 DEF CallsRight, OrderHeld
<1>10. ASSUME NEW j \in Corrections
       PROVE  OrderHeld(j)'
  <2>1. CASE j = k
    BY <1>2, <2>1 DEF OrderHeld
  <2>2. CASE j # k
    <3>1. OrderHeld(j) /\ Target(j) \in Requests /\ Target(j)' = Target(j) /\ pc'[j] = pc[j]
      BY <1>1, <1>2, <2>2, TargetType, SameInputs DEF CallsRight, Calls
    <3>2. pc[j] = "restoring" => order'[Target(j)] = order[Target(j)] /\ orderLock'[Target(j)] = j
      BY <1>3, <1>5, <1>9, <2>2, <3>1
    <3> QED BY <3>1, <3>2 DEF OrderHeld
  <2> QED BY <2>1, <2>2
<1>11. ASSUME NEW d \in Calls
       PROVE  MovesHeld(d)'
  <2>1. CASE d # k
    <3>1. MovesHeld(d) /\ moved[d] \subseteq Products
      BY HeldTypes DEF CallsRight
    <3>2. ASSUME moved[d] # {}
          PROVE  \A p \in Products : Delta(d, p)' = Delta(d, p)
      <4>1. d \in Corrections => pc[d] = "restoring"
        BY <3>1, <3>2 DEF MovesHeld, Moving, CallsRight, OrderHeld, Answered
      <4>2. d \in Corrections => Target(d) # Target(k) /\ Target(d) \in Requests
        BY <1>9, <2>1, <4>1, TargetType
      <4> QED BY <1>1, <1>5, <4>2, SameDelta
    <3>3. \A p \in moved[d] : ItemOf(d, p) \in Items /\ itemLock[ItemOf(d, p)] = d
      BY <3>1, DeltaType DEF MovesHeld
    <3>4. \A p \in moved[d] : /\ itemLock'[ItemOf(d, p)] = d
                              /\ stock'[ItemOf(d, p)] = stock[ItemOf(d, p)]
      BY <1>3, <1>6, <2>1, <3>3
    <3> QED BY <1>1, <1>2, <2>1, <3>1, <3>2, <3>4, MovesStay
  <2>2. CASE d = k
    BY <1>2, <2>2 DEF MovesHeld
  <2> QED BY <2>1, <2>2
<1> QED BY <1>7, <1>8, <1>10, <1>11 DEF CallsRight

\* Once rows are those of before, so is what the orders say.
LEMMA CommitOrderIsOne ==
    ASSUME TypeOK, CallsRight, OrdersRight, NEW r \in Requests, CommitOrder(r)
    PROVE  OrdersRight'
<1>1. /\ form' = form /\ pc[r] = "moving"
      /\ order' = [order EXCEPT ![r] =
            [status |-> "PLACED", qty |-> view[r], restored |-> Nothing]]
      /\ cart' = [cart EXCEPT ![form[r].cart].status = "CONVERTED"]
  BY DEF CommitOrder, inputs
<1>2. /\ \A o \in Requests : form[o].cart = form[r].cart => order[o].status = "NONE"
      /\ CartAcceptable(r) /\ view[r] = cart[form[r].cart].lines
      /\ form[r].cart \in Carts
  BY <1>1, NotYetPlaced, HeldTypes DEF CallsRight, BasketHeld
<1>3. /\ \A o \in Requests \ {r} : order'[o] = order[o]
      /\ order'[r].status = "PLACED" /\ order'[r].qty = view[r] /\ order'[r].restored = Nothing
  BY <1>1 DEF TypeOK
<1>4. /\ \A b \in Carts : b # form[r].cart => cart'[b] = cart[b]
      /\ cart'[form[r].cart].status = "CONVERTED"
      /\ cart'[form[r].cart].store = form[r].store
      /\ cart'[form[r].cart].lines = view[r]
  BY <1>1, <1>2 DEF TypeOK, CartRows, CartAcceptable
<1>5. \A o \in Requests : OrderWhole(o)'
  BY <1>3 DEF OrdersRight, OrderWhole
<1>6. BasketBecomesOneOrder'
  <2> SUFFICES ASSUME NEW b \in Carts
               PROVE  LET mine == {o \in Requests : order'[o].status # "NONE" /\ form[o].cart = b}
                      IN  /\ \A o1, o2 \in mine : o1 = o2
                          /\ cart'[b].status = "CONVERTED" <=> mine # {}
                          /\ \A o \in mine : order'[o].qty = cart'[b].lines /\ form[o].store = cart'[b].store
    BY <1>1 DEF BasketBecomesOneOrder
  <2>1. CASE b = form[r].cart
    <3>1. {o \in Requests : order'[o].status # "NONE" /\ form[o].cart = b} = {r}
      BY <1>2, <1>3, <2>1
    <3> QED BY <1>3, <1>4, <2>1, <3>1
  <2>2. CASE b # form[r].cart
    <3>1. {o \in Requests : order'[o].status # "NONE" /\ form[o].cart = b}
            = {o \in Requests : order[o].status # "NONE" /\ form[o].cart = b}
      BY <1>3, <2>2
    <3>2. cart'[b] = cart[b] /\ \A o \in Requests : form[o].cart = b => order'[o] = order[o]
      BY <1>3, <1>4, <2>2
    <3> QED BY <3>1, <3>2 DEF OrdersRight, BasketBecomesOneOrder
  <2> QED BY <2>1, <2>2
<1> QED BY <1>5, <1>6 DEF OrdersRight

\* An order that is moved on or cancelled stays the order of its basket.
LEMMA OrdersMoveOn ==
    ASSUME OrdersRight, UNCHANGED <<form, cart>>,
           \A o \in Requests : /\ order'[o].qty = order[o].qty
                               /\ order[o].status = "NONE" <=> order'[o].status = "NONE"
                               /\ OrderWhole(o)'
    PROVE  OrdersRight'
<1>1. BasketBecomesOneOrder'
  BY DEF OrdersRight, BasketBecomesOneOrder
<1> QED BY <1>1 DEF OrdersRight

LEMMA CommitCorrectionIsWhole ==
    ASSUME TypeOK, CallsRight, OrdersRight, NEW k \in Corrections, CommitCorrection(k)
    PROVE  OrdersRight'
<1> DEFINE new == [order[Target(k)] EXCEPT !.status = "CANCELLED_BY_STORE",
                                           !.restored = order[Target(k)].qty]
<1>1. /\ form' = form /\ cart' = cart /\ order' = [order EXCEPT ![Target(k)] = new]
      /\ pc[k] = "restoring"
  BY DEF CommitCorrection, inputs
<1>2. Target(k) \in Requests /\ order[Target(k)] \in Orders
  BY TargetType
<1>3. /\ new.status = "CANCELLED_BY_STORE" /\ new.qty = order[Target(k)].qty
      /\ new.restored = order[Target(k)].qty
  BY <1>2 DEF Orders
<1>4. order[Target(k)].status # "NONE"
  BY <1>1 DEF CallsRight, OrderHeld, CancellableFrom
<1> HIDE DEF new
<1>5. /\ \A o \in Requests : o # Target(k) => order'[o] = order[o]
      /\ order'[Target(k)] = new
  BY <1>1, <1>2 DEF TypeOK
<1>6. \A o \in Requests : /\ order'[o].qty = order[o].qty
                          /\ order[o].status = "NONE" <=> order'[o].status = "NONE"
                          /\ OrderWhole(o)'
  BY <1>3, <1>4, <1>5 DEF OrdersRight, OrderWhole
<1> QED BY <1>1, <1>6, OrdersMoveOn

LEMMA OthersKeepOrders ==
    ASSUME TypeOK, CallsRight, OrdersRight, OtherPeople
    PROVE  OrdersRight'
<1>1. form' = form
  BY DEF OtherPeople, inputs
<1>2. ASSUME NEW o \in Requests, Advance(o)
      PROVE  OrdersRight'
  <2>1. PICK rule \in Transitions :
          /\ rule.from = order[o].status /\ rule.to # "CANCELLED_BY_STORE"
          /\ order' = [order EXCEPT ![o] = [order[o] EXCEPT !.status = rule.to]]
    BY <1>2 DEF Advance
  <2>2. /\ order[o].status \notin {"NONE", "CANCELLED_BY_STORE"}
        /\ rule.to \notin {"NONE", "CANCELLED_BY_STORE"}
    BY <2>1, RuleTypes DEF Statuses, CancellableFrom, TerminalStates
  <2>3. /\ \A q \in Requests : q # o => order'[q] = order[q]
        /\ order'[o].status = rule.to /\ order'[o].qty = order[o].qty
        /\ order'[o].restored = order[o].restored
    BY <2>1 DEF TypeOK, Orders
  <2>4. \A q \in Requests : /\ order'[q].qty = order[q].qty
                            /\ order[q].status = "NONE" <=> order'[q].status = "NONE"
                            /\ OrderWhole(q)'
    BY <2>2, <2>3 DEF OrdersRight, OrderWhole
  <2> QED BY <1>1, <1>2, <2>4, OrdersMoveOn DEF Advance
<1>3. ASSUME NEW b \in Carts, EditCart(b) \/ RebuildCart(b)
      PROVE  OrdersRight'
  <2>1. /\ order' = order /\ cart[b].status = "ACTIVE"
        /\ \A a \in Carts : a # b => cart'[a] = cart[a]
        /\ cart'[b].status = "ACTIVE"
    <3>1. cart \in [Carts -> CartRows]
      BY DEF TypeOK
    <3>2. CASE EditCart(b)
      BY <3>1, <3>2 DEF EditCart, CartRows
    <3>3. CASE RebuildCart(b)
      BY <3>1, <3>3 DEF RebuildCart, CartRows
    <3> QED BY <1>3, <3>2, <3>3
  <2>2. BasketBecomesOneOrder'
    <3> SUFFICES ASSUME NEW a \in Carts
                 PROVE  LET mine == {o \in Requests : order[o].status # "NONE" /\ form[o].cart = a}
                        IN  /\ \A o1, o2 \in mine : o1 = o2
                            /\ cart'[a].status = "CONVERTED" <=> mine # {}
                            /\ \A o \in mine : order[o].qty = cart'[a].lines /\ form[o].store = cart'[a].store
      BY <1>1, <2>1 DEF BasketBecomesOneOrder
    <3> QED BY <2>1 DEF OrdersRight, BasketBecomesOneOrder
  <2> QED BY <2>1, <2>2 DEF OrdersRight, OrderWhole
<1>4. CASE UNCHANGED <<order, cart>>
  BY <1>1, <1>4, OrdersLeftAlone
<1> QED BY <1>2, <1>3, <1>4 DEF OtherPeople, Adjust, Reconcile, RecordMovement, SetListed,
                               UpdateSettings

LEMMA CallsStart == Init => CallsRight /\ OrdersRight
<1> SUFFICES ASSUME Init PROVE CallsRight /\ OrdersRight
  OBVIOUS
<1>1. CallsRight
  BY DEF Init, CallsRight, HoldersAtWork, BasketHeld, OrderHeld, MovesHeld, Calls
<1>2. \A o \in Requests : OrderWhole(o)
  BY DEF Init, NoOrder, OrderWhole
<1>3. BasketBecomesOneOrder
  BY DEF Init, NoOrder, BasketBecomesOneOrder
<1> QED BY <1>1, <1>2, <1>3 DEF OrdersRight

LEMMA CallsStep ==
    TypeOK /\ CallsRight /\ OrdersRight /\ [Next]_vars => CallsRight' /\ OrdersRight'
<1> SUFFICES ASSUME TypeOK, CallsRight, OrdersRight, [Next]_vars
             PROVE  CallsRight' /\ OrdersRight'
  OBVIOUS
<1>1. ASSUME NEW c \in Calls, Quiet(c) \/ Ends(c) \/ MovesNext(c)
      PROVE  CallsRight' /\ OrdersRight'
  <2>1. UNCHANGED <<form, order, cart>>
    BY <1>1 DEF Quiet, Ends, MovesNext, ApplyMovement, rows, inputs
  <2> QED BY <1>1, <2>1, QuietKeeps, EndsKeeps, MovesNextKeeps, OrdersLeftAlone
<1>2. ASSUME NEW r \in Requests, LockCart(r) \/ Revalidate(r)
      PROVE  CallsRight' /\ OrdersRight'
  <2>1. UNCHANGED <<form, order, cart>>
    BY <1>2 DEF LockCart, Revalidate, rows, inputs
  <2> QED BY <1>2, <2>1, LockCartKeeps, RevalidateKeeps, OrdersLeftAlone
<1>3. ASSUME NEW k \in Corrections, LockOrder(k)
      PROVE  CallsRight' /\ OrdersRight'
  <2>1. UNCHANGED <<form, order, cart>>
    BY <1>3 DEF LockOrder, rows, inputs
  <2> QED BY <1>3, <2>1, LockOrderKeeps, OrdersLeftAlone
<1>4. CASE Crash
  <2>1. UNCHANGED <<form, order, cart>>
    BY <1>4 DEF Crash, rows, inputs
  <2> QED BY <1>4, <2>1, CrashKeeps, OrdersLeftAlone
<1>5. CASE UNCHANGED vars
  BY <1>5 DEF vars, rows, locks, inputs, CallsRight, HoldersAtWork, BasketHeld, CartAcceptable,
     OrderHeld, MovesHeld, Pending, Delta, ItemOf, StoreOf, Target, OrdersRight, OrderWhole,
     BasketBecomesOneOrder
<1> QED BY <1>1, <1>2, <1>3, <1>4, <1>5, StepKinds, OthersKeep, OthersKeepOrders,
           CommitOrderKeeps, CommitOrderIsOne, CommitCorrectionKeeps, CommitCorrectionIsWhole

\* However often a basket is submitted, into however many windows, and however
\* it is edited meanwhile, it becomes one order at most, of what it held
\* (checkout/service.ts placeOrder, carts/repo.ts lockCartForCheckout).
THEOREM BasketsBecomeOrders == Spec => []BasketBecomesOneOrder
<1>1. Init => TypeOK /\ TriesLeft /\ CallsRight /\ OrdersRight
  BY TypeInit, CallsStart
<1>2. TypeOK /\ TriesLeft /\ CallsRight /\ OrdersRight /\ [Next]_vars
        => (TypeOK /\ TriesLeft /\ CallsRight /\ OrdersRight)'
  BY TypeStep, TriesStep, CallsStep
<1>3. OrdersRight => BasketBecomesOneOrder
  BY DEF OrdersRight
<1> QED BY <1>1, <1>2, <1>3, PTL DEF Spec

-----------------------------------------------------------------------------
(* Waiting *)

\* The order of the naturals, as the relation induction is founded on.
Before == OpToRel(<, Nat)

\* A nonempty set of naturals has a least element.
LEMMA HasLeast ==
    ASSUME NEW S, S \subseteq Nat, S # {}
    PROVE  \E a \in S : \A b \in S : a <= b
<1>1. IsWellFoundedOn(Before, Nat)
  BY NatLessThanWellFounded DEF Before
<1>2. PICK a \in S : \A b \in S : ~(<<b, a>> \in Before)
  BY <1>1, WFMin, Zenon
<1>3. \A b \in S : ~(b < a)
  BY <1>2 DEF Before, OpToRel
<1> QED BY <1>3

\* Call c waits for the stock row of product p.
Wants(c, p) == pc[c] \in Moving /\ IsNext(c, p)

\* A call that is waited for and waits itself waits for a stock row, and for
\* a later product than the one it is waited for.
LEMMA WaitsClimb ==
    ASSUME TypeOK, CallsRight, NEW c \in Calls, NEW d \in Calls, NEW e \in Calls,
           WaitsFor(c, d), WaitsFor(d, e)
    PROVE  \E q \in Products : Wants(d, q) /\ \A p \in Products : Wants(c, p) => p < q
<1>1. HoldersAtWork /\ MovesHeld(d) /\ d # Free
  BY NamesOK DEF CallsRight
<1>2. pc[d] \in {"revalidating", "moving", "restoring"}
  <2>1. CASE pc[c] = "locking-cart" /\ cartLock[form[c].cart] = d
    <3>1. c \in Requests
      BY <2>1 DEF CallsRight, OrderHeld, Calls, Answered
    <3> QED BY <1>1, <2>1, <3>1, HeldTypes DEF HoldersAtWork
  <2>2. CASE c \in Corrections /\ pc[c] = "idle" /\ orderLock[Target(c)] = d
    BY <1>1, <2>2, TargetType DEF HoldersAtWork
  <2>3. ASSUME NEW p \in Products, itemLock[ItemOf(c, p)] = d
        PROVE  pc[d] \in Moving
    <3>1. moved[d] # {}
      BY <1>1, <2>3, DeltaType DEF HoldersAtWork
    <3> QED BY <1>1, <3>1 DEF MovesHeld
  <2> QED BY <2>1, <2>2, <2>3 DEF WaitsFor, Moving
<1>3. PICK q \in Products : Wants(d, q)
  BY <1>2 DEF WaitsFor, Wants, Moving
<1>4. ASSUME NEW p \in Products, Wants(c, p)
      PROVE  p < q
  <2>1. pc[c] \in Moving /\ IsNext(c, p)
    BY <1>4 DEF Wants
  <2>2. PICK s \in Products : IsNext(c, s) /\ itemLock[ItemOf(c, s)] = d
    BY <2>1 DEF WaitsFor, Moving
  <2>3. s = p
    BY <2>1, <2>2 DEF IsNext, Products, Pending
  <2>4. p \in moved[d]
    <3>1. ItemOf(c, p) \in Items /\ ItemOf(c, p)[2] = p
      BY DeltaType DEF ItemOf
    <3> QED BY <1>1, <2>2, <2>3, <3>1 DEF HoldersAtWork
  <2>5. q \in Pending(d)
    BY <1>3 DEF Wants, IsNext
  <2> QED BY <1>1, <2>4, <2>5 DEF MovesHeld
<1> QED BY <1>3, <1>4

LEMMA NobodyWaitsInCircles ==
    ASSUME TypeOK, CallsRight
    PROVE  NoWaitCycle
<1> SUFFICES ASSUME NEW group \in (SUBSET Calls) \ {{}},
                    \A c \in group : \E d \in group : WaitsFor(c, d)
             PROVE  FALSE
  BY DEF NoWaitCycle
<1> DEFINE S == {NumProducts - p : p \in {q \in Products : \E c \in group : Wants(c, q)}}
<1>1. S \subseteq Nat
  BY ConstantsOK DEF Products
<1>2. \A c \in group : \E d \in group, q \in Products :
        Wants(d, q) /\ \A p \in Products : Wants(c, p) => p < q
  <2> SUFFICES ASSUME NEW c \in group
               PROVE  \E d \in group, q \in Products :
                        Wants(d, q) /\ \A p \in Products : Wants(c, p) => p < q
    OBVIOUS
  <2>1. PICK d \in group : WaitsFor(c, d)
    OBVIOUS
  <2>2. PICK e \in group : WaitsFor(d, e)
    OBVIOUS
  <2> QED BY <2>1, <2>2, WaitsClimb
<1>3. S # {}
  <2>1. group # {}
    OBVIOUS
  <2>2. \E c : c \in group
    BY <2>1
  <2> QED BY <1>2, <2>2
<1> HIDE DEF S
<1>4. PICK n \in S : \A m \in S : n <= m
  BY <1>1, <1>3, HasLeast
<1>5. PICK c \in group, p \in Products : Wants(c, p) /\ n = NumProducts - p
  BY <1>4 DEF S
<1>6. PICK d \in group, q \in Products : Wants(d, q) /\ p < q
  BY <1>2, <1>5
<1>7. NumProducts - q \in S
  BY <1>6 DEF S
<1>8. p \in Int /\ q \in Int /\ NumProducts \in Int
  BY ConstantsOK DEF Products
<1> QED BY <1>4, <1>5, <1>6, <1>7, <1>8

\* Placements and corrections, however many, never wait for one another in a
\* circle: every call takes its locks in one global order, products included
\* (inventory/service.ts applyMovement, called in product order).
THEOREM NoDeadlockOnStock == Spec => []NoWaitCycle
<1>1. Init => TypeOK /\ TriesLeft /\ CallsRight /\ OrdersRight
  BY TypeInit, CallsStart
<1>2. TypeOK /\ TriesLeft /\ CallsRight /\ OrdersRight /\ [Next]_vars
        => (TypeOK /\ TriesLeft /\ CallsRight /\ OrdersRight)'
  BY TypeStep, TriesStep, CallsStep
<1>3. TypeOK /\ CallsRight => NoWaitCycle
  BY NobodyWaitsInCircles
<1> QED BY <1>1, <1>2, <1>3, PTL DEF Spec

-----------------------------------------------------------------------------
(* The ledger *)

\* MovementsMatchOrders of any ledger and any orders, one item at a time.
RowsIn(log, reason, ref) ==
    {n \in 1 .. Len(log) : log[n].reason = reason /\ log[n].ref = ref}

Once(log, reason, ref, delta) ==
    IF delta = 0 THEN RowsIn(log, reason, ref) = {}
    ELSE \E n \in RowsIn(log, reason, ref) :
            RowsIn(log, reason, ref) = {n} /\ log[n].delta = delta

OrderTold(log, i, o, row) ==
    row.status # "NONE" /\ form[o].store = i[1] =>
        /\ Once(log, "ORDER_PLACED", form[o].cart, - row.qty[i[2]])
        /\ Once(log, "ADMIN_CORRECTION", o,
                IF row.status = "CANCELLED_BY_STORE" THEN row.qty[i[2]] ELSE 0)

RowTold(e, i, rowOf) ==
    /\ e.reason = "ORDER_PLACED" =>
         \E o \in Requests : /\ rowOf[o].status # "NONE"
                             /\ form[o].cart = e.ref /\ form[o].store = i[1]
    /\ e.reason = "ADMIN_CORRECTION" =>
         e.ref \in Requests /\ rowOf[e.ref].status = "CANCELLED_BY_STORE"

ItemTold(log, i, rowOf) ==
    /\ \A o \in Requests : OrderTold(log, i, o, rowOf[o])
    /\ \A n \in 1 .. Len(log) : RowTold(log[n], i, rowOf)

\* A correction's row names an order.
RestoredOrders ==
    \A i \in Items : \A n \in 1 .. Len(ledger[i]) :
        ledger[i][n].reason = "ADMIN_CORRECTION" => ledger[i][n].ref \in Requests

LedgerRight == MovementsMatchOrders /\ RestoredOrders

LEMMA LedgerByItem == LedgerRight <=> \A i \in Items : ItemTold(ledger[i], i, order)
<1>1. ASSUME NEW i, NEW reason, NEW ref, NEW delta
      PROVE  ExactlyOnce(LedgerRows(i, reason, ref), i, delta)
               <=> Once(ledger[i], reason, ref, delta)
  BY DEF ExactlyOnce, LedgerRows, Once, RowsIn
<1> QED BY <1>1 DEF LedgerRight, MovementsMatchOrders, RestoredOrders, ItemTold, OrderTold,
                    RowTold

LEMMA LedgerByItemNext ==
    ASSUME UNCHANGED form
    PROVE  LedgerRight' <=> \A i \in Items : ItemTold(ledger'[i], i, order')
<1>1. ASSUME NEW i, NEW reason, NEW ref, NEW delta
      PROVE  (ExactlyOnce(LedgerRows(i, reason, ref), i, delta))'
               <=> Once(ledger'[i], reason, ref, delta)
  BY DEF ExactlyOnce, LedgerRows, Once, RowsIn
<1> QED BY <1>1 DEF LedgerRight, MovementsMatchOrders, RestoredOrders, ItemTold, OrderTold,
                    RowTold

\* What a row appended does to a log.
LEMMA LogGrows ==
    ASSUME NEW log \in Seq(Entries), NEW e \in Entries, NEW reason, NEW ref
    PROVE  /\ Len(Append(log, e)) = Len(log) + 1 /\ Len(log) \in Nat
           /\ \A n \in 1 .. Len(log) : Append(log, e)[n] = log[n]
           /\ Append(log, e)[Len(log) + 1] = e
           /\ RowsIn(Append(log, e), reason, ref) =
                IF e.reason = reason /\ e.ref = ref
                THEN RowsIn(log, reason, ref) \cup {Len(log) + 1}
                ELSE RowsIn(log, reason, ref)
<1>1. /\ Len(Append(log, e)) = Len(log) + 1 /\ Len(log) \in Nat
      /\ \A n \in 1 .. Len(log) : Append(log, e)[n] = log[n]
      /\ Append(log, e)[Len(log) + 1] = e
  OBVIOUS
<1>2. \A n : n \in 1 .. Len(log) + 1 <=> n \in 1 .. Len(log) \/ n = Len(log) + 1
  BY <1>1
<1>3. RowsIn(Append(log, e), reason, ref) =
        IF e.reason = reason /\ e.ref = ref
        THEN RowsIn(log, reason, ref) \cup {Len(log) + 1}
        ELSE RowsIn(log, reason, ref)
  <2> DEFINE next == Append(log, e)
  <2>1. /\ Len(next) = Len(log) + 1 /\ next[Len(log) + 1] = e
        /\ \A n \in 1 .. Len(log) : next[n] = log[n]
    BY <1>1
  <2> HIDE DEF next
  <2> QED BY <1>1, <1>2, <2>1 DEF RowsIn
<1> QED BY <1>1, <1>3

LEMMA OnceKept ==
    ASSUME NEW log \in Seq(Entries), NEW e \in Entries, NEW reason, NEW ref, NEW delta,
           ~(e.reason = reason /\ e.ref = ref), Once(log, reason, ref, delta)
    PROVE  Once(Append(log, e), reason, ref, delta)
<1>1. RowsIn(Append(log, e), reason, ref) = RowsIn(log, reason, ref)
  BY LogGrows
<1>2. \A n \in RowsIn(log, reason, ref) : Append(log, e)[n] = log[n]
  BY LogGrows DEF RowsIn
<1> QED BY <1>1, <1>2 DEF Once

LEMMA OnceAdded ==
    ASSUME NEW log \in Seq(Entries), NEW e \in Entries,
           e.delta # 0, RowsIn(log, e.reason, e.ref) = {}
    PROVE  Once(Append(log, e), e.reason, e.ref, e.delta)
<1>1. /\ RowsIn(Append(log, e), e.reason, e.ref) = {Len(log) + 1}
      /\ Append(log, e)[Len(log) + 1] = e
  BY LogGrows
<1> QED BY <1>1 DEF Once

\* A row that is of nobody's order leaves what the others say.
LEMMA ItemToldGrows ==
    ASSUME NEW log \in Seq(Entries), NEW e \in Entries, NEW i, NEW rowOf,
           ItemTold(log, i, rowOf), e.reason \in {"MANUAL_ADJUST", "RECONCILE"}
    PROVE  ItemTold(Append(log, e), i, rowOf)
<1>1. \A o \in Requests : OrderTold(Append(log, e), i, o, rowOf[o])
  <2> SUFFICES ASSUME NEW o \in Requests
               PROVE  OrderTold(Append(log, e), i, o, rowOf[o])
    OBVIOUS
  <2>1. e.reason # "ORDER_PLACED" /\ e.reason # "ADMIN_CORRECTION"
    OBVIOUS
  <2> QED BY <2>1, OnceKept DEF ItemTold, OrderTold
<1>2. ASSUME NEW n \in 1 .. Len(Append(log, e))
      PROVE  RowTold(Append(log, e)[n], i, rowOf)
  <2>1. CASE n \in 1 .. Len(log)
    BY <2>1, LogGrows DEF ItemTold
  <2>2. CASE n = Len(log) + 1
    BY <2>2, LogGrows DEF RowTold
  <2> QED BY <2>1, <2>2, LogGrows
<1> QED BY <1>1, <1>2 DEF ItemTold

\* What a row tells stays told while orders move forward.
LEMMA RowStaysTold ==
    ASSUME NEW e, NEW i, NEW rowOf, NEW next, RowTold(e, i, rowOf),
           \A o \in Requests :
               /\ rowOf[o].status # "NONE" => next[o].status # "NONE"
               /\ rowOf[o].status = "CANCELLED_BY_STORE" => next[o].status = "CANCELLED_BY_STORE"
    PROVE  RowTold(e, i, next)
BY DEF RowTold

\* Orders that are moved on without being cancelled.
LEMMA MovedOnTold ==
    ASSUME NEW log, NEW i, NEW rowOf, NEW next, ItemTold(log, i, rowOf),
           \A o \in Requests :
               /\ next[o].qty = rowOf[o].qty
               /\ rowOf[o].status = "NONE" <=> next[o].status = "NONE"
               /\ rowOf[o].status = "CANCELLED_BY_STORE"
                    <=> next[o].status = "CANCELLED_BY_STORE"
    PROVE  ItemTold(log, i, next)
<1>1. \A o \in Requests : OrderTold(log, i, o, next[o])
  BY DEF ItemTold, OrderTold
<1>2. \A n \in 1 .. Len(log) : RowTold(log[n], i, next)
  BY RowStaysTold DEF ItemTold
<1> QED BY <1>1, <1>2 DEF ItemTold

\* Nothing is on record for a basket that is no order yet.
LEMMA NothingToldYet ==
    ASSUME NEW log, NEW i, NEW rowOf, NEW r \in Requests, ItemTold(log, i, rowOf),
           \A o \in Requests : form[o].cart = form[r].cart => rowOf[o].status = "NONE"
    PROVE  /\ RowsIn(log, "ORDER_PLACED", form[r].cart) = {}
           /\ RowsIn(log, "ADMIN_CORRECTION", r) = {}
<1>1. \A n \in 1 .. Len(log) : RowTold(log[n], i, rowOf)
  BY DEF ItemTold
<1>2. rowOf[r].status = "NONE"
  OBVIOUS
<1> QED BY <1>1, <1>2 DEF RowTold, RowsIn

\* The item of a line that was sold, and an item that was not.
LEMMA SoldTold ==
    ASSUME NEW log \in Seq(Entries), NEW e \in Entries, NEW i, NEW rowOf, NEW next,
           NEW r \in Requests, ItemTold(log, i, rowOf),
           \A o \in Requests : form[o].cart = form[r].cart => rowOf[o].status = "NONE",
           \A o \in Requests : o # r => next[o] = rowOf[o],
           next[r].status = "PLACED", form[r].store = i[1],
           e.reason = "ORDER_PLACED", e.ref = form[r].cart,
           e.delta = - next[r].qty[i[2]], e.delta # 0
    PROVE  ItemTold(Append(log, e), i, next)
<1>1. /\ RowsIn(log, "ORDER_PLACED", form[r].cart) = {}
      /\ RowsIn(log, "ADMIN_CORRECTION", r) = {}
  BY NothingToldYet
<1>2. rowOf[r].status = "NONE"
  OBVIOUS
<1>3. ASSUME NEW o \in Requests
      PROVE  OrderTold(Append(log, e), i, o, next[o])
  <2>1. CASE o = r
    <3>1. Once(Append(log, e), "ORDER_PLACED", form[r].cart, - next[r].qty[i[2]])
      BY <1>1, OnceAdded
    <3>2. RowsIn(Append(log, e), "ADMIN_CORRECTION", r) = {}
      BY <1>1, LogGrows
    <3> QED BY <2>1, <3>1, <3>2 DEF OrderTold, Once
  <2>2. CASE o # r /\ next[o].status # "NONE"
    <3>1. OrderTold(log, i, o, next[o]) /\ form[o].cart # form[r].cart
      BY <2>2 DEF ItemTold
    <3>2. \A delta : Once(log, "ORDER_PLACED", form[o].cart, delta)
                       => Once(Append(log, e), "ORDER_PLACED", form[o].cart, delta)
      BY <3>1, OnceKept
    <3>3. \A delta : Once(log, "ADMIN_CORRECTION", o, delta)
                       => Once(Append(log, e), "ADMIN_CORRECTION", o, delta)
      BY OnceKept
    <3> QED BY <3>1, <3>2, <3>3 DEF OrderTold
  <2>3. CASE next[o].status = "NONE"
    BY <2>3 DEF OrderTold
  <2> QED BY <2>1, <2>2, <2>3
<1>4. ASSUME NEW n \in 1 .. Len(Append(log, e))
      PROVE  RowTold(Append(log, e)[n], i, next)
  <2>1. CASE n \in 1 .. Len(log)
    <3>1. RowTold(log[n], i, rowOf) /\ Append(log, e)[n] = log[n]
      BY <2>1, LogGrows DEF ItemTold
    <3> QED BY <1>2, <3>1, RowStaysTold
  <2>2. CASE n = Len(log) + 1
    BY <2>2, LogGrows DEF RowTold
  <2> QED BY <2>1, <2>2, LogGrows
<1> QED BY <1>3, <1>4 DEF ItemTold

LEMMA NotSoldTold ==
    ASSUME NEW log, NEW i, NEW rowOf, NEW next, NEW r \in Requests, ItemTold(log, i, rowOf),
           \A o \in Requests : form[o].cart = form[r].cart => rowOf[o].status = "NONE",
           \A o \in Requests : o # r => next[o] = rowOf[o],
           next[r].status = "PLACED", form[r].store = i[1] => - next[r].qty[i[2]] = 0
    PROVE  ItemTold(log, i, next)
<1>1. /\ RowsIn(log, "ORDER_PLACED", form[r].cart) = {}
      /\ RowsIn(log, "ADMIN_CORRECTION", r) = {}
  BY NothingToldYet
<1>2. rowOf[r].status = "NONE"
  OBVIOUS
<1>3. ASSUME NEW o \in Requests
      PROVE  OrderTold(log, i, o, next[o])
  <2>1. CASE o = r
    <3>1. \A delta : delta = 0 => /\ Once(log, "ORDER_PLACED", form[r].cart, delta)
                                 /\ Once(log, "ADMIN_CORRECTION", r, delta)
      BY <1>1 DEF Once
    <3> QED BY <2>1, <3>1 DEF OrderTold
  <2>2. CASE o # r
    BY <2>2 DEF ItemTold
  <2> QED BY <2>1, <2>2
<1>4. \A n \in 1 .. Len(log) : RowTold(log[n], i, next)
  BY <1>2, RowStaysTold DEF ItemTold
<1> QED BY <1>3, <1>4 DEF ItemTold

\* The item of a line that was given back, and an item that was not.
LEMMA GivenBackTold ==
    ASSUME NEW log \in Seq(Entries), NEW e \in Entries, NEW i, NEW rowOf, NEW next,
           NEW t \in Requests, ItemTold(log, i, rowOf),
           rowOf[t].status \notin {"NONE", "CANCELLED_BY_STORE"},
           \A o \in Requests : o # t => next[o] = rowOf[o],
           next[t].status = "CANCELLED_BY_STORE", next[t].qty = rowOf[t].qty,
           form[t].store = i[1], e.reason = "ADMIN_CORRECTION", e.ref = t,
           e.delta = rowOf[t].qty[i[2]], e.delta # 0
    PROVE  ItemTold(Append(log, e), i, next)
<1>1. ASSUME NEW o \in Requests
      PROVE  OrderTold(Append(log, e), i, o, next[o])
  <2>1. OrderTold(log, i, o, rowOf[o])
    BY DEF ItemTold
  <2>2. \A delta : Once(log, "ORDER_PLACED", form[o].cart, delta)
                     => Once(Append(log, e), "ORDER_PLACED", form[o].cart, delta)
    BY OnceKept
  <2>3. CASE o # t
    <3>1. \A delta : Once(log, "ADMIN_CORRECTION", o, delta)
                       => Once(Append(log, e), "ADMIN_CORRECTION", o, delta)
      BY <2>3, OnceKept
    <3> QED BY <2>1, <2>2, <2>3, <3>1 DEF OrderTold
  <2>4. CASE o = t
    <3>1. RowsIn(log, "ADMIN_CORRECTION", t) = {}
      BY <2>1, <2>4 DEF OrderTold, Once
    <3>2. Once(Append(log, e), "ADMIN_CORRECTION", t, next[t].qty[i[2]])
      BY <3>1, OnceAdded
    <3> QED BY <2>1, <2>2, <2>4, <3>2 DEF OrderTold
  <2> QED BY <2>3, <2>4
<1>2. ASSUME NEW n \in 1 .. Len(Append(log, e))
      PROVE  RowTold(Append(log, e)[n], i, next)
  <2>1. CASE n \in 1 .. Len(log)
    <3>1. RowTold(log[n], i, rowOf) /\ Append(log, e)[n] = log[n]
      BY <2>1, LogGrows DEF ItemTold
    <3> QED BY <3>1, RowStaysTold
  <2>2. CASE n = Len(log) + 1
    BY <2>2, LogGrows DEF RowTold
  <2> QED BY <2>1, <2>2, LogGrows
<1> QED BY <1>1, <1>2 DEF ItemTold

LEMMA NotGivenBackTold ==
    ASSUME NEW log, NEW i, NEW rowOf, NEW next, NEW t \in Requests, ItemTold(log, i, rowOf),
           rowOf[t].status \notin {"NONE", "CANCELLED_BY_STORE"},
           \A o \in Requests : o # t => next[o] = rowOf[o],
           next[t].status = "CANCELLED_BY_STORE", next[t].qty = rowOf[t].qty,
           form[t].store = i[1] => rowOf[t].qty[i[2]] = 0
    PROVE  ItemTold(log, i, next)
<1>1. \A o \in Requests : OrderTold(log, i, o, next[o])
  BY DEF ItemTold, OrderTold
<1>2. \A n \in 1 .. Len(log) : RowTold(log[n], i, next)
  BY RowStaysTold DEF ItemTold
<1> QED BY <1>1, <1>2 DEF ItemTold

LEMMA LedgerUntouched ==
    ASSUME LedgerRight, UNCHANGED <<ledger, order, form>>
    PROVE  LedgerRight'
BY LedgerByItem, LedgerByItemNext

LEMMA CommitOrderIsTold ==
    ASSUME TypeOK, CallsRight, OrdersRight, LedgerRight, NEW r \in Requests, CommitOrder(r)
    PROVE  LedgerRight'
<1>1. /\ form' = form /\ pc[r] = "moving" /\ Pending(r) = {} /\ r \in Calls
      /\ PublishMovements(r, "ORDER_PLACED", form[r].cart)
      /\ order' = [order EXCEPT ![r] =
            [status |-> "PLACED", qty |-> view[r], restored |-> Nothing]]
  BY DEF CommitOrder, inputs, Calls
<1>2. \A o \in Requests : form[o].cart = form[r].cart => order[o].status = "NONE"
  BY <1>1, NotYetPlaced
<1>3. /\ \A o \in Requests : o # r => order'[o] = order[o]
      /\ order'[r].status = "PLACED" /\ order'[r].qty = view[r]
  BY <1>1 DEF TypeOK
<1>4. StoreOf(r) = form[r].store /\ \A p \in Products : Delta(r, p) = - order'[r].qty[p]
  BY <1>3 DEF StoreOf, Delta
<1>5. ASSUME NEW i \in Items
      PROVE  ItemTold(ledger'[i], i, order')
  <2> DEFINE e == [delta |-> Delta(r, i[2]), balanceAfter |-> stock'[i],
                   reason |-> "ORDER_PLACED", ref |-> form[r].cart]
  <2>1. /\ i[2] \in Products /\ Delta(r, i[2]) \in Int
        /\ stock'[i] = IF i[1] = StoreOf(r) THEN stock[i] + Delta(r, i[2]) ELSE stock[i]
        /\ IF i[1] = StoreOf(r) /\ Delta(r, i[2]) # 0
           THEN ledger'[i] = Append(ledger[i], e) ELSE ledger'[i] = ledger[i]
    BY <1>1, PublishedMoves DEF CallsRight
  <2>2. stock[i] \in Nat /\ ledger[i] \in Seq(Entries) /\ form[r].cart \in Carts
    BY HeldTypes DEF TypeOK
  <2>3. ItemTold(ledger[i], i, order) /\ Delta(r, i[2]) = - order'[r].qty[i[2]]
    BY <1>4, <2>1, LedgerByItem
  <2>4. CASE i[1] = StoreOf(r) /\ Delta(r, i[2]) # 0
    <3>1. e \in Entries
      BY <2>1, <2>2 DEF Entries, Reasons
    <3>2. /\ e.reason = "ORDER_PLACED" /\ e.ref = form[r].cart
          /\ e.delta = - order'[r].qty[i[2]] /\ e.delta # 0
      BY <2>3, <2>4
    <3>3. ledger'[i] = Append(ledger[i], e)
      BY <2>1, <2>4
    <3> HIDE DEF e
    <3>4. form[r].store = i[1] /\ order'[r].status = "PLACED"
      BY <1>3, <1>4, <2>4
    <3>5. \A o \in Requests : o # r => order'[o] = order[o]
      BY <1>3
    <3>6. ItemTold(Append(ledger[i], e), i, order')
      BY <1>2, <2>2, <2>3, <3>1, <3>2, <3>4, <3>5, SoldTold
    <3> QED BY <3>3, <3>6
  <2>5. CASE ~(i[1] = StoreOf(r) /\ Delta(r, i[2]) # 0)
    <3>1. ledger'[i] = ledger[i] /\ (form[r].store = i[1] => - order'[r].qty[i[2]] = 0)
      BY <1>4, <2>1, <2>3, <2>5
    <3>2. ItemTold(ledger[i], i, order')
      BY <1>2, <1>3, <2>3, <3>1, NotSoldTold
    <3> QED BY <3>1, <3>2
  <2> QED BY <2>4, <2>5
<1> QED BY <1>1, <1>5, LedgerByItemNext

LEMMA CommitCorrectionIsTold ==
    ASSUME TypeOK, CallsRight, OrdersRight, LedgerRight,
           NEW k \in Corrections, CommitCorrection(k)
    PROVE  LedgerRight'
<1> DEFINE t == Target(k)
<1>1. /\ form' = form /\ pc[k] = "restoring" /\ Pending(k) = {} /\ k \in Calls
      /\ k \notin Requests
      /\ PublishMovements(k, "ADMIN_CORRECTION", t)
      /\ order' = [order EXCEPT ![t].status = "CANCELLED_BY_STORE",
                                ![t].restored = order[t].qty]
  BY NamesOK DEF CommitCorrection, inputs, Calls
<1>2. t \in Requests /\ order[t] \in Orders /\ order[t].status \in CancellableFrom
  BY <1>1, TargetType DEF CallsRight, OrderHeld
<1>3. /\ \A o \in Requests : o # t => order'[o] = order[o]
      /\ order'[t].status = "CANCELLED_BY_STORE" /\ order'[t].qty = order[t].qty
  BY <1>1, <1>2 DEF TypeOK, Orders
<1>4. order[t].status \notin {"NONE", "CANCELLED_BY_STORE"}
  BY <1>2 DEF CancellableFrom
<1>5. StoreOf(k) = form[t].store /\ \A p \in Products : Delta(k, p) = order[t].qty[p]
  <2>1. order[t].restored = Nothing
    BY <1>2, <1>4 DEF OrdersRight, OrderWhole
  <2>2. \A p \in Products : order[t].qty[p] \in Int
    BY <1>2 DEF Orders, Baskets
  <2> QED BY <1>1, <2>1, <2>2 DEF StoreOf, Delta, Nothing
<1> HIDE DEF t
<1>6. ASSUME NEW i \in Items
      PROVE  ItemTold(ledger'[i], i, order')
  <2> DEFINE e == [delta |-> Delta(k, i[2]), balanceAfter |-> stock'[i],
                   reason |-> "ADMIN_CORRECTION", ref |-> t]
  <2>1. /\ i[2] \in Products /\ Delta(k, i[2]) \in Int
        /\ stock'[i] = IF i[1] = StoreOf(k) THEN stock[i] + Delta(k, i[2]) ELSE stock[i]
        /\ IF i[1] = StoreOf(k) /\ Delta(k, i[2]) # 0
           THEN ledger'[i] = Append(ledger[i], e) ELSE ledger'[i] = ledger[i]
    BY <1>1, PublishedMoves DEF CallsRight
  <2>2. stock[i] \in Nat /\ ledger[i] \in Seq(Entries)
    BY DEF TypeOK
  <2>3. ItemTold(ledger[i], i, order) /\ Delta(k, i[2]) = order[t].qty[i[2]]
    BY <1>5, <2>1, LedgerByItem
  <2>4. CASE i[1] = StoreOf(k) /\ Delta(k, i[2]) # 0
    <3>1. e \in Entries
      BY <1>2, <2>1, <2>2 DEF Entries, Reasons
    <3>2. /\ e.reason = "ADMIN_CORRECTION" /\ e.ref = t
          /\ e.delta = order[t].qty[i[2]] /\ e.delta # 0
      BY <2>3, <2>4
    <3>3. ledger'[i] = Append(ledger[i], e)
      BY <2>1, <2>4
    <3> HIDE DEF e
    <3>4. ItemTold(Append(ledger[i], e), i, order')
      BY <1>2, <1>3, <1>4, <1>5, <2>2, <2>3, <2>4, <3>1, <3>2, GivenBackTold
    <3> QED BY <3>3, <3>4
  <2>5. CASE ~(i[1] = StoreOf(k) /\ Delta(k, i[2]) # 0)
    <3>1. ledger'[i] = ledger[i] /\ (form[t].store = i[1] => order[t].qty[i[2]] = 0)
      BY <1>5, <2>1, <2>3, <2>5
    <3>2. ItemTold(ledger[i], i, order')
      BY <1>2, <1>3, <1>4, <2>3, <3>1, NotGivenBackTold
    <3> QED BY <3>1, <3>2
  <2> QED BY <2>4, <2>5
<1> QED BY <1>1, <1>6, LedgerByItemNext

LEMMA OthersAreTold ==
    ASSUME TypeOK, LedgerRight, OtherPeople
    PROVE  LedgerRight'
<1>1. form' = form
  BY DEF OtherPeople, inputs
<1>2. ASSUME NEW i \in Items, NEW balance \in Int,
             NEW reason \in {"MANUAL_ADJUST", "RECONCILE"}, RecordMovement(i, balance, reason)
      PROVE  LedgerRight'
  <2> DEFINE e == [delta |-> balance - stock[i], balanceAfter |-> balance,
                   reason |-> reason, ref |-> Free]
  <2>1. /\ order' = order /\ ledger' = [ledger EXCEPT ![i] = Append(ledger[i], e)]
    BY <1>2 DEF RecordMovement
  <2>2. stock[i] \in Nat /\ ledger[i] \in Seq(Entries)
    BY DEF TypeOK
  <2>3. e \in Entries /\ e.reason \in {"MANUAL_ADJUST", "RECONCILE"}
    BY <2>2 DEF Entries, Reasons
  <2> HIDE DEF e
  <2>4. /\ \A j \in Items : j # i => ledger'[j] = ledger[j]
        /\ ledger'[i] = Append(ledger[i], e)
    BY <2>1 DEF TypeOK
  <2>5. \A j \in Items : ItemTold(ledger[j], j, order)
    BY LedgerByItem
  <2>6. \A j \in Items : ItemTold(ledger'[j], j, order)
    BY <2>2, <2>3, <2>4, <2>5, ItemToldGrows
  <2> QED BY <1>1, <2>1, <2>6, LedgerByItemNext
<1>3. ASSUME NEW o \in Requests, Advance(o)
      PROVE  LedgerRight'
  <2>1. PICK rule \in Transitions :
          /\ rule.from = order[o].status /\ rule.to # "CANCELLED_BY_STORE"
          /\ order' = [order EXCEPT ![o] = [order[o] EXCEPT !.status = rule.to]]
    BY <1>3 DEF Advance
  <2>2. /\ order[o].status \notin {"NONE", "CANCELLED_BY_STORE"}
        /\ rule.to \notin {"NONE", "CANCELLED_BY_STORE"}
    BY <2>1, RuleTypes DEF Statuses, CancellableFrom, TerminalStates
  <2>3. /\ \A q \in Requests : q # o => order'[q] = order[q]
        /\ order'[o].status = rule.to /\ order'[o].qty = order[o].qty
    BY <2>1 DEF TypeOK, Orders
  <2>4. \A q \in Requests :
          /\ order'[q].qty = order[q].qty
          /\ order[q].status = "NONE" <=> order'[q].status = "NONE"
          /\ order[q].status = "CANCELLED_BY_STORE"
               <=> order'[q].status = "CANCELLED_BY_STORE"
    BY <2>2, <2>3
  <2>5. \A i \in Items : ItemTold(ledger[i], i, order')
    BY <2>4, LedgerByItem, MovedOnTold
  <2>6. ledger' = ledger
    BY <1>3 DEF Advance
  <2> QED BY <1>1, <2>5, <2>6, LedgerByItemNext
<1>4. CASE UNCHANGED <<ledger, order>>
  BY <1>1, <1>4, LedgerUntouched
<1>5. ASSUME NEW i \in Items, Adjust(i) \/ Reconcile(i)
      PROVE  LedgerRight'
  <2>1. stock[i] \in Nat /\ \A n \in 0 .. OpeningStock : n \in Int
    BY ConstantsOK DEF TypeOK
  <2> QED BY <1>2, <1>5, <2>1 DEF Adjust, Reconcile
<1> QED BY <1>3, <1>4, <1>5 DEF OtherPeople, SetListed, UpdateSettings, EditCart, RebuildCart

LEMMA LedgerStart == Init => LedgerRight
<1> SUFFICES ASSUME Init PROVE LedgerRight
  OBVIOUS
<1>1. /\ \A i \in Items : ledger[i] = << >>
      /\ \A o \in Requests : order[o].status = "NONE"
  BY DEF Init, NoOrder
<1> QED BY <1>1, LedgerByItem DEF ItemTold, OrderTold

LEMMA LedgerStep ==
    TypeOK /\ CallsRight /\ OrdersRight /\ LedgerRight /\ [Next]_vars => LedgerRight'
<1> SUFFICES ASSUME TypeOK, CallsRight, OrdersRight, LedgerRight, [Next]_vars
             PROVE  LedgerRight'
  OBVIOUS
<1>1. ASSUME NEW c \in Calls, Quiet(c) \/ Ends(c) \/ MovesNext(c)
      PROVE  LedgerRight'
  BY <1>1, LedgerUntouched DEF Quiet, Ends, MovesNext, ApplyMovement, rows, inputs
<1>2. ASSUME NEW r \in Requests, LockCart(r) \/ Revalidate(r)
      PROVE  LedgerRight'
  BY <1>2, LedgerUntouched DEF LockCart, Revalidate, rows, inputs
<1>3. ASSUME NEW k \in Corrections, LockOrder(k)
      PROVE  LedgerRight'
  BY <1>3, LedgerUntouched DEF LockOrder, rows, inputs
<1>4. CASE Crash \/ UNCHANGED vars
  BY <1>4, LedgerUntouched DEF Crash, vars, rows, inputs
<1> QED BY <1>1, <1>2, <1>3, <1>4, StepKinds, OthersAreTold, CommitOrderIsTold,
           CommitCorrectionIsTold

\* The ledger tells the whole story of every order: a line left the shelf once,
\* came back once if the order was cancelled, and nothing was sold or given
\* back that is no order's, through every crash, retry and rival correction
\* (inventory/service.ts applyMovement, orders/service.ts correctOrder).
THEOREM EveryMovementIsAnOrders == Spec => []MovementsMatchOrders
<1>1. Init => TypeOK /\ TriesLeft /\ CallsRight /\ OrdersRight /\ LedgerRight
  BY TypeInit, CallsStart, LedgerStart
<1>2. TypeOK /\ TriesLeft /\ CallsRight /\ OrdersRight /\ LedgerRight /\ [Next]_vars
        => (TypeOK /\ TriesLeft /\ CallsRight /\ OrdersRight /\ LedgerRight)'
  BY TypeStep, TriesStep, CallsStep, LedgerStep
<1>3. LedgerRight => MovementsMatchOrders
  BY DEF LedgerRight
<1> QED BY <1>1, <1>2, <1>3, PTL DEF Spec

-----------------------------------------------------------------------------
(* What is announced has happened *)

\* The change a call is about is committed.
Happened(c) ==
    IF c \in Requests THEN order[c].status # "NONE"
    ELSE order[Target(c)].status = "CANCELLED_BY_STORE"

Done == {"committed", "placed", "corrected"}

\* No event before its commit, and no answer either.
EventsAreTrue ==
    /\ \A c \in announced : Happened(c)
    /\ \A c \in Calls : pc[c] \in Done => Happened(c)

\* What happened stays so: no order is lost, and a cancellation is final.
LEMMA OrdersOnlyGoOn ==
    ASSUME TypeOK, CallsRight, OrdersRight, [Next]_vars, NEW c \in Calls, Happened(c)
    PROVE  Happened(c)'
<1> USE DEF Calls
<1>1. /\ c \in Corrections \/ c \in Requests
      /\ c \in Corrections => Target(c) \in Requests /\ Target(c)' = Target(c)
  <2>1. ticket' = ticket
    BY DEF Next, PlacementStep, CorrectionStep, Resolve, ReadGrid, TakeWindow, WindowBusy,
       CountWindow, WindowFull, LockCart, RefuseCart, Revalidate, RefuseBasket, TakeStock,
       ApplyMovement, RunShort, CommitOrder, LockOrder, RefuseCorrection, RestoreLine,
       CommitCorrection, Announce, Abort, Rollback, OtherPeople, Crash, vars, inputs
  <2> QED
    BY <2>1, TargetType DEF Target
<1> SUFFICES ASSUME NEW o \in Requests
             PROVE  /\ order[o].status # "NONE" => order'[o].status # "NONE"
                    /\ order[o].status = "CANCELLED_BY_STORE"
                         => order'[o].status = "CANCELLED_BY_STORE"
  BY <1>1 DEF Happened
<1>2. ASSUME NEW r \in Requests, CommitOrder(r)
      PROVE  o # r => order'[o] = order[o]
  BY <1>2 DEF CommitOrder, TypeOK
<1>3. ASSUME NEW r \in Requests, CommitOrder(r) PROVE order[r].status = "NONE"
  BY <1>3, NotYetPlaced DEF CommitOrder
<1>4. ASSUME NEW k \in Corrections, CommitCorrection(k)
      PROVE  order'[o] = order[o] \/ order'[o].status = "CANCELLED_BY_STORE"
  <2>1. order[Target(k)] \in Orders /\ Target(k) \in Requests
    BY TargetType
  <2> QED
    BY <1>4, <2>1 DEF CommitCorrection, TypeOK, Orders
<1>5. ASSUME NEW q \in Requests, Advance(q)
      PROVE  /\ q # o => order'[o] = order[o]
             /\ order[q].status \notin {"NONE", "CANCELLED_BY_STORE"}
             /\ order'[q].status # "NONE"
  <2>1. PICK rule \in Transitions :
          /\ rule.from = order[q].status
          /\ order' = [order EXCEPT ![q] = [order[q] EXCEPT !.status = rule.to]]
    BY <1>5 DEF Advance
  <2>2. rule.from \notin {"NONE", "CANCELLED_BY_STORE"} /\ rule.to # "NONE"
    BY RuleTypes DEF Statuses, CancellableFrom, TerminalStates
  <2>3. order'[q].status = rule.to /\ (q # o => order'[o] = order[o])
    BY <2>1 DEF TypeOK, Orders
  <2> QED
    BY <2>1, <2>2, <2>3
<1>6. ASSUME OtherPeople, ~ \E q \in Requests : Advance(q) PROVE order' = order
  BY <1>6 DEF OtherPeople, Adjust, Reconcile, RecordMovement, SetListed, EditCart, RebuildCart,
     UpdateSettings
<1>7. CASE UNCHANGED order
  BY <1>7
<1>8. ASSUME NEW d \in Calls, Quiet(d) \/ Ends(d) \/ MovesNext(d) PROVE UNCHANGED order
  BY <1>8 DEF Quiet, Ends, MovesNext, ApplyMovement, rows
<1>9. ASSUME NEW r \in Requests, LockCart(r) \/ Revalidate(r) PROVE UNCHANGED order
  BY <1>9 DEF LockCart, Revalidate, rows
<1>10. ASSUME NEW k \in Corrections, LockOrder(k) PROVE UNCHANGED order
  BY <1>10 DEF LockOrder, rows
<1>11. ASSUME Crash \/ UNCHANGED vars PROVE UNCHANGED order
  BY <1>11 DEF Crash, vars, rows
<1>12. ASSUME NEW r \in Requests, CommitOrder(r)
       PROVE  /\ order[o].status # "NONE" => order'[o].status # "NONE"
              /\ order[o].status = "CANCELLED_BY_STORE"
                   => order'[o].status = "CANCELLED_BY_STORE"
  BY <1>2, <1>3, <1>12
<1>13. ASSUME OtherPeople
       PROVE  /\ order[o].status # "NONE" => order'[o].status # "NONE"
              /\ order[o].status = "CANCELLED_BY_STORE"
                   => order'[o].status = "CANCELLED_BY_STORE"
  BY <1>5, <1>6, <1>13
<1>14. ASSUME NEW k \in Corrections, CommitCorrection(k)
       PROVE  /\ order[o].status # "NONE" => order'[o].status # "NONE"
              /\ order[o].status = "CANCELLED_BY_STORE"
                   => order'[o].status = "CANCELLED_BY_STORE"
  BY <1>4, <1>14
<1> QED
  BY <1>7, <1>8, <1>9, <1>10, <1>11, <1>12, <1>13, <1>14, StepKinds

\* Nobody is done but by a commit, and nothing is announced but by who is done.
LEMMA DoneByCommit ==
    ASSUME TypeOK, [Next]_vars, NEW c \in Calls, pc'[c] \in Done
    PROVE  \/ pc[c] \in Done
           \/ c \in Requests /\ CommitOrder(c)
           \/ c \in Corrections /\ CommitCorrection(c)
<1> USE DEF Calls
<1>1. ASSUME NEW d \in Calls, NEW answer, answer \notin Done, pc' = [pc EXCEPT ![d] = answer]
      PROVE  pc[c] \in Done
  BY <1>1 DEF TypeOK
<1>2. ASSUME NEW r \in Requests, Resolve(r) \/ PlacementStep(r), ~CommitOrder(r)
      PROVE  pc[c] \in Done
  BY <1>1, <1>2 DEF PlacementStep, Resolve, ReadGrid, TakeWindow, WindowBusy, CountWindow,
     WindowFull, LockCart, RefuseCart, Revalidate, RefuseBasket, TakeStock, ApplyMovement,
     RunShort, Rollback, Done
<1>3. ASSUME NEW k \in Corrections, CorrectionStep(k), ~CommitCorrection(k)
      PROVE  pc[c] \in Done
  BY <1>1, <1>3 DEF CorrectionStep, LockOrder, RefuseCorrection, RestoreLine, ApplyMovement,
     Rollback, Done
<1>4. ASSUME NEW d \in Calls, Announce(d) \/ Abort(d) PROVE pc[c] \in Done
  BY <1>1, <1>4 DEF Announce, Abort, Rollback, Done, TypeOK
<1>5. CASE OtherPeople \/ Crash \/ UNCHANGED vars
  BY <1>5 DEF OtherPeople, Crash, vars, Done
<1>6. ASSUME NEW r \in Requests, CommitOrder(r) PROVE c = r \/ pc[c] \in Done
  BY <1>6 DEF CommitOrder, TypeOK
<1>7. ASSUME NEW k \in Corrections, CommitCorrection(k) PROVE c = k \/ pc[c] \in Done
  BY <1>7 DEF CommitCorrection, TypeOK
<1> QED
  BY <1>2, <1>3, <1>4, <1>5, <1>6, <1>7 DEF Next

LEMMA AnnouncedWhenDone ==
    ASSUME [Next]_vars, NEW c \in announced'
    PROVE  c \in announced \/ (c \in Calls /\ pc[c] = "committed")
<1>1. announced' = announced \/ \E d \in Calls : Announce(d)
  BY DEF Next, PlacementStep, CorrectionStep, Resolve, ReadGrid, TakeWindow, WindowBusy,
     CountWindow, WindowFull, LockCart, RefuseCart, Revalidate, RefuseBasket, TakeStock,
     ApplyMovement, RunShort, CommitOrder, LockOrder, RefuseCorrection, RestoreLine,
     CommitCorrection, Abort, Rollback, OtherPeople, Crash, vars
<1> QED
  BY <1>1 DEF Announce

LEMMA EventsStep ==
    TypeOK /\ CallsRight /\ OrdersRight /\ EventsAreTrue /\ [Next]_vars => EventsAreTrue'
<1> SUFFICES ASSUME TypeOK, CallsRight, OrdersRight, EventsAreTrue, [Next]_vars
             PROVE  EventsAreTrue'
  OBVIOUS
<1>1. ASSUME NEW c \in announced' PROVE Happened(c)'
  <2>1. c \in Calls /\ Happened(c)
    BY <1>1, AnnouncedWhenDone DEF EventsAreTrue, TypeOK, Done
  <2> QED
    BY <2>1, OrdersOnlyGoOn
<1>2. ASSUME NEW c \in Calls, pc'[c] \in Done PROVE Happened(c)'
  <2>1. CASE pc[c] \in Done
    BY <2>1, OrdersOnlyGoOn DEF EventsAreTrue
  <2>2. CASE c \in Requests /\ CommitOrder(c)
    BY <2>2 DEF CommitOrder, TypeOK, Happened
  <2>3. CASE c \in Corrections /\ CommitCorrection(c)
    <3>1. Target(c) \in Requests /\ order[Target(c)] \in Orders /\ c \notin Requests
      BY <2>3, TargetType, NamesOK
    <3>2. Target(c)' = Target(c)
      BY <2>3 DEF CommitCorrection, inputs, Target
    <3>3. order'[Target(c)].status = "CANCELLED_BY_STORE"
      BY <2>3, <3>1 DEF CommitCorrection, TypeOK, Orders
    <3> QED
      BY <3>1, <3>2, <3>3 DEF Happened
  <2> QED
    BY <1>2, <2>1, <2>2, <2>3, DoneByCommit
<1> QED
  BY <1>1, <1>2 DEF EventsAreTrue

\* The half of EventsMatchCommits that is a promise about every moment: an event is
\* heard, and a call answered with success, only for a change that is committed,
\* through every abort and restart (the emit after withTransaction in placeOrder
\* and correctOrder).
THEOREM NoEventBeforeItsCommit == Spec => []EventsAreTrue
<1>1. Init => TypeOK /\ TriesLeft /\ CallsRight /\ OrdersRight
  BY TypeInit, CallsStart
<1>2. Init => EventsAreTrue
  BY DEF Init, EventsAreTrue, Done, Calls
<1>3. TypeOK /\ TriesLeft /\ CallsRight /\ OrdersRight /\ EventsAreTrue /\ [Next]_vars
        => (TypeOK /\ TriesLeft /\ CallsRight /\ OrdersRight /\ EventsAreTrue)'
  BY TypeStep, TriesStep, CallsStep, EventsStep
<1> QED BY <1>1, <1>2, <1>3, PTL DEF Spec

-----------------------------------------------------------------------------
(* Placement implements OrderBook *)

\* The two modules speak of the same order states.
LEMMA SameStates ==
    /\ Book!CancellableFrom = CancellableFrom /\ Book!Transitions = Transitions
    /\ Book!Statuses = Statuses /\ Book!Items = Items /\ Book!Products = Products
    /\ Book!Baskets = Baskets
    /\ \A S : Book!Cardinality(S) = Cardinality(S)
BY DEF Book!Cardinality, Cardinality, Book!CancellableFrom, CancellableFrom, Book!Transitions, Transitions, Book!Rule, Rule,
       Book!Statuses, Statuses, Book!TerminalStates, TerminalStates, Book!Items, Items,
       Book!Products, Products, Book!Baskets, Baskets

LEMMA BookOpens == Init => Book!Init
BY ConstantsOK, SameStates DEF Init, NoOrder, Book!Init

\* A placement commits what OrderBook places: what it read is still true.
LEMMA CommitPlaces ==
    ASSUME TypeOK, TypeOK', SlotInv, CallsRight, OrdersRight,
           NEW r \in Requests, CommitOrder(r)
    PROVE  Book!Place(r)
<1>1. /\ pc[r] = "moving" /\ Pending(r) = {} /\ r \in Calls
      /\ PublishMovements(r, "ORDER_PLACED", form[r].cart)
      /\ order' = [order EXCEPT ![r] =
            [status |-> "PLACED", qty |-> view[r], restored |-> Nothing]]
      /\ cart' = [cart EXCEPT ![form[r].cart].status = "CONVERTED"]
  BY DEF CommitOrder, Calls
<1> DEFINE basket == cart[form[r].cart]
<1>2. /\ order[r].status = "NONE" /\ order[r].restored = Nothing
      /\ basket.status = "ACTIVE" /\ basket.store = form[r].store
      /\ view[r] = basket.lines /\ \E p \in Products : basket.lines[p] > 0
  BY <1>1, NotYetPlaced DEF CallsRight, BasketHeld, CartAcceptable
<1>3. /\ stock' = [i \in Items |->
            IF i[1] = StoreOf(r) THEN stock[i] + Delta(r, i[2]) ELSE stock[i]]
      /\ \A i \in Items : i[2] \in Products
  BY <1>1, PublishedMoves DEF CallsRight
<1>4. /\ StoreOf(r) = basket.store /\ basket.store \in Stores
      /\ \A p \in Products : basket.lines[p] \in Nat /\ Delta(r, p) = - basket.lines[p]
  <2>1. basket \in CartRows
    BY HeldTypes DEF TypeOK
  <2> HIDE DEF basket
  <2>2. basket.store \in Stores /\ \A p \in Products : basket.lines[p] \in Nat
    BY <2>1, ConstantsOK DEF CartRows, Baskets
  <2> QED BY <1>2, <2>2 DEF StoreOf, Delta
<1> HIDE DEF basket
<1>5. \A i \in Items : stock[i] \in Nat /\ stock'[i] \in Nat
  BY DEF TypeOK
<1>6. stock' = [i \in Items |->
          IF i[1] = basket.store THEN stock[i] - basket.lines[i[2]] ELSE stock[i]]
  <2>1. \A i \in Items :
          (IF i[1] = StoreOf(r) THEN stock[i] + Delta(r, i[2]) ELSE stock[i])
            = (IF i[1] = basket.store THEN stock[i] - basket.lines[i[2]] ELSE stock[i])
    BY <1>3, <1>4, <1>5
  <2> QED BY <1>3, <2>1
<1>7. \A p \in Products : stock[<<basket.store, p>>] >= basket.lines[p]
  <2> SUFFICES ASSUME NEW p \in Products
               PROVE  stock[<<basket.store, p>>] >= basket.lines[p]
    OBVIOUS
  <2>1. <<basket.store, p>> \in Items
    BY <1>4 DEF Items
  <2>2. stock'[<<basket.store, p>>] = stock[<<basket.store, p>>] - basket.lines[p]
    BY <1>6, <2>1
  <2> QED BY <1>4, <1>5, <2>1, <2>2
<1>8. order' = [order EXCEPT ![r].status = "PLACED", ![r].qty = basket.lines]
  <2>1. /\ order[r] \in Orders /\ order \in [Requests -> Orders]
        /\ order' \in [Requests -> Orders]
    BY DEF TypeOK
  <2>2. /\ order'[r] \in Orders /\ order'[r].status = "PLACED"
        /\ order'[r].qty = basket.lines /\ order'[r].restored = order[r].restored
    BY <1>1, <1>2, <2>1
  <2>3. [[order[r] EXCEPT !.status = "PLACED"] EXCEPT !.qty = basket.lines] = order'[r]
    BY <2>1, <2>2 DEF Orders
  <2> QED BY <1>1, <2>1, <2>3
<1>9. Book!Cardinality(Book!Rivals(r)) < MaxCapacity
  <2>1. Book!Rivals(r) = LiveIn(WindowOf(r))
    BY DEF Book!Rivals, LiveIn, WindowOf
  <2>2. Cardinality(LiveIn(WindowOf(r))) < quota[r]
    BY <1>1 DEF SlotInv, RoomKept, Admitted, HoldsWindow
  <2>3. quota[r] \in 0 .. MaxCapacity /\ Cardinality(LiveIn(WindowOf(r))) \in Nat
    BY LiveFinite DEF TypeOK
  <2> QED BY <2>1, <2>2, <2>3, ConstantsOK, SameStates
<1>10. /\ \E p \in Book!Products : basket.lines[p] > 0
       /\ \A p \in Book!Products : stock[<<basket.store, p>>] >= basket.lines[p]
       /\ stock' = [i \in Book!Items |->
            IF i[1] = basket.store THEN stock[i] - basket.lines[i[2]] ELSE stock[i]]
  BY <1>2, <1>6, <1>7, SameStates
<1> QED BY <1>1, <1>2, <1>8, <1>9, <1>10 DEF Book!Place, basket

\* A correction commits what OrderBook gives back: the whole order, once.
LEMMA CommitCorrects ==
    ASSUME TypeOK, CallsRight, OrdersRight, NEW k \in Corrections, CommitCorrection(k)
    PROVE  \E o \in Requests : Book!Correct(o)
<1> DEFINE t == Target(k)
<1>1. /\ pc[k] = "restoring" /\ Pending(k) = {} /\ k \in Calls /\ k \notin Requests
      /\ PublishMovements(k, "ADMIN_CORRECTION", t) /\ cart' = cart
      /\ order' = [order EXCEPT ![t].status = "CANCELLED_BY_STORE",
                                ![t].restored = order[t].qty]
  BY NamesOK DEF CommitCorrection, Calls
<1>2. t \in Requests /\ order[t] \in Orders /\ order[t].status \in CancellableFrom
  BY <1>1, TargetType DEF CallsRight, OrderHeld
<1>3. /\ stock' = [i \in Items |->
            IF i[1] = StoreOf(k) THEN stock[i] + Delta(k, i[2]) ELSE stock[i]]
      /\ \A i \in Items : i[2] \in Products
  BY <1>1, PublishedMoves DEF CallsRight
<1>4. StoreOf(k) = form[t].store /\ \A p \in Products : Delta(k, p) = order[t].qty[p]
  <2>1. order[t].restored = Nothing
    BY <1>2 DEF OrdersRight, OrderWhole, CancellableFrom
  <2>2. \A p \in Products : order[t].qty[p] \in Int
    BY <1>2 DEF Orders, Baskets
  <2> QED BY <1>1, <2>1, <2>2 DEF StoreOf, Delta, Nothing
<1> HIDE DEF t
<1>5. stock' = [i \in Items |->
          IF i[1] = form[t].store THEN stock[i] + order[t].qty[i[2]] ELSE stock[i]]
  BY <1>3, <1>4
<1>6. Book!Correct(t)
  BY <1>1, <1>2, <1>5, SameStates DEF Book!Correct
<1> QED BY <1>2, <1>6

\* What other people do to one row at a time is a step of OrderBook too.
LEMMA OthersServeTheBook ==
    ASSUME TypeOK, stock' \in [Items -> Nat], cart' \in [Carts -> CartRows], OtherPeople
    PROVE  \/ \E r \in Requests : Book!Progress(r)
           \/ \E i \in Items : Book!Count(i)
           \/ \E b \in Carts : Book!Shop(b)
           \/ UNCHANGED <<stock, cart, order>>
<1>1. ASSUME NEW i \in Items, Adjust(i) \/ Reconcile(i)
      PROVE  Book!Count(i)
  <2>1. PICK balance : stock' = [stock EXCEPT ![i] = balance] /\ UNCHANGED <<cart, order>>
    BY <1>1 DEF Adjust, Reconcile, RecordMovement
  <2>2. stock'[i] = balance /\ stock'[i] \in Nat
    BY <2>1 DEF TypeOK
  <2> QED BY <2>1, <2>2 DEF Book!Count
<1>2. ASSUME NEW o \in Requests, Advance(o)
      PROVE  Book!Progress(o)
  <2>1. PICK rule \in Transitions :
          /\ rule.from = order[o].status /\ rule.to # "CANCELLED_BY_STORE"
          /\ order' = [order EXCEPT ![o].status = rule.to]
    BY <1>2 DEF Advance
  <2>2. rule.to \in Statuses \ {"CANCELLED_BY_STORE"}
    BY <2>1, RuleTypes
  <2> QED BY <1>2, <2>1, <2>2, SameStates DEF Book!Progress, Advance
<1>3. ASSUME NEW b \in Carts, EditCart(b) \/ RebuildCart(b)
      PROVE  Book!Shop(b)
  <2>1. cart[b] \in CartRows /\ cart'[b] \in CartRows /\ cart \in [Carts -> CartRows]
    BY DEF TypeOK
  <2>2. /\ cart[b].status = "ACTIVE" /\ UNCHANGED <<stock, order>>
        /\ \A a \in Carts : a # b => cart'[a] = cart[a]
        /\ cart'[b].status = cart[b].status
    <3>1. ASSUME EditCart(b)
          PROVE  \A a \in Carts : cart'[a].status = cart[a].status /\ (a # b => cart'[a] = cart[a])
      BY <2>1, <3>1 DEF EditCart, CartRows
    <3>2. ASSUME RebuildCart(b)
          PROVE  \A a \in Carts : cart'[a].status = cart[a].status /\ (a # b => cart'[a] = cart[a])
      BY <2>1, <3>2 DEF RebuildCart, CartRows
    <3> QED BY <1>3, <3>1, <3>2 DEF EditCart, RebuildCart
  <2>3. [[cart[b] EXCEPT !.store = cart'[b].store] EXCEPT !.lines = cart'[b].lines] = cart'[b]
    BY <2>1, <2>2 DEF CartRows
  <2>4. cart' = [cart EXCEPT ![b].store = cart'[b].store, ![b].lines = cart'[b].lines]
    BY <2>1, <2>2, <2>3
  <2>5. cart'[b].store \in Stores /\ cart'[b].lines \in Baskets
    BY <2>1 DEF CartRows
  <2> QED BY <2>2, <2>4, <2>5, SameStates DEF Book!Shop
<1> QED BY <1>1, <1>2, <1>3 DEF OtherPeople, SetListed, UpdateSettings

LEMMA BookStep ==
    TypeOK /\ TypeOK' /\ SlotInv /\ CallsRight /\ OrdersRight /\ [Next]_vars
        => [Book!Next]_Book!bookVars
<1> SUFFICES ASSUME TypeOK, TypeOK', SlotInv, CallsRight, OrdersRight, [Next]_vars
             PROVE  Book!Next \/ UNCHANGED <<stock, cart, order, form>>
  BY DEF Book!bookVars
<1>1. stock' \in [Items -> Nat] /\ cart' \in [Carts -> CartRows]
  BY DEF TypeOK
<1>2. ASSUME NEW c \in Calls, Quiet(c) \/ Ends(c) \/ MovesNext(c)
      PROVE  UNCHANGED <<stock, cart, order, form>>
  BY <1>2 DEF Quiet, Ends, MovesNext, ApplyMovement, rows, inputs
<1>3. ASSUME NEW r \in Requests, LockCart(r) \/ Revalidate(r)
      PROVE  UNCHANGED <<stock, cart, order, form>>
  BY <1>3 DEF LockCart, Revalidate, rows, inputs
<1>4. ASSUME NEW k \in Corrections, LockOrder(k)
      PROVE  UNCHANGED <<stock, cart, order, form>>
  BY <1>4 DEF LockOrder, rows, inputs
<1>5. CASE Crash \/ UNCHANGED vars
  BY <1>5 DEF Crash, vars, rows, inputs
<1>6. ASSUME NEW r \in Requests, CommitOrder(r)
      PROVE  Book!Next
  <2>1. Book!Place(r) /\ form' = form
    BY <1>6, CommitPlaces DEF CommitOrder, inputs
  <2> QED BY <2>1 DEF Book!Next
<1>7. ASSUME NEW k \in Corrections, CommitCorrection(k)
      PROVE  Book!Next
  <2>1. (\E o \in Requests : Book!Correct(o)) /\ form' = form
    BY <1>7, CommitCorrects DEF CommitCorrection, inputs
  <2> QED BY <2>1 DEF Book!Next
<1>8. CASE OtherPeople
  <2>1. form' = form
    BY <1>8 DEF OtherPeople, inputs
  <2> QED BY <1>1, <1>8, <2>1, OthersServeTheBook, SameStates DEF Book!Next
<1> QED BY <1>2, <1>3, <1>4, <1>5, <1>6, <1>7, <1>8, StepKinds

\* Placing and correcting are atomic: seen through the committed rows, every
\* interleaving of transactions is a history of OrderBook, in which an order
\* is one step (checkout/service.ts placeOrder, orders/service.ts correctOrder).
THEOREM OrdersImplementTheBook == Spec => OrdersAreAtomic
<1>1. Init => TypeOK /\ TriesLeft /\ SlotInv /\ CallsRight /\ OrdersRight /\ Book!Init
  BY TypeInit, SlotInit, CallsStart, BookOpens
<1>2. TypeOK /\ TriesLeft /\ SlotInv /\ CallsRight /\ OrdersRight /\ [Next]_vars
        => /\ (TypeOK /\ TriesLeft /\ SlotInv /\ CallsRight /\ OrdersRight)'
           /\ [Book!Next]_Book!bookVars
  BY TypeStep, TriesStep, SlotStep, CallsStep, BookStep
<1> QED BY <1>1, <1>2, PTL DEF Spec, OrdersAreAtomic, Book!Spec
=============================================================================
