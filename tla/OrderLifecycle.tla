---------------------------- MODULE OrderLifecycle ----------------------------
(***************************************************************************)
(* One order after checkout (orders/service.ts, orders/repo.ts): staff     *)
(* move it along the table of OrderStates, a manager corrects it or        *)
(* records that the customer agreed to a revised amount.  Every call locks *)
(* the order's row, decides on what it reads there, writes, commits and    *)
(* only then tells the event bus.                                          *)
(*                                                                         *)
(* The picking and the billing of the order are a later phase of the       *)
(* program: what they leave in the row, a short pick that was given back   *)
(* and a bill over tolerance, is external here.                            *)
(***************************************************************************)
EXTENDS OrderStates, Naturals, Sequences, FiniteSets

CONSTANTS
    Lines,        \* lines of the order
    Ordered,      \* qtyOrdered of each line
    Calls,        \* staff requests being served
    Free,         \* the holder of the row lock when nobody holds it
    MaxAttempts   \* bound on delivery attempts

ASSUME LifecycleConstants ==
    /\ Ordered \in [Lines -> Nat \ {0}]
    /\ MaxAttempts \in Nat \ {0}
    /\ Free \notin Calls

VARIABLES
    status,      \* Order.status
    stamps,      \* acceptedAt ... correctedAt: the arrival that set each, 0 for none
    history,     \* OrderStatusHistory
    flagged,     \* priceVarianceFlagged
    confirmed,   \* customerConfirmedRevisedAmount
    voided,      \* does correctionReason say how the POS bill was voided?
    restored,    \* stockRestoredQty of each line
    returned,    \* units of each line that ledger rows put back on the shelf
    orderLock,   \* row lock of the order
    pc, job,     \* where each request is and what it asks
    row,         \* status, flag and confirmation a request read under the lock
    owed,        \* units of each line a correction found outstanding
    heard        \* arrivals the bus heard of

order    == <<status, stamps, history, flagged, confirmed, voided, restored, returned>>
requests == <<orderLock, pc, job, row, owed>>
vars     == <<status, stamps, history, flagged, confirmed, voided, restored, returned,
              orderLock, pc, job, row, owed, heard>>

-----------------------------------------------------------------------------
(* Requests *)

\* applyTransition refuses the correction as an edge of its own.
Jobs ==
    [kind : {"transition"}, to : Statuses \ {"CANCELLED_BY_STORE"}]
        \cup [kind : {"correct"}, note : BOOLEAN]
        \cup [kind : {"confirm"}]

NoJob == [kind |-> "none"]

Rows == [status : Statuses, flagged : BOOLEAN, confirmed : BOOLEAN]

NoRow == [status |-> "PLACED", flagged |-> FALSE, confirmed |-> FALSE]

Nothing == [l \in Lines |-> 0]

StampFields == {rule.stamps : rule \in Transitions} \ {"none"}

Attempts == Cardinality({i \in DOMAIN history : history[i].to = "OUT_FOR_DELIVERY"})

\* Where a request takes the order.
Target(c) == IF job[c].kind = "correct" THEN "CANCELLED_BY_STORE" ELSE job[c].to

\* The transaction ends and the request with it.
Leave(c) ==
    /\ orderLock' = IF orderLock = c THEN Free ELSE orderLock
    /\ pc' = [pc EXCEPT ![c] = "idle"]
    /\ job' = [job EXCEPT ![c] = NoJob]
    /\ row' = [row EXCEPT ![c] = NoRow]
    /\ owed' = [owed EXCEPT ![c] = Nothing]

-----------------------------------------------------------------------------
(* Steps of a request *)

\* Bug: the row is read without FOR UPDATE.
RowIsFreeUnlocked == TRUE

\* lockOrder: FOR UPDATE waits for whoever holds the row.
RowIsFree == orderLock = Free

\* repo.lockOrder, with which every staff call begins.
LockOrder(c) ==
    /\ pc[c] = "idle"
    /\ RowIsFree
    /\ orderLock' = c
    /\ \E j \in Jobs : job' = [job EXCEPT ![c] = j]
    /\ row' = [row EXCEPT ![c] =
                  [status |-> status, flagged |-> flagged, confirmed |-> confirmed]]
    /\ pc' = [pc EXCEPT ![c] = "locked"]
    /\ UNCHANGED <<order, owed, heard>>

\* Bug: the edge is checked, its guard is not.
MayMoveUnguarded(c, to) ==
    \E rule \in Transitions : rule.from = row[c].status /\ rule.to = to

\* assertTransition on the row that was read.
MayMove(c, to) ==
    AllowedRules(row[c].status, to, row[c].flagged, row[c].confirmed) # {}

\* Bug: the void of the POS bill is asked for only when the order is packed.
NotesTheVoidOfPacked(c) == row[c].status = "PACKED" => job[c].note

\* requiresDiscrepancyNote
NotesTheVoid(c) == row[c].status \in BilledStates => job[c].note

\* Bug: a line is given back whole, short picks or not.
OutstandingWhole(l) == Ordered[l]

\* qtyOrdered - stockRestoredQty, as listLines reads it.
Outstanding(l) == Ordered[l] - restored[l]

\* What the checks of applyTransition and cancelByStore let pass is decided.
Decide(c) ==
    /\ pc[c] = "locked"
    /\ job[c].kind \in {"transition", "correct"}
    /\ MayMove(c, Target(c))
    /\ job[c].kind = "transition" /\ job[c].to = "OUT_FOR_DELIVERY" => Attempts < MaxAttempts
    /\ job[c].kind = "correct" =>
          /\ row[c].status \in CancellableFrom
          /\ NotesTheVoid(c)
    /\ owed' = [owed EXCEPT ![c] =
                  IF job[c].kind = "correct"
                  THEN [l \in Lines |-> Outstanding(l)] ELSE Nothing]
    /\ pc' = [pc EXCEPT ![c] = "decided"]
    /\ UNCHANGED <<order, orderLock, job, row, heard>>

\* setStatus and insertStatusHistory: the arrival stamps its column, if the schema
\* keeps one, and is the next entry of the history.
Arrive(from, to) ==
    /\ status' = to
    /\ history' = Append(history, [from |-> from, to |-> to])
    /\ \E rule \in Transitions :
          /\ rule.from = from /\ rule.to = to
          /\ stamps' = [f \in StampFields |->
                IF f = rule.stamps THEN Len(history) + 1 ELSE stamps[f]]

\* applyTransition commits.
CommitTransition(c) ==
    /\ pc[c] = "decided"
    /\ job[c].kind = "transition"
    /\ Arrive(row[c].status, job[c].to)
    /\ orderLock' = Free
    /\ pc' = [pc EXCEPT ![c] = "committed"]
    /\ UNCHANGED <<flagged, confirmed, voided, restored, returned, job, row, owed, heard>>

\* applyMovement and addStockRestored for each line with units outstanding.
GiveBack(c) ==
    /\ returned' = [l \in Lines |-> returned[l] + owed[c][l]]
    /\ restored' = [l \in Lines |-> restored[l] + owed[c][l]]

\* correctOrder commits.
CommitCorrection(c) ==
    /\ pc[c] = "decided"
    /\ job[c].kind = "correct"
    /\ Arrive(row[c].status, "CANCELLED_BY_STORE")
    /\ GiveBack(c)
    /\ voided' = job[c].note
    /\ orderLock' = Free
    /\ pc' = [pc EXCEPT ![c] = "committed"]
    /\ UNCHANGED <<flagged, confirmed, job, row, owed, heard>>

\* confirmRevisedAmount: in any status, as long as there is a variance.
ConfirmRevisedAmount(c) ==
    /\ pc[c] = "locked"
    /\ job[c].kind = "confirm"
    /\ row[c].flagged
    /\ confirmed' = TRUE
    /\ Leave(c)
    /\ UNCHANGED <<status, stamps, history, flagged, voided, restored, returned, heard>>

\* Bug: the event goes out from inside the transaction.
OwesAnEventEarly(c) == pc[c] \in {"decided", "committed"}

\* Only a committed call has something to announce.
OwesAnEvent(c) == pc[c] = "committed"

\* announce, or the emit of correctOrder.
Announce(c) ==
    /\ OwesAnEvent(c)
    /\ heard' = heard + 1
    /\ Leave(c)
    /\ UNCHANGED order

\* A refusal, a timeout or a crash: what is not committed is rolled back, an event
\* that was not sent is lost.
Stop(c) ==
    /\ pc[c] # "idle"
    /\ Leave(c)
    /\ UNCHANGED <<order, heard>>

-----------------------------------------------------------------------------
(* The later phase: external *)

\* A line is picked short and what is missing is given back (PICK_SHORT_RESTORE).
ShortPick(l) ==
    /\ orderLock = Free
    /\ status = "PICKING"
    /\ \E n \in 1..(Ordered[l] - restored[l]) :
          /\ restored' = [restored EXCEPT ![l] = @ + n]
          /\ returned' = [returned EXCEPT ![l] = @ + n]
    /\ UNCHANGED <<status, stamps, history, flagged, confirmed, voided, requests, heard>>

\* The total entered from the POS is over tolerance.
FlagVariance ==
    /\ orderLock = Free
    /\ status \in BilledStates
    /\ ~flagged
    /\ flagged' = TRUE
    /\ UNCHANGED <<status, stamps, history, confirmed, voided, restored, returned,
                   requests, heard>>

-----------------------------------------------------------------------------
(* Specification *)

\* createOrder: PLACED is where an order begins, not an edge.
Init ==
    /\ status = "PLACED"
    /\ stamps = [f \in StampFields |-> 0]
    /\ history = <<[from |-> "none", to |-> "PLACED"]>>
    /\ flagged = FALSE
    /\ confirmed = FALSE
    /\ voided = FALSE
    /\ restored = Nothing
    /\ returned = Nothing
    /\ orderLock = Free
    /\ pc = [c \in Calls |-> "idle"]
    /\ job = [c \in Calls |-> NoJob]
    /\ row = [c \in Calls |-> NoRow]
    /\ owed = [c \in Calls |-> Nothing]
    /\ heard = 0

Serve(c) ==
    \/ LockOrder(c) \/ Decide(c)
    \/ CommitTransition(c) \/ CommitCorrection(c) \/ ConfirmRevisedAmount(c)
    \/ Announce(c) \/ Stop(c)

Next ==
    \/ \E c \in Calls : Serve(c)
    \/ \E l \in Lines : ShortPick(l)
    \/ FlagVariance

Spec == Init /\ [][Next]_vars

-----------------------------------------------------------------------------
(* Properties *)

TypeOK ==
    /\ status \in Statuses
    /\ stamps \in [StampFields -> Nat]
    /\ history \in Seq([from : Statuses \cup {"none"}, to : Statuses])
    /\ flagged \in BOOLEAN /\ confirmed \in BOOLEAN /\ voided \in BOOLEAN
    /\ restored \in [Lines -> Nat]
    /\ returned \in [Lines -> Nat]
    /\ orderLock \in Calls \cup {Free}
    /\ pc \in [Calls -> {"idle", "locked", "decided", "committed"}]
    /\ job \in [Calls -> Jobs \cup {NoJob}]
    /\ row \in [Calls -> Rows]
    /\ owed \in [Calls -> [Lines -> Nat]]
    /\ heard \in Nat

\* What a call in its transaction has read is what the row says.
ReadsAreCurrent ==
    \A c \in Calls :
        pc[c] \in {"locked", "decided"} =>
            /\ orderLock = c
            /\ job[c] \in Jobs
            /\ row[c] = [status |-> status, flagged |-> flagged, confirmed |-> confirmed]

\* What a call decided to do is still allowed when it commits.
DecisionsStand ==
    \A c \in Calls :
        pc[c] = "decided" =>
            /\ job[c].kind \in {"transition", "correct"}
            /\ MayMove(c, Target(c))
            /\ job[c].kind = "correct" =>
                  /\ NotesTheVoid(c)
                  /\ owed[c] = [l \in Lines |-> Outstanding(l)]
            /\ job[c].kind = "transition" => Target(c) # "CANCELLED_BY_STORE"

\* The inductive invariant the theorems rest on.
LifecycleInv == TypeOK /\ ReadsAreCurrent /\ DecisionsStand

LastArrival == history[Len(history)]

\* The history is the order's biography: it starts with the placing, every entry
\* leads on from the one before along an edge of the table, it ends where the order
\* is, and each column holds the last arrival that stamps it.  Two calls that
\* decide on the same status would break the chain.
HistoryTellsStatus ==
    /\ history[1] = [from |-> "none", to |-> "PLACED"]
    /\ \A i \in 2..Len(history) :
          /\ history[i].from = history[i - 1].to
          /\ \E rule \in Transitions :
                rule.from = history[i].from /\ rule.to = history[i].to
    /\ LastArrival.to = status
    /\ \A rule \in Transitions :
          LastArrival.to = rule.to /\ LastArrival.from = rule.from /\ rule.stamps # "none"
              => stamps[rule.stamps] = Len(history)

\* The states in which the goods have left the shop.
Dispatched == {"OUT_FOR_DELIVERY", "DELIVERY_FAILED", "DELIVERED", "CLOSED", "CLOSED_UNDELIVERED"}

\* An order over tolerance does not leave the shop before the customer agreed to the
\* amount, whichever of billing, confirming and dispatching comes first.
DispatchIsConfirmed == status \in Dispatched => ~VarianceHolds(flagged, confirmed)

\* A correction never leaves a POS bill standing that nobody wrote up: if a bill
\* existed when the order was cancelled, its void is on record, even if the
\* manager's page still showed the order unbilled.
BillIsVoided ==
    status = "CANCELLED_BY_STORE" /\ LastArrival.from \in BilledStates => voided

\* No unit goes back on the shelf twice, by short picks and a correction together,
\* and a cancelled order has given all of its units back.
GivenBackOnce ==
    \A l \in Lines :
        /\ returned[l] = restored[l]
        /\ returned[l] <= Ordered[l]
        /\ status = "CANCELLED_BY_STORE" => returned[l] = Ordered[l]

\* The bus hears of arrivals that happened, and of each at most once: what was heard
\* and what is about to be announced never outnumber the entries of the history.
HeardIsHistory ==
    heard + Cardinality({c \in Calls : pc[c] = "committed"}) < Len(history)
=============================================================================
