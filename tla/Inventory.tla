------------------------------ MODULE Inventory ------------------------------
(***************************************************************************)
(* Every way one shop's website stock moves, side by side: staff adjust,   *)
(* staff counts, CSV imports and the stock part of an order or a store     *)
(* correction (inventory/service.ts, inventory/import-service.ts).         *)
(*                                                                         *)
(* A call is given rows: products to move by an amount (`delta') or to a   *)
(* counted quantity (`set').  Its transaction locks the rows in product    *)
(* order, reads each balance under its lock, and commits the balances, the *)
(* ledger rows and, for an import, the history entry together.  An import  *)
(* first plans outside any transaction, on balances that may be stale by   *)
(* the time it locks them, or records that it was rejected.  Shops share   *)
(* no row, so there is one shop.                                           *)
(***************************************************************************)
EXTENDS Integers, FiniteSets, Sequences

CONSTANTS
    NumProducts,   \* products 1..NumProducts, in locking order
    Calls,         \* service calls
    Free,          \* the holder of a row lock nobody holds
    OpeningStock,  \* balance of each item when observation starts
    MaxAmount,     \* largest quantity a row carries
    MaxCrashes     \* bound on restarts of the server

Products == 1 .. NumProducts

ASSUME InventoryConstants ==
    /\ NumProducts \in Nat /\ MaxAmount \in Nat /\ MaxCrashes \in Nat
    /\ OpeningStock \in [Products -> Nat]
    /\ Free \notin Calls
    /\ IsFiniteSet(Calls)

VARIABLES
    stock,      \* InventoryItem.websiteStock
    ledger,     \* StockLedger, per product, oldest first
    runs,       \* InventoryImport: the recorded import runs
    rowLock,    \* who holds the row lock of an item
    job,        \* what each call was asked to do (never changes)
    pc,         \* where each call is
    plan,       \* an import's planned deltas
    locked,     \* the balance a call read under the lock of a row it holds
    held,       \* rows a call holds
    changed,    \* stock.changed events emitted: <<call, product>>
    crashes

vars == <<stock, ledger, runs, rowLock, job, pc, plan, locked, held, changed, crashes>>

-----------------------------------------------------------------------------
(* Rows and jobs *)

Amounts == -MaxAmount .. MaxAmount

Row(mode, n) == [mode |-> mode, n |-> n]
NoRow        == Row("none", 0)
Deltas       == {Row("delta", n) : n \in Amounts}
Counts       == {Row("set", n) : n \in 0 .. MaxAmount}
Rows         == Deltas \cup Counts \cup {NoRow}

\* adjustStock and reconcileStock name one product; a file or an order several.
OneRow(choices) ==
    {rows \in [Products -> choices \cup {NoRow}] :
        \E p \in Products : {q \in Products : rows[q] # NoRow} = {p}}

SomeRows(choices) ==
    {rows \in [Products -> choices \cup {NoRow}] : \E p \in Products : rows[p] # NoRow}

Jobs ==
    [kind : {"adjust"}, rows : OneRow(Deltas)]
        \cup [kind : {"reconcile"}, rows : OneRow(Counts)]
        \cup [kind : {"import"}, rows : SomeRows(Deltas \cup Counts)]
        \cup [kind : {"order"}, rows : SomeRows(Deltas \ {Row("delta", 0)})]

Named(c) == {p \in Products : job[c].rows[p] # NoRow}

\* reconcileDelta, nextBalance: where a row takes a balance.
TargetFrom(c, p, balance) ==
    LET row == job[c].rows[p]
    IN  IF row.mode = "set" THEN row.n ELSE balance + row.n

\* Bug: the apply phase trusts the deltas of the plan.
TargetFromPlan(c, p) == IF job[c].kind = "import" THEN locked[c][p] + plan[c][p]
                        ELSE TargetFrom(c, p, locked[c][p])

\* The balance a call writes, from the balance it read under the lock.
Target(c, p) == TargetFrom(c, p, locked[c][p])

Moves(c) == {p \in Named(c) : Target(c, p) # locked[c][p]}

Reason(c) ==
    CASE job[c].kind = "adjust"    -> "MANUAL_ADJUST"
      [] job[c].kind = "reconcile" -> "RECONCILE"
      [] job[c].kind = "import"    -> "CSV_IMPORT"
      [] job[c].kind = "order"     -> "ORDER"

\* Bug: rows are locked in the order of the file, not of the products.
InFileOrder(c, p) == p \in Named(c) \ held[c]

\* The rows still to lock, and the one the sort puts first.
IsNext(c, p) == p \in Named(c) \ held[c] /\ \A q \in Named(c) \ held[c] : p <= q

\* Bug: the balance may go below zero.
RefusedZeroOnly(c, p) == job[c].kind = "adjust" /\ Target(c, p) = locked[c][p]

\* nextBalance refuses a negative balance; adjusting by zero is refused too.
Refused(c, p) ==
    \/ Target(c, p) < 0
    \/ job[c].kind = "adjust" /\ Target(c, p) = locked[c][p]

-----------------------------------------------------------------------------
(* Steps of a call *)

ReleaseRows(c) ==
    /\ rowLock' = [p \in Products |-> IF rowLock[p] = c THEN Free ELSE rowLock[p]]
    /\ held' = [held EXCEPT ![c] = {}]

Begin(c) ==
    /\ pc[c] = "idle"
    /\ job[c].kind # "import"
    /\ pc' = [pc EXCEPT ![c] = "locking"]
    /\ UNCHANGED <<stock, ledger, runs, rowLock, job, plan, locked, held, changed, crashes>>

\* planStockImport: one snapshot of the balances, no lock.
Plannable(c) == \A p \in Named(c) : TargetFrom(c, p, stock[p]) >= 0

PlanImport(c) ==
    /\ pc[c] = "idle"
    /\ job[c].kind = "import"
    /\ Plannable(c)
    /\ plan' = [plan EXCEPT ![c] = [p \in Products |->
          IF p \in Named(c) THEN TargetFrom(c, p, stock[p]) - stock[p] ELSE 0]]
    /\ pc' = [pc EXCEPT ![c] = "locking"]
    /\ UNCHANGED <<stock, ledger, runs, rowLock, job, locked, held, changed, crashes>>

\* One row below zero on that snapshot rejects the whole file ...
RejectFile(c) ==
    /\ pc[c] = "idle"
    /\ job[c].kind = "import"
    /\ ~Plannable(c)
    /\ pc' = [pc EXCEPT ![c] = "rejecting"]
    /\ UNCHANGED <<stock, ledger, runs, rowLock, job, plan, locked, held, changed, crashes>>

\* Bug: the file is looked at again when it is recorded, and called applied when
\* it would fit by then.
RecordReplanned(c) ==
    /\ pc[c] = "rejecting"
    /\ runs' = runs \cup {[call |-> c, applied |-> 0,
                           outcome |-> IF Plannable(c) THEN "applied" ELSE "rejected"]}
    /\ pc' = [pc EXCEPT ![c] = "refused"]
    /\ UNCHANGED <<stock, ledger, rowLock, job, plan, locked, held, changed, crashes>>

\* ... and an insert of its own records the attempt.  By then the balances may
\* have moved so that every row would fit: nothing is looked at again.
RecordRejection(c) ==
    /\ pc[c] = "rejecting"
    /\ runs' = runs \cup {[call |-> c, outcome |-> "rejected", applied |-> 0]}
    /\ pc' = [pc EXCEPT ![c] = "refused"]
    /\ UNCHANGED <<stock, ledger, rowLock, job, plan, locked, held, changed, crashes>>

\* Bug: the balance is read without waiting for the row.
LockRowDirty(c, p) ==
    /\ pc[c] = "locking"
    /\ IsNext(c, p)
    /\ job[c].kind # "import" => \A q \in held[c] : ~Refused(c, q)
    /\ rowLock' = [rowLock EXCEPT ![p] = c]
    /\ locked' = [locked EXCEPT ![c][p] = stock[p]]
    /\ held' = [held EXCEPT ![c] = @ \cup {p}]
    /\ UNCHANGED <<stock, ledger, runs, job, pc, plan, changed, crashes>>

\* lockItem.  An import decides nothing until it holds every row; the others
\* judge each row as they reach it.
LockRow(c, p) ==
    /\ pc[c] = "locking"
    /\ IsNext(c, p)
    /\ rowLock[p] = Free
    /\ job[c].kind # "import" => \A q \in held[c] : ~Refused(c, q)
    /\ rowLock' = [rowLock EXCEPT ![p] = c]
    /\ locked' = [locked EXCEPT ![c][p] = stock[p]]
    /\ held' = [held EXCEPT ![c] = @ \cup {p}]
    /\ UNCHANGED <<stock, ledger, runs, job, pc, plan, changed, crashes>>

\* A throw inside the transaction takes everything back, an import's history
\* row included.
Refuse(c) ==
    /\ pc[c] = "locking"
    /\ job[c].kind = "import" => held[c] = Named(c)
    /\ \E p \in held[c] : Refused(c, p)
    /\ ReleaseRows(c)
    /\ pc' = [pc EXCEPT ![c] = "refused"]
    /\ UNCHANGED <<stock, ledger, runs, job, plan, locked, changed, crashes>>

\* Rows applied by a run, as its history entry will say.
AppliedRows(c) == Cardinality(Moves(c))

\* Bug: the history entry counts the rows of the plan.
PlannedRows(c) == Cardinality({p \in Named(c) : plan[c][p] # 0})

\* What the history entry of a run records.
AppliedCount(c) == AppliedRows(c)

Commit(c) ==
    /\ pc[c] = "locking"
    /\ held[c] = Named(c)
    /\ \A p \in Named(c) : ~Refused(c, p)
    /\ stock' = [p \in Products |-> IF p \in Moves(c) THEN Target(c, p) ELSE stock[p]]
    /\ ledger' = [p \in Products |->
          IF p \in Moves(c)
          THEN Append(ledger[p], [delta |-> Target(c, p) - locked[c][p],
                                  balanceAfter |-> Target(c, p),
                                  reason |-> Reason(c), ref |-> c])
          ELSE ledger[p]]
    /\ runs' = IF job[c].kind = "import"
               THEN runs \cup {[call |-> c, outcome |-> "applied", applied |-> AppliedCount(c)]}
               ELSE runs
    /\ ReleaseRows(c)
    /\ pc' = [pc EXCEPT ![c] = "committed"]
    /\ UNCHANGED <<job, plan, locked, changed, crashes>>

\* Bug: the events go out before the commit.
AnnounceEarly(c) ==
    /\ \/ pc[c] = "committed"
       \/ /\ pc[c] = "locking"
          /\ held[c] = Named(c)
    /\ changed' = IF job[c].kind = "order" THEN changed
                  ELSE changed \cup {<<c, p>> : p \in Moves(c)}
    /\ pc' = [pc EXCEPT ![c] = IF pc[c] = "committed" THEN "done" ELSE "locking"]
    /\ UNCHANGED <<stock, ledger, runs, rowLock, job, plan, locked, held, crashes>>

\* announceMovement, once per movement, after the commit.  placeOrder and
\* correctOrder announce their order, never the movements.
Announce(c) ==
    /\ pc[c] = "committed"
    /\ changed' = IF job[c].kind = "order" THEN changed
                  ELSE changed \cup {<<c, p>> : p \in Moves(c)}
    /\ pc' = [pc EXCEPT ![c] = "done"]
    /\ UNCHANGED <<stock, ledger, runs, rowLock, job, plan, locked, held, crashes>>

\* The transaction, or the insert of a rejected run, times out or loses its
\* connection.
Abort(c) ==
    /\ pc[c] \in {"locking", "rejecting"}
    /\ ReleaseRows(c)
    /\ pc' = [pc EXCEPT ![c] = "lost"]
    /\ UNCHANGED <<stock, ledger, runs, job, plan, locked, changed, crashes>>

\* The server dies: open transactions roll back and pending events are lost.
Crash ==
    /\ crashes < MaxCrashes
    /\ crashes' = crashes + 1
    /\ pc' = [c \in Calls |->
          IF pc[c] \in {"locking", "rejecting", "committed"} THEN "lost" ELSE pc[c]]
    /\ rowLock' = [p \in Products |-> Free]
    /\ held' = [c \in Calls |-> {}]
    /\ UNCHANGED <<stock, ledger, runs, job, plan, locked, changed>>

-----------------------------------------------------------------------------
(* Specification *)

Init ==
    /\ stock = OpeningStock
    /\ ledger = [p \in Products |-> << >>]
    /\ runs = {}
    /\ rowLock = [p \in Products |-> Free]
    /\ job \in [Calls -> Jobs]
    /\ pc = [c \in Calls |-> "idle"]
    /\ plan = [c \in Calls |-> [p \in Products |-> 0]]
    /\ locked = [c \in Calls |-> [p \in Products |-> 0]]
    /\ held = [c \in Calls |-> {}]
    /\ changed = {}
    /\ crashes = 0

Step(c) ==
    \/ Begin(c) \/ PlanImport(c) \/ RejectFile(c) \/ RecordRejection(c)
    \/ \E p \in Products : LockRow(c, p)
    \/ Refuse(c) \/ Commit(c) \/ Announce(c)

Next == (\E c \in Calls : Step(c) \/ Abort(c)) \/ Crash

Spec == Init /\ [][Next]_vars

\* The server executes the statements of a call it has started.
FairSpec == Spec /\ \A c \in Calls : WF_vars(pc[c] # "idle" /\ Step(c))

-----------------------------------------------------------------------------
(* Properties *)

Entries == [delta : Int, balanceAfter : Nat,
            reason : {"MANUAL_ADJUST", "RECONCILE", "CSV_IMPORT", "ORDER"}, ref : Calls]

Places == {"idle", "locking", "rejecting", "committed", "done", "refused", "lost"}

InventoryTypeOK ==
    /\ stock \in [Products -> Nat]
    /\ ledger \in [Products -> Seq(Entries)]
    /\ runs \subseteq [call : Calls, outcome : {"applied", "rejected"}, applied : 0 .. NumProducts]
    /\ rowLock \in [Products -> Calls \cup {Free}]
    /\ job \in [Calls -> Jobs]
    /\ pc \in [Calls -> Places]
    /\ plan \in [Calls -> [Products -> Int]]
    /\ locked \in [Calls -> [Products -> Nat]]
    /\ held \in [Calls -> SUBSET Products]
    /\ changed \subseteq Calls \X Products
    /\ crashes \in 0 .. MaxCrashes

\* The balance after the n-th of an item's ledger rows.
BalanceAt(opening, rows, n) == IF n = 0 THEN opening ELSE rows[n].balanceAfter

Explains(opening, rows, balance) ==
    /\ balance = BalanceAt(opening, rows, Len(rows))
    /\ \A n \in 1 .. Len(rows) :
          BalanceAt(opening, rows, n) = BalanceAt(opening, rows, n - 1) + rows[n].delta

\* Each ledger row's balance is the one before it plus its delta, and the last is
\* the balance of the item: stock never moves without a ledger row and no two
\* movements of one item are computed from the same balance (applyMovement).
LedgerExplainsStock == \A p \in Products : Explains(OpeningStock[p], ledger[p], stock[p])

\* A call that sets a quantity leaves exactly that quantity behind when it
\* commits, however much the balance moved since it was planned (the stale-delta
\* import that ended at 120 while reporting 110, import-service.ts).
CountsLand ==
    [][\A c \in Calls :
          pc[c] = "locking" /\ pc'[c] = "committed" =>
              \A p \in Products :
                  job[c].rows[p].mode = "set" => stock'[p] = job[c].rows[p].n]_vars

LedgerOf(c) == {p \in Products : \E n \in 1 .. Len(ledger[p]) : ledger[p][n].ref = c}

\* Everyone is told what the ledger says.  An applied import counts exactly the
\* items its ledger rows moved, a rejected one moved none, and a run that moved
\* anything has an entry; subscribers hear of a staff movement if it was
\* committed, and only then.
ToldWhatLanded ==
    /\ \A run \in runs : run.applied = Cardinality(LedgerOf(run.call))
    /\ \A c \in Calls :
          job[c].kind = "import" /\ LedgerOf(c) # {} => \E run \in runs : run.call = c
    /\ \A c \in Calls, p \in Products : <<c, p>> \in changed => p \in LedgerOf(c)
    /\ \A c \in Calls : pc[c] = "done" /\ job[c].kind # "order" =>
          \A p \in LedgerOf(c) : <<c, p>> \in changed

\* Whatever the interleaving, every commit is one indivisible step of StockBook: it
\* moves what its call asked for from the balances of that moment, all of it or
\* nothing, and no call twice; a file recorded as rejected did not fit when it was
\* planned and moves nothing, then or later (applyMovement, runStockImport).
Rejecting == {c \in Calls : pc[c] = "rejecting"}

Book == INSTANCE StockBook
        WITH stock <- stock, ledger <- ledger, runs <- runs, job <- job, unfit <- Rejecting
CallsAreAtomic == Book!Spec

\* Every call that has begun ends.
EveryCallEnds ==
    \A c \in Calls :
        pc[c] \in {"locking", "rejecting"} ~> pc[c] \in {"done", "refused", "lost"}
=============================================================================
