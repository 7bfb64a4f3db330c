--------------------------- MODULE InventoryProofs ---------------------------
(***************************************************************************)
(* Proofs about Inventory for every number of products and calls, every    *)
(* opening balance and every quantity.                                     *)
(***************************************************************************)
EXTENDS Inventory, FiniteSetTheorems, TLAPS

-----------------------------------------------------------------------------
(* The inductive invariant *)

\* A row a call has locked is its own, and still has the balance it read.
HeldRowsAreOwn ==
    \A c \in Calls : \A p \in held[c] : rowLock[p] = c /\ locked[c][p] = stock[p]

BooksInv == InventoryTypeOK /\ HeldRowsAreOwn /\ LedgerExplainsStock

-----------------------------------------------------------------------------
(* What the operators return *)

LEMMA RowTypes ==
    ASSUME InventoryTypeOK, NEW c \in Calls, NEW p \in Products
    PROVE  /\ job[c].kind \in {"adjust", "reconcile", "import", "order"}
           /\ job[c].rows[p] \in Rows
<1> DEFINE Orders == Deltas \ {Row("delta", 0)}
<1>1. job[c] \in Jobs
  BY DEF InventoryTypeOK
<1>2. ASSUME NEW choices, choices \subseteq Rows,
             job[c].rows \in OneRow(choices) \/ job[c].rows \in SomeRows(choices)
      PROVE  job[c].rows[p] \in Rows
  BY <1>2 DEF OneRow, SomeRows, Rows
<1>3. Deltas \subseteq Rows /\ Counts \subseteq Rows /\ Orders \subseteq Rows
  BY DEF Rows
<1> HIDE DEF Orders
<1>4. \/ job[c].kind = "adjust" /\ job[c].rows \in OneRow(Deltas)
      \/ job[c].kind = "reconcile" /\ job[c].rows \in OneRow(Counts)
      \/ job[c].kind = "import" /\ job[c].rows \in SomeRows(Deltas \cup Counts)
      \/ job[c].kind = "order" /\ job[c].rows \in SomeRows(Orders)
  BY <1>1 DEF Jobs, Orders
<1> QED BY <1>2, <1>3, <1>4

\* A row takes a balance to a whole number, a count to the counted quantity.
LEMMA TargetTypes ==
    ASSUME InventoryTypeOK, NEW c \in Calls, NEW p \in Products, NEW balance \in Int
    PROVE  /\ TargetFrom(c, p, balance) \in Int
           /\ job[c].rows[p].mode = "set" => TargetFrom(c, p, balance) = job[c].rows[p].n
<1>1. job[c].rows[p].n \in Int
  <2>1. Amounts \subseteq Int /\ 0 .. MaxAmount \subseteq Int
    BY InventoryConstants DEF Amounts
  <2> QED BY <2>1, RowTypes DEF Rows, Deltas, Counts, NoRow, Row
<1> QED BY <1>1 DEF TargetFrom

\* What a call may commit is a balance: never below zero.
LEMMA CommitTargets ==
    ASSUME InventoryTypeOK, NEW c \in Calls, Commit(c), NEW p \in Named(c)
    PROVE  Target(c, p) \in Nat
<1>1. p \in Products /\ locked[c][p] \in Int
  BY DEF Named, InventoryTypeOK
<1>2. Target(c, p) \in Int
  BY <1>1, TargetTypes DEF Target
<1> QED BY <1>2 DEF Commit, Refused

\* A run never applies more rows than there are products.
LEMMA AppliedBound ==
    ASSUME NEW c \in Calls
    PROVE  AppliedCount(c) \in 0 .. NumProducts
<1>1. IsFiniteSet(Products) /\ Cardinality(Products) = NumProducts
  BY FS_Interval, InventoryConstants DEF Products
<1>2. Moves(c) \subseteq Products
  BY DEF Moves, Named
<1>3. IsFiniteSet(Moves(c)) /\ Cardinality(Moves(c)) <= NumProducts
  BY <1>1, <1>2, FS_Subset
<1>4. Cardinality(Moves(c)) \in Nat
  BY <1>3, FS_CardinalityType
<1> QED BY <1>3, <1>4, InventoryConstants DEF AppliedCount, AppliedRows

\* The ledger row a commit writes.
Written(c, p) == [delta |-> Target(c, p) - locked[c][p], balanceAfter |-> Target(c, p),
                  reason |-> Reason(c), ref |-> c]

LEMMA WrittenType ==
    ASSUME InventoryTypeOK, NEW c \in Calls, Commit(c), NEW p \in Moves(c)
    PROVE  Written(c, p) \in Entries
<1>1. p \in Named(c) /\ p \in Products
  BY DEF Moves, Named
<1>2. Target(c, p) \in Nat /\ locked[c][p] \in Nat
  BY <1>1, CommitTargets DEF InventoryTypeOK
<1>3. Reason(c) \in {"MANUAL_ADJUST", "RECONCILE", "CSV_IMPORT", "ORDER"}
  BY RowTypes, <1>1 DEF Reason
<1> QED BY <1>2, <1>3 DEF Written, Entries

\* What a commit does to one product's balance and ledger.
LEMMA CommitEffect ==
    ASSUME NEW c \in Calls, Commit(c), NEW p \in Products
    PROVE  /\ stock'[p] = IF p \in Moves(c) THEN Target(c, p) ELSE stock[p]
           /\ ledger'[p] = IF p \in Moves(c) THEN Append(ledger[p], Written(c, p)) ELSE ledger[p]
BY DEF Commit, Written

-----------------------------------------------------------------------------
(* Types *)

LEMMA ReleaseTypes ==
    ASSUME InventoryTypeOK, NEW c \in Calls, ReleaseRows(c)
    PROVE  /\ rowLock' \in [Products -> Calls \cup {Free}]
           /\ held' \in [Calls -> SUBSET Products]
BY DEF InventoryTypeOK, ReleaseRows

LEMMA CommitTypes ==
    ASSUME InventoryTypeOK, NEW c \in Calls, Commit(c)
    PROVE  InventoryTypeOK'
<1>1. stock' \in [Products -> Nat]
  <2>1. stock' = [p \in Products |-> IF p \in Moves(c) THEN Target(c, p) ELSE stock[p]]
    BY DEF Commit
  <2>2. \A p \in Moves(c) : Target(c, p) \in Nat
    BY CommitTargets DEF Moves
  <2> QED BY <2>1, <2>2 DEF InventoryTypeOK
<1>2. ledger' \in [Products -> Seq(Entries)]
  <2>1. ledger' = [p \in Products |->
                     IF p \in Moves(c) THEN Append(ledger[p], Written(c, p)) ELSE ledger[p]]
    BY DEF Commit, Written
  <2>2. ASSUME NEW p \in Products, p \in Moves(c)
        PROVE  Append(ledger[p], Written(c, p)) \in Seq(Entries)
    <3>1. ledger[p] \in Seq(Entries) /\ Written(c, p) \in Entries
      BY <2>2, WrittenType DEF InventoryTypeOK
    <3> QED BY <3>1
  <2> QED BY <2>1, <2>2 DEF InventoryTypeOK
<1>3. runs' \subseteq [call : Calls, outcome : {"applied", "rejected"}, applied : 0 .. NumProducts]
  BY AppliedBound DEF Commit, InventoryTypeOK
<1>4. UNCHANGED <<job, plan, locked, changed, crashes>>
  BY DEF Commit
<1>5. pc' \in [Calls -> Places]
  BY DEF Commit, Places, InventoryTypeOK
<1> QED BY <1>1, <1>2, <1>3, <1>4, <1>5, ReleaseTypes DEF Commit, InventoryTypeOK

LEMMA TypeInit == Init => InventoryTypeOK
BY InventoryConstants DEF Init, Places, InventoryTypeOK

LEMMA TypeStep == InventoryTypeOK /\ [Next]_vars => InventoryTypeOK'
<1> SUFFICES ASSUME InventoryTypeOK, [Next]_vars
             PROVE  InventoryTypeOK'
  OBVIOUS
<1>1. ASSUME NEW c \in Calls, Begin(c)
      PROVE  InventoryTypeOK'
  BY <1>1 DEF Begin, Places, InventoryTypeOK
<1>2. ASSUME NEW c \in Calls, PlanImport(c)
      PROVE  InventoryTypeOK'
  <2>1. ASSUME NEW p \in Products
        PROVE  TargetFrom(c, p, stock[p]) - stock[p] \in Int
    <3>1. stock[p] \in Int
      BY DEF InventoryTypeOK
    <3> QED BY <3>1, TargetTypes
  <2>2. [p \in Products |-> IF p \in Named(c) THEN TargetFrom(c, p, stock[p]) - stock[p] ELSE 0]
          \in [Products -> Int]
    BY <2>1
  <2> QED BY <1>2, <2>2 DEF PlanImport, Places, InventoryTypeOK
<1>3. ASSUME NEW c \in Calls, RejectFile(c) \/ RecordRejection(c)
      PROVE  InventoryTypeOK'
  <2>1. CASE RejectFile(c)
    BY <2>1 DEF RejectFile, Places, InventoryTypeOK
  <2>2. CASE RecordRejection(c)
    <3>1. [call |-> c, outcome |-> "rejected", applied |-> 0]
            \in [call : Calls, outcome : {"applied", "rejected"}, applied : 0 .. NumProducts]
      BY InventoryConstants
    <3> QED BY <2>2, <3>1 DEF RecordRejection, Places, InventoryTypeOK
  <2> QED BY <1>3, <2>1, <2>2
<1>4. ASSUME NEW c \in Calls, NEW p \in Products, LockRow(c, p)
      PROVE  InventoryTypeOK'
  BY <1>4 DEF LockRow, InventoryTypeOK
<1>5. ASSUME NEW c \in Calls, Refuse(c) \/ Abort(c)
      PROVE  InventoryTypeOK'
  BY <1>5, ReleaseTypes DEF Refuse, Abort, Places, InventoryTypeOK
<1>6. ASSUME NEW c \in Calls, Announce(c)
      PROVE  InventoryTypeOK'
  BY <1>6 DEF Announce, Moves, Named, Places, InventoryTypeOK
<1>7. CASE Crash
  BY <1>7, InventoryConstants DEF Crash, Places, InventoryTypeOK
<1>8. CASE UNCHANGED vars
  BY <1>8 DEF vars, InventoryTypeOK
<1> QED BY <1>1, <1>2, <1>3, <1>4, <1>5, <1>6, <1>7, <1>8, CommitTypes DEF Next, Step

\* Every reachable state is well typed: no balance and no ledger balance is ever
\* below zero (nextBalance, import-service.ts:267).
THEOREM InventoryTypeCorrect == Spec => []InventoryTypeOK
BY TypeInit, TypeStep, PTL DEF Spec

-----------------------------------------------------------------------------
(* The ledger explains the balance *)

LEMMA HeldStep ==
    ASSUME InventoryTypeOK, HeldRowsAreOwn, [Next]_vars
    PROVE  HeldRowsAreOwn'
<1>1. ASSUME NEW c \in Calls, \/ Begin(c) \/ PlanImport(c) \/ Announce(c)
                               \/ RejectFile(c) \/ RecordRejection(c)
      PROVE  HeldRowsAreOwn'
  BY <1>1 DEF Begin, PlanImport, RejectFile, RecordRejection, Announce, HeldRowsAreOwn
<1>2. ASSUME NEW c \in Calls, NEW p \in Products, LockRow(c, p)
      PROVE  HeldRowsAreOwn'
  <2> SUFFICES ASSUME NEW d \in Calls, NEW q \in held'[d]
               PROVE  rowLock'[q] = d /\ locked'[d][q] = stock'[q]
    BY DEF HeldRowsAreOwn
  <2>1. CASE d = c /\ q = p
    BY <1>2, <2>1 DEF LockRow, InventoryTypeOK
  <2>2. CASE ~(d = c /\ q = p)
    <3>1. q \in held[d]
      BY <1>2, <2>2 DEF LockRow, InventoryTypeOK
    <3>2. q # p
      BY <1>2, <3>1, <2>2, InventoryConstants DEF LockRow, HeldRowsAreOwn, InventoryTypeOK
    <3>3. q \in Products
      BY <3>1 DEF InventoryTypeOK
    <3> QED BY <1>2, <3>1, <3>2, <3>3 DEF LockRow, HeldRowsAreOwn, InventoryTypeOK
  <2> QED BY <2>1, <2>2
<1>3. ASSUME NEW c \in Calls, ReleaseRows(c), locked' = locked,
             \A p \in Products \ held[c] : stock'[p] = stock[p]
      PROVE  HeldRowsAreOwn'
  <2> SUFFICES ASSUME NEW d \in Calls, NEW q \in held'[d]
               PROVE  rowLock'[q] = d /\ locked'[d][q] = stock'[q]
    BY DEF HeldRowsAreOwn
  <2>1. d # c /\ q \in held[d]
    BY <1>3 DEF ReleaseRows, InventoryTypeOK
  <2>2. rowLock[q] = d /\ q \in Products /\ q \notin held[c]
    BY <2>1 DEF HeldRowsAreOwn, InventoryTypeOK
  <2> QED BY <1>3, <2>1, <2>2 DEF ReleaseRows, HeldRowsAreOwn
<1>4. ASSUME NEW c \in Calls, Refuse(c) \/ Abort(c)
      PROVE  HeldRowsAreOwn'
  BY <1>3, <1>4 DEF Refuse, Abort
<1>5. ASSUME NEW c \in Calls, Commit(c)
      PROVE  HeldRowsAreOwn'
  <2>1. \A p \in Products \ held[c] : stock'[p] = stock[p]
    BY <1>5, CommitEffect DEF Commit, Moves
  <2> QED BY <1>3, <1>5, <2>1 DEF Commit
<1>6. CASE Crash
  BY <1>6 DEF Crash, HeldRowsAreOwn
<1>7. CASE UNCHANGED vars
  BY <1>7 DEF vars, HeldRowsAreOwn
<1> QED BY <1>1, <1>2, <1>4, <1>5, <1>6, <1>7 DEF Next, Step

\* A row that takes the last balance to its own keeps a ledger an explanation.
LEMMA ExplainsAppend ==
    ASSUME NEW past \in Seq(Entries), NEW balance \in Nat, NEW opening \in Nat,
           Explains(opening, past, balance),
           NEW row \in Entries, row.delta = row.balanceAfter - balance
    PROVE  Explains(opening, Append(past, row), row.balanceAfter)
<1> DEFINE longer == Append(past, row)
           len    == Len(past)
<1>1. /\ len \in Nat /\ Len(longer) = len + 1 /\ longer[len + 1] = row
      /\ \A n \in 1 .. len : longer[n] = past[n]
  OBVIOUS
<1> HIDE DEF longer
<1>2. \A n \in 0 .. len : BalanceAt(opening, longer, n) = BalanceAt(opening, past, n)
  BY <1>1 DEF BalanceAt
<1>3. BalanceAt(opening, longer, len + 1) = row.balanceAfter
  BY <1>1 DEF BalanceAt
<1>4. ASSUME NEW n \in 1 .. len + 1
      PROVE  BalanceAt(opening, longer, n) = BalanceAt(opening, longer, n - 1) + longer[n].delta
  <2>1. CASE n \in 1 .. len
    <3>1. n \in 0 .. len /\ n - 1 \in 0 .. len
      BY <2>1, <1>1
    <3> QED BY <2>1, <3>1, <1>1, <1>2 DEF Explains
  <2>2. CASE n = len + 1
    <3>1. BalanceAt(opening, longer, n - 1) = balance
      BY <2>2, <1>1, <1>2 DEF Explains
    <3>2. row.balanceAfter \in Nat
      BY DEF Entries
    <3> QED BY <2>2, <3>1, <3>2, <1>1, <1>3
  <2> QED BY <1>1, <2>1, <2>2
<1> QED BY <1>1, <1>3, <1>4 DEF Explains, longer

LEMMA LedgerCommit ==
    ASSUME BooksInv, NEW c \in Calls, Commit(c)
    PROVE  LedgerExplainsStock'
<1> SUFFICES ASSUME NEW p \in Products
             PROVE  Explains(OpeningStock[p], ledger'[p], stock'[p])
  BY DEF LedgerExplainsStock
<1>1. /\ ledger[p] \in Seq(Entries) /\ stock[p] \in Nat /\ OpeningStock[p] \in Nat
      /\ Explains(OpeningStock[p], ledger[p], stock[p])
  BY InventoryConstants DEF BooksInv, InventoryTypeOK, LedgerExplainsStock
<1>2. CASE p \notin Moves(c)
  BY <1>1, <1>2, CommitEffect
<1>3. CASE p \in Moves(c)
  <2>1. /\ Written(c, p) \in Entries
        /\ Written(c, p).balanceAfter = Target(c, p)
        /\ Written(c, p).delta = Target(c, p) - locked[c][p]
    BY <1>3, WrittenType DEF Written, BooksInv
  <2>2. locked[c][p] = stock[p]
    BY <1>3 DEF Moves, Commit, BooksInv, HeldRowsAreOwn
  <2>3. Explains(OpeningStock[p], Append(ledger[p], Written(c, p)), Target(c, p))
    BY <1>1, <2>1, <2>2, ExplainsAppend
  <2> QED BY <1>3, <2>3, CommitEffect
<1> QED BY <1>2, <1>3

LEMMA BooksStep == BooksInv /\ [Next]_vars => BooksInv'
<1> SUFFICES ASSUME BooksInv, [Next]_vars
             PROVE  BooksInv'
  OBVIOUS
<1>1. InventoryTypeOK' /\ HeldRowsAreOwn'
  BY TypeStep, HeldStep DEF BooksInv
<1>2. LedgerExplainsStock'
  <2>1. CASE UNCHANGED <<stock, ledger>>
    BY <2>1 DEF BooksInv, LedgerExplainsStock, Explains, BalanceAt
  <2>2. CASE \E c \in Calls : Commit(c)
    BY <2>2, LedgerCommit
  <2>3. ASSUME \A c \in Calls : ~Commit(c)
        PROVE  UNCHANGED <<stock, ledger>>
    BY <2>3 DEF Next, Step, Begin, PlanImport, RejectFile, RecordRejection, LockRow, Refuse,
                Announce, Abort, Crash, vars
  <2> QED BY <2>1, <2>2, <2>3
<1> QED BY <1>1, <1>2 DEF BooksInv

LEMMA BooksInit == Init => BooksInv
<1> SUFFICES ASSUME Init
             PROVE  BooksInv
  OBVIOUS
<1>1. InventoryTypeOK
  BY TypeInit
<1>2. HeldRowsAreOwn
  BY DEF Init, HeldRowsAreOwn
<1>3. \A p \in Products : ledger[p] = << >> /\ stock[p] = OpeningStock[p]
  BY DEF Init
<1>4. LedgerExplainsStock
  BY <1>3 DEF LedgerExplainsStock, Explains, BalanceAt
<1> QED BY <1>1, <1>2, <1>4 DEF BooksInv

\* However many adjusts, counts, imports and orders overlap, each product's ledger
\* is an unbroken chain from the opening balance to the balance on sale.
THEOREM LedgerAlwaysExplains == Spec => []LedgerExplainsStock
<1>1. BooksInv => LedgerExplainsStock
  BY DEF BooksInv
<1> QED BY <1>1, BooksInit, BooksStep, PTL DEF Spec

\* A count or a `set' row commits exactly the quantity it names, however stale the
\* balance it was planned on.
THEOREM CountsAlwaysLand == Spec => CountsLand
<1> DEFINE Lands ==
      \A c \in Calls :
          pc[c] = "locking" /\ pc'[c] = "committed" =>
              \A p \in Products :
                  job[c].rows[p].mode = "set" => stock'[p] = job[c].rows[p].n
<1>1. BooksInv /\ [Next]_vars => Lands
  <2> SUFFICES ASSUME BooksInv, [Next]_vars, NEW c \in Calls,
                      pc[c] = "locking", pc'[c] = "committed",
                      NEW p \in Products, job[c].rows[p].mode = "set"
               PROVE  stock'[p] = job[c].rows[p].n
    OBVIOUS
  <2>1. Commit(c)
    <3>1. ASSUME NEW d \in Calls, Step(d) \/ Abort(d)
          PROVE  Commit(c)
      BY <3>1 DEF BooksInv, InventoryTypeOK, Step, Begin, PlanImport, RejectFile,
                  RecordRejection, LockRow, Refuse, Commit, Announce, Abort
    <3>2. ~Crash /\ ~UNCHANGED vars
      BY DEF Crash, vars
    <3> QED BY <3>1, <3>2 DEF Next
  <2>2. p \in Named(c) /\ p \in held[c]
    BY <2>1 DEF Named, Commit, NoRow, Row
  <2>3. locked[c][p] = stock[p] /\ stock[p] \in Int
    BY <2>2 DEF BooksInv, HeldRowsAreOwn, InventoryTypeOK
  <2>4. Target(c, p) = job[c].rows[p].n
    BY <2>3, TargetTypes DEF Target, BooksInv
  <2> QED BY <2>1, <2>2, <2>3, <2>4, CommitEffect DEF Moves
<1> QED BY <1>1, BooksInit, BooksStep, PTL DEF Spec, CountsLand

-----------------------------------------------------------------------------
(* Everyone is told what landed *)

\* Where a call has neither moved nor recorded anything.
Pending == {"idle", "locking", "rejecting"}

\* A call's ledger rows are its movements, and they land in its commit.
CallsTold ==
    /\ \A c \in Calls : pc[c] \in Pending \cup {"refused"} => LedgerOf(c) = {}
    /\ \A c \in Calls : pc[c] \in {"committed", "done"} => LedgerOf(c) = Moves(c)
    /\ \A run \in runs : pc[run.call] \notin Pending

Told == CallsTold /\ ToldWhatLanded

LEMMA LedgerOfGrows ==
    ASSUME InventoryTypeOK, NEW c \in Calls, Commit(c), NEW d \in Calls
    PROVE  LedgerOf(d)' = IF d = c THEN LedgerOf(c) \cup Moves(c) ELSE LedgerOf(d)
<1>1. Moves(c) \subseteq Products
  BY DEF Moves, Named
<1>2. ASSUME NEW p \in Products
      PROVE  (\E n \in 1 .. Len(ledger'[p]) : ledger'[p][n].ref = d)
               <=> \/ \E n \in 1 .. Len(ledger[p]) : ledger[p][n].ref = d
                   \/ d = c /\ p \in Moves(c)
  <2>1. CASE p \notin Moves(c)
    <3>1. ledger'[p] = ledger[p]
      BY <2>1, CommitEffect
    <3> QED BY <2>1, <3>1
  <2>2. CASE p \in Moves(c)
    <3> DEFINE past == ledger[p]
               row  == Written(c, p)
    <3>1. /\ past \in Seq(Entries) /\ row \in Entries /\ row.ref = c
          /\ ledger'[p] = Append(past, row)
      BY <2>2, WrittenType, CommitEffect DEF InventoryTypeOK, Written
    <3> HIDE DEF past, row
    <3>2. /\ Len(ledger'[p]) = Len(past) + 1 /\ Len(past) \in Nat
          /\ \A n \in 1 .. Len(past) : ledger'[p][n] = past[n]
          /\ ledger'[p][Len(past) + 1] = row
      BY <3>1
    <3>3. \A n : n \in 1 .. Len(past) + 1 <=> n \in 1 .. Len(past) \/ n = Len(past) + 1
      BY <3>2
    <3>4. (\E n \in 1 .. Len(ledger'[p]) : ledger'[p][n].ref = d)
            <=> (\E n \in 1 .. Len(past) : past[n].ref = d) \/ d = c
      BY <3>1, <3>2, <3>3
    <3> QED BY <2>2, <3>4 DEF past
  <2> QED BY <2>1, <2>2
<1> QED BY <1>1, <1>2 DEF LedgerOf

\* What a call moves is settled by what it read, and stays so once it is over.
LEMMA MovesStay ==
    ASSUME NEW d \in Calls, job' = job, locked'[d] = locked[d]
    PROVE  Moves(d)' = Moves(d)
BY DEF Moves, Named, Target, TargetFrom

LEMMA CommitIsTold ==
    ASSUME InventoryTypeOK, Told, NEW c \in Calls, Commit(c)
    PROVE  Told'
<1>1. /\ pc[c] = "locking" /\ LedgerOf(c) = {} /\ \A run \in runs : run.call # c
  BY DEF Commit, Told, CallsTold, Pending
<1>2. \A d \in Calls : LedgerOf(d)' = IF d = c THEN Moves(c) ELSE LedgerOf(d)
  BY <1>1, LedgerOfGrows
<1>3. \A d \in Calls : Moves(d)' = Moves(d)
  BY MovesStay DEF Commit
<1>4. /\ pc'[c] = "committed" /\ \A d \in Calls : d # c => pc'[d] = pc[d]
      /\ job' = job /\ changed' = changed
      /\ runs' = IF job[c].kind = "import"
                 THEN runs \cup {[call |-> c, outcome |-> "applied",
                                  applied |-> Cardinality(Moves(c))]}
                 ELSE runs
  BY DEF Commit, InventoryTypeOK, AppliedCount, AppliedRows
<1>5. \A run \in runs : run.call \in Calls
  BY DEF InventoryTypeOK
<1>6. CallsTold'
  <2>1. \A d \in Calls : pc'[d] \in Pending \cup {"refused"} => LedgerOf(d)' = {}
    BY <1>2, <1>4 DEF Told, CallsTold, Pending
  <2>2. \A d \in Calls : pc'[d] \in {"committed", "done"} => LedgerOf(d)' = Moves(d)'
    BY <1>2, <1>3, <1>4 DEF Told, CallsTold
  <2>3. \A run \in runs' : pc'[run.call] \notin Pending
    BY <1>1, <1>4, <1>5 DEF Told, CallsTold, Pending
  <2> QED BY <2>1, <2>2, <2>3 DEF CallsTold
<1>7. \A run \in runs' : run.applied = Cardinality(LedgerOf(run.call)')
  BY <1>1, <1>2, <1>4, <1>5 DEF Told, ToldWhatLanded
<1>8. \A d \in Calls : job'[d].kind = "import" /\ LedgerOf(d)' # {}
                         => \E run \in runs' : run.call = d
  <2> SUFFICES ASSUME NEW d \in Calls, job[d].kind = "import", LedgerOf(d)' # {}
               PROVE  \E run \in runs' : run.call = d
    BY <1>4
  <2>1. CASE d = c
    <3> DEFINE entry == [call |-> c, outcome |-> "applied", applied |-> Cardinality(Moves(c))]
    <3>1. entry \in runs'
      BY <1>4, <2>1
    <3>2. entry.call = d
      BY <2>1
    <3> QED BY <3>1, <3>2
  <2>2. CASE d # c
    <3>1. \E run \in runs : run.call = d
      BY <1>2, <2>2 DEF Told, ToldWhatLanded
    <3> QED BY <1>4, <3>1
  <2> QED BY <2>1, <2>2
<1>9. \A d \in Calls, p \in Products : <<d, p>> \in changed' => p \in LedgerOf(d)'
  BY <1>1, <1>2, <1>4 DEF Told, ToldWhatLanded
<1>10. \A d \in Calls : pc'[d] = "done" /\ job'[d].kind # "order" =>
          \A p \in LedgerOf(d)' : <<d, p>> \in changed'
  BY <1>2, <1>4 DEF Told, ToldWhatLanded
<1> QED BY <1>6, <1>7, <1>8, <1>9, <1>10 DEF Told, ToldWhatLanded

\* Every other step: no ledger row is written.
LEMMA NothingLands ==
    ASSUME Told, UNCHANGED <<ledger, job, runs>>, changed' = changed,
           \A d \in Calls : pc[d] \in {"committed", "done"} => locked'[d] = locked[d],
           \A d \in Calls :
               /\ pc'[d] \in Pending \cup {"refused"} => pc[d] \in Pending \cup {"refused"}
               /\ pc'[d] \in Pending => pc[d] \in Pending
               /\ pc'[d] \in {"committed", "done"} => pc'[d] = pc[d],
           \A run \in runs : run.call \in Calls
    PROVE  Told'
<1>1. \A d \in Calls : LedgerOf(d)' = LedgerOf(d)
  BY DEF LedgerOf
<1>2. \A d \in Calls : pc'[d] \in {"committed", "done"} => Moves(d)' = Moves(d)
  BY MovesStay
<1>3. CallsTold'
  BY <1>1, <1>2 DEF Told, CallsTold
<1>4. ToldWhatLanded'
  BY <1>1 DEF Told, ToldWhatLanded
<1> QED BY <1>3, <1>4 DEF Told

LEMMA ToldStep == InventoryTypeOK /\ Told /\ [Next]_vars => Told'
<1> SUFFICES ASSUME InventoryTypeOK, Told, [Next]_vars
             PROVE  Told'
  OBVIOUS
<1>1. \A run \in runs : run.call \in Calls
  BY DEF InventoryTypeOK
<1>2. ASSUME NEW c \in Calls, Begin(c) \/ PlanImport(c) \/ RejectFile(c) \/ Refuse(c) \/ Abort(c)
      PROVE  Told'
  <2>1. UNCHANGED <<ledger, job, runs, changed, locked>>
    BY <1>2 DEF Begin, PlanImport, RejectFile, Refuse, Abort
  <2>2. /\ \A d \in Calls : d # c => pc'[d] = pc[d]
        /\ pc[c] \in Pending /\ pc'[c] \in {"locking", "rejecting", "refused", "lost"}
    BY <1>2 DEF Begin, PlanImport, RejectFile, Refuse, Abort, Pending, InventoryTypeOK
  <2> QED BY <1>1, <2>1, <2>2, NothingLands DEF Pending
<1>3. ASSUME NEW c \in Calls, NEW p \in Products, LockRow(c, p)
      PROVE  Told'
  <2>1. UNCHANGED <<ledger, job, runs, changed, pc>> /\ pc[c] = "locking"
    BY <1>3 DEF LockRow
  <2>2. \A d \in Calls : d # c => locked'[d] = locked[d]
    BY <1>3 DEF LockRow, InventoryTypeOK
  <2> QED BY <1>1, <2>1, <2>2, NothingLands
<1>4. ASSUME NEW c \in Calls, RecordRejection(c)
      PROVE  Told'
  <2>1. /\ UNCHANGED <<ledger, job, changed, locked>>
        /\ runs' = runs \cup {[call |-> c, outcome |-> "rejected", applied |-> 0]}
        /\ pc[c] = "rejecting" /\ pc'[c] = "refused"
        /\ \A d \in Calls : d # c => pc'[d] = pc[d]
    BY <1>4 DEF RecordRejection, InventoryTypeOK
  <2>2. \A d \in Calls : LedgerOf(d)' = LedgerOf(d) /\ Moves(d)' = Moves(d)
    BY <2>1, MovesStay DEF LedgerOf
  <2>3. LedgerOf(c) = {}
    BY <2>1 DEF Told, CallsTold, Pending
  <2>4. CallsTold'
    BY <1>1, <2>1, <2>2, <2>3 DEF Told, CallsTold, Pending
  <2>5. \A run \in runs' : run.applied = Cardinality(LedgerOf(run.call)')
    <3>1. ASSUME NEW run \in runs
          PROVE  run.applied = Cardinality(LedgerOf(run.call)')
      BY <1>1, <2>2 DEF Told, ToldWhatLanded
    <3>2. Cardinality(LedgerOf(c)') = 0
      BY <2>2, <2>3, FS_EmptySet
    <3> QED BY <2>1, <3>1, <3>2
  <2>6. ToldWhatLanded'
    BY <2>1, <2>2, <2>5 DEF Told, ToldWhatLanded
  <2> QED BY <2>4, <2>6 DEF Told
<1>5. ASSUME NEW c \in Calls, Announce(c)
      PROVE  Told'
  <2>1. /\ UNCHANGED <<ledger, job, runs, locked>>
        /\ pc[c] = "committed" /\ pc'[c] = "done"
        /\ \A d \in Calls : d # c => pc'[d] = pc[d]
        /\ changed' = IF job[c].kind = "order" THEN changed
                      ELSE changed \cup {<<c, p>> : p \in Moves(c)}
    BY <1>5 DEF Announce, InventoryTypeOK
  <2>2. \A d \in Calls : LedgerOf(d)' = LedgerOf(d) /\ Moves(d)' = Moves(d)
    BY <2>1, MovesStay DEF LedgerOf
  <2>3. LedgerOf(c) = Moves(c)
    BY <2>1 DEF Told, CallsTold
  <2>4. CallsTold'
    BY <1>1, <2>1, <2>2, <2>3 DEF Told, CallsTold, Pending
  <2>5. \A d \in Calls, p \in Products : <<d, p>> \in changed' => p \in LedgerOf(d)'
    BY <2>1, <2>2, <2>3 DEF Told, ToldWhatLanded
  <2>6. \A d \in Calls : pc'[d] = "done" /\ job'[d].kind # "order" =>
          \A p \in LedgerOf(d)' : <<d, p>> \in changed'
    BY <2>1, <2>2, <2>3 DEF Told, ToldWhatLanded
  <2>7. /\ \A run \in runs' : run.applied = Cardinality(LedgerOf(run.call)')
        /\ \A d \in Calls : job'[d].kind = "import" /\ LedgerOf(d)' # {}
                              => \E run \in runs' : run.call = d
    BY <1>1, <2>1, <2>2 DEF Told, ToldWhatLanded
  <2> QED BY <2>4, <2>5, <2>6, <2>7 DEF Told, ToldWhatLanded
<1>6. CASE Crash
  <2>1. /\ UNCHANGED <<ledger, job, runs, changed, locked>>
        /\ \A d \in Calls : pc'[d] = IF pc[d] \in {"locking", "rejecting", "committed"} THEN "lost" ELSE pc[d]
    BY <1>6 DEF Crash
  <2> QED BY <1>1, <2>1, NothingLands DEF Pending
<1>7. CASE UNCHANGED vars
  <2>1. UNCHANGED <<ledger, job, runs, changed, locked, pc>>
    BY <1>7 DEF vars
  <2> QED BY <1>1, <2>1, NothingLands
<1> QED BY <1>2, <1>3, <1>4, <1>5, <1>6, <1>7, CommitIsTold DEF Next, Step

LEMMA ToldInit == Init => Told
<1> SUFFICES ASSUME Init
             PROVE  Told
  OBVIOUS
<1>1. /\ \A c \in Calls : pc[c] = "idle" /\ LedgerOf(c) = {}
      /\ runs = {} /\ changed = {}
  BY DEF Init, LedgerOf
<1> QED BY <1>1 DEF Told, CallsTold, ToldWhatLanded

\* The history of imports and the events staff screens live on say what the
\* ledger says, whatever overlapped, failed or was rejected
\* (inventory/import-service.ts runStockImport, service.ts announceMovement).
THEOREM EveryoneIsToldWhatLanded == Spec => []ToldWhatLanded
<1>1. InventoryTypeOK /\ Told /\ [Next]_vars => (InventoryTypeOK /\ Told)'
  BY TypeStep, ToldStep
<1>2. Told => ToldWhatLanded
  BY DEF Told
<1> QED BY <1>1, <1>2, TypeInit, ToldInit, PTL DEF Spec

-----------------------------------------------------------------------------
(* Inventory implements StockBook *)

\* StockBook counts the way Inventory does.
LEMMA SameBooks ==
    /\ Book!Products = Products
    /\ \A S : Book!Cardinality(S) = Cardinality(S)
BY DEF Book!Products, Products, Book!Cardinality, Cardinality

LEMMA BookOpens == Init => Book!Init
BY SameBooks DEF Init, Rejecting, Book!Init

\* A call that has its ledger rows before it ends, or a history entry, has none to come.
LEMMA NotYetRecorded ==
    ASSUME CallsTold, NEW c \in Calls, pc[c] \in Pending
    PROVE  ~Book!Recorded(c)
<1>1. LedgerOf(c) = {}
  BY DEF CallsTold
<1>2. \A p \in Products : \A n \in 1 .. Len(ledger[p]) : ledger[p][n].ref # c
  BY <1>1 DEF LedgerOf
<1>3. \A run \in runs : run.call # c
  BY DEF CallsTold
<1> QED BY <1>2, <1>3, SameBooks DEF Book!Recorded

\* A row that is not there takes a balance where it is.
LEMMA AfterIs ==
    ASSUME InventoryTypeOK, NEW c \in Calls, NEW p \in Products
    PROVE  /\ p \in Named(c) => Book!After(c, p) = TargetFrom(c, p, stock[p])
           /\ p \notin Named(c) => Book!After(c, p) = stock[p]
<1>1. stock[p] \in Nat
  BY DEF InventoryTypeOK
<1>2. ASSUME p \notin Named(c)
      PROVE  Book!After(c, p) = stock[p]
  <2>1. job[c].rows[p] = NoRow
    BY <1>2 DEF Named
  <2> QED BY <1>1, <2>1 DEF NoRow, Row, Book!After
<1> QED BY <1>2 DEF Book!After, TargetFrom

\* A commit applies the whole call: the balances it read are still those.
LEMMA CommitApplies ==
    ASSUME InventoryTypeOK, HeldRowsAreOwn, CallsTold, NEW c \in Calls, Commit(c)
    PROVE  Book!Apply(c)
<1>1. pc[c] = "locking" /\ held[c] = Named(c) /\ \A p \in Named(c) : ~Refused(c, p)
  BY DEF Commit
<1>2. Named(c) \subseteq Products
  BY DEF Named
<1>3. ASSUME NEW p \in Products
      PROVE  /\ p \in Named(c) => /\ Book!After(c, p) = Target(c, p)
                                  /\ locked[c][p] = stock[p] /\ Target(c, p) \in Nat
             /\ p \notin Named(c) => Book!After(c, p) = stock[p]
             /\ stock[p] \in Nat
  <2>1. p \in Named(c) => locked[c][p] = stock[p]
    BY <1>1 DEF HeldRowsAreOwn
  <2>2. p \in Named(c) => Target(c, p) \in Nat
    BY CommitTargets
  <2>3. stock[p] \in Nat
    BY DEF InventoryTypeOK
  <2> QED BY <2>1, <2>2, <2>3, AfterIs DEF Target
<1>4. Book!Moved(c) = Moves(c)
  <2>1. \A p \in Products : p \in Book!Moved(c) <=> p \in Moves(c)
    BY <1>3, SameBooks DEF Book!Moved, Moves
  <2> QED BY <1>2, <2>1, SameBooks DEF Book!Moved, Moves
<1>5. Book!Fits(c)
  BY <1>3, SameBooks DEF Book!Fits
<1>6. job[c].kind = "adjust" => Book!Moved(c) # {}
  <2> SUFFICES ASSUME job[c].kind = "adjust"
               PROVE  \E p \in Named(c) : TRUE
    BY <1>1, <1>4 DEF Refused, Moves
  <2>1. job[c].rows \in OneRow(Deltas)
    <3>1. job[c] \in Jobs
      BY DEF InventoryTypeOK
    <3> QED BY <3>1 DEF Jobs
  <2> QED BY <2>1 DEF OneRow, Named
<1>7. stock' = [p \in Book!Products |-> Book!After(c, p)]
  <2>1. stock' = [p \in Products |-> IF p \in Moves(c) THEN Target(c, p) ELSE stock[p]]
    BY DEF Commit
  <2>2. \A p \in Products :
           (IF p \in Moves(c) THEN Target(c, p) ELSE stock[p]) = Book!After(c, p)
    BY <1>3 DEF Moves
  <2> QED BY <2>1, <2>2, SameBooks
<1>8. ASSUME NEW p \in Moves(c)
      PROVE  Book!Entry(c, p) = Written(c, p)
  <2>1. p \in Products /\ p \in Named(c)
    BY <1>2, <1>8 DEF Moves
  <2>2. Book!ReasonOf[job[c].kind] = Reason(c)
    BY <2>1, RowTypes DEF Book!ReasonOf, Reason
  <2> QED BY <1>3, <2>1, <2>2 DEF Book!Entry, Written
<1>9. ledger' = [p \in Book!Products |->
        IF p \in Book!Moved(c) THEN Append(ledger[p], Book!Entry(c, p)) ELSE ledger[p]]
  <2>1. ledger' = [p \in Products |->
                     IF p \in Moves(c) THEN Append(ledger[p], Written(c, p)) ELSE ledger[p]]
    BY DEF Commit, Written
  <2> QED BY <1>4, <1>8, <2>1, SameBooks
<1>10. runs' = IF job[c].kind = "import"
               THEN runs \cup {[call |-> c, outcome |-> "applied",
                                applied |-> Book!Cardinality(Book!Moved(c))]}
               ELSE runs
  <2>1. AppliedCount(c) = Book!Cardinality(Book!Moved(c))
    BY <1>4, SameBooks DEF AppliedCount, AppliedRows
  <2> QED BY <2>1 DEF Commit
<1>11. ~Book!Recorded(c) /\ UNCHANGED job
  BY <1>1, NotYetRecorded DEF Commit, Pending
<1>12. c \notin Rejecting /\ UNCHANGED Rejecting
  BY <1>1 DEF Commit, Rejecting, InventoryTypeOK
<1> QED BY <1>5, <1>6, <1>7, <1>9, <1>10, <1>11, <1>12 DEF Book!Apply

\* A file is turned down for a row that does not fit the balances it was planned on.
LEMMA RejectFileTurnsDown ==
    ASSUME InventoryTypeOK, CallsTold, NEW c \in Calls, RejectFile(c)
    PROVE  Book!TurnDown(c)
<1>1. PICK p \in Named(c) : ~(TargetFrom(c, p, stock[p]) >= 0)
  BY DEF RejectFile, Plannable
<1>2. p \in Products
  BY DEF Named
<1>3. ~Book!Fits(c)
  BY <1>1, <1>2, AfterIs, SameBooks DEF Book!Fits
<1>4. ~Book!Recorded(c)
  BY NotYetRecorded DEF RejectFile, Pending
<1>5. Rejecting' = Rejecting \cup {c}
  BY DEF RejectFile, Rejecting, InventoryTypeOK
<1> QED BY <1>3, <1>4, <1>5 DEF RejectFile, Book!TurnDown

\* What is recorded of it later is that, whatever the balances are by then.
LEMMA RecordRejectionRejects ==
    ASSUME InventoryTypeOK, NEW c \in Calls, RecordRejection(c)
    PROVE  Book!Reject(c)
<1>1. c \in Rejecting /\ Rejecting' = Rejecting \ {c}
  BY DEF RecordRejection, Rejecting, InventoryTypeOK
<1> QED BY <1>1 DEF RecordRejection, Book!Reject

\* A rejection whose record is lost is forgotten, and nothing else is.
LEMMA LostIsForgotten ==
    ASSUME UNCHANGED <<stock, ledger, runs, job>>, Rejecting' \subseteq Rejecting
    PROVE  Book!Forget
<1> DEFINE kept == Rejecting'
<1>1. kept \in SUBSET Rejecting /\ Rejecting' = kept
  OBVIOUS
<1> QED BY <1>1 DEF Book!Forget

\* Every step is one of the book or shows nothing of itself in it.
LEMMA CallsServeTheBook ==
    ASSUME InventoryTypeOK, HeldRowsAreOwn, CallsTold, [Next]_vars
    PROVE  [Book!Next]_Book!bookVars
<1> DEFINE Quiet == UNCHANGED <<stock, ledger, runs, job>> /\ Rejecting' \subseteq Rejecting
<1>1. ASSUME NEW c \in Calls, \/ Begin(c) \/ PlanImport(c) \/ Refuse(c) \/ Announce(c) \/ Abort(c)
                               \/ \E p \in Products : LockRow(c, p)
      PROVE  Quiet
  <2>1. UNCHANGED <<stock, ledger, runs, job>>
    BY <1>1 DEF Begin, PlanImport, LockRow, Refuse, Announce, Abort
  <2>2. \A d \in Calls : pc'[d] = "rejecting" => pc[d] = "rejecting"
    BY <1>1 DEF Begin, PlanImport, LockRow, Refuse, Announce, Abort, InventoryTypeOK
  <2> QED BY <2>1, <2>2 DEF Rejecting
<1>2. Crash \/ UNCHANGED vars => Quiet
  BY DEF Crash, vars, Rejecting
<1>3. ASSUME NEW c \in Calls, Commit(c) \/ RejectFile(c) \/ RecordRejection(c)
      PROVE  Book!Next
  BY <1>3, CommitApplies, RejectFileTurnsDown, RecordRejectionRejects DEF Book!Next
<1>4. Quiet => Book!Next
  BY LostIsForgotten DEF Book!Next
<1> QED BY <1>1, <1>2, <1>3, <1>4 DEF Next, Step

\* Staff adjusts, staff counts, files and orders are atomic: every interleaving of
\* their transactions is a history of StockBook, in which a call is one step on the
\* balances of that moment (inventory/service.ts applyMovement,
\* inventory/import-service.ts runStockImport).
THEOREM InventoryImplementsTheBook == Spec => CallsAreAtomic
<1>1. Init => InventoryTypeOK /\ BooksInv /\ Told /\ Book!Init
  BY TypeInit, BooksInit, ToldInit, BookOpens
<1>2. InventoryTypeOK /\ BooksInv /\ Told /\ [Next]_vars
        => (InventoryTypeOK /\ BooksInv /\ Told)' /\ [Book!Next]_Book!bookVars
  BY TypeStep, BooksStep, ToldStep, CallsServeTheBook DEF BooksInv, Told
<1> QED BY <1>1, <1>2, PTL DEF Spec, CallsAreAtomic, Book!Spec
=============================================================================
